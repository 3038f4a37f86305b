------------------------------- MODULE Types -------------------------------
(***************************************************************************)
(* The types and functions reflection shows (np/spiegel/spiegel.cxx): how  *)
(* a type is classified, measured and spelt from its DWARF entry, and how  *)
(* a function is described and invoked.  The program's compile unit grows  *)
(* by one entry at a time; an entry refers to earlier ones, 0 is void.     *)
(***************************************************************************)
EXTENDS Integers, FiniteSetsExt, SequencesExt

CONSTANTS
  Bases,          \* the base types: encoding, byte_size and name
  Bounds,         \* the subranges of arrays: [count, upper_bound], 0 is absent
  MaxTypes,       \* bound on the type entries
  MaxFunctions,   \* bound on the functions
  MaxParams,      \* bound on a function's parameters
  AddrSize,       \* _NP_ADDRSIZE
  PointerToArray  \* may a program have pointers to arrays?

VARIABLES
  types,          \* the type entries
  functions,      \* the DW_TAG_subprogram entries
  cache_          \* the factory's: the functions made so far, in order

vars == <<types, functions, cache_>>

Modifiers == {"typedef", "volatile", "const"}
Pointers == {"pointer", "reference"}
Compounds == {"structure", "union", "class"}
Null == 0
Refs == 0 .. Len(types)
\* A name is a token of a declaration; the empty one is none.
NoName == <<"", 0>>
Plain == [tag |-> "base", type |-> Null, byte_size |-> 0, encoding |-> "none", name |-> NoName,
          subranges |-> <<>>, params |-> <<>>, ellipsis |-> FALSE]

Init == types = <<>> /\ functions = <<>> /\ cache_ = <<>>

-----------------------------------------------------------------------------
(* Classification: a major class, a sign and a size packed into one number.*)

TC_INVALID == 0
TC_MAJOR(n) == n * 256
SIGNED == 128
TC_VOID == TC_MAJOR(1)
TC_POINTER == TC_MAJOR(2)
TC_REFERENCE == TC_MAJOR(2) + 1
TC_ARRAY == TC_MAJOR(3)
TC_SIGNED_INT == TC_MAJOR(4) + SIGNED + 4

\* A boolean or a character of another encoding is invalid.
base_classification(e) ==
  CASE e.encoding = "float" -> TC_MAJOR(5) + e.byte_size
    [] e.encoding \in {"signed", "signed_char"} -> TC_MAJOR(4) + SIGNED + e.byte_size
    [] e.encoding \in {"unsigned", "unsigned_char"} -> TC_MAJOR(4) + e.byte_size
    [] OTHER -> TC_INVALID

\* What a type is under its typedefs and qualifiers; an entry refers to earlier
\* ones, so this ends.
Stripped(tab) ==
  LET under[r \in 0 .. Len(tab)] ==
        IF r # Null /\ tab[r].tag \in Modifiers THEN under[tab[r].type] ELSE r
  IN under

get_classification(tab, ref) ==
  LET r == Stripped(tab)[ref]
  IN IF r = Null THEN TC_VOID
     ELSE LET e == tab[r] IN
       CASE e.tag = "base" -> base_classification(e)
         [] e.tag = "pointer" -> TC_POINTER
         [] e.tag = "reference" -> TC_REFERENCE
         [] e.tag = "structure" -> TC_MAJOR(6)
         [] e.tag = "union" -> TC_MAJOR(6) + 1
         [] e.tag = "class" -> TC_MAJOR(6) + 2
         [] e.tag = "enumeration" ->
              TC_MAJOR(4) + SIGNED + (IF e.byte_size = 0 THEN 4 ELSE e.byte_size)
         [] e.tag = "array" -> TC_ARRAY
         [] OTHER -> TC_INVALID

major_names == <<"0", "void", "pointer", "array", "integer", "float", "compound", "7">>

sign_name(cln) == IF (cln \div SIGNED) % 2 = 1 THEN "signed" ELSE "unsigned"

get_classification_as_string(tab, ref) ==
  LET cln == get_classification(tab, ref)
      major == (cln \div 256) % 8
  IN IF cln = TC_INVALID THEN <<"invalid">>
     ELSE << major_names[major + 1],
             IF major # 4 THEN "" ELSE sign_name(cln),
             cln % SIGNED >>

-----------------------------------------------------------------------------
(* Size.  DW_AT_upper_bound is taken for a count.                          *)

count(s) == IF s.count # 0 THEN s.count ELSE s.upper_bound

\* The dimensions multiplied, 0 when none is known.
Product(subranges) ==
  FoldLeft(LAMBDA size, s : IF count(s) = 0 THEN size
                            ELSE (IF size = 0 THEN 1 ELSE size) * count(s), 0, subranges)

get_sizeof(tab, ref) ==
  LET size[r \in 0 .. Len(tab)] ==
        IF r = Null THEN 0
        ELSE LET e == tab[r] IN
          CASE e.tag = "array" /\ e.byte_size = 0 -> Product(e.subranges) * size[e.type]
            [] e.tag \in Modifiers -> size[e.type]
            [] e.tag \in Pointers -> AddrSize
            [] OTHER -> e.byte_size
  IN size[ref]

-----------------------------------------------------------------------------
(* Spelling: the tokens of a C declaration, inner being the declarator.    *)

\* The dimensions with a known count; none known is an array of unknown size.
Dims(subranges) ==
  LET known == SelectSeq(subranges, LAMBDA s : count(s) # 0)
  IN IF known = <<>> THEN <<<<"[]", 0>>>> ELSE [n \in DOMAIN known |-> <<"[]", count(known[n])>>]

Tok(t) == <<<<t, 0>>>>
Star(tag) == CASE tag = "pointer" -> Tok("*") [] tag = "reference" -> Tok("&")
               [] tag = "volatile" -> Tok("volatile") [] tag = "const" -> Tok("const")

\* The parameters between commas, and an ellipsis last.
ParamList(texts, ellipsis) ==
  LET all == IF ellipsis THEN Append(texts, Tok("...")) ELSE texts
  IN FlattenSeq([n \in DOMAIN all |-> IF n = 1 THEN all[n] ELSE Tok(",") \o all[n]])

\* The declarator in the place of what it is read from: a modifier goes before
\* it, an array's and a function's parts after it.
\* Qualifiers are dropped.
to_text_NoConst(e, inner) ==
  IF e.tag \in {"const", "volatile"} THEN inner ELSE Star(e.tag) \o inner
to_text(e, inner) == Star(e.tag) \o inner

\* spell[r]: the type's own tokens with a hole for the declarator; <<pre, post>>.
Holes(tab) ==
  LET hole[r \in 0 .. Len(tab)] ==
        IF r = Null THEN << Tok("void"), <<>>, <<>> >>
        ELSE LET e == tab[r] IN
          CASE e.tag \in Pointers \cup {"volatile", "const"} ->
                 << hole[e.type][1], hole[e.type][2] \o to_text(e, <<>>), hole[e.type][3] >>
            [] e.tag = "array" ->
                 << hole[e.type][1], hole[e.type][2], Dims(e.subranges) \o hole[e.type][3] >>
            [] e.tag = "subroutine" ->
                 << hole[e.type][1], hole[e.type][2] \o Tok("("),
                    Tok(")") \o Tok("(") \o
                    ParamList([n \in DOMAIN e.params |->
                                 FlattenSeq(hole[e.params[n]])], e.ellipsis) \o
                    Tok(")") \o hole[e.type][3] >>
            [] e.tag \in Compounds \cup {"enumeration"} ->
                 << Tok(e.tag) \o (IF e.name = NoName THEN Tok("{...}") ELSE <<e.name>>), <<>>, <<>> >>
            [] OTHER -> << IF e.name = NoName THEN Tok("wtf?") ELSE <<e.name>>, <<>>, <<>> >>
  IN hole

to_string(tab, ref, inner) ==
  LET h == Holes(tab)[ref] IN h[1] \o h[2] \o inner \o h[3]

-----------------------------------------------------------------------------
(* Functions.                                                              *)

get_return_type(f) == f.type

\* The formal parameters up to an ellipsis.
get_parameter_types(f) == f.params

function_to_string(f) ==
  to_string(types, f.type,
            <<f.name>> \o Tok("(") \o
            ParamList([n \in DOMAIN f.params |-> to_string(types, f.params[n], <<>>)], f.ellipsis) \o
            Tok(")"))

\* get_functions(): the named ones in order of address, each made once.
get_functions ==
  LET named == SelectSeq([n \in DOMAIN functions |-> n], LAMBDA n : functions[n].name # NoName)
  IN SortSeq(named, LAMBDA a, b : functions[a].low_pc < functions[b].low_pc)

make_function(ref) ==
  /\ ref \in ToSet(get_functions)
  /\ cache_' = IF ref \in ToSet(cache_) THEN cache_ ELSE Append(cache_, ref)
  /\ UNCHANGED <<types, functions>>

\* What invoke() does: calls nothing, or calls and reads the result as a type.
invoke(f) ==
  LET cln == get_classification(types, get_return_type(f))
  IN CASE f.low_pc = 0 \/ Len(get_parameter_types(f)) > 0 -> "invalid"
       [] f.low_pc # 0 /\ f.params = <<>> /\ cln = TC_VOID -> "void"
       [] f.low_pc # 0 /\ f.params = <<>> /\ cln = TC_SIGNED_INT -> "int32"
       [] f.low_pc # 0 /\ f.params = <<>> /\ cln = TC_POINTER -> "pointer"
       [] OTHER -> "invalid"

-----------------------------------------------------------------------------
(* The program, as the compiler describes it.                              *)

NotArray(r) == Stripped(types)[r] \notin {n \in DOMAIN types : types[n].tag = "array"}

add_type(e) ==
  /\ Len(types) < MaxTypes
  /\ types' = Append(types, e)
  /\ UNCHANGED <<functions, cache_>>

base_type == \E b \in Bases :
  add_type([Plain EXCEPT !.encoding = b[1], !.byte_size = b[2], !.name = b[3]])
modified_type == \E tag \in Modifiers, r \in Refs :
  /\ NotArray(r)
  /\ add_type([Plain EXCEPT !.tag = tag, !.type = r,
                            !.name = IF tag = "typedef" THEN <<"t", Len(types)>> ELSE NoName])
pointer_type == \E tag \in Pointers, r \in Refs :
  /\ PointerToArray \/ NotArray(r)
  /\ tag = "reference" => r # Null
  /\ add_type([Plain EXCEPT !.tag = tag, !.type = r])
array_type == \E r \in Refs \ {Null}, b \in Bounds :
  /\ NotArray(r)
  /\ add_type([Plain EXCEPT !.tag = "array", !.type = r, !.subranges = b])
compound_type == \E tag \in Compounds \cup {"enumeration"} :
  add_type([Plain EXCEPT !.tag = tag, !.byte_size = 4, !.name = <<"s", Len(types)>>])
subroutine_type == \E r \in Refs, ps \in SeqOf(Refs \ {Null}, MaxParams), dots \in BOOLEAN :
  /\ NotArray(r) /\ \A n \in DOMAIN ps : NotArray(ps[n])
  /\ dots => ps # <<>>
  /\ add_type([Plain EXCEPT !.tag = "subroutine", !.type = r, !.params = ps, !.ellipsis = dots])
subprogram ==
  /\ Len(functions) < MaxFunctions
  /\ \E r \in Refs, ps \in SeqOf(Refs \ {Null}, MaxParams), dots \in BOOLEAN, pc \in 0 .. 2,
        name \in {NoName, <<"f", 0>>} :
       /\ NotArray(r) /\ \A n \in DOMAIN ps : NotArray(ps[n])
       /\ dots => ps # <<>>
       /\ \A n \in DOMAIN functions : pc # 0 => functions[n].low_pc # pc
       /\ functions' = Append(functions, [type |-> r, params |-> ps, ellipsis |-> dots,
                                          low_pc |-> pc, name |-> name])
  /\ UNCHANGED <<types, cache_>>

Next ==
  \/ base_type \/ modified_type \/ pointer_type \/ array_type \/ compound_type
  \/ subroutine_type \/ subprogram
  \/ \E ref \in DOMAIN functions : make_function(ref)

Spec == Init /\ [][Next]_vars

-----------------------------------------------------------------------------
TypeOK ==
  /\ \A n \in DOMAIN types : types[n].type \in 0 .. n - 1
  /\ \A n \in DOMAIN types : get_sizeof(types, n) \in Nat
  /\ IsInjective(cache_) /\ ToSet(cache_) \subseteq DOMAIN functions

\* invoke() reads a result of the type the function returns: four bytes and a
\* sign as an int, a pointer as a pointer (spiegel.cxx:621-648).
InvokedAsDeclared ==
  \A n \in DOMAIN functions :
    LET f == functions[n]
        r == Stripped(types)[f.type]
    IN /\ invoke(f) = "void" => r = Null
       /\ invoke(f) = "int32" =>
            /\ get_sizeof(types, r) = 4
            /\ types[r].tag = "enumeration" \/ types[r].encoding = "signed"
       /\ invoke(f) = "pointer" => types[r].tag = "pointer"

\* The string form of a classification tells apart what the number does.
ClassificationNamed ==
  \A m, n \in 0 .. Len(types) :
    get_classification_as_string(types, m) = get_classification_as_string(types, n) =>
      get_classification(types, m) = get_classification(types, n)

\* The size of a type: of an array, its elements' size once for each element
\* when the compiler gives the counts.
SizesAdd ==
  \A n \in DOMAIN types :
    LET e == types[n] IN
    e.tag = "array" /\ e.subranges # <<>> /\ (\A k \in DOMAIN e.subranges : e.subranges[k].count # 0) =>
      get_sizeof(types, n) =
        Cardinality({v \in [DOMAIN e.subranges -> 0 .. 3] :
                       \A k \in DOMAIN v : v[k] < e.subranges[k].count})
        * get_sizeof(types, e.type)

\* Two types with the same text are the same type, entry by entry.
Same(tab) ==
  LET same[r \in 0 .. Len(tab)] ==
        [q \in 0 .. Len(tab) |->
           \/ r = q
           \/ /\ r # Null /\ q # Null
              /\ tab[r].tag = tab[q].tag /\ tab[r].name = tab[q].name
              /\ Dims(tab[r].subranges) = Dims(tab[q].subranges)
              /\ tab[r].ellipsis = tab[q].ellipsis
              /\ Len(tab[r].params) = Len(tab[q].params)
              /\ same[tab[r].type][tab[q].type]
              /\ \A n \in DOMAIN tab[r].params : same[tab[r].params[n]][tab[q].params[n]]]
  IN same

\* What to_string() says of a type identifies it.
TextIdentifies ==
  \A m, n \in 0 .. Len(types) :
    to_string(types, m, <<>>) = to_string(types, n, <<>>) => Same(types)[m][n]

\* Two functions of a name with the same text have the same signature.
SignatureIdentifies ==
  \A m, n \in ToSet(get_functions) :
    function_to_string(functions[m]) = function_to_string(functions[n]) =>
      LET f == functions[m]
          g == functions[n]
      IN /\ Same(types)[f.type][g.type]
         /\ f.ellipsis = g.ellipsis /\ Len(f.params) = Len(g.params)
         /\ \A k \in DOMAIN f.params : Same(types)[f.params[k]][g.params[k]]
=============================================================================
