---------------------------- MODULE AddressIndex ----------------------------
(***************************************************************************)
(* From an address to the function it is in.  np::spiegel::dwarf::state_t  *)
(* collects the link objects of the program, reads their compile units and *)
(* puts the address ranges of all subprograms into one range tree, keyed   *)
(* by the addresses RECORDED in the debug info.  A live address is first   *)
(* turned into a recorded one with the slide of the link object it is in.  *)
(*                                                                         *)
(* The program (its objects, where they are loaded, their functions and    *)
(* how the compiler encoded each one's addresses) is chosen by Init.       *)
(***************************************************************************)
EXTENDS Integers, Sequences, FiniteSets, SequencesExt, FiniteSetsExt

CONSTANTS
    Objs,       \* link objects, 1..n in the order of dl_iterate_phdr()
    Fns,        \* functions, 1..n in the order of the debug info
    Span,       \* the recorded addresses of an object: its base + 0..Span-1
    Bases,      \* Objs -> the object's first recorded address
    Slides,     \* distances from recorded to live addresses
    Encodings,  \* how compilers write a function's range
    PltSize,    \* PLT slots in front of each object's code
    Gap,        \* addresses between the PLT and the code
    MaxAdds     \* calls of add_self() and add_executable()

VARIABLES
    obj,                \* Objs -> [base, slide, ignored]
    fn,                 \* Fns -> [obj, at, len, enc]
    link_objects_,      \* a sequence of objects
    compile_units_,     \* a sequence of objects: one unit each
    link_object_index_, \* range tree, live addresses -> object
    address_index_,     \* range tree, recorded addresses -> function
    adds                \* calls made

vars == <<obj, fn, link_objects_, compile_units_, link_object_index_, address_index_, adds>>

NULL == 0
DW_AT_absent == -1

(***************************************************************************)
(* np/util/rangetree.hxx.  Overlapping ranges are the same key: inserting  *)
(* one gives its value to a range already there, any of them.              *)
(***************************************************************************)
left_of_range(a, b) == a.lo < b.lo /\ a.hi <= b.lo
same_range(a, b) == ~left_of_range(a, b) /\ ~left_of_range(b, a)

insert(T, x) ==
    LET same == {r \in T : same_range(r, x)}
    IN  IF same = {} THEN {T \cup {x}}
        ELSE {(T \ {r}) \cup {[r EXCEPT !.val = x.val]} : r \in same}

insert_all(T, xs) ==
    FoldLeft(LAMBDA Ts, x : UNION {insert(U, x) : U \in Ts}, {T}, xs)

find(T, x) == {r \in T : same_range(r, [lo |-> x, hi |-> x, val |-> NULL])}

Range3(lo, hi, v) == [lo |-> lo, hi |-> hi, val |-> v]

(***************************************************************************)
(* The program.  Recorded addresses: the PLT, the gap, the code.           *)
(***************************************************************************)
plt_lo(o) == obj[o].base
plt_hi(o) == obj[o].base + PltSize
LastAddress(o) == obj[o].base + PltSize + Gap + Span
LowPc(f) == obj[fn[f].obj].base + PltSize + Gap + fn[f].at
Recorded(o) == obj[o].base .. LastAddress(o) - 1
Live(o) == {a + obj[o].slide : a \in Recorded(o)}
CodeOf(f) == LowPc(f) .. LowPc(f) + fn[f].len - 1

(* The attributes compilers give a subprogram: an absolute DW_AT_high_pc,  *)
(* or a length in DWARF-4; a range list, with or without a base address    *)
(* selection entry; only DW_AT_low_pc; none for a declaration.             *)
Attributes(f) ==
    LET lo == LowPc(f)  n == fn[f].len
        A(low, high, form, list) == [low |-> low, high |-> high, form |-> form, ranges |-> list]
    IN  CASE fn[f].enc = "absolute" -> A(lo, lo + n, "addr", <<>>)
          [] fn[f].enc = "length" -> A(lo, n, "data", <<>>)
          [] fn[f].enc = "ranges" ->
                 A(DW_AT_absent, DW_AT_absent, "none", <<<<"pair", lo + 1, lo + n>>, <<"pair", lo, lo + 1>>>>)
          [] fn[f].enc = "based" ->
                 A(DW_AT_absent, DW_AT_absent, "none", <<<<"base", 0, lo>>, <<"pair", 0, n>>>>)
          [] fn[f].enc = "low" -> A(lo, DW_AT_absent, "none", <<>>)
          [] OTHER -> A(DW_AT_absent, DW_AT_absent, "none", <<>>)

(***************************************************************************)
(* insert_ranges and is_within                                             *)
(***************************************************************************)
read_ranges(list) ==
    FoldLeft(LAMBDA acc, e :
                 IF e[1] = "base" THEN [acc EXCEPT !.base = e[3]]
                 ELSE [acc EXCEPT !.out = Append(@, <<acc.base + e[2], acc.base + e[3], acc.base>>)],
             [base |-> 0, out |-> <<>>], list).out

high_address(a) == IF a.form # "addr" THEN a.low + a.high ELSE a.high

\* A forgotten base address.
ranges_of_First(f) ==
    LET l == read_ranges(Attributes(f).ranges)
    IN  [i \in DOMAIN l |-> Range3(l[i][1] - l[i][3], l[i][2] - l[i][3], f)]
ranges_of(f) ==
    LET l == read_ranges(Attributes(f).ranges)
    IN  [i \in DOMAIN l |-> Range3(l[i][1], l[i][2], f)]

insert_ranges(f) ==
    LET a == Attributes(f)
    IN  CASE a.low # DW_AT_absent /\ a.high # DW_AT_absent -> <<Range3(a.low, high_address(a), f)>>
          [] a.ranges # <<>> -> ranges_of(f)
          [] a.low # DW_AT_absent -> <<Range3(a.low, a.low, f)>>
          [] OTHER -> <<>>

(* The scan's own reading of the same attributes: the end is included and  *)
(* the form of DW_AT_high_pc is not looked at.                             *)
is_within(addr, a) ==
    IF a.low # DW_AT_absent /\ a.high # DW_AT_absent
    THEN addr >= a.low /\ addr <= a.high
    ELSE \/ \E i \in DOMAIN a.ranges :
                LET p == read_ranges(SubSeq(a.ranges, 1, i))
                IN  p # <<>> /\ addr >= Last(p)[1] /\ addr < Last(p)[2]
         \/ a.low # DW_AT_absent /\ addr = a.low

(***************************************************************************)
(* Collecting the link objects and their units                             *)
(***************************************************************************)
functions_of(o) == SetToSortSeq({f \in Fns : fn[f].obj = o}, <)

(* What prepare_address_index() may make of the tree, over all units read  *)
(* so far, those indexed before included.                                  *)
prepare_address_index(units) ==
    LET fs == FlattenSeq([i \in DOMAIN units |-> functions_of(units[i])])
    IN  insert_all(address_index_, FlattenSeq([i \in DOMAIN fs |-> insert_ranges(fs[i])]))

(* read_link_objects: all the objects, also those read by an earlier call, *)
(* up to the first whose map_sections() fails.                             *)
read_link_objects(los, failing) ==
    IF failing \in ToSet(los)
    THEN compile_units_ \o SubSeq(los, 1, SelectInSeq(los, LAMBDA o : o = failing) - 1)
    ELSE compile_units_ \o los

add(los, index) ==
    \E failing \in Objs \cup {NULL} :
        /\ link_objects_' = los
        /\ link_object_index_' = index
        /\ compile_units_' = read_link_objects(los, failing)
        /\ IF failing \in ToSet(los)
           THEN UNCHANGED address_index_
           ELSE address_index_' \in prepare_address_index(compile_units_')
        /\ adds' = adds + 1
        /\ UNCHANGED <<obj, fn>>

add_self ==
    /\ adds < MaxAdds
    /\ LET new == SetToSortSeq({o \in Objs : ~obj[o].ignored /\ o \notin ToSet(link_objects_)}, <)
           segments == [i \in DOMAIN new |->
                           Range3(obj[new[i]].base + obj[new[i]].slide,
                                  LastAddress(new[i]) + obj[new[i]].slide, new[i])]
       IN  \E index \in insert_all(link_object_index_, segments) :
               add(link_objects_ \o new, index)

(* add_executable of an object of the program that add_self() has seen; an *)
(* object of another program has no live addresses.                        *)
add_executable(o) ==
    /\ adds < MaxAdds /\ o \in ToSet(link_objects_)
    /\ add(link_objects_, link_object_index_)

Init ==
    /\ obj \in [Objs -> [base : ToSet(Bases), slide : Slides, ignored : BOOLEAN]]
    /\ \A o \in Objs : obj[o].base = Bases[o]
    /\ fn \in [Fns -> [obj : Objs, at : 0 .. Span - 1, len : 1 .. 2, enc : Encodings]]
    /\ \A f \in Fns : fn[f].at + fn[f].len <= Span /\ (fn[f].enc = "ranges" => fn[f].len > 1)
    /\ \A f, g \in Fns : f # g => CodeOf(f) \cap CodeOf(g) = {} \/ fn[f].obj # fn[g].obj
    /\ \A o, p \in Objs : o # p =>
           /\ Live(o) \cap Live(p) = {}
           /\ obj[o].ignored => Live(o) \cap Recorded(p) = {}
    /\ link_objects_ = <<>> /\ compile_units_ = <<>>
    /\ link_object_index_ = {} /\ address_index_ = {}
    /\ adds = 0

done == adds = MaxAdds /\ UNCHANGED vars

Next == add_self \/ (\E o \in Objs : add_executable(o)) \/ done

Spec == Init /\ [][Next]_vars

(***************************************************************************)
(* Looking an address up                                                   *)
(***************************************************************************)
recorded_address(addr) ==
    LET hit == find(link_object_index_, addr)
    IN  IF hit = {} THEN addr ELSE addr - obj[(CHOOSE r \in hit : TRUE).val].slide

Answer(f, off) == [function |-> f, offset |-> off]
Dunno == Answer(NULL, 0)

indexed_address(addr) ==
    LET hit == find(address_index_, addr)
        r == CHOOSE h \in hit : TRUE
    IN  IF hit = {} THEN Dunno ELSE Answer(r.val, addr - r.lo)

(* The scan of the units, used while there is no index.  A unit that the   *)
(* address is within is entered with move_down(), after which the loop's   *)
(* own move_next() passes over its first child.                            *)
UnitAttributes(o) ==
    LET fs == {f \in Fns : fn[f].obj = o}
        lo == Min({LowPc(f) : f \in fs})
        hi == Max({LowPc(f) + fn[f].len : f \in fs})
        wide == \E f \in fs : fn[f].enc = "length"
    IN  [low |-> lo, high |-> IF wide THEN hi - lo ELSE hi,
         form |-> IF wide THEN "data" ELSE "addr", ranges |-> <<>>]

scanned_function(addr) ==
    LET hits == {f \in Fns :
                    /\ fn[f].obj \in ToSet(compile_units_)
                    /\ is_within(addr, UnitAttributes(fn[f].obj))
                    /\ f # Head(functions_of(fn[f].obj))
                    /\ is_within(addr, Attributes(f))}
        order(f) == SelectInSeq(compile_units_, LAMBDA o : o = fn[f].obj) * 100 + f
    IN  IF hits = {} THEN NULL ELSE CHOOSE f \in hits : \A g \in hits : order(f) <= order(g)

describe_address(addr) ==
    IF address_index_ # {} THEN indexed_address(recorded_address(addr))
    ELSE Answer(scanned_function(recorded_address(addr)), 0)

(***************************************************************************)
(* instrumentable_address                                                  *)
(***************************************************************************)
is_in_plt(o, addr) == plt_lo(o) + obj[o].slide <= addr /\ addr <= plt_hi(o) + obj[o].slide

(* follow_plt: dladdr() knows a PLT slot by the name of the function it    *)
(* calls, and dlsym(RTLD_NEXT) finds that function's code; a function of   *)
(* the program's own has no next definition.                               *)
follow_plt(addr) ==
    IF \E o \in Objs : addr - obj[o].slide \in plt_lo(o) .. plt_hi(o) - 1
    THEN <<"callee", addr>> ELSE <<"null", 0>>

instrumentable_address(addr) ==
    IF \E o \in ToSet(link_objects_) : is_in_plt(o, addr) THEN follow_plt(addr)
    ELSE <<"itself", addr>>

(***************************************************************************)
(* Properties                                                              *)
(***************************************************************************)
TypeOK ==
    /\ ToSet(link_objects_) \subseteq Objs /\ ToSet(compile_units_) \subseteq ToSet(link_objects_)
    /\ \A r \in link_object_index_ : r.lo < r.hi /\ r.val \in Objs
    /\ \A r \in address_index_ : r.lo <= r.hi /\ r.val \in Fns
    /\ adds \in 0 .. MaxAdds

(* "Returns an address which can be used to look up recorded debug         *)
(* information": once the index is there, an address anywhere in a         *)
(* function of the program is described as being in that function, and an  *)
(* address that is in no function as unknown.                              *)
Known(f) == ~obj[fn[f].obj].ignored /\ fn[f].enc # "declared"
CodeKnown(f) == IF fn[f].enc = "low" THEN {LowPc(f)} ELSE CodeOf(f)

DescribesFunction ==
    address_index_ # {} => \A o \in Objs : \A a \in Live(o) :
        describe_address(a).function =
            LET here == {f \in Fns : fn[f].obj = o /\ Known(f) /\ a - obj[o].slide \in CodeKnown(f)}
            IN  IF here = {} THEN NULL ELSE CHOOSE f \in here : TRUE

(* The offset into the function that goes with it, for a function in one   *)
(* piece.                                                                  *)
OffsetIntoFunction ==
    address_index_ # {} => \A f \in Fns : Known(f) /\ fn[f].enc # "ranges" => \A a \in CodeKnown(f) :
        describe_address(a + obj[fn[f].obj].slide).offset = a - LowPc(f)

(* "Prepare an index which will speed up all later calls": the index       *)
(* answers what the scan of the units would.                               *)
\* The code does not keep this, and no run checks it.
IndexOnlySpeedsUp ==
    address_index_ # {} => \A f \in Fns : \A a \in CodeOf(f) :
        indexed_address(a).function # NULL => scanned_function(a) = indexed_address(a).function

(* "Returns the address of the actual code": of a PLT slot the function it *)
(* calls, of a function its own address.                                   *)
InstrumentsCode ==
    \A o \in ToSet(link_objects_) :
        /\ \A s \in 0 .. PltSize - 1 :
               LET a == plt_lo(o) + s + obj[o].slide
               IN  instrumentable_address(a) = <<"callee", a>>
        /\ \A f \in Fns : fn[f].obj = o =>
               LET a == LowPc(f) + obj[o].slide
               IN  instrumentable_address(a) = <<"itself", a>>
=============================================================================
