---------------------------- MODULE MCDebugInfo -----------------------------
(***************************************************************************)
(* The parts of the debug information reader, spiegel/dwarf, on small      *)
(* instances. They are stages of one pipeline that hand each other what    *)
(* they read: the sections mapped, the units in them, the entries of a     *)
(* unit, the attributes of an entry, then the lines, addresses, types and  *)
(* file names looked up. A behaviour is about one part, chosen at the      *)
(* start and given any input of its instance; the others stay Idle.        *)
(***************************************************************************)
EXTENDS Integers, Sequences, SequencesExt

VARIABLES
  part,
  file, separate, sections_, mappings_, tsec, map_pc, next, calls,   \* Sections
  info, line, infor, liner, units_, cu, unit_pc,   \* Units
  buf, forms, number, reading, skipping,   \* Forms
  items, sibling, wanted, spec, mode, w, want, seen,   \* Walker
  seeking_, registers_, start_, have_start_, additional_files_,
  running_, status, found, steps, rows,   \* LineProgram
  obj, fn, link_objects_, compile_units_, link_object_index_,
  address_index_, adds,   \* AddressIndex
  types, functions, cache_,   \* Types
  f, dir, op, out   \* Filenames

secvars == <<file, separate, sections_, mappings_, tsec, map_pc, next, calls>>
unitvars == <<info, line, infor, liner, units_, cu, unit_pc>>
formvars == <<buf, forms, number, reading, skipping>>
walkvars == <<items, sibling, wanted, spec, mode, w, want, seen>>
linevars == <<seeking_, registers_, start_, have_start_, additional_files_, running_,
  status, found, steps, rows>>
addrvars == <<obj, fn, link_objects_, compile_units_, link_object_index_,
  address_index_, adds>>
typevars == <<types, functions, cache_>>
namevars == <<f, dir, op, out>>
vars == <<part, secvars, unitvars, formvars, walkvars, linevars, addrvars, typevars, namevars>>

-----------------------------------------------------------------------------
(* The instances.                                                          *)

\* Three DWARF sections in a file of a few pages, mapped twice.
Sec == INSTANCE Sections WITH PageSize <- 3, FileSize <- 7, Secs <- 1 .. 3, MaxSize <- 2,
         Tails <- {0}, MaxCalls <- 2, pc <- map_pc

\* Up to three units: good ones, and one with each defect the reader looks for.
U == [is64 |-> FALSE, initial |-> "ok", version |-> 4, addrsize |-> 8, said |-> 0,
      body |-> 2, codes |-> <<1, 2>>, cut |-> FALSE, rooted |-> TRUE, lines |-> TRUE]
Good == {U, [U EXCEPT !.body = 3, !.codes = <<1, 4>>], [U EXCEPT !.codes = <<3, 1>>, !.version = 2]}
Bad == {[U EXCEPT !.initial = "reserved"], [U EXCEPT !.version = 5], [U EXCEPT !.addrsize = 4],
        [U EXCEPT !.said = 99], [U EXCEPT !.body = 0, !.said = -7],
        [U EXCEPT !.cut = TRUE], [U EXCEPT !.cut = TRUE, !.codes = <<1>>],
        [U EXCEPT !.rooted = FALSE]}
Program == [version |-> 3, extra |-> 0, cut |-> FALSE]
Programs == {Program, [Program EXCEPT !.version = 5], [Program EXCEPT !.extra = 1],
             [Program EXCEPT !.cut = TRUE]}
Uni == INSTANCE Units WITH UnitKinds <- Good \cup Bad, ProgramKinds <- Programs, MaxUnits <- 3,
         AddrSize <- 8, compile_units_ <- units_, pc <- unit_pc

\* Bytes of three bits and a continuation bit: zero, a small length, a string
\* offset out of range, a sign bit, continuations.
SomeBytes == {0, 1, 2, 5, 8, 15}
Frm == INSTANCE Forms WITH GroupBits <- 3, Width <- 8, Bytes <- SomeBytes, MaxBytes <- 3,
         MaxForms <- 2, StrSize <- 2

Sib == INSTANCE Walker WITH MaxItems <- 9, Modes <- {"loops", "preorder"},
         Siblings <- TRUE, Specs <- FALSE
Nam == INSTANCE Walker WITH MaxItems <- 7, Modes <- {"loops", "preorder", "structs"},
         Siblings <- FALSE, Specs <- TRUE

Lin == INSTANCE LineProgram WITH Advances <- {1}, LineAdvances <- {-2, 1},
         Addresses <- {0, 2, 3}, LineModulus <- 8, LineBase <- -1, LineRange <- 2,
         OpcodeBase <- 3, LastOpcode <- 6, MinInstructionLength <- 2, MaxOperations <- 1,
         NFiles <- 1, MaxSteps <- 5

\* An executable and a library prelinked apart from it, slid or not.
Adr == INSTANCE AddressIndex WITH Objs <- 1 .. 2, Fns <- 1 .. 2, Span <- 3, Bases <- <<1, 8>>,
         Slides <- {0, 20}, PltSize <- 2, Gap <- 1, MaxAdds <- 2,
         Encodings <- {"absolute", "length", "ranges", "based", "low", "declared"}

Int4 == <<"signed", 4, <<"int", 0>>>>
Unsigned == <<"unsigned", 4, <<"unsigned int", 0>>>>
AllBases == {Int4, Unsigned, <<"float", 8, <<"double", 0>>>>, <<"boolean", 1, <<"_Bool", 0>>>>,
             <<"signed_char", 1, <<"char", 0>>>>, <<"signed", 8, <<"long", 0>>>>}
Count(n) == [count |-> n, upper_bound |-> 0]
Counts == {<<Count(2)>>, <<Count(3), Count(2)>>, <<>>}
\* Types of types; functions of any simple type; pairs of functions.
Typ == INSTANCE Types WITH Bases <- {Int4}, Bounds <- Counts, MaxTypes <- 3, MaxFunctions <- 0,
         MaxParams <- 1, AddrSize <- 8, PointerToArray <- FALSE
Inv == INSTANCE Types WITH Bases <- AllBases, Bounds <- Counts, MaxTypes <- 2, MaxFunctions <- 1,
         MaxParams <- 1, AddrSize <- 8, PointerToArray <- FALSE
Sig == INSTANCE Types WITH Bases <- {Int4}, Bounds <- Counts, MaxTypes <- 1, MaxFunctions <- 2,
         MaxParams <- 2, AddrSize <- 8, PointerToArray <- FALSE

\* Names of up to four components; no ".." leads from a directory of the root
\* to the root.
Here == <<".">>
Up == <<".", ".">>
Cwd == <<"/", "c", "/", "a", "b", "/", "a", "b", "/", "e", "f", "/", "c">>
Parts == { <<>>, Here, Up, <<"a", "b">>, <<".", "c">> }
Spelt(k) == {FoldLeft(LAMBDA s, p : s \o <<"/">> \o p, ps[1], Tail(ps)) : ps \in [1 .. k -> Parts]}
Dirs == { <<"/", "a", "b", "/", "c", "/", "a", "b", "/", "c", "d", "/", "c">>, <<"/">> }
Fn == INSTANCE Filenames WITH Names <- {}
AboveTop(s, base) ==
  LET at == IF Fn!is_absolute(s) THEN <<>> ELSE Fn!tok(base)
      ps == Fn!tok(s)
  IN  \A i \in DOMAIN ps : ps[i] = Up => Len(Fn!Follow(at, 0, SubSeq(ps, 1, i - 1)).at) # 1
SomeNames ==
  {n \in (UNION {Spelt(k) : k \in 1 .. 4} \ {<<>>}) \X Dirs : AboveTop(n[1], n[2])}
Fil == INSTANCE Filenames WITH Names <- SomeNames

-----------------------------------------------------------------------------
Idle == "idle"
Idle_secvars ==
  /\ file = Idle /\ separate = Idle /\ sections_ = Idle /\ mappings_ = Idle
  /\ tsec = Idle /\ map_pc = Idle /\ next = Idle /\ calls = Idle
Idle_unitvars ==
  /\ info = Idle /\ line = Idle /\ infor = Idle /\ liner = Idle /\ units_ = Idle
  /\ cu = Idle /\ unit_pc = Idle
Idle_formvars ==
  /\ buf = Idle /\ forms = Idle /\ number = Idle /\ reading = Idle /\ skipping = Idle
Idle_walkvars ==
  /\ items = Idle /\ sibling = Idle /\ wanted = Idle /\ spec = Idle /\ mode = Idle
  /\ w = Idle /\ want = Idle /\ seen = Idle
Idle_linevars ==
  /\ seeking_ = Idle /\ registers_ = Idle /\ start_ = Idle /\ have_start_ = Idle
  /\ additional_files_ = Idle /\ running_ = Idle /\ status = Idle /\ found = Idle
  /\ steps = Idle /\ rows = Idle
Idle_addrvars ==
  /\ obj = Idle /\ fn = Idle /\ link_objects_ = Idle /\ compile_units_ = Idle
  /\ link_object_index_ = Idle /\ address_index_ = Idle /\ adds = Idle
Idle_typevars ==
  /\ types = Idle /\ functions = Idle /\ cache_ = Idle
Idle_namevars ==
  /\ f = Idle /\ dir = Idle /\ op = Idle /\ out = Idle

Init ==
  /\ part \in {"sections", "units", "attributes", "numbers", "siblings", "names",
               "lines", "addresses", "types", "invoke", "signatures",
               "filenames"}
  /\ IF part = "sections" THEN Sec!Init ELSE Idle_secvars
  /\ IF part = "units" THEN Uni!Init ELSE Idle_unitvars
  /\ CASE part = "attributes" -> Frm!InitAttributes /\ Frm!InitReaders
       [] part = "numbers" -> Frm!InitNumber /\ Frm!InitReaders
       [] OTHER -> Idle_formvars
  /\ CASE part = "siblings" -> Sib!Init
       [] part = "names" -> Nam!Init
       [] OTHER -> Idle_walkvars
  /\ IF part = "lines" THEN Lin!Init ELSE Idle_linevars
  /\ IF part = "addresses" THEN Adr!Init ELSE Idle_addrvars
  /\ CASE part = "types" -> Typ!Init
       [] part = "invoke" -> Inv!Init
       [] part = "signatures" -> Sig!Init
       [] OTHER -> Idle_typevars
  /\ IF part = "filenames" THEN Fil!Init ELSE Idle_namevars

Next ==
  \/ /\ part = "sections" /\ Sec!Next
     /\ UNCHANGED <<part, unitvars, formvars, walkvars, linevars, addrvars, typevars, namevars>>
  \/ /\ part = "units" /\ Uni!Next
     /\ UNCHANGED <<part, secvars, formvars, walkvars, linevars, addrvars, typevars, namevars>>
  \/ /\ \/ part = "attributes" /\ Frm!Next
        \/ part = "numbers" /\ Frm!Next
     /\ UNCHANGED <<part, secvars, unitvars, walkvars, linevars, addrvars, typevars, namevars>>
  \/ /\ \/ part = "siblings" /\ Sib!Next
        \/ part = "names" /\ Nam!Next
     /\ UNCHANGED <<part, secvars, unitvars, formvars, linevars, addrvars, typevars, namevars>>
  \/ /\ part = "lines" /\ Lin!Next
     /\ UNCHANGED <<part, secvars, unitvars, formvars, walkvars, addrvars, typevars, namevars>>
  \/ /\ part = "addresses" /\ Adr!Next
     /\ UNCHANGED <<part, secvars, unitvars, formvars, walkvars, linevars, typevars, namevars>>
  \/ /\ \/ part = "types" /\ Typ!Next
        \/ part = "invoke" /\ Inv!Next
        \/ part = "signatures" /\ Sig!Next
     /\ UNCHANGED <<part, secvars, unitvars, formvars, walkvars, linevars, addrvars, namevars>>
  \/ /\ part = "filenames" /\ Fil!Next
     /\ UNCHANGED <<part, secvars, unitvars, formvars, walkvars, linevars, addrvars, typevars>>
  \/ \* A program has no more types and functions than it has.
     part \in {"types", "invoke", "signatures"} /\ UNCHANGED vars

Spec == Init /\ [][Next]_vars

-----------------------------------------------------------------------------
(* Properties: those of the parts, which explain them.                     *)

\* However sections lie in the file and in its pages, each is mapped once where its
\* bytes are, or nothing is (Sections).
SectionsShowFile ==
  /\ part = "sections" => Sec!TypeOK
  \* A section that map_sections() promised is there.
  /\ part = "sections" => Sec!AllMapped
  \* A section is mapped where its bytes are.
  /\ part = "sections" => Sec!SectionHoldsItsBytes
  \* No page of the file is mapped twice.
  /\ part = "sections" => Sec!NoPageMappedTwice
  \* What was mapped before a failure is unmapped.
  /\ part = "sections" => Sec!FailureUnmaps

\* Compile units are read up to a bad one, each with its own lines, abbreviations and
\* offsets (Units).
UnitsHoldTheirOwn ==
  /\ part = "units" => Uni!TypeOK
  \* Every unit before the first bad one is read.
  /\ part = "units" => Uni!AllUnitsRead
  \* A unit gets its own line number program.
  /\ part = "units" => Uni!OwnLines
  \* An abbreviation is found under its code.
  /\ part = "units" => Uni!AbbrevsByCode
  \* A reference across units finds the unit that holds its offset.
  /\ part = "units" => Uni!ReferencesResolve

\* The cursor is at the next attribute whether the last was read or skipped, and
\* numbers are what was encoded (Forms).
AttributesRead ==
  /\ part = "attributes" => Frm!AttributesRead /\ Frm!Widths /\ Frm!AttributesInv
  \* A signed number that fits an int is decoded to itself.
  /\ part = "numbers" => Frm!ShortSlebDecoded

\* A walker is always where the tree of entries says it is, and each of its steps goes
\* to the child or the sibling there is, with sibling attributes or without (Walker).
WalkerFollowsTree ==
  /\ [](part = "siblings" => Sib!TypeOK)
  \* The path of a walker is the ancestry of its entry.
  /\ [](part = "siblings" => Sib!PathIsAncestry)
  \* A scan for a tag finds the entries that have it, in order.
  /\ [](part = "siblings" => Sib!ScanFindsWanted)
  \* A full name follows the declarations that specifications lead to.
  /\ [](part = "names" => Nam!NamesFollowDeclarations)
  \* A scan ends where the unit does.
  /\ [](part = "names" => Nam!ScanEndsAtEnd)
  \* The level a walker counts is the depth of its entry.
  /\ [](part = "names" => Nam!LevelIsDepth)
  /\ [][part = "siblings" => Sib!StepFollowsTree]_vars

\* Running a line number program up to an address finds the row that the whole table
\* gives it (LineProgram).
LinesFound == part = "lines" => Lin!LinesFound /\ Lin!Header /\ Lin!LookupInv

\* An address of any loaded object is described by the function it is in
\* (AddressIndex).
AddressesDescribed ==
  /\ part = "addresses" => Adr!TypeOK
  \* An address is described by the function it is in.
  /\ part = "addresses" => Adr!DescribesFunction
  \* The offset given is the one into that function.
  /\ part = "addresses" => Adr!OffsetIntoFunction
  \* The address to instrument for a PLT slot is that of the function it calls.
  /\ part = "addresses" => Adr!InstrumentsCode

\* What is told of a type, its size, its text and how a function of it is invoked,
\* tells apart what differs (Types).
TypesTold ==
  /\ part = "invoke" => Inv!TypeOK
  \* The size of an array is that of its elements.
  /\ part = "types" => Typ!SizesAdd
  \* Types with the same text are the same type.
  /\ part = "types" => Typ!TextIdentifies
  \* A function is invoked as its declaration says.
  /\ part = "invoke" => Inv!InvokedAsDeclared
  \* The text of a classification tells apart what the number does.
  /\ part = "invoke" => Inv!ClassificationNamed
  \* Functions of a name with the same text have the same signature.
  /\ part = "signatures" => Sig!SignatureIdentifies

\* What is done to a file name leaves it the name of the same file (Filenames).
NamesSameFile ==
  \* A source file goes by one absolute name.
  /\ part = "filenames" => Fil!AbsoluteNamesSameFile
  \* Next to a file a name means a file of its directory.
  /\ part = "filenames" => Fil!SiblingNamesSameFile
  \* normalise() changes no name's meaning.
  /\ part = "filenames" => Fil!NormaliseKeepsMeaning
  \* pop_back() takes away what push_back() added.
  /\ part = "filenames" => Fil!PopUndoesPush

=============================================================================
