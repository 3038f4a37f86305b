------------------------------- MODULE Units -------------------------------
(***************************************************************************)
(* How the compile units of a link object are read (state_t::              *)
(* read_compile_units() with compile_unit.cxx, abbrev.cxx and the header   *)
(* of lineno_program.cxx): three readers run through .debug_info,          *)
(* .debug_abbrev and .debug_line, and a unit takes the next line number    *)
(* program there is.                                                       *)
(***************************************************************************)
EXTENDS Integers, SequencesExt, FiniteSetsExt

CONSTANTS
  UnitKinds,      \* the units an object may have, see below
  ProgramKinds,   \* the line number programs
  MaxUnits,       \* bound on the units of an object
  AddrSize        \* _NP_ADDRSIZE

(* A unit: is64, initial ("ok" or a reserved length), version, addrsize,   *)
(* said (the length it declares less the true one), body (bytes after the  *)
(* header), codes (of its abbreviations, in order), cut (is an             *)
(* abbreviation truncated?), rooted (has it a DW_TAG_compile_unit?), lines *)
(* (has it a line number program?).                                        *)
(* A program: version, extra (bytes between its tables and its opcodes),   *)
(* cut (is its header truncated?).                                         *)

VARIABLES
  info,           \* .debug_info: the units
  line,           \* .debug_line: the programs, each with its unit as owner
  infor,          \* the offset of the reader of .debug_info
  liner,          \* the next program of the reader of .debug_line
  compile_units_,
  cu,             \* the unit being read
  pc

vars == <<info, line, infor, liner, compile_units_, cu, pc>>

header_length == 11
MIN_DWARF_VERSION == 2
MAX_DWARF_VERSION == 4
Initial(u) == IF u.is64 THEN 12 ELSE 4
HeaderSize(u) == IF u.is64 THEN 23 ELSE header_length
Size(u) == HeaderSize(u) + u.body
Start(n) == FoldLeft(LAMBDA sum, u : sum + Size(u), 0, SubSeq(info, 1, n - 1))
InfoSize == Start(Len(info) + 1)
At(off) == {n \in DOMAIN info : Start(n) = off}
NoUnit == [n |-> 0, offset_ |-> 0, length |-> 0, abbrevs_ |-> <<>>, lineno_program_ |-> 0]

Init ==
  /\ info \in SeqOf(UnitKinds, MaxUnits)
  /\ \E ps \in [DOMAIN info -> ProgramKinds] :
       line = SelectSeq([n \in DOMAIN info |-> [p |-> ps[n], owner |-> n]],
                        LAMBDA l : info[l.owner].lines)
  /\ infor = 0 /\ liner = 1 /\ compile_units_ = <<>> /\ cu = NoUnit
  /\ pc = "read_header"

-----------------------------------------------------------------------------
\* The length the unit declares, and what read_initial_length() makes of it.
length(u) == Size(u) - Initial(u) + u.said
read_initial_length(u) ==
  /\ u.initial = "ok"
  /\ u.is64 => AddrSize = 8

\* The offset of the abbreviations is read as four bytes, whatever the format:
\* of a 64-bit unit the next byte is one of the offset's upper half.
addrsize(u) == IF u.is64 THEN 0 ELSE u.addrsize

Fatal(u, remains) ==
  \/ length(u) > remains
  \/ u.version \notin MIN_DWARF_VERSION .. MAX_DWARF_VERSION
  \/ length(u) < header_length - (IF u.is64 THEN 14 ELSE 6)
  \/ addrsize(u) # AddrSize

\* The outer reader is moved to the end of the unit.
past_unit(u) == infor + Initial(u) + length(u)

read_header ==
  /\ pc = "read_header"
  /\ IF infor >= InfoSize THEN pc' = "done" /\ UNCHANGED <<infor, cu>>
     ELSE \E u \in {info[n] : n \in At(infor)} :
       CASE ~read_initial_length(u) -> pc' = "done" /\ UNCHANGED <<infor, cu>>
         [] read_initial_length(u) /\ Fatal(u, InfoSize - infor - Initial(u)) ->
              pc' = "fatal" /\ UNCHANGED <<infor, cu>>
         [] OTHER ->
              /\ pc' = "read_abbrevs"
              /\ cu' = [NoUnit EXCEPT !.n = Min(At(infor)), !.offset_ = infor,
                                      !.length = Initial(u) + length(u)]
              /\ infor' = past_unit(u)
  /\ UNCHANGED <<info, line, liner, compile_units_>>

\* abbrevs_ is grown to hold the code.
place(abbrevs, code) ==
  [c \in 1 .. Max({Len(abbrevs), code}) |->
     IF c = code THEN code ELSE IF c <= Len(abbrevs) THEN abbrevs[c] ELSE 0]

\* abbrev_t::read() fails at the end of the section: the last one is dropped.
Readable(u) == IF u.cut /\ u.codes # <<>> THEN Front(u.codes) ELSE u.codes

read_abbrevs ==
  /\ pc = "read_abbrevs" /\ pc' = "read_attributes"
  /\ cu' = [cu EXCEPT !.abbrevs_ = FoldLeft(place, <<>>, Readable(info[cu.n]))]
  /\ UNCHANGED <<info, line, infor, liner, compile_units_>>

\* The entry of the unit itself, in the abbreviation with code 1.
read_attributes ==
  /\ pc = "read_attributes"
  /\ pc' = IF info[cu.n].rooted /\ 1 \in DOMAIN cu.abbrevs_ /\ cu.abbrevs_[1] = 1
           THEN "read_lineno_program" ELSE "done"
  /\ UNCHANGED <<info, line, infor, liner, compile_units_, cu>>

\* lineno_program_t::read_header(): the fields in turn, then the length checked.
line_read_header(p) ==
  /\ ~p.cut
  /\ p.version \in 2 .. 4
  /\ p.extra = 0

\* The next program, whatever the unit's DW_AT_stmt_list; read_compile_units()
\* ends at the first one that cannot be read, as if there were no more units.
\* The reader of .debug_line is not moved on.
next_line_Same == liner
next_line == liner + 1
read_lineno_program ==
  /\ pc = "read_lineno_program"
  /\ IF liner <= Len(line) /\ line_read_header(line[liner].p)
     THEN /\ compile_units_' = Append(compile_units_, [cu EXCEPT !.lineno_program_ = liner])
          /\ pc' = "read_header"
     ELSE pc' = "done" /\ UNCHANGED compile_units_
  /\ liner' = next_line
  /\ UNCHANGED <<info, line, infor, cu>>

Ended == pc \in {"done", "fatal"} /\ UNCHANGED vars

Next == read_header \/ read_abbrevs \/ read_attributes \/ read_lineno_program \/ Ended

Spec == Init /\ [][Next]_vars

-----------------------------------------------------------------------------
(* What is asked of the units afterwards.                                  *)

get_abbrev(c, code) == IF code > Len(c.abbrevs_) THEN 0 ELSE c.abbrevs_[code]
get_end_offset(c) == c.offset_ + c.length

\* A DW_FORM_ref_addr: an offset into .debug_info as a unit and an offset in it.
resolve_link_object_reference(off) ==
  LET in == {k \in DOMAIN compile_units_ : /\ compile_units_[k].offset_ <= off
                                           /\ off < get_end_offset(compile_units_[k])}
  IN IF in = {} THEN <<0, 0>> ELSE <<Min(in), off - compile_units_[Min(in)].offset_>>

TypeOK ==
  /\ pc \in {"read_header", "read_abbrevs", "read_attributes", "read_lineno_program",
             "done", "fatal"}
  /\ infor \in 0 .. InfoSize /\ liner \in 1 .. Len(line) + 2
  /\ pc = "read_header" /\ infor < InfoSize => At(infor) # {}

\* Units are read in the order of .debug_info, none skipped and none twice, and
\* of a well-formed object none is left out (read_compile_units()).
WellFormed(u) ==
  /\ u.initial = "ok" /\ u.said = 0 /\ ~u.cut /\ u.rooted /\ u.lines
  /\ u.version \in 2 .. 4 /\ u.addrsize = AddrSize
AllUnitsRead ==
  /\ \A k \in DOMAIN compile_units_ : compile_units_[k].n = k
  /\ /\ \A n \in DOMAIN info : WellFormed(info[n])
     /\ \A n \in DOMAIN line : line_read_header(line[n].p)
     => pc # "fatal" /\ (pc = "done" => Len(compile_units_) = Len(info))

\* A unit's source lines are looked up in its own line number program
\* (compile_unit_t::get_source_line()).
OwnLines ==
  \A k \in DOMAIN compile_units_ :
    line[compile_units_[k].lineno_program_].owner = compile_units_[k].n

\* A code finds the abbreviation of that code of the unit, and only that.
AbbrevsByCode ==
  \A k \in DOMAIN compile_units_ :
    \A code \in 1 .. 4 :
      get_abbrev(compile_units_[k], code) =
        IF code \in ToSet(Readable(info[compile_units_[k].n])) THEN code ELSE 0

\* A reference across units finds the unit that holds the offset
\* (resolve_link_object_reference()).
ReferencesResolve ==
  \A k \in DOMAIN compile_units_ :
    \A d \in {header_length, Size(info[compile_units_[k].n]) - 1} :
      resolve_link_object_reference(Start(compile_units_[k].n) + d) = <<k, d>>
=============================================================================
