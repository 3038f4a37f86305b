------------------------------ MODULE Sections ------------------------------
(***************************************************************************)
(* How a link object's DWARF sections get into memory.  The runtime linker *)
(* reports the program's PT_LOAD segments (add_one_linkobj); map_sections  *)
(* first looks for each DWARF section inside those, and maps the rest from *)
(* the object's file itself, in as few mmap() calls as it can.             *)
(*                                                                         *)
(* A file is a range of offsets.  What memory holds is told by the file    *)
(* offset a byte came from, so that a section is right when byte k of it   *)
(* is offset k of the section in the file.  Addresses are                  *)
(* <<kind, i, delta>>: byte delta of system segment i, or of own mapping i.*)
(***************************************************************************)
EXTENDS Integers, Sequences, FiniteSets, SequencesExt, FiniteSetsExt

CONSTANTS
    PageSize,     \* scaled down, a page is the unit mmap() works in
    FileSize,     \* the largest offset of the object's file
    Secs,         \* the DWARF sections, DW_sec_info and its fellows: 1..n
    MaxSize,      \* the largest size of a section
    Tails,        \* by how much p_memsz may exceed p_filesz (.bss)
    MaxCalls      \* how many times read_link_objects() runs

VARIABLES
    file,       \* the object's file: its segments and the sections it has
    separate,   \* the debug info is in a file of its own (symbol_filename)
    sections_,  \* Secs -> mapping_t
    mappings_,  \* the mappings made here, a sequence of mapping_t
    tsec,       \* the sections still to be mapped, by offset
    pc,         \* where map_sections() is
    next,       \* the mapping mmap() comes to next
    calls       \* calls made so far

vars == <<file, separate, sections_, mappings_, tsec, pc, next, calls>>

Null == <<"null", 0, 0>>
Zero == -1          \* a byte of .bss
Fault == -2         \* no such memory

page_round_down(x) == (x \div PageSize) * PageSize
page_round_up(x) == page_round_down(x + PageSize - 1)

Mapping(off, size, map) == [offset |-> off, size |-> size, map |-> map]
get_end(m) == m.offset + m.size
set_end(m, e) == [m EXCEPT !.size = e - m.offset]
is_mapped(m) == m.map # Null
contains(m, n) == m.offset <= n.offset /\ get_end(m) >= get_end(n)

map_from(n, m) == [n EXCEPT !.map = <<m.map[1], m.map[2], m.map[3] + n.offset - m.offset>>]

expand_to_pages(m) ==
    LET off == page_round_down(m.offset)
    IN  [m EXCEPT !.offset = off, !.size = page_round_up(get_end(m)) - off]

(* add_one_linkobj: a system mapping for every PT_LOAD segment that is not *)
(* empty in memory, of the segment's size in MEMORY.                       *)
add_one_linkobj(segs) ==
    LET m == [i \in DOMAIN segs |->
                 Mapping(segs[i].offset, segs[i].memsz, <<"sys", i, 0>>)]
    IN  SelectSeq(m, LAMBDA s : s.size > 0)

system_mappings_ == add_one_linkobj(file.segs)

map_from_system(n) ==
    LET hits == {i \in DOMAIN system_mappings_ : contains(system_mappings_[i], n)}
    IN  IF hits = {} THEN n ELSE map_from(n, system_mappings_[Min(hits)])

(***************************************************************************)
(* Files: segments with their .bss tails, sections that do not overlap.    *)
(***************************************************************************)
Segments ==
    {<<>>} \cup {<<[offset |-> o, filesz |-> f, memsz |-> f + t]>> :
                     o \in {0, PageSize}, f \in 0 .. PageSize, t \in Tails}

Placements == {p \in [Secs -> (0 .. FileSize) \X (0 .. MaxSize)] :
    /\ \A s \in Secs : p[s][1] + p[s][2] <= FileSize /\ (p[s][2] = 0 => p[s][1] = 0)
    /\ \A s, t \in Secs : s # t /\ p[s][2] > 0 /\ p[t][2] > 0 =>
           p[s][1] + p[s][2] <= p[t][1] \/ p[t][1] + p[t][2] <= p[s][1]}

Init ==
    /\ file \in [segs : Segments, place : Placements]
    /\ separate \in BOOLEAN
    /\ sections_ = [s \in Secs |-> Mapping(0, 0, Null)]
    /\ mappings_ = <<>> /\ tsec = <<>>
    /\ pc = "idle" /\ next = 1 /\ calls = 0

(***************************************************************************)
(* map_sections()                                                          *)
(***************************************************************************)
bfd_openr ==
    /\ pc \in {"idle", "true", "false"} /\ calls < MaxCalls
    /\ calls' = calls + 1
    /\ pc' \in {"scan", "false", "error"}   \* no file; not an object
    /\ UNCHANGED <<file, separate, sections_, mappings_, tsec, next>>

has(s) == file.place[s][2] > 0

(* The range of every section found in the file, and its address when a    *)
(* system mapping holds it.  Then the sections left over, by offset.       *)
Found(s) ==
    LET n == [sections_[s] EXCEPT !.offset = file.place[s][1], !.size = file.place[s][2]]
    IN  IF ~has(s) THEN sections_[s] ELSE IF separate THEN n ELSE map_from_system(n)

scan ==
    /\ pc = "scan"
    /\ sections_' = [s \in Secs |-> Found(s)]
    /\ LET left == {s \in Secs : ~is_mapped(sections_'[s]) /\ sections_'[s].size > 0}
       IN  /\ tsec' = SetToSortSeq(left, LAMBDA s, t : sections_'[s].offset < sections_'[t].offset)
           /\ pc' = IF left = {} THEN "true" ELSE "coalesce"
    /\ UNCHANGED <<file, separate, mappings_, next, calls>>

(* "section abuts the last mapping": it starts on a page of it or right    *)
(* after its last page.                                                    *)
\* The mapping's end not rounded: a page may then be in two mappings.
abuts_Unrounded(m, n) == get_end(m) >= n.offset
abuts(m, n) == page_round_up(get_end(m)) >= n.offset

add_section(ms, n) ==
    IF ms # <<>> /\ abuts(Last(ms), n)
    THEN [ms EXCEPT ![Len(ms)] = set_end(@, get_end(n))]
    ELSE Append(ms, n)

coalesce ==
    /\ pc = "coalesce"
    /\ mappings_' = FoldLeft(add_section, mappings_, [i \in DOMAIN tsec |-> sections_[tsec[i]]])
    /\ next' = 1
    /\ pc' \in {"mmap", "error"}            \* open() may fail
    /\ UNCHANGED <<file, separate, sections_, tsec, calls>>

(* mmap: MAP_FAILED leaves the ranges expanded and map_ as it was.  A size *)
(* that is not positive is one that wrapped: mmap() refuses it.            *)
mmap ==
    /\ pc = "mmap" /\ next <= Len(mappings_)
    /\ LET m == expand_to_pages(mappings_[next])
       IN  \/ /\ m.size > 0
              /\ mappings_' = [mappings_ EXCEPT ![next] = [m EXCEPT !.map = <<"own", next, 0>>]]
              /\ next' = next + 1
              /\ pc' = pc
           \/ /\ mappings_' = [mappings_ EXCEPT ![next] = m]
              /\ pc' = "error"
              /\ next' = next
    /\ UNCHANGED <<file, separate, sections_, tsec, calls>>

Holder(n) == {i \in DOMAIN mappings_ : contains(mappings_[i], n)}

setup ==
    /\ pc = "mmap" /\ next > Len(mappings_)
    /\ sections_' = [s \in Secs |->
           IF s \notin ToSet(tsec) \/ Holder(sections_[s]) = {} THEN sections_[s]
           ELSE map_from(sections_[s], mappings_[Min(Holder(sections_[s]))])]
    /\ pc' = "true"
    /\ UNCHANGED <<file, separate, mappings_, tsec, next, calls>>

unmap_sections(ms) == [i \in DOMAIN ms |-> [ms[i] EXCEPT !.map = Null]]

error ==
    /\ pc = "error"
    /\ mappings_' = unmap_sections(mappings_)
    /\ pc' = "false"
    /\ UNCHANGED <<file, separate, sections_, tsec, next, calls>>

finished == pc \in {"true", "false"} /\ calls = MaxCalls /\ UNCHANGED vars

Next == bfd_openr \/ scan \/ coalesce \/ mmap \/ setup \/ error \/ finished

Spec == Init /\ [][Next]_vars

(***************************************************************************)
(* What memory holds at byte k of a mapping.                               *)
(***************************************************************************)
ByteAt(map, k) ==
    LET i == map[2]  d == map[3] + k
    IN  CASE map[1] = "sys" ->
               LET g == file.segs[i]
               IN  IF d < g.filesz THEN g.offset + d
                   ELSE IF d < g.memsz THEN Zero ELSE Fault
          [] map[1] = "own" ->
               IF is_mapped(mappings_[i]) /\ d \in 0 .. mappings_[i].size - 1
               THEN mappings_[i].offset + d ELSE Fault
          [] OTHER -> Fault

Wanted == {s \in Secs : has(s)}

(* Every section stays within the file, and its address within what holds  *)
(* it.                                                                     *)
TypeOK ==
    /\ DOMAIN sections_ = Secs /\ ToSet(tsec) \subseteq Secs
    /\ \A s \in Secs : sections_[s].size \in 0 .. MaxSize /\ sections_[s].map[3] \in 0 .. FileSize
    /\ pc \in {"idle", "scan", "coalesce", "mmap", "error", "true", "false"}
    /\ next \in 1 .. Len(mappings_) + 1 /\ calls \in 0 .. MaxCalls

(* The assertion at the end of map_sections() holds: every section that    *)
(* the file has is mapped once map_sections() returns true, whatever was   *)
(* tried before.                                                           *)
AllMapped == pc = "true" => \A s \in Wanted : is_mapped(sections_[s])

(* And it is mapped where its own bytes are: no section is read from       *)
(* another one's bytes, from unmapped memory or from a .bss.               *)
SectionHoldsItsBytes ==
    pc = "true" => \A s \in Wanted : \A k \in 0 .. sections_[s].size - 1 :
        ByteAt(sections_[s].map, k) = file.place[s][1] + k

(* No page of the file is mapped twice by map_sections().                  *)
NoPageMappedTwice ==
    \A i, j \in DOMAIN mappings_ :
        i < j /\ is_mapped(mappings_[i]) /\ is_mapped(mappings_[j]) /\ calls = 1 =>
            get_end(mappings_[i]) <= mappings_[j].offset

(* A call that fails leaves none of its mappings behind.                   *)
FailureUnmaps ==
    pc = "false" /\ calls = 1 => \A i \in DOMAIN mappings_ : ~is_mapped(mappings_[i])
=============================================================================
