------------------------------- MODULE Walker -------------------------------
(***************************************************************************)
(* The walker over the DWARF entries of one compile unit                   *)
(* (np/spiegel/dwarf/walker.cxx, entry.hxx) and the loops its callers run  *)
(* on it.                                                                  *)
(*                                                                         *)
(* The contents of a compile unit are a sequence of items: "leaf" is an    *)
(* entry whose abbreviation has no children, "parent" one that has, and    *)
(* "null" the zero code that closes a list of children.  An offset is the  *)
(* index of an item.  What the bytes of an entry decode to is the subject  *)
(* of Forms; here an entry has a tag (is it one of the wanted ones), maybe *)
(* a DW_AT_sibling and maybe a DW_AT_specification.                        *)
(***************************************************************************)
EXTENDS Integers, Sequences, FiniteSets

CONSTANTS
    MaxItems,       \* bound: items in the compile unit
    Modes,          \* which callers' loops to run
    Siblings,       \* may entries carry DW_AT_sibling?
    Specs           \* may entries carry DW_AT_specification?

VARIABLES
    items,      \* the contents of the compile unit
    sibling,    \* the entries with a DW_AT_sibling
    wanted,     \* the entries whose tag is the one filtered for
    spec,       \* the DW_AT_specification of the entries that have one
    mode,       \* the caller: nested loops, a preorder scan, or both
    w,          \* the walker
    want,       \* the path of entries the caller's loops ought to be at
    seen        \* the entries a preorder scan has returned

vars == <<items, sibling, wanted, spec, mode, w, want, seen>>
unit == <<items, sibling, wanted, spec, mode>>

-----------------------------------------------------------------------------
(* What the items mean, said without a walker.                             *)

Count(its, i, kind) == Cardinality({j \in 1..(i - 1) : its[j] = kind})
DepthIn(its, i) == Count(its, i, "parent") - Count(its, i, "null")

\* One tree: it never closes more lists than it opened, and only ends at depth 0.
WellFormed(its) ==
    /\ its[1] # "null"
    /\ \A i \in 2..Len(its) : DepthIn(its, i) > 0
    /\ DepthIn(its, Len(its) + 1) = 0

Entries(its) == {i \in 1..Len(its) : its[i] # "null"}
Depth(i) == DepthIn(items, i)

\* The entries after i in the same list, and those in the list i opens.
LaterSiblings(i) ==
    {j \in Entries(items) : j > i /\ Depth(j) = Depth(i)
                            /\ \A k \in i..j : Depth(k) >= Depth(i)}
Children(i) ==
    {j \in Entries(items) : j > i /\ Depth(j) = Depth(i) + 1
                            /\ \A k \in (i + 1)..j : Depth(k) > Depth(i)}
First(S) == IF S = {} THEN 0 ELSE CHOOSE x \in S : \A y \in S : x <= y
NextSibling(i) == First(LaterSiblings(i))
FirstChild(i) == First(Children(i))
Ancestors(i) == {j \in Entries(items) : j <= i
                    /\ \A k \in (j + 1)..i : Depth(k) > Depth(j)}

-----------------------------------------------------------------------------
(* The walker: the reader's offset, the level of the next entry to be read,*)
(* and the entry.  The entry's attributes are those of the item whose      *)
(* generation is the latest: only setup() starts a new generation.         *)

RE_EOF == -1
RE_EOL == 0
RE_OK == 1
RE_FILTERED == 2

NoEntry == [offset |-> 0, level |-> 0, abbrev |-> 0, attrs |-> 0]
setup(off, lev) == [offset |-> off, level |-> lev, abbrev |-> off, attrs |-> off]
partial_setup(e, off, lev, a) == [e EXCEPT !.offset = off, !.level = lev, !.abbrev = a]

walker(off) == [reader |-> off, level |-> 0, entry |-> NoEntry, filter |-> FALSE, r |-> RE_OK]
seek(v, off) == [v EXCEPT !.reader = off, !.level = 0]

has_children(e) == items[e.abbrev] = "parent"

level_after(i, lev) == IF items[i] = "parent" THEN lev + 1 ELSE lev

read_entry(v) ==
    IF v.reader > Len(items) THEN [v EXCEPT !.r = RE_EOF]
    ELSE IF items[v.reader] = "null"
         THEN IF v.level = 0 THEN [v EXCEPT !.reader = @ + 1, !.r = RE_EOF]
              ELSE [v EXCEPT !.reader = @ + 1, !.level = @ - 1, !.r = RE_EOL]
         ELSE LET skips == v.filter /\ v.reader \notin wanted
              IN  [v EXCEPT !.reader = @ + 1,
                            !.r = IF skips THEN RE_FILTERED ELSE RE_OK,
                            !.entry = IF skips THEN partial_setup(@, v.reader, v.level, v.reader)
                                      ELSE setup(v.reader, v.level),
                            !.level = level_after(v.reader, @)]

RECURSIVE move_preorder(_), scan_siblings(_, _), path_to(_, _, _), names_upwards(_)

move_preorder(v) ==
    LET n == read_entry(v) IN IF n.r \in {RE_EOF, RE_OK} THEN n ELSE move_preorder(n)

\* The end of a list of siblings: the entry takes the parent's level.
climb(e, target) == partial_setup(e, e.offset, target - 1, 0)

scan_siblings(v, target) ==
    IF v.level < target THEN [v EXCEPT !.r = RE_EOL, !.entry = climb(@, target)]
    ELSE LET n == read_entry(v)
         IN  IF n.r = RE_EOF \/ (n.r = RE_OK /\ n.entry.level = target) THEN n
             ELSE scan_siblings(n, target)

move_to(v, off) == read_entry(seek(v, off))

get_sibling(e) == IF e.attrs \in sibling THEN NextSibling(e.attrs) ELSE 0

move_next(v) ==
    IF get_sibling(v.entry) # 0 THEN move_to(v, get_sibling(v.entry))
    ELSE scan_siblings(v, v.entry.level)

move_down(v) == IF has_children(v.entry) THEN read_entry(v) ELSE [v EXCEPT !.r = RE_EOL]

\* A second walker scans the unit from its start, keeping the open entries.
drop_leaf_Never(path, e) == path
drop_leaf(path, e) == IF has_children(e) THEN path ELSE SubSeq(path, 1, Len(path) - 1)

path_to(v, path, off) ==
    LET n == read_entry(v)
        here == Append(path, n.entry.offset)
    IN  IF n.r = RE_EOF THEN path
        ELSE IF n.r = RE_EOL THEN path_to(n, SubSeq(path, 1, Len(path) - 1), off)
        ELSE IF n.entry.offset = off THEN here
        ELSE path_to(n, drop_leaf(here, n.entry), off)

get_path(v) == path_to(walker(1), <<>>, v.entry.offset)

move_up(v) ==
    LET path == get_path(v)
    IN  IF Len(path) > 1 THEN move_to(v, path[Len(path) - 1]) ELSE [v EXCEPT !.r = RE_EOF]

\* get_full_name(): the names from the entry, or the declaration that specifies
\* it, out to the compile unit.  A name is the offset of the entry that bears it.
specified(v) == IF v.entry.attrs \in DOMAIN spec THEN move_to(v, spec[v.entry.attrs]) ELSE v

names_upwards(v) ==
    LET named == specified(v)
        above == move_up(named)
    IN  IF named.entry.offset = 1 THEN <<>>
        ELSE IF above.r = RE_OK THEN Append(names_upwards(above), named.entry.offset)
        ELSE <<named.entry.offset>>
get_full_name(off) == names_upwards(move_next(walker(off)))

-----------------------------------------------------------------------------
(* The callers.  "loops": for (e = w.move_down(); e; e = w.move_next()),   *)
(* each body free to run such a loop on the entry it was given, with the   *)
(* same walker.  "preorder": while (e = w.move_preorder()), filtered or    *)
(* not.  "structs": a preorder scan that runs a loop over some entries.    *)

Top == want[Len(want)]
Pop == SubSeq(want, 1, Len(want) - 1)

\* At most one entry has a specification, and it is not inside that entry.
Specifications ==
    {[i \in {} |-> 0]} \cup
    IF Specs THEN UNION {[{i} -> {j \in Entries(items) \ {1} : i \notin Ancestors(j)}]
                           : i \in Entries(items) \ {1}}
    ELSE {}

Init ==
    /\ items \in UNION {{its \in [1..n -> {"leaf", "parent", "null"}] : WellFormed(its)}
                          : n \in 1..MaxItems}
    /\ sibling \in SUBSET {i \in Entries(items) :
                             Siblings /\ items[i] = "parent" /\ NextSibling(i) # 0}
    /\ mode \in Modes
    /\ wanted \in IF mode = "preorder" THEN SUBSET Entries(items) ELSE {Entries(items)}
    /\ spec \in Specifications
    /\ w = IF mode = "preorder" THEN [walker(1) EXCEPT !.filter = TRUE] ELSE move_next(walker(1))
    /\ want = IF mode = "loops" THEN <<1>> ELSE <<>>
    /\ seen = IF mode = "structs" THEN {1} ELSE {}

\* Did the walker's last move return an entry?
Returned == w.r = RE_OK

\* The start of a loop over the children of the entry the walker is at.
down ==
    /\ mode = "loops" /\ Returned
    /\ w' = move_down(w)
    /\ want' = IF w'.r = RE_OK THEN Append(want, FirstChild(Top)) ELSE want
    /\ UNCHANGED <<unit, seen>>

\* The increment of the innermost loop: after a body without a loop of its own,
\* or once the loop in the body has ended.
next ==
    /\ mode = "loops" /\ Len(want) > 1
    /\ w' = move_next(w)
    /\ want' = IF w'.r = RE_OK THEN Append(Pop, NextSibling(Top)) ELSE Pop
    /\ UNCHANGED <<unit, seen>>

preorder ==
    /\ mode \in {"preorder", "structs"} /\ want = <<>> /\ w.r # RE_EOF
    /\ w' = move_preorder(w)
    /\ seen' = IF w'.r = RE_OK THEN seen \cup {w'.entry.offset} ELSE seen
    /\ UNCHANGED <<unit, want>>

\* dump_structs(): the loop over the members of a structure, inside the scan,
\* which goes on when the loop has ended.
AfterMember(n) ==
    /\ w' = IF n.r = RE_OK THEN n ELSE [n EXCEPT !.r = RE_EOL]
    /\ want' = IF n.r = RE_OK THEN <<n.entry.offset>> ELSE <<>>
    /\ seen' = IF n.r = RE_OK THEN seen \cup {n.entry.offset} ELSE seen
    /\ UNCHANGED unit

members ==
    /\ mode = "structs" /\ want = <<>> /\ Returned /\ seen # {1}
    /\ AfterMember(move_down(w))

members_next ==
    /\ mode = "structs" /\ want # <<>>
    /\ AfterMember(move_next(w))

ended ==
    /\ \/ mode = "loops" /\ Len(want) = 1 /\ ~Returned
       \/ mode # "loops" /\ want = <<>> /\ w.r = RE_EOF
    /\ UNCHANGED vars

Next == down \/ next \/ preorder \/ members \/ members_next \/ ended

Spec == Init /\ [][Next]_vars

-----------------------------------------------------------------------------
(* Properties.                                                             *)

TypeOK ==
    /\ w.reader \in 1..(Len(items) + 1)
    /\ w.level \in 0..MaxItems
    /\ w.r \in {RE_EOF, RE_EOL, RE_OK, RE_FILTERED}
    /\ w.entry.offset \in 0..Len(items) /\ w.entry.abbrev \in 0..Len(items)
    /\ want \in Seq(Entries(items)) /\ seen \subseteq Entries(items)

\* However the callers nest their loops on one walker, with and without sibling
\* attributes, move_down() and move_next() return exactly the children of the
\* entry the loop is over, in order, and return nothing only after the last.
StepFollowsTree ==
    /\ down => (w'.r = RE_OK <=> FirstChild(Top) # 0)
    /\ next => (w'.r = RE_OK <=> NextSibling(Top) # 0)
    /\ mode = "loops" /\ w'.r = RE_OK => w'.entry.offset = want'[Len(want')]

\* get_path() of the entry a walker is at is that entry's ancestors, outermost
\* first, wherever the walker has been.
PathIsAncestry ==
    Returned /\ w.entry.offset # 0 =>
        LET path == get_path(w)
        IN  /\ {path[k] : k \in DOMAIN path} = Ancestors(w.entry.offset)
            /\ \A k \in 1..(Len(path) - 1) : path[k] < path[k + 1]

\* The reference for get_full_name(), by the shape of the tree alone.
RECURSIVE QualifiedName(_)
QualifiedName(i) ==
    LET d == IF i \in DOMAIN spec THEN spec[i] ELSE i
        enclosing == CHOOSE a \in Ancestors(d) : Depth(a) = Depth(d) - 1
    IN  IF d = 1 THEN <<>> ELSE Append(QualifiedName(enclosing), d)

\* The full name of an entry is the path of names to its declaration, the entry
\* DW_AT_specification leads to, at every level.
NamesFollowDeclarations ==
    w.reader <= 2 => \A i \in Entries(items) : get_full_name(i) = QualifiedName(i)

\* A filtered scan, as prepare_address_index() runs it, returns the entries with
\* the wanted tag and no other, each of those it has passed.
ScanFindsWanted ==
    mode = "preorder" => seen = {i \in wanted : i < w.reader}

\* A scan of the unit ends only at its end, also when loops over the members of
\* a structure have moved the walker in between (dump_structs()).
ScanEndsAtEnd ==
    mode # "loops" /\ want = <<>> /\ w.r = RE_EOF =>
        \A i \in w.reader..Len(items) : items[i] = "null"

\* The assertion of recursive_dump(): the level of the entry a nested loop is
\* at is the depth of the recursion.
LevelIsDepth ==
    mode = "loops" /\ Returned => w.entry.level = Len(want) - 1
=============================================================================
