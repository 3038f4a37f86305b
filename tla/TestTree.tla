------------------------------ MODULE TestTree ------------------------------
(***************************************************************************)
(* Discovery: every function of every compile unit is classified by its    *)
(* name (testmanager.cxx, classifier.cxx) and fitted into the tree of      *)
(* testnodes (testnode.cxx), whose root is then pruned.  A node is the     *)
(* path of names from the filesystem's root down to it.  A name is itself  *)
(* a sequence: the parts between its dots, as in the file name "a.b.c".    *)
(***************************************************************************)
EXTENDS Integers, FiniteSetsExt, SequencesExt

CONSTANTS
  Units,          \* the compile units, in order: their paths without extension
  Kinds,          \* the functions a compile unit may define
  MaxFunctions    \* bound on the functions of the program

Singular == {"before", "test", "after"}
None == 0

VARIABLES
  prog,       \* the functions scanned so far
  tree,       \* path -> the testnode there
  root_,      \* the path of the tree's root; before detach_common() the empty one
  phase       \* "scan" or "ready"

treevars == <<prog, tree, root_, phase>>

-----------------------------------------------------------------------------
(* Classification.  A function's name is a head, the kind of character that*)
(* follows it and, for a test or a parameter, the rest.                    *)

\* The classifiers, in order; all are compiled with REG_ICASE.
\* An expression that is anchored at its end has no following character.
classifiers_ ==
  << [head |-> "test_",     next |-> {"lower", "digit"}, type |-> "test"],
     [head |-> "test",      next |-> {"upper"},          type |-> "test"],
     [head |-> "setup",     next |-> {"end"},            type |-> "before"],
     [head |-> "set_up",    next |-> {"end"},            type |-> "before"],
     [head |-> "init",      next |-> {"end"},            type |-> "before"],
     [head |-> "teardown",  next |-> {"end"},            type |-> "after"],
     [head |-> "tear_down", next |-> {"end"},            type |-> "after"],
     [head |-> "cleanup",   next |-> {"end"},            type |-> "after"],
     [head |-> "mock_",     next |-> {"lower", "upper", "digit", "end"},
                                                         type |-> "mock"],
     [head |-> "mock",      next |-> {"upper"},          type |-> "mock"],
     [head |-> "__np_parameter_",
                            next |-> {"lower", "upper", "digit", "end"},
                                                         type |-> "param"] >>

\* Case is folded, so a class of letters of one case has both.
icase(next) == IF next \cap {"lower", "upper"} # {} THEN next \cup {"lower", "upper"}
               ELSE next

\* A submatch that does not fit match_return counts as no match.
classify(c, f) ==
  IF f.head = c.head /\ f.next \in icase(c.next) /\ ~f.long THEN c.type ELSE "unknown"

classify_function(f) ==
  LET hits == {i \in DOMAIN classifiers_ : classify(classifiers_[i], f) # "unknown"}
  IN IF hits = {} THEN "unknown" ELSE classifiers_[Min(hits)].type

\* What discover_functions() demands of each type of function.
Wanted(f) ==
  LET type == classify_function(f) IN
  /\ f.defined
  /\ type # "unknown"
  /\ type \in {"test", "mock", "param"} => f.next # "end"
  /\ type = "test" => f.ret = "void" /\ f.nargs = 0
  /\ type \in {"before", "after"} => f.ret = "int" /\ f.nargs = 0
  /\ type = "mock" => f.target

\* test_name(): a test has a node of its own below that of its file.
test_name(f) ==
  IF classify_function(f) = "test" THEN Append(Units[f.unit], <<f.rest>>) ELSE Units[f.unit]

-----------------------------------------------------------------------------
(* The tree.                                                               *)

testnode_t == [children_ |-> <<>>, before |-> None, test |-> None, after |-> None,
               mocks |-> <<>>, params |-> <<>>]

Init ==
  /\ prog = <<>> /\ tree = (<<>> :> testnode_t)
  /\ root_ = <<>> /\ phase = "scan"

\* The nodes missing on the way are created, each at its parent's tail.
make_path(t, path) ==
  LET steps == {SubSeq(path, 1, n) : n \in 0 .. Len(path)}
      Down(p) == IF p \in steps /\ p # path THEN <<path[Len(p) + 1]>> ELSE <<>>
  IN [p \in DOMAIN t \cup steps |->
        IF p \notin DOMAIN t THEN [testnode_t EXCEPT !.children_ = Down(p)]
        ELSE IF p \in steps /\ p # path /\ path[Len(p) + 1] \notin ToSet(t[p].children_)
             THEN [t[p] EXCEPT !.children_ = @ \o Down(p)]
             ELSE t[p]]

\* The first function of its type stays; a second is only warned of.
set_function(t, p, type, id) ==
  IF t[p][type] # None THEN t ELSE [t EXCEPT ![p][type] = id]

add_mock(t, p, id) == [t EXCEPT ![p].mocks = Append(@, id)]
add_parameter(t, p, id) == [t EXCEPT ![p].params = Append(@, id)]

\* One function of discover_functions()'s loops.
scan(f) ==
  LET id == Len(prog) + 1
      p == test_name(f)
      t == make_path(tree, p)
      type == classify_function(f)
  IN /\ phase = "scan" /\ Len(prog) < MaxFunctions
     /\ \A n \in DOMAIN prog : f.unit >= prog[n].unit
     /\ prog' = Append(prog, f)
     /\ tree' = CASE ~Wanted(f) -> tree
                  [] Wanted(f) /\ type \in Singular -> set_function(t, p, type, id)
                  [] Wanted(f) /\ type = "mock" -> add_mock(t, p, id)
                  [] Wanted(f) /\ type = "param" -> add_parameter(t, p, id)
     /\ UNCHANGED <<root_, phase>>

is_elidable(t, p) ==
  /\ t[p].mocks = <<>> /\ t[p].params = <<>>
  /\ \A ft \in Singular : t[p][ft] = None
  /\ Len(t[p].children_) <= 1

\* The chain from the root down through elidable nodes that have a child.
Chain(t) ==
  {p \in DOMAIN t : \A n \in 0 .. Len(p) - 1 :
     LET a == SubSeq(p, 1, n) IN is_elidable(t, a)}

detached(t) ==
  LET tn == CHOOSE p \in Chain(t) : t[p].children_ = <<>> \/ ~is_elidable(t, p)
  IN IF t[tn].children_ = <<>> /\ tn # <<>> THEN Front(tn) ELSE tn

\* The end of discover_functions(), with setup_builtin_intercepts() on the new
\* root (their mocks of syslog() and exit() are numbered -1 and -2).
detach_common ==
  /\ phase = "scan" /\ phase' = "ready"
  /\ root_' = detached(tree)
  /\ tree' = add_mock(add_mock(tree, root_', -1), root_', -2)
  /\ UNCHANGED prog

Discover ==
  \/ \E f \in Kinds : scan(f)
  \/ detach_common

-----------------------------------------------------------------------------
(* What the rest of the program asks of the tree.                          *)

Reachable == {p \in DOMAIN tree : IsPrefix(root_, p)}

\* From the node itself up to the root.
Ancestry(p) == [n \in 1 .. Len(p) - Len(root_) + 1 |-> SubSeq(p, 1, Len(p) - n + 1)]

\* The names down from the root, joined by dots; the filesystem's root has none.
\* The loop over the ancestors ends with the node itself.
get_fullname_Leaf(p) == IF p = <<>> THEN <<>> ELSE p[Len(p)]
get_fullname(p) ==
  FlattenSeq([n \in 1 .. Len(p) - Max({Len(root_), 1}) + 1 |-> p[n + Max({Len(root_), 1}) - 1]])

get_fixtures(p, type) ==
  LET has == SelectSeq(Ancestry(p), LAMBDA a : tree[a][type] # None)
      fns == [n \in DOMAIN has |-> tree[has[n]][type]]
  IN IF type = "before" THEN Reverse(fns) ELSE fns

\* The parameters that apply, each with its index at its first value.
create_assignments(p) ==
  LET ps == FlattenSeq([n \in DOMAIN Ancestry(p) |-> tree[Ancestry(p)[n]].params])
  IN [n \in DOMAIN ps |-> [idx |-> 0, size |-> prog[ps[n]].values]]

\* Is p visited before q: children in order, a parent before its children.
Precedes(p, q) ==
  \/ IsStrictPrefix(p, q)
  \/ \E n \in 1 .. Min({Len(p), Len(q)}) :
       /\ SubSeq(p, 1, n - 1) = SubSeq(q, 1, n - 1) /\ p[n] # q[n]
       /\ LET c == tree[SubSeq(p, 1, n - 1)].children_
          IN \E i, j \in DOMAIN c : i < j /\ c[i] = p[n] /\ c[j] = q[n]

\* find(): the first node in preorder with that full name.
NoNode == <<<<"no node">>>>
find(nm) ==
  LET hits == {p \in Reachable : p # <<>> /\ get_fullname(p) = nm}
  IN IF hits = {} THEN NoNode ELSE CHOOSE p \in hits : \A q \in hits \ {p} : Precedes(p, q)

TreeSpec == Init /\ [][Discover]_treevars

-----------------------------------------------------------------------------
TypeOK ==
  /\ Len(prog) <= MaxFunctions /\ phase \in {"scan", "ready"}
  /\ root_ \in DOMAIN tree
  /\ \A p \in DOMAIN tree : p # <<>> => Front(p) \in DOMAIN tree

\* Discovery loses nothing: what a test gets from the pruned tree (itself, its
\* fixtures in order, its mocks and its parameters) is all that the program
\* declares in its file and for its directories (functions.rst, fixtures.rst).
NothingPruned ==
  phase = "ready" => \A id \in DOMAIN prog :
    LET f == prog[id]
        p == test_name(f)
        type == classify_function(f)
    IN Wanted(f) =>
         /\ p \in Reachable
         /\ type \in Singular => tree[p][type] \in 1 .. id
         /\ type = "param" =>
              \A q \in Reachable : IsPrefix(p, q) =>
                \E n \in DOMAIN Ancestry(q) : id \in ToSet(tree[Ancestry(q)[n]].params)

\* "The root is then pruned until the test names are as short as possible"
\* (functions.rst:46-47), but a single test keeps two levels
\* (the corner case of detach_common()).
NamesShort ==
  phase = "ready" =>
    \A id \in DOMAIN prog :
      Wanted(prog[id]) /\ classify_function(prog[id]) = "test" =>
        /\ test_name(prog[id]) = root_ => tree[root_].children_ # <<>>
        /\ Len(tree[root_].children_) = 1 /\ root_ # <<>> =>
             \/ tree[root_].params # <<>> \/ Len(tree[root_].mocks) > 2
             \/ \E ft \in Singular : tree[root_][ft] # None
             \/ tree[Append(root_, tree[root_].children_[1])].children_ = <<>>

\* The full name --list prints for a node is the one that selects it
\* (building.rst:185-188, find()).
FullNamesIdentify ==
  phase = "ready" => \A p \in Reachable \ {<<>>} : find(get_fullname(p)) = p

\* Every test is below the node of its file, whose full name the JUnit listener
\* gives to the suite (find_case(), junit_listener.cxx:160): the root that
\* detach_common() leaves without a parent is not a test itself.
\* The code does not keep this, and no run checks it.
EveryTestHasSuite ==
  phase = "ready" => \A p \in Reachable : tree[p].test # None => p # root_

\* Only functions with a documented name become tests (functions.rst:10-16:
\* test_foo, testFoo and TestFoo).
\* The code does not keep this, and no run checks it.
OnlyDocumentedNames ==
  \A p \in DOMAIN tree : tree[p].test # None =>
    LET f == prog[tree[p].test]
    IN \/ f.head = "test_"
       \/ f.head = "test" /\ f.next = "upper"
=============================================================================
