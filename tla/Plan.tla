-------------------------------- MODULE Plan --------------------------------
(***************************************************************************)
(* A plan (plan.cxx): the nodes the command line names, and the iterator   *)
(* with which the runner makes one job after another of the tests at or    *)
(* below them, once for each combination of their parameters' values.      *)
(***************************************************************************)
EXTENDS TestTree

CONSTANTS
  MaxSpecs        \* bound on the specifications on the command line

VARIABLES
  nodes_,     \* the plan's nodes
  asked,      \* how many specifications were given
  vitr_,      \* the iterator: an index of nodes_
  nitr_,      \* ... the preorder iterator's base_ and node_
  assigns_,   \* ... and the assignments
  jobs,       \* the jobs made so far
  pc

planvars == <<nodes_, asked, vitr_, nitr_, assigns_, jobs, pc>>
vars == <<treevars, planvars>>

PlanInit ==
  /\ Init
  /\ nodes_ = <<>> /\ asked = 0 /\ vitr_ = 1
  /\ nitr_ = [base |-> NoNode, node |-> NoNode]
  /\ assigns_ = <<>> /\ jobs = <<>> /\ pc = "plan"

\* add_specs() for one name: the node is added, or the rest is given up.
add_specs(nm) ==
  /\ phase = "ready" /\ pc = "plan" /\ asked < MaxSpecs
  /\ asked' = asked + 1
  /\ IF find(nm) = NoNode
     THEN pc' = "begin" /\ UNCHANGED nodes_
     ELSE nodes_' = Append(nodes_, find(nm)) /\ UNCHANGED pc
  /\ UNCHANGED <<treevars, vitr_, nitr_, assigns_, jobs>>

\* Without a plan the runner makes one of the whole tree.
run_tests ==
  /\ phase = "ready" /\ pc = "plan"
  /\ pc' = "begin"
  /\ nodes_' = IF asked = 0 THEN <<root_>> ELSE nodes_
  /\ UNCHANGED <<treevars, asked, vitr_, nitr_, assigns_, jobs>>

\* The iterator's constructor.
begin ==
  /\ pc = "begin"
  /\ IF nodes_ = <<>> THEN pc' = "done" /\ UNCHANGED nitr_
     ELSE pc' = "find" /\ nitr_' = [base |-> nodes_[1], node |-> nodes_[1]]
  /\ UNCHANGED <<treevars, nodes_, asked, vitr_, assigns_, jobs>>

\* The next sibling of a node; the base's siblings are not below the base.
HasNext(p) ==
  /\ p # root_
  /\ LET c == tree[Front(p)].children_ IN p[Len(p)] # c[Len(c)]
next_(p) ==
  LET c == tree[Front(p)].children_
      i == CHOOSE i \in DOMAIN c : c[i] = p[Len(p)]
  IN Append(Front(p), c[i + 1])

\* The nodes from p up to the base, the base not among them.
Climb(it) == {SubSeq(it.node, 1, n) : n \in Len(it.base) + 1 .. Len(it.node)}

preorder_next(it) ==
  LET c == tree[it.node].children_
      up == {a \in Climb(it) : HasNext(a)}
  IN IF c # <<>> THEN [it EXCEPT !.node = Append(@, c[1])]
     ELSE IF up = {} THEN [it EXCEPT !.node = NoNode]
     ELSE [it EXCEPT !.node = next_(CHOOSE a \in up : \A b \in up : Len(b) <= Len(a))]

\* find_testable_node(), one turn of its loop.  Past the end of a subtree the
\* preorder iterator is not moved to the next one, so its node is null.
Turn(further, last) ==
  /\ pc = "find"
  /\ LET over == nitr_.node = NoNode
     IN /\ vitr_' = IF over THEN vitr_ + 1 ELSE vitr_
        /\ CASE over /\ vitr_ = last -> pc' = "done" /\ UNCHANGED <<nitr_, assigns_>>
             [] over /\ vitr_ < last -> pc' = "crashed" /\ UNCHANGED <<nitr_, assigns_>>
             [] ~over /\ tree[nitr_.node].test # None ->
                  /\ pc' = "found" /\ assigns_' = create_assignments(nitr_.node)
                  /\ UNCHANGED nitr_
             [] ~over /\ tree[nitr_.node].test = None ->
                  nitr_' = further /\ UNCHANGED <<pc, assigns_>>
  /\ UNCHANGED <<treevars, nodes_, asked, jobs>>

\* The loop does not move on from a node without a test.
find_testable_node_Stays == Turn(nitr_, Len(nodes_))
find_testable_node == Turn(preorder_next(nitr_), Len(nodes_))

\* The runner makes a job of the node and the assignments.
begin_job ==
  /\ pc = "found" /\ pc' = "bump"
  /\ jobs' = Append(jobs, [node |-> nitr_.node, idx |-> [n \in DOMAIN assigns_ |-> assigns_[n].idx]])
  /\ UNCHANGED <<treevars, nodes_, asked, vitr_, nitr_, assigns_>>

\* The first parameter with a value left is moved on and those before it reset.
\* Those before it are forgotten.
bump_NoReset(a) ==
  LET left == {n \in DOMAIN a : a[n].idx + 1 < a[n].size}
  IN IF left = {} THEN <<>> ELSE [a EXCEPT ![Min(left)].idx = @ + 1]
bump(a) ==
  LET left == {n \in DOMAIN a : a[n].idx + 1 < a[n].size}
  IN IF left = {} THEN <<>>
     ELSE [n \in DOMAIN a |->
             [a[n] EXCEPT !.idx = IF n < Min(left) THEN 0
                                  ELSE IF n = Min(left) THEN @ + 1 ELSE @]]

\* operator++.
plus_plus ==
  /\ pc = "bump"
  /\ assigns_' = bump(assigns_)
  /\ IF bump(assigns_) # <<>> THEN pc' = "found" /\ UNCHANGED nitr_
     ELSE pc' = "find" /\ nitr_' = preorder_next(nitr_)
  /\ UNCHANGED <<treevars, nodes_, asked, vitr_, jobs>>

\* The names a command line may hold: those of nodes, and a wrong one.
Names == {get_fullname(p) : p \in Reachable} \cup {<<"wrong">>}

Ended == pc \in {"done", "crashed"} /\ UNCHANGED vars

Next ==
  \/ Discover /\ UNCHANGED planvars
  \/ phase = "ready" /\ \E nm \in Names : add_specs(nm)
  \/ run_tests \/ begin \/ find_testable_node \/ begin_job \/ plus_plus
  \/ Ended

\* One thread runs all this; nothing waits.
Spec == PlanInit /\ [][Next]_vars /\ WF_vars(Next)

-----------------------------------------------------------------------------
PlanTypeOK ==
  /\ TypeOK
  /\ vitr_ \in 1 .. Len(nodes_) + 1
  /\ nitr_.node # NoNode => IsPrefix(nitr_.base, nitr_.node)
  /\ ToSet(nodes_) \subseteq DOMAIN tree

\* The combinations of the values of a test's parameters.
Combinations(p) ==
  LET a == create_assignments(p)
  IN {s \in [DOMAIN a -> 0 .. 1] : \A n \in DOMAIN a : s[n] < a[n].size}

Below(p) == {q \in Reachable : IsPrefix(p, q) /\ tree[q].test # None}

Wished == UNION {{[node |-> q, idx |-> s] : s \in Combinations(q)} :
                   q \in UNION {Below(p) : p \in ToSet(nodes_)}}

\* The tests at or below the plan's nodes are run once for each combination of
\* their parameters (building.rst:188, parameters.rst:57-58), none other, and
\* none twice.
EachJobOnce ==
  /\ pc = "done" => ToSet(jobs) = Wished
  /\ \A m, n \in DOMAIN jobs : m # n => jobs[m] # jobs[n]

\* "Tests are started in test node traversal order" (building.rst:188-189).
TraversalOrder ==
  \A m, n \in DOMAIN jobs :
    m < n => jobs[m].node = jobs[n].node \/ Precedes(jobs[m].node, jobs[n].node)

\* The iterator is only dereferenced on a node (plan.cxx:145-146 lets several
\* specifications be added).
NoNullNode == pc # "crashed"
=============================================================================
