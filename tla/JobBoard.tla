------------------------------ MODULE JobBoard ------------------------------
(***************************************************************************)
(* What a run of the plan promises its caller and its listeners, whatever  *)
(* the test processes do: jobs begin in plan order, at most maxchildren_   *)
(* at a time, each job that has begun is given one result, once, and the   *)
(* value returned says whether any of them was FAIL.                       *)
(***************************************************************************)
EXTENDS Results, FiniteSets

CONSTANTS NJobs, maxchildren_

VARIABLES
  begun,     \* number of jobs the listeners were told have begun
  open,      \* jobs begun and not ended
  verdict,   \* the result each job ended with; R_UNKNOWN before
  returned   \* "no", or what np_run_tests() returned

boardVars == <<begun, open, verdict, returned>>

Init ==
  /\ begun = 0
  /\ open = {}
  /\ verdict = [j \in 1 .. NJobs |-> R_UNKNOWN]
  /\ returned = "no"

Begin ==
  /\ begun < NJobs /\ Cardinality(open) < maxchildren_
  /\ begun' = begun + 1
  /\ open' = open \cup {begun + 1}
  /\ UNCHANGED <<verdict, returned>>

End(j) ==
  /\ j \in open
  /\ open' = open \ {j}
  /\ verdict[j] = R_UNKNOWN
  /\ \E r \in {R_PASS, R_NOTAPPLICABLE, R_FAIL} : verdict' = [verdict EXCEPT ![j] = r]
  /\ UNCHANGED <<begun, returned>>

Return ==
  /\ begun = NJobs /\ open = {} /\ returned = "no"
  /\ returned' = IF \E j \in 1 .. NJobs : verdict[j] = R_FAIL
                 THEN "failure" ELSE "success"
  /\ UNCHANGED <<begun, open, verdict>>

Next == Begin \/ (\E j \in 1 .. NJobs : End(j)) \/ Return

Spec == Init /\ [][Next]_boardVars

=============================================================================
