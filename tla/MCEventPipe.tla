---------------------------- MODULE MCEventPipe ----------------------------
(***************************************************************************)
(* Values for the constants of EventPipe.  A pipe takes five bytes, two of *)
(* them in one piece, and a trace buffer holds seven: the strings are      *)
(* longer than the one, and the long trace than the others.  The second    *)
(* process is one that the test forks and that only waits.                 *)
(***************************************************************************)
EXTENDS EventPipe

TwoProcesses == {1, 2}
Waits == {FALSE}
Strings3 == {<<70, 71, 72>>}
NoneAndLong == {<<>>, [i \in 1 .. 9 |-> 80]}
PassOrFail == {6, 7}
TheFile == <<90, 91>>
Freed == <<99>>

\* Whatever was cut short, handle_call() leaves the runner's side of the pipe in
\* a state its types allow, and the result of the test accounts for every event.
ResultKept == TypeOK /\ ResultArrives

=============================================================================
