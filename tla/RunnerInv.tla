----------------------------- MODULE RunnerInv ------------------------------
(***************************************************************************)
(* The inductive invariants behind the properties of Runner.  IInv holds   *)
(* in every surroundings; QuietInv adds what holds when poll() is never    *)
(* interrupted with nothing to read.                                       *)
(***************************************************************************)
EXTENDS Runner

\* children_ holds the processes that exist; jobs past the iterator have none.
ProcInv ==
  \A j \in Jobs :
    /\ j \in children_ <=> proc[j] \in {"alive", "zombie"}
    /\ j >= pitr <=> proc[j] = "unborn"
    /\ status[j] = "none" <=> proc[j] \in {"unborn", "alive"}
    /\ proc[j] = "unborn" => state_[j] = "RUNNING"

\* Only the two phases that deal with finished children ever see one, and
\* what poll() reported concerns children that are not finished yet.
FinishedInv ==
  /\ phase \notin {"dispatch", "reap_finished"} => Finished = {}
  /\ phase = "dispatch" /\ nfinished = 0 => Finished = {}
  /\ phase \notin {"dispatch", "reap_any"} => nfinished = 0
  /\ \A j \in Jobs : revents[j] # {} => phase = "dispatch" /\ j \in Unfinished

\* nrunning_ never counts too few, so no child too many is ever forked.
CountInv ==
  /\ Cardinality(Unfinished) + nfinished <= nrunning_
  /\ Cardinality(children_) <= maxchildren_

\* run_tests() leaves its loop only after the last job, and returns with no
\* child left.
PhaseInv ==
  /\ phase \in {"drain", "done"} => pitr = NJobs + 1
  /\ phase = "done" => children_ = {}

\* The signals sent follow the state of the child; a signalled child failed.
SignalInv ==
  \A j \in Jobs :
    /\ state_[j] = "RUNNING" => sig[j] = "none"
    /\ state_[j] = "TIMEOUT1" => sig[j] = "SIGTERM"
    /\ state_[j] = "TIMEOUT2" => sig[j] = "SIGKILL"
    /\ sig[j] # "none" => result_[j] = R_FAIL /\ timeout_
    /\ overdue[j] => timeout_

\* The listeners have been told the result of the reaped jobs and no other.
VerdictInv ==
  \A j \in Jobs :
    /\ proc[j] # "reaped" => verdict[j] = R_UNKNOWN
    /\ proc[j] = "reaped" => /\ verdict[j] = result_[j]
                             /\ verdict[j] # R_UNKNOWN
                             /\ status[j] # "exit0" => verdict[j] = R_FAIL

Reported == {j \in Jobs : verdict[j] # R_UNKNOWN}
Failed == {j \in Jobs : verdict[j] = R_FAIL}

\* The runner's totals agree with what the listeners were told.
TallyInv ==
  /\ nrun_ = Cardinality(Reported)
  /\ nfailed_ = Cardinality(Failed)

\* The inductive invariant of the runner in any surroundings.
IInv ==
  /\ TypeOK
  /\ ProcInv
  /\ FinishedInv
  /\ CountInv
  /\ PhaseInv
  /\ SignalInv
  /\ VerdictInv
  /\ TallyInv

-----------------------------------------------------------------------------

\* No test leaves its pipe open in another process, and poll() sees a child's
\* last words before it sees the child's death.
Quiet == "grandchild" \notin Env /\ "scan_race" \notin Env

\* Then SIGCHLD alone never ends poll(), and nrunning_ is exact.
ExactInv ==
  /\ \A j \in Jobs : ~held[j]
  /\ phase \notin {"reap_any", "drain", "aborted"}
  /\ Cardinality(Unfinished) + nfinished = nrunning_
  /\ phase \in {"wait", "polling", "dispatch"} => nrunning_ > 0
  /\ phase = "polling" /\ eintr => \E j \in children_ : proc[j] = "zombie"

\* What the pipes and revents say about each other and about the child.
PipeInv ==
  \A j \in Jobs :
    /\ pipe[j] # << >> => first[j] # R_UNKNOWN
    /\ \A i \in 1 .. Len(pipe[j]) : pipe[j][i].call = "FINISHED" => over[j]
    /\ over[j] => first[j] # R_UNKNOWN
    /\ "POLLHUP" \in revents[j] => proc[j] # "alive"
    /\ revents[j] = {"POLLHUP"} => pipe[j] = << >>
    /\ state_[j] = "FINISHED" /\ proc[j] = "alive" => over[j]
    /\ proc[j] = "unborn" => pipe[j] = << >> /\ first[j] = R_UNKNOWN

\* The first message has been merged, or it is the next one to be read.
FirstInv ==
  \A j \in Jobs :
    \/ first[j] = R_UNKNOWN
    \/ result_[j] >= first[j]
    \/ /\ pipe[j] # << >> /\ Head(pipe[j]).res = first[j]
       /\ state_[j] # "FINISHED" /\ proc[j] # "reaped"

\* The inductive invariant of the runner in quiet surroundings.
QuietInv == IInv /\ ExactInv /\ PipeInv /\ FirstInv

=============================================================================
