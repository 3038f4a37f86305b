------------------------------- MODULE Runner -------------------------------
(***************************************************************************)
(* The parent process of a NovaProva run (np/runner.cxx, np/child.cxx and  *)
(* the reading half of np/proxy_listener.cxx) together with the processes  *)
(* it forks, the pipes it reads and the signals it receives.               *)
(*                                                                         *)
(* The parent forks one child per job, keeps at most maxchildren_ of them, *)
(* sleeps in poll() on their pipes, and reports one result per job to its  *)
(* listeners when it reaps the child.  A child writes EVENT messages and,  *)
(* when its test is over, one FINISHED message, and exits.                 *)
(*                                                                         *)
(* Jobs are numbered in the order of the plan.  Children are pushed onto   *)
(* children_ in that order and erased from anywhere, so children_ is the   *)
(* set of job numbers it holds and its order is the order of the numbers.  *)
(*                                                                         *)
(* Time is abstracted to whether a child's deadline has passed.  The half  *)
(* millisecond by which poll()'s rounding may wake the parent early is not *)
(* modelled, and neither are errors of poll() and waitpid() other than     *)
(* EINTR and ECHILD.                                                       *)
(***************************************************************************)
EXTENDS Results, Integers, Sequences, FiniteSets

CONSTANTS
  NJobs,         \* number of jobs the plan yields
  maxchildren_,  \* as set_concurrency() leaves it
  MaxEvents,     \* bound: EVENT messages a child may send
  EventResults,  \* results the events of a test may have
  Env            \* what the surroundings may do, a subset of Surroundings

(***************************************************************************)
(* What the surroundings may do beyond running tests that pass, fail,      *)
(* crash or hang:                                                          *)
(*  "grandchild"  a test forks a process that keeps the pipe's write end;  *)
(*  "torn"        a child is seen, or dies, half way through a message;    *)
(*  "scan_race"   a child writes or dies after poll() has looked at its    *)
(*                pipe and before poll() looks for pending signals;        *)
(*  "fork_fails"  fork() fails until the retries are used up.              *)
(***************************************************************************)
Surroundings == {"grandchild", "torn", "scan_race", "fork_fails"}

ASSUME NJobsAssumption == NJobs \in Nat
ASSUME MaxChildrenAssumption == maxchildren_ \in Nat \ {0}
ASSUME MaxEventsAssumption == MaxEvents \in Nat
ASSUME EventResultsAssumption == EventResults \subseteq {R_PASS, R_NOTAPPLICABLE, R_FAIL}
ASSUME EnvAssumption == Env \subseteq Surroundings

Jobs == 1 .. NJobs

VARIABLES
  phase,             \* where run_tests() is, one of Phases
  pitr,              \* the plan iterator: the next job to begin
  children_,         \* jobs whose child has been forked and not reaped
  nrunning_,
  timeout_,          \* FALSE under a debugger: no deadlines
  nfinished,         \* the local of wait()
  revents,           \* what the last poll() returned and is not yet handled
  eintr,             \* SIGCHLD has been caught while in poll()
  state_, result_,   \* of each child_t
  overdue,           \* the child's current deadline_ has passed
  sig,               \* the last signal the parent sent the child
  nrun_, nfailed_,
  verdict,           \* result given to the listeners' end_job; R_UNKNOWN before
  proc, status,      \* the child process, and how it ended
  held,              \* another process also has the pipe's write end
  pipe, partial,     \* unread complete messages; bytes of an incomplete one
  over,              \* the child has sent FINISHED
  nevents,           \* EVENT messages the child has sent
  sent, first        \* merged result of all it sent; result of the first

sched == <<pitr, children_, nrunning_, timeout_>>
waiting == <<nfinished, revents, eintr>>
childObjs == <<state_, result_, overdue, sig>>
tally == <<nrun_, nfailed_, verdict>>
procs == <<proc, status>>
pipes == <<pipe, partial, held>>
script == <<over, nevents, sent, first>>
vars == <<phase, sched, waiting, childObjs, tally, procs, pipes, script>>

Message == [call : {"EVENT", "FINISHED"}, res : result_t]

Phases == {"schedule",      \* run_tests(): begin jobs, or stop
           "wait",          \* wait(): building pfd_
           "polling",       \* wait(): inside poll()
           "dispatch",      \* wait(): poll() returned ready descriptors
           "reap_any",      \* wait(): reap_children(-1, WNOHANG) after EINTR
           "reap_finished", \* wait(): reaping the finished children
           "drain",         \* run_tests(): reap_children(-1, 0)
           "done",          \* run_tests() returned
           "aborted",       \* an assert() in wait() failed
           "exited"}        \* fork_child() called exit(1)

child_state == {"RUNNING", "TIMEOUT1", "TIMEOUT2", "FINISHED"}

\* A child_t and the runner_t are zeroed when allocated (util/common.hxx).
Init ==
  /\ phase = "schedule"
  /\ pitr = 1
  /\ children_ = {}
  /\ nrunning_ = 0
  /\ timeout_ \in BOOLEAN
  /\ nfinished = 0
  /\ revents = [j \in Jobs |-> {}]
  /\ eintr = FALSE
  /\ state_ = [j \in Jobs |-> "RUNNING"]
  /\ result_ = [j \in Jobs |-> R_UNKNOWN]
  /\ overdue = [j \in Jobs |-> FALSE]
  /\ sig = [j \in Jobs |-> "none"]
  /\ nrun_ = 0
  /\ nfailed_ = 0
  /\ verdict = [j \in Jobs |-> R_UNKNOWN]
  /\ proc = [j \in Jobs |-> "unborn"]
  /\ status = [j \in Jobs |-> "none"]
  /\ held = [j \in Jobs |-> FALSE]
  /\ pipe = [j \in Jobs |-> << >>]
  /\ partial = [j \in Jobs |-> FALSE]
  /\ over = [j \in Jobs |-> FALSE]
  /\ nevents = [j \in Jobs |-> 0]
  /\ sent = [j \in Jobs |-> R_UNKNOWN]
  /\ first = [j \in Jobs |-> R_UNKNOWN]

-----------------------------------------------------------------------------
(* The children_ vector and poll().                                        *)

is_finished(j) == state_[j] = "FINISHED"
Unfinished == {j \in children_ : ~is_finished(j)}
Finished == {j \in children_ : is_finished(j)}
IsFirst(j, S) == j \in S /\ \A k \in S : j <= k

\* deadline_ is not 0, so it bounds the time poll() may sleep.
HasDeadline_OnlyOnce(j) == timeout_ /\ state_[j] = "RUNNING"
HasDeadline(j) == timeout_ /\ state_[j] \in {"RUNNING", "TIMEOUT1"}

\* What poll() would report on j's pipe now.
WriterGone(j) == proc[j] # "alive" /\ ~held[j]
Events(j) == (IF pipe[j] # << >> \/ partial[j] THEN {"POLLIN"} ELSE {})
               \cup (IF WriterGone(j) THEN {"POLLHUP"} ELSE {})
Ready == {j \in Unfinished : Events(j) # {}}

-----------------------------------------------------------------------------
(* run_tests() and begin_job().                                            *)

CanBegin_PastEnd == nrunning_ < maxchildren_
CanBegin_OneMore == nrunning_ <= maxchildren_ /\ pitr <= NJobs
CanBegin == nrunning_ < maxchildren_ /\ pitr <= NJobs

begin_job ==
  /\ phase = "schedule" /\ CanBegin
  /\ children_' = children_ \cup {pitr}
  /\ nrunning_' = nrunning_ + 1
  /\ proc' = [proc EXCEPT ![pitr] = "alive"]
  /\ pitr' = pitr + 1
  /\ UNCHANGED <<phase, timeout_, waiting, childObjs, tally, status,
                 pipes, script>>

\* fork_child() has used up its retries.
fork_fails ==
  /\ "fork_fails" \in Env
  /\ phase = "schedule" /\ CanBegin
  /\ phase' = "exited"
  /\ UNCHANGED <<sched, waiting, childObjs, tally, procs, pipes, script>>

\* No job can begin: call wait(), or stop when nothing runs.
schedule_done ==
  /\ phase = "schedule" /\ ~CanBegin
  /\ phase' = IF nrunning_ # 0 THEN "wait"
              ELSE IF children_ # {} THEN "drain" ELSE "done"
  /\ UNCHANGED <<sched, waiting, childObjs, tally, procs, pipes, script>>

-----------------------------------------------------------------------------
(* wait().                                                                 *)

\* Build pfd_, check the two assertions, enter poll().
enter_poll ==
  /\ phase = "wait"
  /\ phase' = IF Cardinality(Unfinished) = nrunning_ /\ Unfinished # {}
              THEN "polling" ELSE "aborted"
  /\ eintr' = FALSE
  /\ UNCHANGED <<sched, nfinished, revents, childObjs, tally, procs, pipes, script>>

poll_ready ==
  /\ phase = "polling"
  /\ Ready # {}
  /\ revents' = [j \in Jobs |-> IF j \in Ready THEN Events(j) ELSE {}]
  /\ phase' = "dispatch"
  /\ eintr' = FALSE
  /\ UNCHANGED <<sched, nfinished, childObjs, tally, procs, pipes, script>>

\* poll() reports EINTR only when its scan found no ready descriptor.
poll_eintr ==
  /\ phase = "polling" /\ eintr
  /\ Ready = {} \/ "scan_race" \in Env
  /\ phase' = "reap_any"
  /\ eintr' = FALSE
  /\ UNCHANGED <<sched, nfinished, revents, childObjs, tally, procs, pipes, script>>

\* child_t::handle_timeout on each of the children S.  Without timeouts
\* deadline_ is 0 and so in the past.
TimeoutResult_Dropped(r) == r
TimeoutResult(r) == merge(r, R_FAIL)
TimesOut(j) == state_[j] = "RUNNING" /\ (timeout_ => overdue[j])
Escalates(j) == state_[j] = "TIMEOUT1"
handle_timeout(S) ==
  LET First == {j \in S : TimesOut(j)}
      Second == {j \in S : Escalates(j)}
  IN /\ result_' = [j \in Jobs |-> IF j \in First THEN TimeoutResult(result_[j])
                                   ELSE result_[j]]
     /\ sig' = [j \in Jobs |-> IF j \in First THEN "SIGTERM"
                               ELSE IF j \in Second THEN "SIGKILL" ELSE sig[j]]
     /\ state_' = [j \in Jobs |-> IF j \in First THEN "TIMEOUT1"
                                  ELSE IF j \in Second THEN "TIMEOUT2"
                                  ELSE state_[j]]
     /\ overdue' = [j \in Jobs |-> j \notin First \cup Second /\ overdue[j]]

poll_timeout ==
  /\ phase = "polling"
  /\ Ready = {} /\ ~eintr
  /\ \E j \in Unfinished : HasDeadline(j) /\ overdue[j]
  /\ handle_timeout(Unfinished)
  /\ phase' = "wait"
  /\ UNCHANGED <<sched, waiting, tally, procs, pipes, script>>

\* proxy_listener_t::handle_call.  Reading an incomplete message blocks until
\* it is complete or no writer is left.
StopsCalling(j) == pipe[j] = << >> \/ Head(pipe[j]).call = "FINISHED"
handle_call(j) ==
  \/ /\ pipe[j] # << >>
     /\ result_' = [result_ EXCEPT ![j] = merge(@, Head(pipe[j]).res)]
     /\ pipe' = [pipe EXCEPT ![j] = Tail(@)]
  \/ /\ pipe[j] = << >> /\ WriterGone(j)
     /\ result_' = [result_ EXCEPT ![j] = merge(@, R_FAIL)]
     /\ UNCHANGED pipe

\* The POLLIN test comes before the POLLHUP test.
ReadsInput_HangupFirst(j) == revents[j] = {"POLLIN"}
ReadsInput(j) == "POLLIN" \in revents[j]

\* One turn of the loop over the descriptors: handle_input, handle_hangup.
dispatch(j) ==
  /\ phase = "dispatch"
  /\ IsFirst(j, {k \in Jobs : revents[k] # {}})
  /\ IF ReadsInput(j) THEN handle_call(j) ELSE UNCHANGED <<result_, pipe>>
  /\ LET finishes == \/ ReadsInput(j) /\ StopsCalling(j)
                     \/ "POLLHUP" \in revents[j]
     IN /\ state_' = IF finishes THEN [state_ EXCEPT ![j] = "FINISHED"] ELSE state_
        /\ nfinished' = IF finishes THEN nfinished + 1 ELSE nfinished
  /\ revents' = [revents EXCEPT ![j] = {}]
  /\ UNCHANGED <<phase, sched, eintr, overdue, sig, tally, procs, partial, held,
                 script>>

\* nrunning_ -= nfinished
StillRunning_Uncounted == nrunning_
StillRunning == nrunning_ - nfinished

\* The end of the loop body: reap what finished, or poll again.
handled ==
  /\ \/ phase = "dispatch" /\ \A j \in Jobs : revents[j] = {}
     \/ phase = "reap_any" /\ \A j \in children_ : proc[j] # "zombie"
  /\ phase' = IF nfinished # 0 THEN "reap_finished" ELSE "wait"
  /\ nrunning_' = StillRunning
  /\ nfinished' = 0
  /\ UNCHANGED <<pitr, children_, timeout_, revents, eintr, childObjs, tally,
                 procs, pipes, script>>

-----------------------------------------------------------------------------
(* reap_children().                                                        *)

\* What waitpid() says of j is merged into its result; if nothing went wrong
\* the test passes.
final_result_IgnoresExit(j) ==
  merge(IF status[j] # "signal" THEN result_[j] ELSE merge(result_[j], R_FAIL),
        R_PASS)
final_result_Overwrites(j) ==
  IF status[j] = "exit0" THEN R_PASS ELSE R_FAIL
final_result(j) ==
  merge(IF status[j] = "exit0" THEN result_[j] ELSE merge(result_[j], R_FAIL),
        R_PASS)

\* nfailed_ += (child->get_result() == R_FAIL), after the merges.
CountsAsFailed_TooEarly(j) == result_[j] = R_FAIL
CountsAsFailed(j) == final_result(j) = R_FAIL

\* One turn of the loop.  Deleting the child_t closes the pipe.
reap_child(j) ==
  /\ proc[j] = "zombie"
  /\ proc' = [proc EXCEPT ![j] = "reaped"]
  /\ result_' = [result_ EXCEPT ![j] = final_result(j)]
  /\ state_' = IF status[j] = "signal" THEN [state_ EXCEPT ![j] = "FINISHED"]
               ELSE state_
  /\ nfailed_' = IF CountsAsFailed(j) THEN nfailed_ + 1 ELSE nfailed_
  /\ nrun_' = nrun_ + 1
  /\ verdict' = [verdict EXCEPT ![j] = final_result(j)]
  /\ children_' = children_ \ {j}
  /\ overdue' = [overdue EXCEPT ![j] = FALSE]
  /\ pipe' = [pipe EXCEPT ![j] = << >>]
  /\ partial' = [partial EXCEPT ![j] = FALSE]
  /\ held' = [held EXCEPT ![j] = FALSE]

\* reap_children(-1, ...): any zombie, in the kernel's order.  The number it
\* returns leaves out a child that exited with 0.
reap_any(j) ==
  /\ phase \in {"reap_any", "drain"}
  /\ j \in children_
  /\ reap_child(j)
  /\ nfinished' = IF phase = "reap_any" /\ status[j] # "exit0"
                  THEN nfinished + 1 ELSE nfinished
  /\ UNCHANGED <<phase, pitr, nrunning_, timeout_, revents, eintr, sig, status,
                 script>>

\* reap_children(pid, 0) for the finished child that started first; blocks
\* until that child is a zombie.
reap_finished(j) ==
  /\ phase = "reap_finished"
  /\ IsFirst(j, Finished)
  /\ reap_child(j)
  /\ UNCHANGED <<phase, pitr, nrunning_, timeout_, waiting, sig, status, script>>

\* wait() returns to run_tests(), or run_tests() returns.
reaped ==
  /\ phase \in {"reap_finished", "drain"}
  /\ IF phase = "drain" THEN children_ = {} ELSE Finished = {}
  /\ phase' = IF phase = "drain" THEN "done" ELSE "schedule"
  /\ UNCHANGED <<sched, waiting, childObjs, tally, procs, pipes, script>>

\* run_tests() returns !!nfailed_.
exit_code == IF nfailed_ # 0 THEN 1 ELSE 0

-----------------------------------------------------------------------------
(* The child processes, their surroundings and the clock, while the parent *)
(* lives.                                                                  *)

Stopped == phase \in {"done", "aborted", "exited"}
Alive(j) == proc[j] = "alive" /\ ~Stopped

\* The child begins to write a message: serialise_uint(fd, call).
begin_message(j) ==
  /\ "torn" \in Env
  /\ Alive(j) /\ ~partial[j] /\ ~over[j]
  /\ partial' = [partial EXCEPT ![j] = TRUE]
  /\ UNCHANGED <<phase, sched, waiting, childObjs, tally, procs, pipe, held,
                 script>>

SendMessage(j, m) ==
  /\ Alive(j) /\ ~over[j] /\ (partial[j] <=> "torn" \in Env)
  /\ partial' = [partial EXCEPT ![j] = FALSE]
  /\ pipe' = [pipe EXCEPT ![j] = Append(@, m)]
  /\ sent' = [sent EXCEPT ![j] = merge(@, m.res)]
  /\ first' = [first EXCEPT ![j] = IF @ = R_UNKNOWN THEN m.res ELSE @]
  /\ UNCHANGED <<phase, sched, waiting, childObjs, tally, procs, held>>

\* proxy_listener_t::add_event.  Every event a test can raise has a result.
add_event(j) ==
  /\ nevents[j] < MaxEvents
  /\ \E r \in EventResults :
       SendMessage(j, [call |-> "EVENT", res |-> r])
  /\ nevents' = [nevents EXCEPT ![j] = @ + 1]
  /\ UNCHANGED over

\* proxy_listener_t::end_job: run_test_code() returned the merged result.
end_job(j) ==
  /\ SendMessage(j, [call |-> "FINISHED", res |-> merge(sent[j], R_PASS)])
  /\ over' = [over EXCEPT ![j] = TRUE]
  /\ UNCHANGED nevents

\* The process ends.  Its descriptors are closed before SIGCHLD is sent.
Dies(j, st) ==
  /\ Alive(j)
  /\ proc' = [proc EXCEPT ![j] = "zombie"]
  /\ status' = [status EXCEPT ![j] = st]
  /\ eintr' = (eintr \/ phase = "polling")
  /\ UNCHANGED <<phase, sched, nfinished, revents, childObjs, tally, pipes,
                 script>>

\* begin_job() in the child calls exit(0) after the FINISHED message.
child_exits(j) == over[j] /\ Dies(j, "exit0")

\* A crash, an _exit() in the test, or an exit handler that fails.
child_dies(j) == \E st \in {"exit0", "exitN", "signal"} : Dies(j, st)

\* The parent's signal takes effect; SIGTERM need not.
child_killed(j) == sig[j] # "none" /\ Dies(j, "signal")

grandchild_forked(j) ==
  /\ "grandchild" \in Env
  /\ Alive(j) /\ ~held[j]
  /\ held' = [held EXCEPT ![j] = TRUE]
  /\ UNCHANGED <<phase, sched, waiting, childObjs, tally, procs, pipe, partial,
                 script>>

grandchild_exits(j) ==
  /\ held[j] /\ ~Stopped
  /\ held' = [held EXCEPT ![j] = FALSE]
  /\ UNCHANGED <<phase, sched, waiting, childObjs, tally, procs, pipe, partial,
                 script>>

\* Children time out in the order they were started.
deadline_passes(j) ==
  /\ j \in children_ /\ HasDeadline(j) /\ ~overdue[j] /\ ~Stopped
  /\ \A k \in children_ : k < j /\ state_[j] = "RUNNING" /\ state_[k] = "RUNNING"
                            => overdue[k]
  /\ overdue' = [overdue EXCEPT ![j] = TRUE]
  /\ UNCHANGED <<phase, sched, waiting, state_, result_, sig, tally, procs,
                 pipes, script>>

-----------------------------------------------------------------------------

terminated == Stopped /\ UNCHANGED vars

Parent ==
  \/ begin_job \/ fork_fails \/ schedule_done
  \/ enter_poll \/ poll_ready \/ poll_eintr \/ poll_timeout \/ handled
  \/ reaped
  \/ \E j \in Jobs : dispatch(j) \/ reap_any(j) \/ reap_finished(j)

Child(j) ==
  \/ begin_message(j) \/ add_event(j) \/ end_job(j)
  \/ child_exits(j) \/ child_dies(j) \/ child_killed(j)
  \/ grandchild_forked(j) \/ grandchild_exits(j)

Next ==
  \/ Parent
  \/ \E j \in Jobs : Child(j) \/ deadline_passes(j)
  \/ terminated

Spec == Init /\ [][Next]_vars

(***************************************************************************)
(* The parent is one thread and always runs on.  A child that has begun to *)
(* write a message completes it and one that has sent FINISHED exits;      *)
(* SIGKILL is obeyed; time passes.  Nothing makes a test come to an end,   *)
(* nor a child obey SIGTERM, nor a grandchild go away.                     *)
(***************************************************************************)
Fairness ==
  /\ WF_vars(Parent)
  /\ \A j \in Jobs : /\ WF_vars(partial[j] /\ (add_event(j) \/ end_job(j)))
                     /\ WF_vars(child_exits(j))
                     /\ WF_vars(sig[j] = "SIGKILL" /\ child_killed(j))
                     /\ WF_vars(deadline_passes(j))

FairSpec == Spec /\ Fairness

-----------------------------------------------------------------------------
(* Properties.                                                             *)

\* Every variable of the runner, of its child_t objects and of the kernel
\* keeps its type; children_ holds only jobs that the plan iterator passed.
TypeOK ==
  /\ phase \in Phases
  /\ pitr \in 1 .. NJobs + 1
  /\ children_ \subseteq 1 .. pitr - 1
  /\ nrunning_ \in Int
  /\ timeout_ \in BOOLEAN
  /\ nfinished \in Nat
  /\ revents \in [Jobs -> SUBSET {"POLLIN", "POLLHUP"}]
  /\ eintr \in BOOLEAN
  /\ state_ \in [Jobs -> child_state]
  /\ result_ \in [Jobs -> result_t]
  /\ overdue \in [Jobs -> BOOLEAN]
  /\ sig \in [Jobs -> {"none", "SIGTERM", "SIGKILL"}]
  /\ nrun_ \in Nat
  /\ nfailed_ \in Nat
  /\ verdict \in [Jobs -> result_t]
  /\ proc \in [Jobs -> {"unborn", "alive", "zombie", "reaped"}]
  /\ status \in [Jobs -> {"none", "exit0", "exitN", "signal"}]
  /\ held \in [Jobs -> BOOLEAN]
  /\ pipe \in [Jobs -> Seq(Message)]
  /\ partial \in [Jobs -> BOOLEAN]
  /\ over \in [Jobs -> BOOLEAN]
  /\ nevents \in [Jobs -> 0 .. MaxEvents]
  /\ sent \in [Jobs -> result_t]
  /\ first \in [Jobs -> result_t]

\* The two assert()s in wait() hold: when pfd_ is built, nrunning_ counts the
\* children that are not finished and there is at least one.
AssertsHold == phase # "aborted"

\* No more than maxchildren_ test processes exist at any time, zombies
\* included, whatever nrunning_ says.
Concurrency ==
  Cardinality({j \in Jobs : proc[j] \in {"alive", "zombie"}}) <= maxchildren_

\* A test process that crashed, was killed or exited with a nonzero status is
\* reported FAIL, whatever it said on its pipe before (reap_children).  So is
\* one that was sent SIGTERM for running too long, even if it catches the
\* signal, sends FINISHED with PASS and exits with 0 (handle_timeout).
AbnormalEndFails ==
  \A j \in Jobs : /\ verdict[j] # R_UNKNOWN
                  /\ status[j] # "exit0" \/ sig[j] # "none"
                  => verdict[j] = R_FAIL

\* With timeouts disabled under a debugger the runner never signals a child,
\* although every deadline_ is then 0 and so in the past.
DebuggerNeverKills == ~timeout_ => \A j \in Jobs : sig[j] = "none"

\* When run_tests() returns, every job of the plan has a result, nrun_ counts
\* them, no child is left, and the exit code is 1 just when one is FAIL.
ReturnTellsAll ==
  phase = "done" =>
    /\ nrun_ = NJobs
    /\ children_ = {}
    /\ \A j \in Jobs : proc[j] = "reaped" /\ verdict[j] # R_UNKNOWN
    /\ exit_code = 1 <=> \E j \in Jobs : verdict[j] = R_FAIL

\* The first message a child completes is never lost: the job's result is at
\* least as bad as what that message carried.
FirstMessageCounts ==
  \A j \in Jobs : verdict[j] # R_UNKNOWN => verdict[j] >= first[j]

\* Everything a child says counts: the job's result is at least as bad as the
\* worst message it completed.  "If either the setup or teardown function
\* fails the test is marked FAILed" (fixtures.rst) needs this.
AllMessagesCount ==
  \A j \in Jobs : verdict[j] # R_UNKNOWN => verdict[j] >= sent[j]

\* A child's result only ever gets worse, a result once given to the listeners
\* is final, and the signals sent to a child only escalate.
Monotone ==
  [][\A j \in Jobs :
       /\ result_'[j] >= result_[j]
       /\ verdict[j] # R_UNKNOWN => verdict'[j] = verdict[j]
       /\ sig'[j] # sig[j] => <<sig[j], sig'[j]>> \in {<<"none", "SIGTERM">>,
                                                    <<"SIGTERM", "SIGKILL">>}]_vars

\* The runner keeps the promises of JobBoard to its listeners and caller.
Board == INSTANCE JobBoard WITH
           begun <- pitr - 1,
           open <- children_,
           returned <- IF phase # "done" THEN "no"
                       ELSE IF exit_code = 0 THEN "success" ELSE "failure"
BoardSpec == Board!Spec

\* With timeouts enabled run_tests() returns, however many tests hang or
\* ignore SIGTERM.
RunReturns == timeout_ ~> phase = "done"

\* A test that the runner has begun to kill is eventually reported: "NovaProva
\* will kill the child test process with SIGTERM and gracefully fail the test"
\* (failures.rst).
TimeoutReported == \A j \in Jobs : sig[j] # "none" ~> verdict[j] # R_UNKNOWN

=============================================================================
