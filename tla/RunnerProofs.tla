---------------------------- MODULE RunnerProofs ----------------------------
(***************************************************************************)
(* Proofs about Runner, for any number of jobs and any concurrency.        *)
(***************************************************************************)
EXTENDS RunnerInv, FiniteSetTheorems, TLAPS

\* The results are small naturals, so merge() stays among them.
LEMMA MergeType ==
  ASSUME NEW r \in result_t, NEW s \in result_t
  PROVE  /\ merge(r, s) \in result_t
         /\ merge(r, s) >= r /\ merge(r, s) >= s
         /\ merge(r, s) \in {r, s}
BY DEF merge, result_t, R_UNKNOWN, R_FAIL

\* The four codes of np/types.hxx are results, in the order of their ordinals.
LEMMA ResultTypes ==
  /\ R_UNKNOWN \in result_t /\ R_PASS \in result_t
  /\ R_NOTAPPLICABLE \in result_t /\ R_FAIL \in result_t
  /\ \A r \in result_t : r \in Nat /\ r <= R_FAIL /\ (r # R_UNKNOWN => r >= R_PASS)
BY DEF result_t, R_UNKNOWN, R_PASS, R_NOTAPPLICABLE, R_FAIL

\* final_result() is a result, at least PASS, no better than what the child
\* had, and FAIL unless the process exited with 0.
LEMMA FinalResult ==
  ASSUME TypeOK, NEW j \in Jobs
  PROVE  /\ final_result(j) \in result_t
         /\ final_result(j) # R_UNKNOWN
         /\ final_result(j) >= result_[j]
         /\ status[j] # "exit0" => final_result(j) = R_FAIL
         /\ result_[j] = R_FAIL => final_result(j) = R_FAIL
BY DEF TypeOK, final_result, merge, result_t, R_UNKNOWN, R_PASS, R_FAIL

-----------------------------------------------------------------------------

\* Every operation of the runner and of its children keeps the types.
LEMMA TypeStep == TypeOK /\ [Next]_vars => TypeOK'
<1> SUFFICES ASSUME TypeOK, [Next]_vars PROVE TypeOK'
  OBVIOUS
<1> USE NJobsAssumption DEF TypeOK, Jobs, sched, waiting, childObjs, tally, procs,
        pipes, script
<1>1. CASE begin_job
  BY <1>1 DEF begin_job, CanBegin
<1>2. CASE fork_fails
  BY <1>2 DEF fork_fails, Phases
<1>3. CASE schedule_done
  BY <1>3 DEF schedule_done, Phases
<1>4. CASE enter_poll
  BY <1>4 DEF enter_poll, Phases
<1>5. CASE poll_ready
  BY <1>5 DEF poll_ready, Phases, Events
<1>6. CASE poll_eintr
  BY <1>6 DEF poll_eintr, Phases
<1>7. CASE poll_timeout
  <2>1. \A j \in Jobs : TimeoutResult(result_[j]) \in result_t
    BY MergeType, ResultTypes DEF TimeoutResult
  <2>2. /\ result_' \in [Jobs -> result_t]
        /\ sig' \in [Jobs -> {"none", "SIGTERM", "SIGKILL"}]
        /\ state_' \in [Jobs -> child_state]
        /\ overdue' \in [Jobs -> BOOLEAN]
    BY <1>7, <2>1 DEF poll_timeout, handle_timeout, child_state
  <2>3. QED
    BY <1>7, <2>2 DEF poll_timeout, Phases
<1>8. CASE handled
  BY <1>8 DEF handled, Phases, StillRunning
<1>9. CASE reaped
  BY <1>9 DEF reaped, Phases
<1>10. ASSUME NEW j \in Jobs, dispatch(j) PROVE TypeOK'
  <2> state_' \in [Jobs -> child_state] /\ nfinished' \in Nat
    BY <1>10 DEF dispatch, child_state
  <2> revents' \in [Jobs -> SUBSET {"POLLIN", "POLLHUP"}]
    BY <1>10 DEF dispatch
  <2>1. /\ result_' \in [Jobs -> result_t]
        /\ pipe' \in [Jobs -> Seq(Message)]
    <3>1. CASE handle_call(j) /\ pipe[j] # << >>
      <4>1. Head(pipe[j]) \in Message /\ Tail(pipe[j]) \in Seq(Message)
        BY <3>1
      <4>2. merge(result_[j], Head(pipe[j]).res) \in result_t
        BY <4>1, MergeType DEF Message
      <4>3. /\ result_' = [result_ EXCEPT ![j] = merge(@, Head(pipe[j]).res)]
            /\ pipe' = [pipe EXCEPT ![j] = Tail(@)]
        BY <3>1 DEF handle_call
      <4>4. QED
        BY <4>1, <4>2, <4>3
    <3>2. CASE handle_call(j) /\ pipe[j] = << >>
      <4>1. merge(result_[j], R_FAIL) \in result_t
        BY MergeType, ResultTypes
      <4>2. result_' = [result_ EXCEPT ![j] = merge(@, R_FAIL)] /\ pipe' = pipe
        BY <3>2 DEF handle_call
      <4>3. QED
        BY <4>1, <4>2
    <3>3. CASE UNCHANGED <<result_, pipe>>
      BY <3>3
    <3>4. QED
      BY <1>10, <3>1, <3>2, <3>3 DEF dispatch
  <2>2. QED
    BY <1>10, <2>1 DEF dispatch
<1>22. ASSUME NEW j \in Jobs, reap_child(j)
       PROVE  /\ result_' \in [Jobs -> result_t] /\ verdict' \in [Jobs -> result_t]
              /\ state_' \in [Jobs -> child_state]
              /\ proc' \in [Jobs -> {"unborn", "alive", "zombie", "reaped"}]
              /\ nrun_' \in Nat /\ nfailed_' \in Nat
              /\ children_' \subseteq 1 .. pitr - 1
              /\ overdue' \in [Jobs -> BOOLEAN] /\ partial' \in [Jobs -> BOOLEAN]
              /\ held' \in [Jobs -> BOOLEAN] /\ pipe' \in [Jobs -> Seq(Message)]
  <2>1. final_result(j) \in result_t
    BY FinalResult
  <2>2. result_' \in [Jobs -> result_t] /\ verdict' \in [Jobs -> result_t]
    BY <1>22, <2>1 DEF reap_child
  <2>3. /\ state_' \in [Jobs -> child_state]
        /\ proc' \in [Jobs -> {"unborn", "alive", "zombie", "reaped"}]
    BY <1>22 DEF reap_child, child_state
  <2>4. nrun_' \in Nat /\ nfailed_' \in Nat /\ children_' \subseteq 1 .. pitr - 1
    BY <1>22 DEF reap_child
  <2>5. /\ overdue' \in [Jobs -> BOOLEAN] /\ partial' \in [Jobs -> BOOLEAN]
        /\ held' \in [Jobs -> BOOLEAN] /\ pipe' \in [Jobs -> Seq(Message)]
    BY <1>22 DEF reap_child
  <2>6. QED
    BY <2>2, <2>3, <2>4, <2>5
<1>11. ASSUME NEW j \in Jobs, reap_any(j) PROVE TypeOK'
  <2>1. reap_child(j) /\ nfinished' \in Nat
    BY <1>11 DEF reap_any
  <2>2. UNCHANGED <<phase, pitr, nrunning_, timeout_, revents, eintr, sig, status, script>>
    BY <1>11 DEF reap_any
  <2>3. QED
    BY <1>22, <2>1, <2>2
<1>12. ASSUME NEW j \in Jobs, reap_finished(j) PROVE TypeOK'
  BY <1>12, <1>22 DEF reap_finished
<1>13. ASSUME NEW j \in Jobs, begin_message(j) PROVE TypeOK'
  BY <1>13 DEF begin_message
<1>14. ASSUME NEW j \in Jobs, NEW m \in Message, SendMessage(j, m)
       PROVE  /\ pipe' \in [Jobs -> Seq(Message)]
              /\ partial' \in [Jobs -> BOOLEAN]
              /\ sent' \in [Jobs -> result_t]
              /\ first' \in [Jobs -> result_t]
              /\ UNCHANGED <<phase, sched, waiting, childObjs, tally, procs, held>>
  <2>1. merge(sent[j], m.res) \in result_t /\ m.res \in result_t
    BY MergeType DEF Message
  <2>2. QED
    BY <1>14, <2>1 DEF SendMessage
<1>15. ASSUME NEW j \in Jobs, add_event(j) PROVE TypeOK'
  <2>1. PICK r \in EventResults : SendMessage(j, [call |-> "EVENT", res |-> r])
    BY <1>15 DEF add_event
  <2>2. [call |-> "EVENT", res |-> r] \in Message
    BY EventResultsAssumption, ResultTypes DEF Message
  <2>3. nevents' \in [Jobs -> 0 .. MaxEvents] /\ over' = over
    BY <1>15, MaxEventsAssumption DEF add_event
  <2>4. QED
    BY <1>14, <2>1, <2>2, <2>3
<1>16. ASSUME NEW j \in Jobs, end_job(j) PROVE TypeOK'
  <2>1. [call |-> "FINISHED", res |-> merge(sent[j], R_PASS)] \in Message
    BY MergeType, ResultTypes DEF Message
  <2>2. over' \in [Jobs -> BOOLEAN] /\ nevents' = nevents
    BY <1>16 DEF end_job
  <2>3. QED
    BY <1>14, <1>16, <2>1, <2>2 DEF end_job
<1>17. ASSUME NEW j \in Jobs, NEW st \in {"exit0", "exitN", "signal"}, Dies(j, st)
       PROVE  TypeOK'
  BY <1>17 DEF Dies
<1>18. ASSUME NEW j \in Jobs, grandchild_forked(j) \/ grandchild_exits(j) PROVE TypeOK'
  <2>1. CASE grandchild_forked(j)
    BY <2>1 DEF grandchild_forked
  <2>2. CASE grandchild_exits(j)
    BY <2>2 DEF grandchild_exits
  <2>3. QED
    BY <1>18, <2>1, <2>2
<1>19. ASSUME NEW j \in Jobs, deadline_passes(j) PROVE TypeOK'
  BY <1>19 DEF deadline_passes
<1>20. CASE UNCHANGED vars
  BY <1>20 DEF vars
<1> HIDE DEF TypeOK
<1>21. QED
  BY <1>1, <1>2, <1>3, <1>4, <1>5, <1>6, <1>7, <1>8, <1>9, <1>10, <1>11, <1>12,
     <1>13, <1>15, <1>16, <1>17, <1>18, <1>19, <1>20
     DEF Next, Parent, Child, child_exits, child_dies, child_killed, terminated

\* The first state is well typed.
LEMMA InitTypes == Init => TypeOK
<1> SUFFICES ASSUME Init PROVE TypeOK
  OBVIOUS
<1>1. pitr \in 1 .. NJobs + 1 /\ children_ \subseteq 1 .. pitr - 1
  BY NJobsAssumption DEF Init
<1>2. << >> \in Seq(Message) /\ 0 \in 0 .. MaxEvents
  BY MaxEventsAssumption
<1>3. /\ result_ \in [Jobs -> result_t] /\ verdict \in [Jobs -> result_t]
      /\ sent \in [Jobs -> result_t] /\ first \in [Jobs -> result_t]
  BY ResultTypes DEF Init
<1>4. /\ pipe \in [Jobs -> Seq(Message)] /\ nevents \in [Jobs -> 0 .. MaxEvents]
      /\ revents \in [Jobs -> SUBSET {"POLLIN", "POLLHUP"}]
  BY <1>2 DEF Init
<1>5. /\ timeout_ \in BOOLEAN /\ eintr \in BOOLEAN /\ overdue \in [Jobs -> BOOLEAN]
      /\ held \in [Jobs -> BOOLEAN] /\ partial \in [Jobs -> BOOLEAN]
      /\ over \in [Jobs -> BOOLEAN]
  BY DEF Init
<1>6. /\ phase \in Phases /\ state_ \in [Jobs -> child_state]
      /\ sig \in [Jobs -> {"none", "SIGTERM", "SIGKILL"}]
      /\ proc \in [Jobs -> {"unborn", "alive", "zombie", "reaped"}]
      /\ status \in [Jobs -> {"none", "exit0", "exitN", "signal"}]
  BY DEF Init, Phases, child_state
<1>7. nrunning_ \in Int /\ nfinished \in Nat /\ nrun_ \in Nat /\ nfailed_ \in Nat
  BY DEF Init
<1>8. QED
  BY <1>1, <1>3, <1>4, <1>5, <1>6, <1>7 DEF TypeOK

\* The types of the runner's state hold in every reachable state.
THEOREM TypeCorrect == Spec => []TypeOK
BY InitTypes, TypeStep, PTL DEF Spec

-----------------------------------------------------------------------------

\* A step of a child, of its surroundings or of the clock leaves the parent's
\* variables alone; it changes the process only by ending it.
LEMMA ChildFrame ==
  ASSUME NEW j \in Jobs, Child(j) \/ deadline_passes(j)
  PROVE  /\ UNCHANGED <<phase, pitr, children_, nrunning_, timeout_, nfinished,
                        revents, state_, result_, sig, nrun_, nfailed_, verdict>>
         /\ \/ UNCHANGED <<proc, status>>
            \/ \E st \in {"exit0", "exitN", "signal"} :
                  /\ proc[j] = "alive"
                  /\ proc' = [proc EXCEPT ![j] = "zombie"]
                  /\ status' = [status EXCEPT ![j] = st]
         /\ \/ UNCHANGED overdue
            \/ timeout_ /\ overdue' = [overdue EXCEPT ![j] = TRUE]
<1> USE DEF sched, waiting, childObjs, tally, procs, pipes, script
<1>1. CASE begin_message(j)
  BY <1>1 DEF begin_message
<1>2. CASE add_event(j)
  BY <1>2 DEF add_event, SendMessage
<1>3. CASE end_job(j)
  BY <1>3 DEF end_job, SendMessage
<1>4. ASSUME NEW st \in {"exit0", "exitN", "signal"}, Dies(j, st)
      PROVE  /\ UNCHANGED <<phase, pitr, children_, nrunning_, timeout_, nfinished,
                            revents, state_, result_, sig, nrun_, nfailed_,
                            verdict, overdue>>
             /\ proc[j] = "alive"
             /\ proc' = [proc EXCEPT ![j] = "zombie"]
             /\ status' = [status EXCEPT ![j] = st]
  BY <1>4 DEF Dies, Alive
<1>5. CASE \E st \in {"exit0", "exitN", "signal"} : Dies(j, st)
  BY <1>4, <1>5
<1>6. CASE grandchild_forked(j) \/ grandchild_exits(j)
  BY <1>6 DEF grandchild_forked, grandchild_exits
<1>7. CASE deadline_passes(j)
  BY <1>7 DEF deadline_passes, HasDeadline
<1>8. QED
  BY <1>1, <1>2, <1>3, <1>5, <1>6, <1>7
     DEF Child, child_exits, child_dies, child_killed

\* The actions of Next, with the children's put together.
LEMMA NextCases ==
  ASSUME [Next]_vars
  PROVE  \/ begin_job \/ fork_fails \/ schedule_done \/ enter_poll \/ poll_ready
         \/ poll_eintr \/ poll_timeout \/ handled \/ reaped
         \/ \E j \in Jobs : dispatch(j) \/ reap_any(j) \/ reap_finished(j)
         \/ \E j \in Jobs : Child(j) \/ deadline_passes(j)
         \/ UNCHANGED vars
BY DEF Next, Parent, terminated

\* The children and their states after a reaping.
LEMMA ReapFrame ==
  ASSUME TypeOK, NEW j \in Jobs, reap_any(j) \/ reap_finished(j)
  PROVE  /\ proc[j] = "zombie"
         /\ j \in children_
         /\ proc' = [proc EXCEPT ![j] = "reaped"]
         /\ children_' = children_ \ {j}
         /\ result_' = [result_ EXCEPT ![j] = final_result(j)]
         /\ verdict' = [verdict EXCEPT ![j] = final_result(j)]
         /\ \A k \in Jobs : k # j => state_'[k] = state_[k]
         /\ state_'[j] \in {state_[j], "FINISHED"}
         /\ overdue' = [overdue EXCEPT ![j] = FALSE]
         /\ UNCHANGED <<phase, pitr, nrunning_, timeout_, revents, sig, status>>
BY DEF reap_any, reap_finished, reap_child, IsFirst, Finished, TypeOK, waiting

\* poll() timing out touches only children that are not finished.
LEMMA TimeoutFrame ==
  ASSUME TypeOK, poll_timeout
  PROVE  /\ \A k \in Jobs : k \notin Unfinished =>
                state_'[k] = state_[k] /\ sig'[k] = sig[k] /\ result_'[k] = result_[k]
         /\ \A k \in Jobs : is_finished(k)' <=> is_finished(k)
         /\ phase = "polling" /\ phase' = "wait"
         /\ timeout_
         /\ UNCHANGED <<pitr, children_, nrunning_, timeout_, nfinished, revents,
                        nrun_, nfailed_, verdict, proc, status>>
BY DEF poll_timeout, handle_timeout, TimesOut, Escalates, TypeOK, is_finished,
       Unfinished, HasDeadline, sched, waiting, tally, procs

\* One turn of the loop over the descriptors touches one child, which is not
\* finished before and is finished just when it is counted.
LEMMA DispatchFrame ==
  ASSUME TypeOK, FinishedInv, NEW j \in Jobs, dispatch(j)
  PROVE  /\ phase = "dispatch" /\ revents[j] # {} /\ j \in Unfinished
         /\ revents' = [revents EXCEPT ![j] = {}]
         /\ \/ state_' = state_ /\ nfinished' = nfinished
            \/ /\ state_' = [state_ EXCEPT ![j] = "FINISHED"]
               /\ nfinished' = nfinished + 1
         /\ \A k \in Jobs : k # j => result_'[k] = result_[k]
         /\ UNCHANGED <<phase, pitr, children_, nrunning_, timeout_, nrun_, nfailed_,
                        verdict, sig, overdue, proc, status>>
<1>1. revents[j] # {} /\ phase = "dispatch"
  BY DEF dispatch, IsFirst
<1>2. \A k \in Jobs : k # j => result_'[k] = result_[k]
  BY DEF dispatch, handle_call, TypeOK
<1>3. QED
  BY <1>1, <1>2 DEF dispatch, FinishedInv, sched, tally, procs

-----------------------------------------------------------------------------

\* children_ always holds exactly the processes that exist.
LEMMA ProcStep == TypeOK /\ FinishedInv /\ ProcInv /\ [Next]_vars => ProcInv'
<1> SUFFICES ASSUME TypeOK, FinishedInv, ProcInv, [Next]_vars PROVE ProcInv'
  OBVIOUS
<1> USE DEF ProcInv
<1>1. CASE begin_job
  BY <1>1, NJobsAssumption DEF begin_job, CanBegin, TypeOK, Jobs, childObjs
<1>2. CASE fork_fails \/ schedule_done \/ enter_poll \/ poll_ready \/ poll_eintr
           \/ handled \/ reaped \/ UNCHANGED vars
  BY <1>2 DEF fork_fails, schedule_done, enter_poll, poll_ready, poll_eintr,
       handled, reaped, vars, sched, procs, childObjs
<1>3. CASE poll_timeout
  <2>1. \A k \in Jobs : proc[k] = "unborn" => k \notin Unfinished
    BY DEF Unfinished
  <2>2. QED
    BY <1>3, <2>1, TimeoutFrame
<1>4. ASSUME NEW j \in Jobs, dispatch(j) PROVE ProcInv'
  <2>1. /\ j \in children_
        /\ state_' = state_ \/ state_' = [state_ EXCEPT ![j] = "FINISHED"]
        /\ UNCHANGED <<pitr, children_, proc, status>>
    BY <1>4, DispatchFrame DEF Unfinished
  <2>2. \A k \in Jobs : proc[k] = "unborn" => state_'[k] = state_[k]
    BY <2>1 DEF TypeOK
  <2>3. QED
    BY <2>1, <2>2
<1>5. ASSUME NEW j \in Jobs, reap_any(j) \/ reap_finished(j) PROVE ProcInv'
  BY <1>5, ReapFrame DEF TypeOK
<1>6. ASSUME NEW j \in Jobs, Child(j) \/ deadline_passes(j) PROVE ProcInv'
  <2>1. UNCHANGED <<pitr, children_, state_>>
    BY <1>6, ChildFrame
  <2>2. CASE UNCHANGED <<proc, status>>
    BY <2>1, <2>2
  <2>3. ASSUME NEW st \in {"exit0", "exitN", "signal"}, proc[j] = "alive",
               proc' = [proc EXCEPT ![j] = "zombie"],
               status' = [status EXCEPT ![j] = st]
        PROVE  ProcInv'
    BY <2>1, <2>3 DEF TypeOK
  <2>4. QED
    BY <1>6, <2>2, <2>3, ChildFrame
<1>7. QED
  BY <1>1, <1>2, <1>3, <1>4, <1>5, <1>6, NextCases

\* A finished child is seen only while wait() deals with finished children.
LEMMA FinishedStep ==
  TypeOK /\ ProcInv /\ FinishedInv /\ [Next]_vars => FinishedInv'
<1> SUFFICES ASSUME TypeOK, ProcInv, FinishedInv, [Next]_vars PROVE FinishedInv'
  OBVIOUS
<1> USE DEF FinishedInv, Finished, Unfinished, is_finished
<1>1. CASE begin_job
  <2>1. pitr \in Jobs /\ state_[pitr] = "RUNNING"
    BY <1>1, NJobsAssumption DEF begin_job, CanBegin, TypeOK, Jobs, ProcInv
  <2>2. QED
    BY <1>1, <2>1 DEF begin_job, waiting, childObjs
<1>2. CASE fork_fails \/ schedule_done \/ enter_poll \/ poll_eintr
  BY <1>2 DEF fork_fails, schedule_done, enter_poll, poll_eintr, sched, waiting,
       childObjs
<1>3. CASE poll_ready
  BY <1>3 DEF poll_ready, Ready, sched, childObjs
<1>4. CASE poll_timeout
  <2>1. children_ \subseteq Jobs
    BY NJobsAssumption DEF TypeOK, Jobs
  <2>2. /\ \A k \in Jobs : state_'[k] = "FINISHED" <=> state_[k] = "FINISHED"
        /\ phase = "polling" /\ phase' = "wait"
        /\ UNCHANGED <<children_, nfinished, revents>>
    BY <1>4, TimeoutFrame
  <2>3. QED
    BY <2>1, <2>2
<1>5. CASE handled
  BY <1>5 DEF handled, childObjs, TypeOK
<1>6. CASE reaped
  BY <1>6 DEF reaped, sched, waiting, childObjs
<1>7. ASSUME NEW j \in Jobs, dispatch(j) PROVE FinishedInv'
  <2>1. /\ phase = "dispatch" /\ phase' = phase /\ children_' = children_
        /\ revents' = [revents EXCEPT ![j] = {}]
    BY <1>7, DispatchFrame
  <2>2. CASE state_' = state_ /\ nfinished' = nfinished
    BY <2>1, <2>2 DEF TypeOK
  <2>3. CASE state_' = [state_ EXCEPT ![j] = "FINISHED"] /\ nfinished' = nfinished + 1
    BY <2>1, <2>3 DEF TypeOK
  <2>4. QED
    BY <1>7, <2>2, <2>3, DispatchFrame
<1>8. ASSUME NEW j \in Jobs, reap_any(j) \/ reap_finished(j) PROVE FinishedInv'
  <2>1. phase \in {"reap_any", "drain", "reap_finished"}
    BY <1>8 DEF reap_any, reap_finished
  <2>2. phase # "reap_any" => nfinished' = nfinished
    BY <1>8 DEF reap_any, reap_finished, waiting
  <2>3. /\ children_' = children_ \ {j}
        /\ \A k \in Jobs : k # j => state_'[k] = state_[k]
        /\ UNCHANGED <<phase, revents>>
    BY <1>8, ReapFrame
  <2>4. children_ \subseteq Jobs
    BY NJobsAssumption DEF TypeOK, Jobs
  <2>5. QED
    BY <2>1, <2>2, <2>3, <2>4
<1>9. ASSUME NEW j \in Jobs, Child(j) \/ deadline_passes(j) PROVE FinishedInv'
  BY <1>9, ChildFrame
<1>10. CASE UNCHANGED vars
  BY <1>10 DEF vars, sched, waiting, childObjs
<1>11. QED
  BY <1>1, <1>2, <1>3, <1>4, <1>5, <1>6, <1>7, <1>8, <1>9, <1>10, NextCases

\* children_ is finite, and so is every part of it.
LEMMA ChildrenFinite ==
  ASSUME TypeOK
  PROVE  /\ children_ \subseteq Jobs
         /\ \A S : S \subseteq children_ => IsFiniteSet(S) /\ Cardinality(S) \in Nat
         /\ \A S, T : S \subseteq T /\ T \subseteq children_
                       => Cardinality(S) <= Cardinality(T)
<1>1. children_ \subseteq Jobs /\ IsFiniteSet(Jobs)
  BY NJobsAssumption, FS_Interval DEF TypeOK, Jobs
<1>2. \A S : S \subseteq children_ => IsFiniteSet(S)
  BY <1>1, FS_Subset
<1>3. QED
  BY <1>1, <1>2, FS_Subset, FS_CardinalityType

\* nrunning_ never counts too few of the children that are not finished.
LEMMA CountStep == IInv /\ [Next]_vars => CountInv'
<1> SUFFICES ASSUME IInv, [Next]_vars PROVE CountInv'
  OBVIOUS
<1> USE DEF IInv, CountInv
<1> children_ \subseteq Jobs /\ IsFiniteSet(children_) /\ Cardinality(children_) \in Nat
  BY ChildrenFinite
<1> IsFiniteSet(Unfinished) /\ Cardinality(Unfinished) \in Nat
  BY ChildrenFinite DEF Unfinished
<1>1. CASE begin_job
  <2>1. pitr \in Jobs /\ state_[pitr] = "RUNNING" /\ pitr \notin children_
    BY <1>1, NJobsAssumption DEF begin_job, CanBegin, TypeOK, Jobs, ProcInv
  <2>2. Finished = {} /\ nfinished = 0
    BY <1>1 DEF begin_job, FinishedInv
  <2>3. Unfinished = children_
    BY <2>2 DEF Finished, Unfinished
  <2>4. Unfinished' = children_ \cup {pitr}
    BY <1>1, <2>1, <2>3 DEF begin_job, Unfinished, is_finished, childObjs
  <2>5. Cardinality(children_ \cup {pitr}) = Cardinality(children_) + 1
    BY <2>1, FS_AddElement
  <2>6. QED
    BY <1>1, <2>2, <2>3, <2>4, <2>5, MaxChildrenAssumption
       DEF begin_job, CanBegin, TypeOK, waiting
<1>2. CASE fork_fails \/ schedule_done \/ enter_poll \/ poll_ready \/ poll_eintr
           \/ reaped \/ UNCHANGED vars
  BY <1>2 DEF fork_fails, schedule_done, enter_poll, poll_ready, poll_eintr, reaped,
       vars, sched, waiting, childObjs, Unfinished, is_finished
<1>3. CASE poll_timeout
  <2>1. Unfinished' = Unfinished
    BY <1>3, TimeoutFrame DEF Unfinished
  <2>2. QED
    BY <1>3, <2>1, TimeoutFrame
<1>4. CASE handled
  BY <1>4 DEF handled, StillRunning, childObjs, Unfinished, is_finished, TypeOK
<1>5. ASSUME NEW j \in Jobs, dispatch(j) PROVE CountInv'
  <2>1. j \in Unfinished /\ UNCHANGED <<children_, nrunning_>>
    BY <1>5, DispatchFrame
  <2>2. CASE state_' = state_ /\ nfinished' = nfinished
    BY <2>1, <2>2 DEF Unfinished, is_finished
  <2>3. CASE state_' = [state_ EXCEPT ![j] = "FINISHED"] /\ nfinished' = nfinished + 1
    <3>1. Unfinished' = Unfinished \ {j}
      BY <2>1, <2>3 DEF Unfinished, is_finished, TypeOK
    <3>2. Cardinality(Unfinished') = Cardinality(Unfinished) - 1
      BY <2>1, <3>1, FS_RemoveElement
    <3>3. QED
      BY <2>1, <2>3, <3>2 DEF TypeOK
  <2>4. QED
    BY <1>5, <2>2, <2>3, DispatchFrame
<1>6. ASSUME NEW j \in Jobs, reap_any(j) \/ reap_finished(j) PROVE CountInv'
  <2>1. /\ j \in children_ /\ children_' = children_ \ {j} /\ nrunning_' = nrunning_
        /\ \A k \in Jobs : k # j => state_'[k] = state_[k]
    BY <1>6, ReapFrame
  <2>2. Unfinished' = Unfinished \ {j}
    BY <2>1 DEF Unfinished, is_finished
  <2>3. Cardinality(children_ \ {j}) <= Cardinality(children_)
    BY <2>1, ChildrenFinite
  <2>4. nfinished' = nfinished \/ (nfinished' = nfinished + 1 /\ j \in Unfinished)
    BY <1>6, <2>1 DEF reap_any, reap_finished, waiting, FinishedInv, Finished, Unfinished
  <2>5. Cardinality(Unfinished \ {j})
          = IF j \in Unfinished THEN Cardinality(Unfinished) - 1 ELSE Cardinality(Unfinished)
    BY FS_RemoveElement
  <2>6. nfinished \in Nat /\ nrunning_ \in Int /\ maxchildren_ \in Nat
        /\ Cardinality(children_ \ {j}) \in Nat
    BY MaxChildrenAssumption, ChildrenFinite DEF TypeOK
  <2>7. Cardinality(Unfinished') + nfinished' <= nrunning_'
    BY <2>1, <2>2, <2>4, <2>5, <2>6
  <2>8. QED
    BY <2>1, <2>3, <2>6, <2>7
<1>7. ASSUME NEW j \in Jobs, Child(j) \/ deadline_passes(j) PROVE CountInv'
  BY <1>7, ChildFrame DEF Unfinished, is_finished
<1>8. QED
  BY <1>1, <1>2, <1>3, <1>4, <1>5, <1>6, <1>7, NextCases

\* run_tests() leaves its loop only when every job has begun, since with no
\* child running another job could always begin.
LEMMA PhaseStep == TypeOK /\ FinishedInv /\ PhaseInv /\ [Next]_vars => PhaseInv'
<1> SUFFICES ASSUME TypeOK, FinishedInv, PhaseInv, [Next]_vars PROVE PhaseInv'
  OBVIOUS
<1> USE DEF PhaseInv
<1>1. CASE begin_job \/ fork_fails
  BY <1>1 DEF begin_job, fork_fails
<1>2. CASE schedule_done
  BY <1>2, NJobsAssumption, MaxChildrenAssumption
     DEF schedule_done, CanBegin, sched, TypeOK
<1>3. CASE enter_poll \/ poll_ready \/ poll_eintr \/ handled
  BY <1>3 DEF enter_poll, poll_ready, poll_eintr, handled
<1>4. CASE poll_timeout
  BY <1>4, TimeoutFrame
<1>5. CASE reaped
  BY <1>5 DEF reaped, sched
<1>6. ASSUME NEW j \in Jobs, dispatch(j) PROVE PhaseInv'
  BY <1>6, DispatchFrame
<1>7. ASSUME NEW j \in Jobs, reap_any(j) \/ reap_finished(j) PROVE PhaseInv'
  <2>1. phase # "done"
    BY <1>7 DEF reap_any, reap_finished
  <2>2. QED
    BY <1>7, <2>1, ReapFrame
<1>8. ASSUME NEW j \in Jobs, Child(j) \/ deadline_passes(j) PROVE PhaseInv'
  BY <1>8, ChildFrame
<1>9. CASE UNCHANGED vars
  BY <1>9 DEF vars, sched
<1>10. QED
  BY <1>1, <1>2, <1>3, <1>4, <1>5, <1>6, <1>7, <1>8, <1>9, NextCases

\* Raising the result of one child raises no other and lowers none.
LEMMA UpdateGrows ==
  ASSUME NEW f \in [Jobs -> result_t], NEW j \in Jobs, NEW r \in result_t, r >= f[j]
  PROVE  \A k \in Jobs : [f EXCEPT ![j] = r][k] >= f[k]
BY DEF result_t, R_UNKNOWN, R_FAIL

\* No operation makes the result of a child better, so a FAIL stays.
LEMMA ResultStep ==
  ASSUME TypeOK, [Next]_vars
  PROVE  \A k \in Jobs : /\ result_'[k] >= result_[k]
                         /\ result_[k] = R_FAIL => result_'[k] = R_FAIL
<1>1. SUFFICES \A k \in Jobs : result_'[k] >= result_[k]
  <2>1. \A k \in Jobs : result_'[k] \in result_t
    BY TypeStep DEF TypeOK
  <2>2. QED
    BY <1>1, <2>1 DEF result_t, R_UNKNOWN, R_FAIL
<1>2. \A k \in Jobs : result_[k] \in result_t /\ result_[k] \in Nat
  BY ResultTypes DEF TypeOK
<1>3. CASE UNCHANGED result_
  BY <1>2, <1>3
<1>4. CASE poll_timeout
  <2>1. \A k \in Jobs : TimeoutResult(result_[k]) >= result_[k]
    BY <1>2, MergeType, ResultTypes DEF TimeoutResult
  <2>2. \A k \in Jobs : result_'[k] \in {TimeoutResult(result_[k]), result_[k]}
    BY <1>4 DEF poll_timeout, handle_timeout
  <2>3. QED
    BY <1>2, <2>1, <2>2
<1>5. ASSUME NEW j \in Jobs, dispatch(j) PROVE \A k \in Jobs : result_'[k] >= result_[k]
  <2>1. CASE handle_call(j)
    <3>1. PICK r \in result_t : result_' = [result_ EXCEPT ![j] = merge(result_[j], r)]
      <4>1. CASE pipe[j] # << >>
        <5>1. Head(pipe[j]) \in Message
          BY <4>1 DEF TypeOK
        <5>2. QED
          BY <2>1, <4>1, <5>1 DEF handle_call, Message
      <4>2. CASE pipe[j] = << >>
        BY <2>1, <4>2, ResultTypes DEF handle_call
      <4>3. QED
        BY <4>1, <4>2
    <3>2. QED
      BY <1>2, <3>1, MergeType, UpdateGrows DEF TypeOK
  <2>2. QED
    BY <1>3, <1>5, <2>1 DEF dispatch
<1>6. ASSUME NEW j \in Jobs, reap_any(j) \/ reap_finished(j)
      PROVE  \A k \in Jobs : result_'[k] >= result_[k]
  <2>1. result_' = [result_ EXCEPT ![j] = final_result(j)]
    BY <1>6, ReapFrame
  <2>2. final_result(j) \in result_t /\ final_result(j) >= result_[j]
    BY FinalResult
  <2>3. QED
    BY <2>1, <2>2, UpdateGrows DEF TypeOK
<1>7. ASSUME NEW j \in Jobs, Child(j) \/ deadline_passes(j) PROVE UNCHANGED result_
  BY <1>7, ChildFrame
<1>8. begin_job \/ fork_fails \/ schedule_done \/ enter_poll \/ poll_ready \/ poll_eintr
        \/ handled \/ reaped \/ UNCHANGED vars => UNCHANGED result_
  BY DEF begin_job, fork_fails, schedule_done, enter_poll, poll_ready, poll_eintr,
       handled, reaped, vars, childObjs
<1>9. QED
  BY <1>3, <1>4, <1>5, <1>6, <1>7, <1>8, NextCases

\* The signals follow state_, and every signalled child has already failed.
LEMMA SignalStep ==
  TypeOK /\ FinishedInv /\ SignalInv /\ [Next]_vars => SignalInv'
<1> SUFFICES ASSUME TypeOK, FinishedInv, SignalInv, [Next]_vars PROVE SignalInv'
  OBVIOUS
<1> USE DEF SignalInv
<1>1. CASE UNCHANGED <<state_, sig, overdue, timeout_>>
  BY <1>1, ResultStep
<1>2. CASE poll_timeout
  <2>1. timeout_ /\ timeout_'
    BY <1>2 DEF poll_timeout, HasDeadline, sched
  <2>2. \A k \in Jobs : TimeoutResult(result_[k]) = R_FAIL
    <3>1. \A r \in result_t : TimeoutResult(r) = R_FAIL
      BY DEF TimeoutResult, merge, result_t, R_UNKNOWN, R_FAIL
    <3>2. QED
      BY <3>1 DEF TypeOK
  <2>3. QED
    BY <1>2, <2>1, <2>2
       DEF poll_timeout, handle_timeout, TimesOut, Escalates, TypeOK
<1>3. ASSUME NEW j \in Jobs, dispatch(j) PROVE SignalInv'
  <2>1. /\ UNCHANGED <<sig, overdue, timeout_>>
        /\ state_' = state_ \/ state_' = [state_ EXCEPT ![j] = "FINISHED"]
    BY <1>3, DispatchFrame
  <2>2. QED
    BY <2>1, ResultStep DEF TypeOK
<1>4. ASSUME NEW j \in Jobs, reap_any(j) \/ reap_finished(j) PROVE SignalInv'
  <2>1. /\ UNCHANGED <<sig, timeout_>>
        /\ \A k \in Jobs : k # j => state_'[k] = state_[k]
        /\ state_'[j] \in {state_[j], "FINISHED"}
        /\ overdue' = [overdue EXCEPT ![j] = FALSE]
    BY <1>4, ReapFrame
  <2>2. QED
    BY <2>1, ResultStep DEF TypeOK
<1>5. ASSUME NEW j \in Jobs, Child(j) \/ deadline_passes(j) PROVE SignalInv'
  <2>1. /\ UNCHANGED <<state_, sig, timeout_, result_>>
        /\ UNCHANGED overdue \/ (timeout_ /\ overdue' = [overdue EXCEPT ![j] = TRUE])
    BY <1>5, ChildFrame
  <2>2. QED
    BY <2>1 DEF TypeOK
<1>6. begin_job \/ fork_fails \/ schedule_done \/ enter_poll \/ poll_ready \/ poll_eintr
        \/ handled \/ reaped \/ UNCHANGED vars
        => UNCHANGED <<state_, sig, overdue, timeout_>>
  BY DEF begin_job, fork_fails, schedule_done, enter_poll, poll_ready, poll_eintr,
       handled, reaped, vars, childObjs, sched
<1>7. QED
  BY <1>1, <1>2, <1>3, <1>4, <1>5, <1>6, NextCases

\* The listeners are told a result when the child is reaped, and it stays.
LEMMA VerdictStep ==
  TypeOK /\ ProcInv /\ FinishedInv /\ VerdictInv /\ [Next]_vars => VerdictInv'
<1> SUFFICES ASSUME TypeOK, ProcInv, FinishedInv, VerdictInv, [Next]_vars
             PROVE  VerdictInv'
  OBVIOUS
<1> USE DEF VerdictInv
<1>1. CASE UNCHANGED <<proc, verdict, result_, status>>
  BY <1>1
<1>2. CASE begin_job
  <2>1. pitr \in Jobs /\ proc[pitr] = "unborn"
    BY <1>2, NJobsAssumption DEF begin_job, CanBegin, TypeOK, ProcInv, Jobs
  <2>2. /\ proc' = [proc EXCEPT ![pitr] = "alive"]
        /\ UNCHANGED <<verdict, result_, status>>
    BY <1>2 DEF begin_job, childObjs, tally
  <2>3. QED
    BY <2>1, <2>2 DEF TypeOK
<1>3. CASE poll_timeout
  <2>1. \A k \in Jobs : proc[k] = "reaped" => k \notin Unfinished
    BY DEF ProcInv, Unfinished
  <2>2. QED
    BY <1>3, <2>1, TimeoutFrame
<1>4. ASSUME NEW j \in Jobs, dispatch(j) PROVE VerdictInv'
  <2>1. proc[j] # "reaped"
    BY <1>4, DispatchFrame DEF ProcInv, Unfinished
  <2>2. QED
    BY <1>4, <2>1, DispatchFrame
<1>5. ASSUME NEW j \in Jobs, reap_any(j) \/ reap_finished(j) PROVE VerdictInv'
  <2>1. /\ proc' = [proc EXCEPT ![j] = "reaped"]
        /\ result_' = [result_ EXCEPT ![j] = final_result(j)]
        /\ verdict' = [verdict EXCEPT ![j] = final_result(j)]
        /\ status' = status
    BY <1>5, ReapFrame
  <2>2. /\ final_result(j) # R_UNKNOWN
        /\ status[j] # "exit0" => final_result(j) = R_FAIL
    BY FinalResult
  <2>3. QED
    BY <2>1, <2>2 DEF TypeOK
<1>6. ASSUME NEW j \in Jobs, Child(j) \/ deadline_passes(j) PROVE VerdictInv'
  <2>1. UNCHANGED <<verdict, result_>>
    BY <1>6, ChildFrame
  <2>2. CASE UNCHANGED <<proc, status>>
    BY <1>1, <2>1, <2>2
  <2>3. ASSUME NEW st \in {"exit0", "exitN", "signal"}, proc[j] = "alive",
               proc' = [proc EXCEPT ![j] = "zombie"],
               status' = [status EXCEPT ![j] = st]
        PROVE  VerdictInv'
    BY <2>1, <2>3 DEF TypeOK
  <2>4. QED
    BY <1>6, <2>2, <2>3, ChildFrame
<1>7. fork_fails \/ schedule_done \/ enter_poll \/ poll_ready \/ poll_eintr
        \/ handled \/ reaped \/ UNCHANGED vars
        => UNCHANGED <<proc, verdict, result_, status>>
  BY DEF fork_fails, schedule_done, enter_poll, poll_ready, poll_eintr, handled,
       reaped, vars, childObjs, tally, procs
<1>8. QED
  BY <1>1, <1>2, <1>3, <1>4, <1>5, <1>6, <1>7, NextCases

\* nrun_ and nfailed_ count what the listeners were told.
LEMMA TallyStep == TypeOK /\ FinishedInv /\ VerdictInv /\ TallyInv /\ [Next]_vars => TallyInv'
<1> SUFFICES ASSUME TypeOK, FinishedInv, VerdictInv, TallyInv, [Next]_vars
             PROVE  TallyInv'
  OBVIOUS
<1> USE DEF TallyInv
<1>1. CASE UNCHANGED <<nrun_, nfailed_, verdict>>
  BY <1>1 DEF Reported, Failed
<1>2. IsFiniteSet(Reported) /\ IsFiniteSet(Failed)
  <2>1. IsFiniteSet(Jobs)
    BY NJobsAssumption, FS_Interval DEF Jobs
  <2>2. QED
    BY <2>1, FS_Subset DEF Reported, Failed
<1>3. ASSUME NEW j \in Jobs, reap_any(j) \/ reap_finished(j) PROVE TallyInv'
  <2>1. verdict[j] = R_UNKNOWN /\ verdict' = [verdict EXCEPT ![j] = final_result(j)]
    BY <1>3, ReapFrame DEF VerdictInv
  <2>2. Reported' = Reported \cup {j} /\ j \notin Reported
    BY <2>1, FinalResult DEF Reported, TypeOK
  <2>3. nrun_' = nrun_ + 1
    BY <1>3 DEF reap_any, reap_finished, reap_child
  <2>4. nrun_' = Cardinality(Reported')
    BY <1>2, <2>2, <2>3, FS_AddElement
  <2>5. CASE final_result(j) = R_FAIL
    <3>1. Failed' = Failed \cup {j} /\ j \notin Failed
      BY <2>1, <2>5 DEF Failed, TypeOK, R_UNKNOWN, R_FAIL
    <3>2. nfailed_' = nfailed_ + 1
      BY <1>3, <2>5 DEF reap_any, reap_finished, reap_child, CountsAsFailed
    <3>3. QED
      BY <1>2, <2>4, <3>1, <3>2, FS_AddElement
  <2>6. CASE final_result(j) # R_FAIL
    <3>1. Failed' = Failed
      BY <2>1, <2>6 DEF Failed, TypeOK, R_UNKNOWN, R_FAIL
    <3>2. nfailed_' = nfailed_
      BY <1>3, <2>6 DEF reap_any, reap_finished, reap_child, CountsAsFailed
    <3>3. QED
      BY <2>4, <3>1, <3>2
  <2>7. QED
    BY <2>5, <2>6
<1>4. poll_timeout => UNCHANGED <<nrun_, nfailed_, verdict>>
  BY TimeoutFrame
<1>5. \A j \in Jobs : dispatch(j) => UNCHANGED <<nrun_, nfailed_, verdict>>
  BY DispatchFrame
<1>6. \A j \in Jobs : Child(j) \/ deadline_passes(j)
                    => UNCHANGED <<nrun_, nfailed_, verdict>>
  BY ChildFrame
<1>7. begin_job \/ fork_fails \/ schedule_done \/ enter_poll \/ poll_ready \/ poll_eintr
        \/ handled \/ reaped \/ UNCHANGED vars
        => UNCHANGED <<nrun_, nfailed_, verdict>>
  BY DEF begin_job, fork_fails, schedule_done, enter_poll, poll_ready, poll_eintr,
       handled, reaped, vars, tally
<1>8. QED
  BY <1>1, <1>3, <1>4, <1>5, <1>6, <1>7, NextCases

-----------------------------------------------------------------------------

\* A runner that has not begun any job satisfies the invariant.
LEMMA InvInit == Init => IInv
<1> SUFFICES ASSUME Init PROVE IInv
  OBVIOUS
<1>1. TypeOK
  BY InitTypes
<1>2. Unfinished = {} /\ Finished = {} /\ children_ = {}
  BY DEF Init, Unfinished, Finished
<1>3. Reported = {} /\ Failed = {}
  BY DEF Init, Reported, Failed, R_UNKNOWN, R_FAIL
<1>4. Cardinality({}) = 0
  BY FS_EmptySet
<1>5. CountInv /\ TallyInv
  BY <1>2, <1>3, <1>4, MaxChildrenAssumption DEF Init, CountInv, TallyInv
<1>6. ProcInv /\ FinishedInv /\ PhaseInv
  BY <1>2, NJobsAssumption DEF Init, ProcInv, FinishedInv, PhaseInv, Jobs
<1>7. SignalInv /\ VerdictInv
  BY DEF Init, SignalInv, VerdictInv
<1>8. QED
  BY <1>1, <1>5, <1>6, <1>7 DEF IInv

\* IInv holds in every state of the runner, for any number of jobs, any
\* concurrency and any surroundings.
THEOREM RunnerInvariant == Spec => []IInv
<1>1. IInv /\ [Next]_vars => IInv'
  BY TypeStep, ProcStep, FinishedStep, CountStep, PhaseStep, SignalStep, VerdictStep,
     TallyStep DEF IInv
<1>2. QED
  BY <1>1, InvInit, PTL DEF Spec

\* begin_job() never lets more than maxchildren_ test processes exist, although
\* nrunning_ may drift from the number of children.
THEOREM ConcurrencyHolds == Spec => []Concurrency
<1>1. IInv => Concurrency
  <2> SUFFICES ASSUME IInv PROVE Concurrency
    OBVIOUS
  <2>1. {j \in Jobs : proc[j] \in {"alive", "zombie"}} = children_
    BY ChildrenFinite DEF IInv, ProcInv
  <2>2. QED
    BY <2>1 DEF IInv, CountInv, Concurrency
<1>2. QED
  BY <1>1, RunnerInvariant, PTL

\* reap_children() reports FAIL for every child that did not exit with 0, and
\* for every child that wait() had to signal; without timeouts wait() signals
\* none.
THEOREM BadEndsFail == Spec => [](AbnormalEndFails /\ DebuggerNeverKills)
<1>1. IInv => AbnormalEndFails /\ DebuggerNeverKills
  <2> SUFFICES ASSUME IInv, NEW j \in Jobs
               PROVE  /\ /\ verdict[j] # R_UNKNOWN
                         /\ status[j] # "exit0" \/ sig[j] # "none"
                         => verdict[j] = R_FAIL
                      /\ ~timeout_ => sig[j] = "none"
    BY DEF AbnormalEndFails, DebuggerNeverKills
  <2> QED
    BY DEF IInv, VerdictInv, SignalInv
<1>2. QED
  BY <1>1, RunnerInvariant, PTL

\* In the last phase the iterator is past the plan and children_ is empty, so
\* every job is reaped and the counters are those of the whole plan.
LEMMA DoneTellsAll == IInv => ReturnTellsAll
<1> SUFFICES ASSUME IInv, phase = "done"
             PROVE  /\ nrun_ = NJobs
                    /\ children_ = {}
                    /\ \A j \in Jobs : proc[j] = "reaped" /\ verdict[j] # R_UNKNOWN
                    /\ exit_code = 1 <=> \E j \in Jobs : verdict[j] = R_FAIL
  BY DEF ReturnTellsAll
<1>1. pitr = NJobs + 1 /\ children_ = {}
  BY DEF IInv, PhaseInv
<1>2. ASSUME NEW j \in Jobs PROVE proc[j] = "reaped" /\ verdict[j] # R_UNKNOWN
  <2>1. ~ j >= pitr
    BY <1>1, NJobsAssumption DEF Jobs
  <2>2. proc[j] = "reaped"
    BY <1>1, <2>1 DEF IInv, ProcInv, TypeOK
  <2>3. QED
    BY <2>2 DEF IInv, VerdictInv
<1>3. Cardinality(Jobs) = NJobs /\ IsFiniteSet(Jobs)
  BY NJobsAssumption, FS_Interval DEF Jobs
<1>4. Reported = Jobs
  BY <1>2 DEF Reported
<1>5. nfailed_ = 0 <=> Failed = {}
  BY <1>3, FS_Subset, FS_EmptySet DEF Failed, IInv, TallyInv
<1>6. exit_code = 1 <=> \E j \in Jobs : verdict[j] = R_FAIL
  BY <1>5 DEF exit_code, Failed
<1>7. QED
  BY <1>1, <1>2, <1>3, <1>4, <1>6 DEF IInv, TallyInv

\* The value run_tests() returns tells whether any test failed, and by then
\* every job of the plan has been reported and every child reaped.
THEOREM ReturnValue == Spec => []ReturnTellsAll
BY DoneTellsAll, RunnerInvariant, PTL

-----------------------------------------------------------------------------

\* What a step may do to the results and the signals of a child.
LEMMA MonotoneStep ==
  ASSUME IInv, [Next]_vars, NEW j \in Jobs
  PROVE  /\ verdict[j] # R_UNKNOWN => verdict'[j] = verdict[j]
         /\ sig'[j] # sig[j] => <<sig[j], sig'[j]>> \in {<<"none", "SIGTERM">>,
                                                      <<"SIGTERM", "SIGKILL">>}
<1> USE DEF IInv
<1>1. CASE UNCHANGED <<verdict, sig>>
  BY <1>1
<1>2. CASE poll_timeout
  <2>1. verdict' = verdict
    BY <1>2, TimeoutFrame
  <2>2. \/ sig'[j] = sig[j]
        \/ state_[j] = "RUNNING" /\ sig'[j] = "SIGTERM"
        \/ state_[j] = "TIMEOUT1" /\ sig'[j] = "SIGKILL"
    BY <1>2 DEF poll_timeout, handle_timeout, TimesOut, Escalates
  <2>3. QED
    BY <2>1, <2>2 DEF SignalInv
<1>3. ASSUME NEW k \in Jobs, reap_any(k) \/ reap_finished(k)
      PROVE  sig' = sig /\ (verdict[j] # R_UNKNOWN => verdict'[j] = verdict[j])
  BY <1>3, ReapFrame DEF VerdictInv, TypeOK
<1>4. \A k \in Jobs : dispatch(k) => UNCHANGED <<verdict, sig>>
  BY DispatchFrame
<1>5. \A k \in Jobs : Child(k) \/ deadline_passes(k) => UNCHANGED <<verdict, sig>>
  BY ChildFrame
<1>6. begin_job \/ fork_fails \/ schedule_done \/ enter_poll \/ poll_ready \/ poll_eintr
        \/ handled \/ reaped \/ UNCHANGED vars => UNCHANGED <<verdict, sig>>
  BY DEF begin_job, fork_fails, schedule_done, enter_poll, poll_ready, poll_eintr,
       handled, reaped, vars, tally, childObjs
<1>7. QED
  BY <1>1, <1>2, <1>3, <1>4, <1>5, <1>6, NextCases

\* merge_result() never improves a result, end_job() is given once per job, and
\* handle_timeout() escalates from SIGTERM to SIGKILL and no further.
THEOREM MonotoneHolds == Spec => Monotone
<1>1. IInv /\ [Next]_vars
        => [\A j \in Jobs :
              /\ result_'[j] >= result_[j]
              /\ verdict[j] # R_UNKNOWN => verdict'[j] = verdict[j]
              /\ sig'[j] # sig[j] => <<sig[j], sig'[j]>> \in {<<"none", "SIGTERM">>,
                                                   <<"SIGTERM", "SIGKILL">>}]_vars
  BY ResultStep, MonotoneStep DEF IInv
<1>2. QED
  BY <1>1, RunnerInvariant, PTL DEF Spec, Monotone

-----------------------------------------------------------------------------

\* A step of the runner is, for its listeners and its caller, a step of
\* JobBoard or none: begin_job() is Begin, each reaping is End, and returning
\* from run_tests() is Return.
LEMMA BoardStep == IInv /\ IInv' /\ [Next]_vars => [Board!Next]_(Board!boardVars)
<1> SUFFICES ASSUME IInv, IInv', [Next]_vars
             PROVE  Board!Next \/ UNCHANGED Board!boardVars
  OBVIOUS
<1> USE DEF Board!boardVars, Board!Next
<1>1. CASE UNCHANGED <<pitr, children_, verdict, nfailed_>> /\ (phase' = "done" <=> phase = "done")
  BY <1>1 DEF exit_code
<1>2. CASE begin_job
  <2>1. Finished = {} /\ nfinished = 0 /\ nrunning_ < maxchildren_ /\ pitr <= NJobs
        /\ phase = "schedule"
    BY <1>2 DEF begin_job, CanBegin, IInv, FinishedInv
  <2>2. children_ = Unfinished
    BY <2>1 DEF Finished, Unfinished
  <2>3. Cardinality(children_) \in Nat /\ nrunning_ \in Int /\ pitr \in Nat
    <3>1. Cardinality(children_) \in Nat
      BY ChildrenFinite DEF IInv
    <3>2. nrunning_ \in Int /\ pitr \in 1 .. NJobs + 1
      BY DEF IInv, TypeOK
    <3>3. QED
      BY <3>1, <3>2, NJobsAssumption
  <2>4. Cardinality(children_) < maxchildren_ /\ pitr - 1 < NJobs
    BY <2>1, <2>2, <2>3, MaxChildrenAssumption, NJobsAssumption DEF IInv, CountInv
  <2>5. /\ pitr' - 1 = (pitr - 1) + 1
        /\ children_' = children_ \cup {(pitr - 1) + 1}
        /\ UNCHANGED <<phase, verdict, nfailed_>>
    BY <1>2, <2>3 DEF begin_job, tally
  <2>6. Board!Begin
    BY <2>1, <2>4, <2>5 DEF Board!Begin, Board!Cardinality, Cardinality
  <2>7. QED
    BY <2>6
<1>3. ASSUME NEW j \in Jobs, reap_any(j) \/ reap_finished(j) PROVE Board!Next
  <2>1. phase # "done" /\ phase' = phase /\ pitr' = pitr
    BY <1>3, ReapFrame DEF IInv, reap_any, reap_finished
  <2>2. /\ j \in children_ /\ children_' = children_ \ {j}
        /\ verdict[j] = R_UNKNOWN /\ verdict' = [verdict EXCEPT ![j] = final_result(j)]
    BY <1>3, ReapFrame DEF IInv, VerdictInv
  <2>3. final_result(j) \in {R_PASS, R_NOTAPPLICABLE, R_FAIL}
    <3>1. final_result(j) \in result_t /\ final_result(j) # R_UNKNOWN
      BY FinalResult DEF IInv
    <3>2. QED
      BY <3>1 DEF result_t, R_UNKNOWN, R_PASS, R_NOTAPPLICABLE, R_FAIL
  <2>4. Board!End(j)
    BY <2>1, <2>2, <2>3 DEF Board!End, Board!R_UNKNOWN, Board!R_PASS,
       Board!R_NOTAPPLICABLE, Board!R_FAIL, R_UNKNOWN, R_PASS, R_NOTAPPLICABLE, R_FAIL
  <2>5. QED
    BY <2>4 DEF Jobs
<1>4. CASE phase # "done" /\ phase' = "done" /\ UNCHANGED <<pitr, children_, verdict, nfailed_>>
  <2>1. pitr = NJobs + 1 /\ children_ = {}
    BY <1>4 DEF IInv, PhaseInv
  <2>2. exit_code' = 1 <=> \E j \in 1 .. NJobs : verdict[j] = R_FAIL
    <3>1. ReturnTellsAll'
      BY DoneTellsAll, PTL
    <3>2. QED
      BY <1>4, <3>1 DEF ReturnTellsAll, Jobs
  <2>3. exit_code' \in {0, 1}
    BY DEF exit_code
  <2>4. Board!Return
    BY <1>4, <2>1, <2>2, <2>3, NJobsAssumption
       DEF Board!Return, Board!R_FAIL, R_FAIL
  <2>5. QED
    BY <2>4
<1>5. CASE schedule_done \/ reaped
  BY <1>1, <1>4, <1>5 DEF schedule_done, reaped, sched, tally
<1>6. CASE poll_timeout
  BY <1>1, <1>6, TimeoutFrame DEF IInv
<1>7. ASSUME NEW j \in Jobs, dispatch(j) PROVE UNCHANGED Board!boardVars
  BY <1>7, DispatchFrame DEF IInv, exit_code
<1>8. ASSUME NEW j \in Jobs, Child(j) \/ deadline_passes(j) PROVE UNCHANGED Board!boardVars
  BY <1>8, ChildFrame DEF exit_code
<1>9. CASE fork_fails \/ enter_poll \/ poll_ready \/ poll_eintr \/ handled \/ UNCHANGED vars
  BY <1>1, <1>9 DEF fork_fails, enter_poll, poll_ready, poll_eintr, handled, vars,
       sched, tally
<1>10. QED
  BY <1>2, <1>3, <1>5, <1>6, <1>7, <1>8, <1>9, NextCases

\* The runner implements JobBoard: begun is what the plan iterator passed,
\* open is children_, and returned is the value of run_tests().
THEOREM RunnerImplementsBoard == Spec => BoardSpec
<1>1. Init => Board!Init
  BY DEF Init, Board!Init, Jobs, Board!R_UNKNOWN, R_UNKNOWN
<1>2. QED
  BY <1>1, BoardStep, RunnerInvariant, PTL DEF Spec, BoardSpec, Board!Spec

=============================================================================
