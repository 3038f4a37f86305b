---------------------------- MODULE QuietProofs -----------------------------
(***************************************************************************)
(* Proofs about Runner in quiet surroundings: no other process holds a     *)
(* pipe and poll() reports input before it reports an interruption.  There *)
(* the two assertions in wait() hold and no child's first message is lost, *)
(* for any number of jobs, any concurrency and any way for a child to end. *)
(***************************************************************************)
EXTENDS RunnerProofs

\* In quiet surroundings poll() is never interrupted: the dead child that sent
\* SIGCHLD is not finished yet and so its hang-up is there to be reported.
LEMMA NeverInterrupted ==
  ASSUME Quiet, IInv, ExactInv
  PROVE  ~poll_eintr
<1> SUFFICES ASSUME poll_eintr PROVE FALSE
  OBVIOUS
<1>1. phase = "polling" /\ eintr /\ Ready = {}
  BY DEF poll_eintr, Quiet
<1>2. PICK j \in children_ : proc[j] = "zombie"
  BY <1>1 DEF ExactInv
<1>3. j \in Jobs /\ j \in Unfinished
  BY <1>1, ChildrenFinite DEF IInv, FinishedInv, Finished, Unfinished
<1>4. "POLLHUP" \in Events(j)
  BY <1>2, <1>3 DEF ExactInv, Events, WriterGone
<1>5. QED
  BY <1>1, <1>3, <1>4 DEF Ready

\* Only a process forked by a test takes hold of a pipe.
LEMMA HeldStep ==
  ASSUME Quiet, IInv, ExactInv, [Next]_vars
  PROVE  \A k \in Jobs : ~held'[k]
<1> USE DEF pipes, ExactInv
<1>1. ASSUME NEW j \in Jobs, reap_any(j) \/ reap_finished(j)
      PROVE  held' = [held EXCEPT ![j] = FALSE]
  BY <1>1 DEF reap_any, reap_finished, reap_child
<1>2. ASSUME NEW j \in Jobs, Child(j) \/ deadline_passes(j)
      PROVE  held' = held
  BY <1>2, Zenon DEF Child, begin_message, add_event, end_job, SendMessage, child_exits,
       child_dies, child_killed, Dies, grandchild_forked, grandchild_exits,
       deadline_passes, Quiet
<1>3. ASSUME NEW j \in Jobs, dispatch(j)
      PROVE  held' = held
  BY <1>3 DEF dispatch
<1>4. \/ held' = held
      \/ \E j \in Jobs : held' = [held EXCEPT ![j] = FALSE]
  BY <1>1, <1>2, <1>3, NextCases, Zenon DEF begin_job, fork_fails, schedule_done, enter_poll,
     poll_ready, poll_eintr, poll_timeout, handled, reaped, vars
<1>5. QED
  BY <1>4, Zenon DEF IInv, TypeOK

\* nrunning_ is exactly the number of children that are not finished, so
\* neither assertion in wait() fails and there is nothing left to drain.
LEMMA ExactStep ==
  ASSUME Quiet, IInv, ExactInv, [Next]_vars
  PROVE  ExactInv'
<1> USE DEF ExactInv
<1> children_ \subseteq Jobs /\ IsFiniteSet(children_) /\ Cardinality(children_) \in Nat
  BY ChildrenFinite DEF IInv
<1> IsFiniteSet(Unfinished) /\ Cardinality(Unfinished) \in Nat
  BY ChildrenFinite DEF Unfinished, IInv
<1> nfinished \in Nat /\ nrunning_ \in Int
  BY DEF IInv, TypeOK
<1> \A k \in Jobs : ~held'[k]
  BY HeldStep
<1>1. CASE begin_job
  <2>1. pitr \in Jobs /\ state_[pitr] = "RUNNING" /\ pitr \notin children_
    BY <1>1, NJobsAssumption DEF IInv, begin_job, CanBegin, TypeOK, Jobs, ProcInv
  <2>2. Unfinished' = Unfinished \cup {pitr} /\ pitr \notin Unfinished
    BY <1>1, <2>1 DEF begin_job, Unfinished, is_finished, childObjs
  <2>3. Cardinality(Unfinished \cup {pitr}) = Cardinality(Unfinished) + 1
    BY <2>2, FS_AddElement, Zenon
  <2>4. /\ phase' = "schedule" /\ nrunning_' = nrunning_ + 1 /\ nfinished' = nfinished
        /\ Cardinality(Unfinished') = Cardinality(Unfinished) + 1
    BY <1>1, <2>2, <2>3 DEF begin_job, waiting
  <2>5. QED
    BY <2>4
<1>2. CASE fork_fails \/ reaped \/ UNCHANGED vars
  <2>1. UNCHANGED <<nrunning_, nfinished, Unfinished>>
    BY <1>2 DEF fork_fails, reaped, vars, sched, waiting, childObjs, Unfinished, is_finished
  <2>2. phase' \in {"exited", "schedule"} \/ UNCHANGED <<phase, eintr, children_, proc>>
    BY <1>2 DEF fork_fails, reaped, vars, sched, waiting, procs
  <2>3. QED
    BY <2>1, <2>2
<1>3. CASE schedule_done
  <2>1. phase = "schedule" /\ nfinished = 0 /\ Finished = {}
    BY <1>3 DEF schedule_done, IInv, FinishedInv
  <2>2. nrunning_ = 0 => children_ = {}
    BY <2>1, FS_EmptySet DEF Finished, Unfinished
  <2>3. QED
    BY <1>3, <2>1, <2>2 DEF schedule_done, sched, waiting, childObjs, procs,
       Unfinished, is_finished
<1>4. CASE enter_poll
  <2>1. nfinished = 0 /\ nrunning_ > 0
    BY <1>4 DEF enter_poll, IInv, FinishedInv
  <2>2. Cardinality(Unfinished) = nrunning_ /\ Unfinished # {}
    BY <2>1, FS_EmptySet
  <2>3. QED
    BY <1>4, <2>1, <2>2 DEF enter_poll, sched, childObjs, procs, Unfinished, is_finished
<1>5. CASE poll_ready
  BY <1>5 DEF poll_ready, sched, childObjs, procs, Unfinished, is_finished
<1>6. CASE poll_eintr
  BY <1>6, NeverInterrupted
<1>7. CASE poll_timeout
  <2>1. Unfinished' = Unfinished
    BY <1>7, TimeoutFrame DEF Unfinished, IInv
  <2>2. QED
    BY <1>7, <2>1, TimeoutFrame DEF IInv
<1>8. CASE handled
  <2>1. Unfinished' = Unfinished
    BY <1>8 DEF handled, Unfinished, is_finished, childObjs
  <2>2. QED
    BY <1>8, <2>1 DEF handled, StillRunning, childObjs, procs
<1>9. ASSUME NEW j \in Jobs, dispatch(j) PROVE ExactInv'
  <2>1. /\ j \in Unfinished /\ phase = "dispatch"
        /\ UNCHANGED <<phase, children_, nrunning_, proc>>
    BY <1>9, DispatchFrame DEF IInv
  <2>2. CASE state_' = state_ /\ nfinished' = nfinished
    BY <2>1, <2>2 DEF Unfinished, is_finished
  <2>3. CASE state_' = [state_ EXCEPT ![j] = "FINISHED"] /\ nfinished' = nfinished + 1
    <3>1. Unfinished' = Unfinished \ {j}
      BY <2>1, <2>3 DEF Unfinished, is_finished, IInv, TypeOK
    <3>2. Cardinality(Unfinished') = Cardinality(Unfinished) - 1
      BY <2>1, <3>1, FS_RemoveElement, Zenon
    <3>3. QED
      BY <2>1, <2>3, <3>2
  <2>4. QED
    BY <1>9, <2>2, <2>3, DispatchFrame DEF IInv
<1>10. ASSUME NEW j \in Jobs, reap_any(j) \/ reap_finished(j) PROVE ExactInv'
  <2>1. reap_finished(j)
    BY <1>10 DEF reap_any
  <2>2. /\ j \in Finished /\ children_' = children_ \ {j}
        /\ \A k \in Jobs : k # j => state_'[k] = state_[k]
        /\ phase = "reap_finished"
        /\ UNCHANGED <<phase, nrunning_, nfinished>>
    BY <2>1, ReapFrame DEF reap_finished, IsFirst, waiting, IInv
  <2>3. Unfinished' = Unfinished
    BY <2>2 DEF Unfinished, Finished, is_finished
  <2>4. QED
    BY <2>2, <2>3
<1>11. ASSUME NEW j \in Jobs, Child(j) \/ deadline_passes(j) PROVE ExactInv'
  <2>1. /\ UNCHANGED <<phase, children_, nrunning_, nfinished, state_>>
        /\ Unfinished' = Unfinished
    BY <1>11, ChildFrame DEF Unfinished, is_finished
  <2>2. \A k \in Jobs : proc[k] = "zombie" => proc'[k] = "zombie"
    BY <1>11, ChildFrame, Zenon DEF IInv, TypeOK
  <2>3. eintr' => eintr \/ (proc'[j] = "zombie" /\ j \in children_)
    BY <1>11, Zenon DEF Child, begin_message, add_event, end_job, SendMessage, child_exits,
       child_dies, child_killed, Dies, Alive, grandchild_forked, grandchild_exits,
       deadline_passes, waiting, IInv, TypeOK, ProcInv
  <2>4. QED
    BY <2>1, <2>2, <2>3
<1>12. QED
  BY <1>1, <1>2, <1>3, <1>4, <1>5, <1>6, <1>7, <1>8, <1>9, <1>10, <1>11, NextCases

-----------------------------------------------------------------------------

\* A message that a child completes has a result, and is the first in its pipe
\* and the first of all, or comes behind others.
LEMMA Sends ==
  ASSUME IInv, PipeInv, NEW j \in Jobs, add_event(j) \/ end_job(j)
  PROVE  \E m \in Message :
           /\ m.res # R_UNKNOWN /\ (m.call = "FINISHED" => over'[j])
           /\ proc[j] = "alive" /\ ~over[j]
           /\ pipe' = [pipe EXCEPT ![j] = Append(@, m)]
           /\ first' = [first EXCEPT ![j] = IF @ = R_UNKNOWN THEN m.res ELSE @]
           /\ over' = over \/ over' = [over EXCEPT ![j] = TRUE]
           /\ UNCHANGED <<revents, state_, result_, proc>>
<1>1. CASE add_event(j)
  <2>1. PICK r \in EventResults : SendMessage(j, [call |-> "EVENT", res |-> r])
    BY <1>1 DEF add_event
  <2>2. r \in result_t /\ r # R_UNKNOWN
    BY EventResultsAssumption, ResultTypes DEF R_UNKNOWN, R_PASS, R_NOTAPPLICABLE, R_FAIL
  <2>3. QED
    <3> DEFINE m == [call |-> "EVENT", res |-> r]
    <3>1. m \in Message /\ m.res = r /\ m.call # "FINISHED"
      BY <2>2 DEF Message
    <3>2. over' = over
      BY <1>1 DEF add_event
    <3>3. QED
      BY <2>1, <2>2, <3>1, <3>2, Zenon DEF SendMessage, Alive, childObjs, procs, waiting
<1>2. CASE end_job(j)
  <2> DEFINE m == [call |-> "FINISHED", res |-> merge(sent[j], R_PASS)]
  <2>1. m \in Message /\ m.res # R_UNKNOWN
    BY MergeType, ResultTypes DEF Message, R_UNKNOWN, R_PASS, IInv, TypeOK
  <2>2. SendMessage(j, m) /\ over' = [over EXCEPT ![j] = TRUE]
    BY <1>2 DEF end_job
  <2>3. over'[j]
    BY <2>2 DEF IInv, TypeOK
  <2>4. QED
    BY <2>1, <2>2, <2>3, Zenon DEF SendMessage, Alive, childObjs, procs, waiting
<1>3. QED
  BY <1>1, <1>2

\* The other steps of a child leave pipes and messages alone.
LEMMA ChildIsSilent ==
  ASSUME NEW j \in Jobs, Child(j) \/ deadline_passes(j), ~add_event(j), ~end_job(j)
  PROVE  UNCHANGED <<pipe, over, first>>
BY DEF Child, begin_message, child_exits, child_dies, child_killed, Dies,
   grandchild_forked, grandchild_exits, deadline_passes, pipes, script

\* Results are ordered by number, so what is at least as bad as a worse result is worse.
LEMMA AtLeast ==
  ASSUME NEW a \in result_t, NEW b \in result_t, NEW c \in result_t, a >= b, b >= c
  PROVE  a >= c
BY ResultTypes

\* What is left in a pipe after a call was read was there before.
LEMMA TailEntries ==
  ASSUME NEW s \in Seq(Message), s # << >>, NEW i \in 1 .. Len(Tail(s))
  PROVE  i + 1 \in 1 .. Len(s) /\ Tail(s)[i] = s[i + 1]
OBVIOUS

\* Pipes and revents keep agreeing with each other and with the child.
LEMMA PipeStep ==
  ASSUME Quiet, IInv, ExactInv, PipeInv, [Next]_vars
  PROVE  PipeInv'
<1>0. TypeOK /\ FinishedInv /\ ProcInv
  BY DEF IInv
<1>1. CASE begin_job
  <2>1. /\ phase = "schedule" /\ pitr \in Jobs /\ proc[pitr] = "unborn"
        /\ state_[pitr] = "RUNNING"
        /\ proc' = [proc EXCEPT ![pitr] = "alive"]
        /\ UNCHANGED <<pipe, first, over, revents, state_>>
    BY <1>0, <1>1, NJobsAssumption DEF begin_job, CanBegin, TypeOK, Jobs, ProcInv,
       waiting, childObjs, pipes, script
  <2>2. \A k \in Jobs : revents[k] = {}
    BY <1>0, <2>1 DEF FinishedInv
  <2>3. QED
    BY <1>0, <2>1, <2>2 DEF TypeOK, PipeInv
<1>2. CASE fork_fails \/ schedule_done \/ enter_poll \/ handled \/ reaped
           \/ UNCHANGED vars
  <2>1. UNCHANGED <<pipe, first, over, revents, state_, proc>>
    BY <1>2 DEF fork_fails, schedule_done, enter_poll, handled, reaped, vars, waiting,
       childObjs, procs, pipes, script
  <2>2. QED
    BY <2>1 DEF PipeInv
<1>3. CASE poll_ready
  <2>1. /\ revents' = [k \in Jobs |-> IF k \in Ready THEN Events(k) ELSE {}]
        /\ UNCHANGED <<pipe, first, over, state_, proc>>
    BY <1>3 DEF poll_ready, childObjs, procs, pipes, script
  <2>2. \A k \in Jobs : /\ "POLLHUP" \in Events(k) => proc[k] # "alive"
                        /\ Events(k) = {"POLLHUP"} => pipe[k] = << >>
    BY DEF Events, WriterGone
  <2>3. QED
    BY <2>1, <2>2 DEF PipeInv
<1>4. CASE poll_eintr
  BY <1>4, NeverInterrupted
<1>5. CASE poll_timeout
  <2>1. UNCHANGED <<pipe, first, over, revents, proc>>
    BY <1>5 DEF poll_timeout, waiting, procs, pipes, script
  <2>2. \A k \in Jobs : state_'[k] = "FINISHED" <=> state_[k] = "FINISHED"
    BY <1>0, <1>5, TimeoutFrame DEF is_finished
  <2>3. QED
    BY <2>1, <2>2 DEF PipeInv
<1>6. ASSUME NEW j \in Jobs, dispatch(j) PROVE PipeInv'
  <2>1. /\ revents[j] # {} /\ j \in Unfinished
        /\ revents' = [revents EXCEPT ![j] = {}]
        /\ UNCHANGED <<first, over, proc>>
    BY <1>0, <1>6, DispatchFrame, Zenon DEF dispatch, script
  <2>2. pipe' = pipe \/ (pipe[j] # << >> /\ pipe' = [pipe EXCEPT ![j] = Tail(@)])
    BY <1>6 DEF dispatch, handle_call
  <2>3. \A k \in Jobs :
          /\ pipe'[k] # << >> => pipe[k] # << >>
          /\ \A i \in 1 .. Len(pipe'[k]) :
               \E n \in 1 .. Len(pipe[k]) : pipe'[k][i] = pipe[k][n]
    <3>1. CASE pipe' = pipe
      BY <3>1
    <3>2. CASE pipe[j] # << >> /\ pipe' = [pipe EXCEPT ![j] = Tail(@)]
      <4>1. ASSUME NEW k \in Jobs, k # j PROVE pipe'[k] = pipe[k]
        BY <1>0, <3>2, <4>1 DEF TypeOK
      <4>2. pipe'[j] = Tail(pipe[j]) /\ pipe[j] \in Seq(Message)
        BY <1>0, <3>2 DEF TypeOK
      <4>3. \A i \in 1 .. Len(Tail(pipe[j])) :
              \E n \in 1 .. Len(pipe[j]) : Tail(pipe[j])[i] = pipe[j][n]
        BY <3>2, <4>2, TailEntries
      <4>4. QED
        BY <3>2, <4>1, <4>2, <4>3
    <3>3. QED
      BY <2>2, <3>1, <3>2
  <2>4. ASSUME state_'[j] = "FINISHED", proc[j] = "alive" PROVE over[j]
    <3>0. "POLLHUP" \notin revents[j] /\ state_[j] # "FINISHED"
      BY <2>1, <2>4 DEF PipeInv, Unfinished, is_finished
    <3>1. ReadsInput(j) /\ StopsCalling(j)
      BY <1>6, <2>4, <3>0 DEF dispatch
    <3>2. pipe[j] # << >> /\ Head(pipe[j]).call = "FINISHED"
      BY <1>6, <2>4, <3>1 DEF dispatch, handle_call, WriterGone, StopsCalling
    <3>3. pipe[j] \in Seq(Message)
      BY <1>0 DEF TypeOK
    <3>4. Head(pipe[j]) = pipe[j][1] /\ 1 \in 1 .. Len(pipe[j])
      BY <3>2, <3>3
    <3>5. QED
      BY <3>2, <3>4 DEF PipeInv
  <2>5. \A k \in Jobs : k # j => state_'[k] = state_[k]
    <3>1. state_' = state_ \/ state_' = [state_ EXCEPT ![j] = "FINISHED"]
      BY <1>0, <1>6, DispatchFrame
    <3>2. QED
      BY <1>0, <3>1 DEF TypeOK
  <2>6. \A k \in Jobs : /\ "POLLHUP" \in revents'[k] => "POLLHUP" \in revents[k]
                        /\ revents'[k] = {"POLLHUP"} => revents[k] = {"POLLHUP"}
    BY <1>0, <2>1, Zenon DEF TypeOK
  <2>7. ASSUME NEW k \in Jobs, NEW i \in 1 .. Len(pipe'[k]), pipe'[k][i].call = "FINISHED"
        PROVE  over[k]
    <3>1. PICK n \in 1 .. Len(pipe[k]) : pipe'[k][i] = pipe[k][n]
      BY <2>3
    <3>2. pipe[k][n].call = "FINISHED"
      BY <2>7, <3>1
    <3>3. QED
      BY <3>2 DEF PipeInv
  <2>8. ASSUME NEW k \in Jobs
        PROVE  /\ pipe'[k] # << >> => first[k] # R_UNKNOWN
               /\ over[k] => first[k] # R_UNKNOWN
               /\ "POLLHUP" \in revents'[k] => proc[k] # "alive"
               /\ revents'[k] = {"POLLHUP"} => pipe'[k] = << >>
               /\ state_'[k] = "FINISHED" /\ proc[k] = "alive" => over[k]
               /\ proc[k] = "unborn" => pipe'[k] = << >> /\ first[k] = R_UNKNOWN
    <3>1. pipe'[k] # << >> => pipe[k] # << >>
      BY <2>3
    <3>2. /\ "POLLHUP" \in revents'[k] => "POLLHUP" \in revents[k]
          /\ revents'[k] = {"POLLHUP"} => revents[k] = {"POLLHUP"}
      BY <2>6
    <3>3. state_'[k] = "FINISHED" /\ proc[k] = "alive" => state_[k] = "FINISHED" \/ over[k]
      BY <2>4, <2>5
    <3>4. QED
      BY <3>1, <3>2, <3>3 DEF PipeInv
  <2>9. QED
    BY <2>1, <2>7, <2>8 DEF PipeInv
<1>7. ASSUME NEW j \in Jobs, reap_any(j) \/ reap_finished(j) PROVE PipeInv'
  <2>1. /\ proc' = [proc EXCEPT ![j] = "reaped"]
        /\ pipe' = [pipe EXCEPT ![j] = << >>]
        /\ \A k \in Jobs : k # j => state_'[k] = state_[k]
        /\ UNCHANGED <<first, over, revents>>
    BY <1>0, <1>7, ReapFrame DEF reap_any, reap_finished, reap_child, waiting, script
  <2>2. QED
    BY <1>0, <2>1 DEF TypeOK, PipeInv
<1>8. ASSUME NEW j \in Jobs, add_event(j) \/ end_job(j) PROVE PipeInv'
  <2>1. PICK m \in Message :
           /\ m.res # R_UNKNOWN /\ (m.call = "FINISHED" => over'[j])
           /\ proc[j] = "alive" /\ ~over[j]
           /\ pipe' = [pipe EXCEPT ![j] = Append(@, m)]
           /\ first' = [first EXCEPT ![j] = IF @ = R_UNKNOWN THEN m.res ELSE @]
           /\ over' = over \/ over' = [over EXCEPT ![j] = TRUE]
           /\ UNCHANGED <<revents, state_, result_, proc>>
    BY <1>8, Sends
  <2>2. \A k \in Jobs : k # j => /\ pipe'[k] = pipe[k] /\ first'[k] = first[k]
                                 /\ over'[k] = over[k]
    BY <1>0, <2>1 DEF TypeOK
  <2>3. /\ pipe'[j] = Append(pipe[j], m) /\ first'[j] # R_UNKNOWN
        /\ over[j] => over'[j]
        /\ pipe[j] \in Seq(Message)
    BY <1>0, <2>1 DEF TypeOK
  <2>4. \A i \in 1 .. Len(pipe'[j]) : pipe'[j][i].call = "FINISHED" => over'[j]
    <3>1. \A i \in 1 .. Len(pipe'[j]) : i \in 1 .. Len(pipe[j]) \/ pipe'[j][i] = m
      BY <2>3
    <3>2. \A i \in 1 .. Len(pipe[j]) : pipe'[j][i] = pipe[j][i]
      BY <2>3
    <3>3. QED
      BY <2>1, <2>3, <3>1, <3>2 DEF PipeInv
  <2>5. QED
    BY <2>1, <2>2, <2>3, <2>4 DEF PipeInv
<1>9. ASSUME NEW j \in Jobs, Child(j) \/ deadline_passes(j), ~add_event(j), ~end_job(j)
      PROVE  PipeInv'
  <2>1. UNCHANGED <<pipe, over, first, revents, state_>>
    BY <1>9, ChildFrame, ChildIsSilent
  <2>2. \A k \in Jobs : /\ proc'[k] = "alive" => proc[k] = "alive"
                        /\ proc'[k] = "unborn" => proc[k] = "unborn"
    BY <1>0, <1>9, ChildFrame, Zenon DEF TypeOK
  <2>3. QED
    BY <2>1, <2>2 DEF PipeInv
<1>10. QED
  BY <1>1, <1>2, <1>3, <1>4, <1>5, <1>6, <1>7, <1>8, <1>9, NextCases

\* A child's first message is merged into its result before anything ends it.
LEMMA FirstStep ==
  ASSUME Quiet, IInv, ExactInv, PipeInv, FirstInv, [Next]_vars
  PROVE  FirstInv'
<1>0. TypeOK /\ FinishedInv /\ ProcInv
  BY DEF IInv
<1>1. CASE begin_job
  <2>1. /\ pitr \in Jobs /\ proc' = [proc EXCEPT ![pitr] = "alive"]
        /\ UNCHANGED <<pipe, first, result_, state_>>
    BY <1>0, <1>1, NJobsAssumption DEF begin_job, CanBegin, TypeOK, Jobs, childObjs,
       pipes, script
  <2>2. QED
    BY <1>0, <2>1 DEF TypeOK, FirstInv
<1>2. CASE fork_fails \/ schedule_done \/ enter_poll \/ poll_ready \/ poll_eintr
           \/ handled \/ reaped \/ UNCHANGED vars
  <2>1. UNCHANGED <<pipe, first, result_, state_, proc>>
    BY <1>2 DEF fork_fails, schedule_done, enter_poll, poll_ready, poll_eintr, handled,
       reaped, vars, childObjs, procs, pipes, script
  <2>2. QED
    BY <2>1 DEF FirstInv
<1>3. CASE poll_timeout
  <2>1. UNCHANGED <<pipe, first, proc>>
    BY <1>3 DEF poll_timeout, procs, pipes, script
  <2>2. \A k \in Jobs : state_'[k] = "FINISHED" <=> state_[k] = "FINISHED"
    BY <1>0, <1>3, TimeoutFrame DEF is_finished
  <2>3. ASSUME NEW k \in Jobs PROVE result_'[k] >= result_[k] /\ result_'[k] \in result_t
    <3>1. /\ TimeoutResult(result_[k]) >= result_[k]
          /\ TimeoutResult(result_[k]) \in result_t
      BY <1>0, MergeType, ResultTypes DEF TypeOK, TimeoutResult
    <3>2. result_'[k] = TimeoutResult(result_[k]) \/ result_'[k] = result_[k]
      BY <1>3 DEF poll_timeout, handle_timeout
    <3>3. result_[k] \in result_t /\ result_[k] >= result_[k]
      BY <1>0, ResultTypes DEF TypeOK
    <3>4. QED
      BY <3>1, <3>2, <3>3
  <2>4. \A k \in Jobs : result_[k] >= first[k] => result_'[k] >= first[k]
    BY <1>0, <2>3, AtLeast DEF TypeOK
  <2>5. QED
    BY <2>1, <2>2, <2>4 DEF FirstInv
<1>4. ASSUME NEW j \in Jobs, dispatch(j) PROVE FirstInv'
  <2>1. /\ revents[j] # {} /\ UNCHANGED <<first, proc>>
        /\ state_' = state_ \/ state_' = [state_ EXCEPT ![j] = "FINISHED"]
        /\ \A k \in Jobs : k # j => result_'[k] = result_[k]
    BY <1>0, <1>4, DispatchFrame, Zenon DEF dispatch, script
  <2>2. \A k \in Jobs : k # j => pipe'[k] = pipe[k] /\ state_'[k] = state_[k]
    BY <1>0, <1>4, <2>1 DEF dispatch, handle_call, TypeOK
  <2>3. first[j] = R_UNKNOWN \/ result_'[j] >= first[j]
    <3>1. CASE pipe[j] # << >>
      <4>1. ReadsInput(j)
        <5>1. revents[j] \subseteq {"POLLIN", "POLLHUP"} /\ revents[j] # {"POLLHUP"}
          BY <1>0, <3>1 DEF PipeInv, TypeOK
        <5>2. QED
          BY <2>1, <5>1 DEF ReadsInput
      <4>2. result_'[j] = merge(result_[j], Head(pipe[j]).res)
        BY <1>0, <1>4, <3>1, <4>1 DEF dispatch, handle_call, TypeOK
      <4>3. pipe[j] \in Seq(Message)
        BY <1>0 DEF TypeOK
      <4>4. Head(pipe[j]).res \in result_t
        <5>1. Head(pipe[j]) \in Message
          BY <3>1, <4>3
        <5>2. QED
          BY <5>1 DEF Message
      <4>5. result_[j] \in result_t /\ first[j] \in result_t
        BY <1>0 DEF TypeOK
      <4>6. result_'[j] >= result_[j] /\ result_'[j] >= Head(pipe[j]).res /\ result_'[j] \in result_t
        BY <4>2, <4>4, <4>5, MergeType
      <4>7. first[j] = R_UNKNOWN \/ result_[j] >= first[j] \/ Head(pipe[j]).res = first[j]
        BY DEF FirstInv
      <4>8. QED
        BY <4>5, <4>6, <4>7, AtLeast
    <3>2. CASE pipe[j] = << >>
      <4>1. first[j] = R_UNKNOWN \/ result_[j] >= first[j]
        BY <3>2 DEF FirstInv
      <4>2. result_'[j] = result_[j] \/ result_'[j] = merge(result_[j], R_FAIL)
        BY <1>0, <1>4, <3>2 DEF dispatch, handle_call, TypeOK
      <4>3. result_[j] \in result_t /\ first[j] \in result_t
        BY <1>0 DEF TypeOK
      <4>4. result_'[j] >= result_[j] /\ result_'[j] \in result_t
        <5>1. result_[j] >= result_[j] /\ R_FAIL \in result_t
          BY <4>3, ResultTypes DEF R_FAIL
        <5>2. QED
          BY <4>2, <4>3, <5>1, MergeType
      <4>5. QED
        BY <4>1, <4>3, <4>4, AtLeast
    <3>3. QED
      BY <3>1, <3>2
  <2>4. QED
    BY <2>1, <2>2, <2>3 DEF FirstInv
<1>5. ASSUME NEW j \in Jobs, reap_any(j) \/ reap_finished(j) PROVE FirstInv'
  <2>1. reap_finished(j)
    BY <1>5 DEF reap_any, ExactInv
  <2>2. /\ state_[j] = "FINISHED"
        /\ proc' = [proc EXCEPT ![j] = "reaped"]
        /\ pipe' = [pipe EXCEPT ![j] = << >>]
        /\ result_' = [result_ EXCEPT ![j] = final_result(j)]
        /\ \A k \in Jobs : k # j => state_'[k] = state_[k]
        /\ first' = first
    BY <1>0, <2>1, ReapFrame DEF reap_finished, reap_child, IsFirst, Finished,
       is_finished, script
  <2>3. final_result(j) \in result_t /\ final_result(j) >= result_[j]
    BY <1>0, FinalResult
  <2>4. first[j] = R_UNKNOWN \/ result_[j] >= first[j]
    BY <2>2 DEF FirstInv
  <2>5. result_[j] \in result_t /\ first[j] \in result_t /\ result_'[j] = final_result(j)
    BY <1>0, <2>2 DEF TypeOK
  <2>6. first[j] = R_UNKNOWN \/ result_'[j] >= first[j]
    BY <2>3, <2>4, <2>5, AtLeast
  <2>7. \A k \in Jobs : k # j => /\ pipe'[k] = pipe[k] /\ result_'[k] = result_[k]
                                 /\ proc'[k] = proc[k]
    BY <1>0, <2>2 DEF TypeOK
  <2>8. QED
    BY <2>2, <2>6, <2>7 DEF FirstInv
<1>6. ASSUME NEW j \in Jobs, add_event(j) \/ end_job(j) PROVE FirstInv'
  <2>1. PICK m \in Message :
           /\ proc[j] = "alive" /\ ~over[j]
           /\ pipe' = [pipe EXCEPT ![j] = Append(@, m)]
           /\ first' = [first EXCEPT ![j] = IF @ = R_UNKNOWN THEN m.res ELSE @]
           /\ UNCHANGED <<state_, result_, proc>>
    BY <1>6, Sends
  <2>2. \A k \in Jobs : k # j => pipe'[k] = pipe[k] /\ first'[k] = first[k]
    BY <1>0, <2>1 DEF TypeOK
  <2>3. /\ pipe[j] \in Seq(Message) /\ pipe'[j] = Append(pipe[j], m)
        /\ first'[j] = IF first[j] = R_UNKNOWN THEN m.res ELSE first[j]
    BY <1>0, <2>1 DEF TypeOK
  <2>4. state_[j] # "FINISHED"
    BY <2>1 DEF PipeInv
  <2>5. CASE first[j] = R_UNKNOWN
    <3>1. pipe[j] = << >>
      BY <2>5 DEF PipeInv
    <3>2. pipe'[j] # << >> /\ Head(pipe'[j]).res = first'[j]
      BY <2>3, <2>5, <3>1
    <3>3. QED
      BY <2>1, <2>2, <2>4, <3>2 DEF FirstInv
  <2>6. CASE first[j] # R_UNKNOWN
    <3>1. pipe[j] # << >> => pipe'[j] # << >> /\ Head(pipe'[j]) = Head(pipe[j])
      BY <2>3
    <3>2. QED
      BY <2>1, <2>2, <2>3, <2>6, <3>1 DEF FirstInv
  <2>7. QED
    BY <2>5, <2>6
<1>7. ASSUME NEW j \in Jobs, Child(j) \/ deadline_passes(j), ~add_event(j), ~end_job(j)
      PROVE  FirstInv'
  <2>1. UNCHANGED <<pipe, first, result_, state_>>
    BY <1>7, ChildFrame, ChildIsSilent
  <2>2. \A k \in Jobs : proc'[k] = "reaped" => proc[k] = "reaped"
    BY <1>0, <1>7, ChildFrame, Zenon DEF TypeOK
  <2>3. QED
    BY <2>1, <2>2 DEF FirstInv
<1>8. QED
  BY <1>1, <1>2, <1>3, <1>4, <1>5, <1>6, <1>7, NextCases

-----------------------------------------------------------------------------

\* At the start nothing runs and nothing was sent.
LEMMA QuietInit == Init => ExactInv /\ PipeInv /\ FirstInv
<1> SUFFICES ASSUME Init PROVE ExactInv /\ PipeInv /\ FirstInv
  OBVIOUS
<1>1. Unfinished = {}
  BY DEF Init, Unfinished
<1>2. Cardinality(Unfinished) = 0
  BY <1>1, FS_EmptySet
<1>3. QED
  BY <1>2 DEF Init, ExactInv, PipeInv, FirstInv

\* The invariant of the runner in quiet surroundings: nrunning_ is exact and
\* every first message is merged, or still the next one in its pipe.
THEOREM QuietInvariant == ASSUME Quiet PROVE Spec => []QuietInv
<1>1. IInv /\ ExactInv /\ PipeInv /\ FirstInv /\ [Next]_vars
        => (ExactInv /\ PipeInv /\ FirstInv)'
  BY ExactStep, PipeStep, FirstStep
<1>2. QuietInv <=> IInv /\ ExactInv /\ PipeInv /\ FirstInv
  BY DEF QuietInv
<1>3. QED
  BY <1>1, <1>2, QuietInit, RunnerInvariant, PTL DEF Spec

\* The two assert()s on pfd_.size() in wait() never fail in quiet surroundings.
THEOREM AssertionsHold == ASSUME Quiet PROVE Spec => []AssertsHold
<1>1. QuietInv => AssertsHold
  BY DEF QuietInv, ExactInv, AssertsHold
<1>2. QED
  BY <1>1, QuietInvariant, PTL

\* In quiet surroundings wait() loses no child's first message: the result the
\* listeners get is at least as bad as what it carried.
THEOREM FirstMessageHeard == ASSUME Quiet PROVE Spec => []FirstMessageCounts
<1>1. QuietInv => FirstMessageCounts
  <2> SUFFICES ASSUME QuietInv, NEW j \in Jobs, verdict[j] # R_UNKNOWN
               PROVE  verdict[j] >= first[j]
    BY DEF FirstMessageCounts
  <2>1. verdict[j] = result_[j] /\ proc[j] = "reaped"
    BY DEF QuietInv, IInv, VerdictInv
  <2>2. first[j] = R_UNKNOWN \/ result_[j] >= first[j]
    BY <2>1 DEF QuietInv, FirstInv
  <2>3. result_[j] \in result_t
    BY DEF QuietInv, IInv, TypeOK
  <2>4. QED
    BY <2>1, <2>2, <2>3, ResultTypes DEF R_UNKNOWN
<1>2. QED
  BY <1>1, QuietInvariant, PTL

=============================================================================
