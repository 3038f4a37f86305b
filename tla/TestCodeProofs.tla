--------------------------- MODULE TestCodeProofs ---------------------------
(***************************************************************************)
(* Proofs about TestCode, for any depth of the tree, any descriptors and   *)
(* any number of calls of the user code.                                   *)
(***************************************************************************)
EXTENDS TestCode, TLAPS

\* What user code may throw: every event that ends the block it runs in.
Thrown == {"EXPASS", "EXFAIL", "EXNA", "ASSERT", "EXCEPTION", "SLMATCH", "EXIT",
           "FIXTURE"}

\* Each of them, and each event of the checks after the test, says something
\* about the result (event_t::get_result).
LEMMA EventResults ==
  /\ \A which \in Thrown \cup {"FDLEAK", "VALGRIND"} :
       /\ which \in events_t
       /\ get_result(which) \in {R_PASS, R_NOTAPPLICABLE, R_FAIL}
       /\ get_result(which) = R_PASS => which = "EXPASS"
  /\ get_result("FDLEAK") = R_FAIL /\ get_result("VALGRIND") = R_FAIL
BY DEF Thrown, events_t, get_result, R_UNKNOWN, R_PASS, R_NOTAPPLICABLE, R_FAIL

\* merge() is the maximum of two results.
LEMMA MergeMax ==
  ASSUME NEW r \in result_t, NEW s \in result_t
  PROVE  /\ merge(r, s) \in result_t
         /\ merge(r, s) = R_FAIL <=> r = R_FAIL \/ s = R_FAIL
         /\ merge(r, s) = R_UNKNOWN <=> r = R_UNKNOWN /\ s = R_UNKNOWN
         /\ merge(r, s) = R_PASS =>
              {r, s} \subseteq {R_UNKNOWN, R_PASS} /\ R_PASS \in {r, s}
         /\ merge(r, R_UNKNOWN) = r /\ merge(R_UNKNOWN, r) = r
         /\ merge(r, merge(s, R_PASS)) = merge(merge(r, s), R_PASS)
         /\ merge(r, merge(r, s)) = merge(r, s)
         /\ r # R_UNKNOWN => merge(r, R_PASS) = r
BY DEF merge, result_t, R_UNKNOWN, R_PASS, R_FAIL

\* Merging one more result on both sides keeps two results in step.
LEMMA MergeInStep ==
  ASSUME NEW r \in result_t, NEW s \in result_t, NEW e \in result_t,
         merge(s, R_PASS) = merge(r, R_PASS)
  PROVE  merge(merge(s, e), R_PASS) = merge(merge(r, e), R_PASS)
BY DEF merge, result_t, R_UNKNOWN, R_PASS, R_FAIL

\* The result codes are results, and no two of them are equal.
LEMMA Codes ==
  /\ {R_UNKNOWN, R_PASS, R_NOTAPPLICABLE, R_FAIL} \subseteq result_t
  /\ R_UNKNOWN # R_PASS /\ R_UNKNOWN # R_NOTAPPLICABLE /\ R_UNKNOWN # R_FAIL
  /\ R_PASS # R_NOTAPPLICABLE /\ R_PASS # R_FAIL /\ R_NOTAPPLICABLE # R_FAIL
BY DEF result_t, R_UNKNOWN, R_PASS, R_NOTAPPLICABLE, R_FAIL

\* Whatever way user code leaves its block, exit() included, the event finds the
\* np_catch of that block.
LEMMA ThrowIsCaught ==
  ASSUME TryInv, UserThrows
  PROVE  \E which \in Thrown :
           /\ Running /\ catching
           /\ raise_event(which, stage, NoFd)
           /\ leave_try(merge(res, get_result(which)))
           /\ UNCHANGED <<funcs_, user, frame, unchecked>>
<1>1. \E which \in Thrown : np_throw(which)
  BY DEF TryInv, UserThrows, np_pass, np_fail, np_notapplicable, np_assert_failed,
         assert_fail, CU_assertImplementation, terminate_handler,
         unexpected_syslog, exit_called, fixture_fails, Dies, Running, Thrown
<1>2. PICK which \in Thrown : np_throw(which)
  BY <1>1
<1>3. catching
  BY <1>2 DEF np_throw, TryInv, Running
<1> QED
  BY <1>2, <1>3 DEF np_throw

\* A count stays one.
LEMMA SuccNat == \A n \in Nat : n + 1 \in Nat
OBVIOUS

\* What leaving a block assigns.
LEMMA LeaveTryType ==
  ASSUME TypeOK, NEW r \in result_t, leave_try(r)
  PROVE  /\ stage' \in Stages /\ left' \subseteq Levels /\ catching' \in BOOLEAN
         /\ res' \in result_t
         /\ ups' \subseteq Levels /\ tested' \in BOOLEAN /\ downs' \subseteq Levels
<1> USE DEF history
<1>1. CASE stage = "BEFORE"
  <2>1. Depth \in Levels
    BY DepthAssumption DEF Levels
  <2> QED
    BY <1>1, <2>1, Zenon DEF TypeOK, leave_try, Stages
<1>2. CASE stage = "TEST"
  <2>1. Teardowns(r) \subseteq Levels /\ Innermost(Teardowns(r)) \subseteq Levels
    BY DEF Teardowns, get_fixtures, Innermost
  <2> QED
    BY <1>2, <2>1, Zenon DEF TypeOK, leave_try, catching_AfterTest, Stages
<1>3. CASE stage = "AFTER"
  <2>1. TeardownResult(r) \in result_t
    BY MergeMax, Codes DEF TeardownResult
  <2> QED
    BY <1>3, <2>1, Zenon DEF TypeOK, leave_try, Stages
<1> QED
  BY <1>1, <1>2, <1>3 DEF leave_try

\* Raising an event keeps the types of what is told.
LEMMA RaiseType ==
  ASSUME TypeOK, NEW which \in Thrown \cup {"FDLEAK", "VALGRIND"}, NEW functype,
         NEW fd, raise_event(which, functype, fd)
  PROVE  /\ \A e \in raised' : e.which \in events_t
         /\ sent' \in result_t /\ over' \in BOOLEAN
         /\ merge(res, get_result(which)) \in result_t
<1>1. which \in events_t /\ get_result(which) \in result_t
  BY EventResults, Codes
<1>2. \A e \in raised' : e.which \in events_t
  <2>1. Event(which, functype, fd).which = which
    BY DEF Event
  <2>2. raised' = raised \cup {Event(which, functype, fd)}
    BY DEF raise_event
  <2> QED
    BY <1>1, <2>1, <2>2, Zenon DEF TypeOK
<1>3. merge(sent, get_result(which)) \in result_t /\ merge(res, get_result(which)) \in result_t
  BY <1>1, MergeMax, Zenon DEF TypeOK
<1> QED
  BY <1>2, <1>3, Zenon DEF TypeOK, raise_event

-----------------------------------------------------------------------------

\* Every step of the child keeps the types.
LEMMA TypeStep ==
  ASSUME TypeOK, TryInv, [Next]_vars PROVE TypeOK'
<1> USE DEF TypeOK, user, frame, told, history
<1>1. CASE pre_run
  BY <1>1, Zenon DEF pre_run, Stages, get_fixtures, Installed
<1>2. CASE try_done
  BY <1>2, LeaveTryType, Zenon DEF try_done
<1>3. CASE post_run
  BY <1>3, Zenon DEF post_run, Stages
<1>4. ASSUME NEW fd \in Fds, descriptor_leaks(fd) PROVE TypeOK'
  <2>1. CASE FdChanged(fd)
    BY <1>4, <2>1, RaiseType, Zenon DEF descriptor_leaks, LeakResult
  <2>2. CASE ~FdChanged(fd)
    BY <1>4, <2>2, Zenon DEF descriptor_leaks
  <2> QED BY <2>1, <2>2, Zenon
<1>5. CASE fds_checked
  BY <1>5, Zenon DEF fds_checked, Stages
<1>6. CASE valgrind_errors
  <2>1. CASE HAVE_VALGRIND /\ memory # {}
    BY <1>6, <2>1, RaiseType, Zenon DEF valgrind_errors
  <2>2. CASE ~(HAVE_VALGRIND /\ memory # {})
    BY <1>6, <2>2, Zenon DEF valgrind_errors, Stages
  <2> QED BY <2>1, <2>2, Zenon
<1>7. CASE end_job
  BY <1>7, MergeMax, Zenon DEF end_job, Stages, Heard
<1>8. CASE function_returns
  BY <1>8, Zenon DEF function_returns, Current, Innermost, Outermost
<1>9. CASE UserThrows
  <2>1. PICK which \in Thrown :
          /\ raise_event(which, stage, NoFd)
          /\ leave_try(merge(res, get_result(which)))
          /\ UNCHANGED <<funcs_, user, frame, unchecked>>
    BY <1>9, ThrowIsCaught, Zenon
  <2> QED
    BY <2>1, RaiseType, LeaveTryType, Zenon
<1>10. ASSUME NEW fd \in Fds, NEW file \in Files \cup {""}, changes_fd(fd, file)
       PROVE TypeOK'
  <2>1. ncalls \in Nat /\ ncalls' = ncalls + 1
    BY <1>10, Zenon DEF changes_fd
  <2>2. fds' \in [Fds -> Files \cup {"", "pipe"}]
    BY <1>10, Zenon DEF changes_fd
  <2>3. ncalls' \in Nat
    BY <2>1, SuccNat, Zenon
  <2>4. UNCHANGED <<stage, funcs_, left, catching, res, memory, frame, unchecked, told,
                    history>>
    BY <1>10, Zenon DEF changes_fd
  <2> QED BY <2>2, <2>3, <2>4, Zenon
<1>11. ASSUME NEW kind \in {"leaked", "errors"}, memory_error(kind) PROVE TypeOK'
  <2>1. ncalls \in Nat /\ ncalls' = ncalls + 1
    BY <1>11, Zenon DEF memory_error
  <2>2. memory' \subseteq {"leaked", "errors"}
    BY <1>11, Zenon DEF memory_error
  <2>3. ncalls' \in Nat
    BY <2>1, SuccNat, Zenon
  <2>4. UNCHANGED <<stage, funcs_, left, catching, res, fds, frame, unchecked, told,
                    history>>
    BY <1>11, Zenon DEF memory_error
  <2> QED BY <2>2, <2>3, <2>4, Zenon
<1>12. CASE crashes
  BY <1>12, Zenon DEF crashes, Dies, Stages
<1>13. CASE UNCHANGED vars
  BY <1>13, Zenon DEF vars
<1> QED
  BY <1>1, <1>2, <1>3, <1>4, <1>5, <1>6, <1>7, <1>8, <1>9, <1>10, <1>11, <1>12,
     <1>13, Zenon DEF Next, Framework, UserCalls, ended

\* Leaving a block leaves it for one that catches, or for the checks.
LEMMA TryStep ==
  ASSUME TypeOK, TryInv, [Next]_vars PROVE TryInv'
<1> USE DEF TryInv, user, frame, told, history
<1>0. ASSUME NEW r, leave_try(r), UNCHANGED frame PROVE TryInv'
  BY <1>0 DEF leave_try, catching_AfterTest
<1>1. CASE pre_run
  BY <1>1 DEF pre_run, Installed
<1>2. CASE try_done
  BY <1>0, <1>2 DEF try_done
<1>3. CASE post_run
  BY <1>3 DEF post_run
<1>4. ASSUME NEW fd \in Fds, descriptor_leaks(fd) PROVE TryInv'
  BY <1>4 DEF descriptor_leaks
<1>5. CASE fds_checked
  BY <1>5 DEF fds_checked
<1>6. CASE valgrind_errors
  BY <1>6 DEF valgrind_errors
<1>7. CASE end_job
  BY <1>7 DEF end_job
<1>8. CASE function_returns
  BY <1>8 DEF function_returns
<1>9. CASE UserThrows
  BY <1>0, <1>9, ThrowIsCaught
<1>10. ASSUME NEW fd \in Fds, NEW file \in Files \cup {""}, changes_fd(fd, file)
       PROVE TryInv'
  BY <1>10, Zenon DEF changes_fd
<1>11. ASSUME NEW kind \in {"leaked", "errors"}, memory_error(kind) PROVE TryInv'
  BY <1>11 DEF memory_error
<1>12. CASE crashes
  BY <1>12 DEF crashes, Dies
<1>13. CASE UNCHANGED vars
  BY <1>13 DEF vars
<1> QED
  BY <1>1, <1>2, <1>3, <1>4, <1>5, <1>6, <1>7, <1>8, <1>9, <1>10, <1>11, <1>12,
     <1>13, Zenon DEF Next, Framework, UserCalls, ended

-----------------------------------------------------------------------------

\* Steps that touch neither a block nor what was begun keep the order.
LEMMA FixtureFrame ==
  ASSUME FixtureInv, UNCHANGED <<funcs_, left, history>>,
         stage' = stage \/ stage' \in {"fds", "valgrind", "end_job", "exited", "died"}
  PROVE  FixtureInv'
BY DEF FixtureInv, FixtureOrder, get_fixtures, Innermost, history

\* Setups are run from the outside in and teardowns from the inside out, one
\* after the other.
LEMMA ReturnKeepsOrder ==
  ASSUME TypeOK, FixtureInv, function_returns PROVE FixtureInv'
<1> USE DEF history
<1>1. /\ left \subseteq Nat
      /\ get_fixtures("BEFORE") \subseteq Nat /\ get_fixtures("AFTER") \subseteq Nat
  <2>1. Levels \subseteq Nat
    BY DepthAssumption DEF Levels
  <2> QED
    BY <2>1, Zenon DEF TypeOK, get_fixtures
<1>2. UNCHANGED <<get_fixtures("BEFORE"), get_fixtures("AFTER")>>
  BY DEF function_returns, get_fixtures
<1>3. CASE stage = "BEFORE"
  <2>1. left' = left \ Outermost(left) /\ ups' = ups \cup Outermost(left)
        /\ UNCHANGED <<stage, tested, downs>>
    BY <1>3 DEF function_returns, Current
  <2>2. left' \subseteq get_fixtures("BEFORE") /\ ups' = get_fixtures("BEFORE") \ left'
    BY <1>3, <2>1 DEF FixtureInv, Outermost
  <2>3. ASSUME NEW a \in ups', NEW b \in left' PROVE a < b
    <3>1. CASE a \in ups
      BY <1>3, <2>1, <3>1 DEF FixtureInv
    <3>2. CASE a \in Outermost(left)
      <4>1. a \in Nat /\ b \in Nat /\ a <= b /\ a # b
        BY <1>1, <2>1, <3>2 DEF Outermost
      <4> QED BY <4>1
    <3> QED BY <2>1, <3>1, <3>2
  <2>4. ups' \subseteq Nat /\ get_fixtures("BEFORE") \subseteq Nat
    BY <1>1, <2>2
  <2>5. ASSUME NEW a \in ups', NEW b \in get_fixtures("BEFORE"), b < a PROVE b \in ups'
    BY <2>2, <2>3, <2>4, <2>5
  <2> QED
    BY <1>2, <1>3, <2>1, <2>2, <2>3, <2>5 DEF FixtureInv, FixtureOrder
<1>4. CASE stage = "TEST"
  <2>1. UNCHANGED <<stage, history>>
    BY <1>4 DEF function_returns
  <2> QED
    BY <1>2, <1>4, <2>1 DEF FixtureInv, FixtureOrder
<1>5. CASE stage = "AFTER"
  <2> DEFINE F == get_fixtures("AFTER")
  <2>1. left' = left \ Innermost(left) /\ downs' = downs \cup Innermost(left')
        /\ UNCHANGED <<stage, tested, ups>>
    BY <1>5 DEF function_returns, Current
  <2>2. left' \subseteq F /\ downs' = (F \ left') \cup Innermost(left')
    BY <1>5, <2>1 DEF FixtureInv, Innermost
  <2>3. \A a \in F \ left', b \in left' : b < a
    BY <1>1, <1>5, <2>1 DEF FixtureInv, Innermost
  <2>4. \A a \in downs', b \in F : b > a => b \in downs'
    BY <1>1, <2>2, <2>3 DEF Innermost
  <2> QED
    BY <1>2, <1>5, <2>1, <2>2, <2>3, <2>4 DEF FixtureInv, FixtureOrder, Innermost
<1> QED
  BY <1>3, <1>4, <1>5 DEF function_returns, Running

\* Leaving a block with result r: the test is begun only from setups that all
\* returned, and the innermost teardown first.
LEMMA LeaveTryKeepsOrder ==
  ASSUME TypeOK, FixtureInv, NEW r, leave_try(r), UNCHANGED funcs_,
         left = {} \/ r # R_UNKNOWN
  PROVE  FixtureInv'
<1> USE DEF history
<1>1. UNCHANGED <<get_fixtures("BEFORE"), get_fixtures("AFTER")>>
  BY DEF get_fixtures
<1>2. CASE stage = "BEFORE" /\ SkipsTest(r)
  BY <1>1, <1>2 DEF leave_try, FixtureInv, FixtureOrder
<1>3. CASE stage = "BEFORE" /\ ~SkipsTest(r)
  BY <1>1, <1>3 DEF leave_try, FixtureInv, FixtureOrder, SkipsTest
<1>4. CASE stage = "TEST"
  <2> DEFINE F == get_fixtures("AFTER")
  <2>1. /\ stage' = "AFTER" /\ left' = F /\ downs' = Innermost(left')
        /\ UNCHANGED <<ups, tested>>
    BY <1>4 DEF leave_try, Teardowns
  <2>2. F \subseteq Nat
    BY DepthAssumption DEF Levels, get_fixtures
  <2>3. \A a \in downs', b \in F : b > a => b \in downs'
    BY <2>1, <2>2 DEF Innermost
  <2> QED
    BY <1>1, <1>4, <2>1, <2>3 DEF FixtureInv, FixtureOrder
<1>5. CASE stage = "AFTER"
  BY <1>1, <1>5 DEF leave_try, FixtureInv, FixtureOrder
<1> QED
  BY <1>2, <1>3, <1>4, <1>5 DEF leave_try

\* Every step keeps the order of fixtures and test.
LEMMA FixtureStep ==
  ASSUME TypeOK, TryInv, FixtureInv, [Next]_vars PROVE FixtureInv'
<1> USE DEF user, frame, told, history
<1>1. CASE pre_run
  <2>1. get_fixtures("BEFORE")' = get_fixtures("BEFORE")
    BY <1>1 DEF pre_run, get_fixtures
  <2> QED
    BY <1>1, <2>1 DEF pre_run, FixtureInv, FixtureOrder
<1>2. CASE try_done
  BY <1>2, LeaveTryKeepsOrder DEF try_done
<1>3. CASE post_run
  BY <1>3, FixtureFrame DEF post_run
<1>4. ASSUME NEW fd \in Fds, descriptor_leaks(fd) PROVE FixtureInv'
  BY <1>4, FixtureFrame DEF descriptor_leaks
<1>5. CASE fds_checked
  BY <1>5, FixtureFrame DEF fds_checked
<1>6. CASE valgrind_errors
  BY <1>6, FixtureFrame DEF valgrind_errors
<1>7. CASE end_job
  BY <1>7, FixtureFrame DEF end_job
<1>8. CASE function_returns
  BY <1>8, ReturnKeepsOrder
<1>9. CASE UserThrows
  <2>1. PICK which \in Thrown :
          /\ leave_try(merge(res, get_result(which)))
          /\ UNCHANGED funcs_
    BY <1>9, ThrowIsCaught
  <2>2. merge(res, get_result(which)) # R_UNKNOWN
    <3>1. get_result(which) \in result_t \ {R_UNKNOWN}
      BY EventResults, Codes
    <3> QED BY <3>1, MergeMax, Zenon DEF TypeOK
  <2> QED
    BY <2>1, <2>2, LeaveTryKeepsOrder
<1>10. ASSUME NEW fd \in Fds, NEW file \in Files \cup {""}, changes_fd(fd, file)
       PROVE FixtureInv'
  BY <1>10, FixtureFrame, Zenon DEF changes_fd
<1>11. ASSUME NEW kind \in {"leaked", "errors"}, memory_error(kind) PROVE FixtureInv'
  BY <1>11, FixtureFrame DEF memory_error
<1>12. CASE crashes
  BY <1>12, FixtureFrame DEF crashes, Dies
<1>13. CASE UNCHANGED vars
  BY <1>13, FixtureFrame DEF vars
<1> QED
  BY <1>1, <1>2, <1>3, <1>4, <1>5, <1>6, <1>7, <1>8, <1>9, <1>10, <1>11, <1>12,
     <1>13, Zenon DEF Next, Framework, UserCalls, ended

-----------------------------------------------------------------------------

\* Some event that was raised is a failure.
SomeFails == \E e \in raised : get_result(e.which) = R_FAIL

\* Raising an event and merging its result keep the result explained.
LEMMA RaiseExplained ==
  ASSUME TypeOK, ResultInv, NEW which \in Thrown \cup {"FDLEAK", "VALGRIND"},
         NEW functype, NEW fd, raise_event(which, functype, fd)
  PROVE  merge(res, get_result(which)) = R_FAIL <=> SomeFails'
<1>1. get_result(which) \in result_t
  BY EventResults, Codes
<1>2. merge(res, get_result(which)) = R_FAIL <=> res = R_FAIL \/ get_result(which) = R_FAIL
  BY <1>1, MergeMax, Zenon DEF TypeOK
<1>3. Event(which, functype, fd).which = which
  BY DEF Event
<1>4. raised' = raised \cup {Event(which, functype, fd)}
  BY DEF raise_event
<1>5. SomeFails' <=> SomeFails \/ get_result(which) = R_FAIL
  BY <1>3, <1>4 DEF SomeFails
<1> QED
  BY <1>2, <1>5 DEF ResultInv, SomeFails

\* Leaving a block with a result r that the events explain.
LEMMA LeaveTryExplained ==
  ASSUME TypeOK, FixtureInv, NEW r \in result_t, leave_try(r), r = R_FAIL <=> SomeFails',
         stage = "BEFORE" /\ r = R_PASS => Event("EXPASS", "BEFORE", NoFd) \in raised'
  PROVE  ResultInv'
<1>1. TeardownResult(r) # R_UNKNOWN /\ (TeardownResult(r) = R_FAIL <=> r = R_FAIL)
  BY MergeMax, Codes DEF TeardownResult
<1>2. CASE stage = "BEFORE" /\ SkipsTest(r)
  BY <1>2 DEF leave_try, SkipsTest, ResultInv, SomeFails, Later
<1>3. CASE stage = "BEFORE" /\ ~SkipsTest(r)
  BY <1>3 DEF leave_try, SkipsTest, ResultInv, SomeFails, Later
<1>4. CASE stage = "TEST"
  BY <1>4 DEF leave_try, ResultInv, SomeFails, Later
<1>5. CASE stage = "AFTER"
  BY <1>1, <1>5 DEF leave_try, FixtureInv, ResultInv, SomeFails, Later, history
<1> QED
  BY <1>2, <1>3, <1>4, <1>5 DEF leave_try

\* Steps that neither raise nor merge keep the result.
LEMMA ResultFrame ==
  ASSUME ResultInv, UNCHANGED <<res, raised, tested>>,
         \/ stage' = stage \/ stage' = "died"
         \/ stage = "pre_run" /\ stage' = "BEFORE"
         \/ stage \in Later /\ stage' \in Later
  PROVE  ResultInv'
BY DEF ResultInv, Later

\* Every step keeps the result the worst of the events raised.
LEMMA ResultStep ==
  ASSUME TypeOK, TryInv, FixtureInv, ResultInv, [Next]_vars PROVE ResultInv'
<1> USE DEF user, frame, told, history
<1>1. CASE pre_run
  BY <1>1, ResultFrame DEF pre_run
<1>2. CASE try_done
  <2>1. leave_try(res) /\ UNCHANGED raised
    BY <1>2 DEF try_done
  <2>2. res = R_FAIL <=> SomeFails'
    BY <2>1 DEF ResultInv, SomeFails
  <2>3. stage = "BEFORE" => res # R_PASS
    BY Codes DEF ResultInv
  <2> QED
    BY <2>1, <2>2, <2>3, LeaveTryExplained, Zenon DEF TypeOK
<1>3. CASE post_run
  BY <1>3, ResultFrame DEF post_run, Later
<1>4. ASSUME NEW fd \in Fds, descriptor_leaks(fd) PROVE ResultInv'
  <2>1. CASE FdChanged(fd)
    <3>1. /\ raise_event("FDLEAK", "UNKNOWN", fd) /\ res' = merge(res, get_result("FDLEAK"))
          /\ UNCHANGED stage /\ stage \in Later
      BY <1>4, <2>1 DEF descriptor_leaks, LeakResult, Later
    <3>2. res' = R_FAIL
      <4>1. res \in result_t /\ get_result("FDLEAK") \in result_t /\ get_result("FDLEAK") = R_FAIL
        BY EventResults, Codes, Zenon DEF TypeOK
      <4> QED BY <3>1, <4>1, MergeMax
    <3>3. res' = R_FAIL <=> SomeFails'
      BY <3>1, RaiseExplained
    <3> QED
      BY <3>1, <3>2, <3>3, Codes DEF ResultInv, SomeFails, Later
  <2>2. CASE ~FdChanged(fd)
    BY <1>4, <2>2, ResultFrame DEF descriptor_leaks
  <2> QED BY <2>1, <2>2
<1>5. CASE fds_checked
  BY <1>5, ResultFrame DEF fds_checked, Later
<1>6. CASE valgrind_errors
  <2>1. CASE HAVE_VALGRIND /\ memory # {}
    <3>1. /\ raise_event("VALGRIND", "UNKNOWN", NoFd)
          /\ res' = merge(res, get_result("VALGRIND"))
          /\ UNCHANGED stage /\ stage \in Later
      BY <1>6, <2>1 DEF valgrind_errors, Later
    <3>2. res' = R_FAIL
      <4>1. res \in result_t /\ get_result("VALGRIND") \in result_t /\ get_result("VALGRIND") = R_FAIL
        BY EventResults, Codes, Zenon DEF TypeOK
      <4> QED BY <3>1, <4>1, MergeMax
    <3>3. res' = R_FAIL <=> SomeFails'
      BY <3>1, RaiseExplained
    <3> QED
      BY <3>1, <3>2, <3>3, Codes DEF ResultInv, SomeFails, Later
  <2>2. CASE ~(HAVE_VALGRIND /\ memory # {})
    BY <1>6, <2>2, ResultFrame DEF valgrind_errors, Later
  <2> QED BY <2>1, <2>2
<1>7. CASE end_job
  BY <1>7, ResultFrame DEF end_job, Later
<1>8. CASE function_returns
  BY <1>8, ResultFrame DEF function_returns
<1>9. CASE UserThrows
  <2>1. PICK which \in Thrown :
          /\ raise_event(which, stage, NoFd)
          /\ leave_try(merge(res, get_result(which)))
    BY <1>9, ThrowIsCaught
  <2> DEFINE r == merge(res, get_result(which))
  <2>2. r \in result_t /\ (r = R_FAIL <=> SomeFails')
    BY <2>1, RaiseType, RaiseExplained
  <2>3. ASSUME stage = "BEFORE", r = R_PASS
        PROVE  Event("EXPASS", "BEFORE", NoFd) \in raised'
    <3>1. r = get_result(which)
      BY <2>3, EventResults, MergeMax, Codes DEF ResultInv
    <3>2. which = "EXPASS"
      BY <2>3, <3>1, EventResults
    <3> QED
      BY <2>1, <2>3, <3>2 DEF raise_event
  <2> QED
    BY <2>1, <2>2, <2>3, LeaveTryExplained
<1>10. ASSUME NEW fd \in Fds, NEW file \in Files \cup {""}, changes_fd(fd, file)
       PROVE ResultInv'
  BY <1>10, ResultFrame, Zenon DEF changes_fd
<1>11. ASSUME NEW kind \in {"leaked", "errors"}, memory_error(kind) PROVE ResultInv'
  BY <1>11, ResultFrame DEF memory_error
<1>12. CASE crashes
  BY <1>12, ResultFrame DEF crashes, Dies
<1>13. CASE UNCHANGED vars
  BY <1>13, ResultFrame DEF vars
<1> QED
  BY <1>1, <1>2, <1>3, <1>4, <1>5, <1>6, <1>7, <1>8, <1>9, <1>10, <1>11, <1>12,
     <1>13, Zenon DEF Next, Framework, UserCalls, ended

-----------------------------------------------------------------------------

\* No descriptor is compared while user code runs.
LEMMA NotYetCompared ==
  ASSUME stage' \in {"BEFORE", "TEST", "AFTER", "post_run", "died"} PROVE LeakInv'
BY DEF LeakInv

\* From the comparison on descriptors stay as they are, and a failure stays one.
LEMMA LeakFrame ==
  ASSUME LeakInv, UNCHANGED <<fds, prefds, unchecked>>, raised \subseteq raised',
         res = R_FAIL => res' = R_FAIL,
         stage' = stage \/ unchecked = {}, stage \in {"fds", "valgrind", "end_job", "exited"}
  PROVE  LeakInv'
BY DEF LeakInv, Event

\* Every step keeps the record of leaked descriptors.
LEMMA LeakStep ==
  ASSUME TypeOK, TryInv, LeakInv, [Next]_vars PROVE LeakInv'
<1> USE DEF user, frame, told, history
<1>1. CASE pre_run
  BY <1>1, NotYetCompared DEF pre_run
<1>2. CASE try_done
  BY <1>2, NotYetCompared DEF try_done, leave_try
<1>3. CASE post_run
  BY <1>3 DEF post_run, LeakInv
<1>4. ASSUME NEW fd \in Fds, descriptor_leaks(fd) PROVE LeakInv'
  <2>1. stage = "fds" /\ UNCHANGED <<stage, fds, prefds>> /\ unchecked' = unchecked \ {fd}
    BY <1>4 DEF descriptor_leaks
  <2>2. CASE FdChanged(fd)
    <3>1. raised' = raised \cup {Event("FDLEAK", "UNKNOWN", fd)}
      BY <1>4, <2>2 DEF descriptor_leaks, raise_event
    <3>2. res' = R_FAIL
      <4>1. res \in result_t /\ get_result("FDLEAK") \in result_t /\ get_result("FDLEAK") = R_FAIL
        BY EventResults, Codes, Zenon DEF TypeOK
      <4> QED BY <1>4, <2>2, <4>1, MergeMax DEF descriptor_leaks, LeakResult
    <3> QED
      BY <2>1, <3>1, <3>2 DEF LeakInv, Event
  <2>3. CASE ~FdChanged(fd)
    <3>1. fds[fd] = prefds[fd] /\ UNCHANGED <<raised, res>>
      BY <1>4, <2>3 DEF descriptor_leaks, FdChanged
    <3> QED
      BY <2>1, <3>1 DEF LeakInv, Event
  <2> QED BY <2>2, <2>3
<1>5. CASE fds_checked
  BY <1>5, LeakFrame DEF fds_checked
<1>6. CASE valgrind_errors
  <2>1. stage = "valgrind" /\ unchecked = {} /\ UNCHANGED <<fds, prefds, unchecked>>
    BY <1>6 DEF valgrind_errors, LeakInv
  <2>2. raised \subseteq raised'
    BY <1>6 DEF valgrind_errors, raise_event
  <2>3. res = R_FAIL => res' = R_FAIL
    <3>1. res \in result_t /\ get_result("VALGRIND") \in result_t
      BY EventResults, Codes, Zenon DEF TypeOK
    <3> QED BY <1>6, <3>1, MergeMax DEF valgrind_errors
  <2> QED
    BY <2>1, <2>2, <2>3, LeakFrame
<1>7. CASE end_job
  BY <1>7, LeakFrame DEF end_job, LeakInv
<1>8. CASE function_returns
  BY <1>8, NotYetCompared DEF function_returns, Running
<1>9. CASE UserThrows
  BY <1>9, ThrowIsCaught, NotYetCompared, Zenon DEF leave_try
<1>10. ASSUME NEW fd \in Fds, NEW file \in Files \cup {""}, changes_fd(fd, file)
       PROVE LeakInv'
  BY <1>10, NotYetCompared, Zenon DEF changes_fd, Running
<1>11. ASSUME NEW kind \in {"leaked", "errors"}, memory_error(kind) PROVE LeakInv'
  BY <1>11, NotYetCompared DEF memory_error, Running
<1>12. CASE crashes
  BY <1>12, NotYetCompared DEF crashes, Dies
<1>13. CASE UNCHANGED vars
  BY <1>13 DEF vars, LeakInv, Event
<1> QED
  BY <1>1, <1>2, <1>3, <1>4, <1>5, <1>6, <1>7, <1>8, <1>9, <1>10, <1>11, <1>12,
     <1>13, Zenon DEF Next, Framework, UserCalls, ended

-----------------------------------------------------------------------------

\* Two results that differ at most by a final PASS.
InStep(r, s) == merge(s, R_PASS) = merge(r, R_PASS)

\* A final PASS, or the other result, keeps two results in step.
LEMMA InStepMerge ==
  ASSUME NEW r \in result_t, NEW s \in result_t, InStep(r, s)
  PROVE  InStep(merge(r, R_PASS), s) /\ InStep(r, merge(s, r))
BY DEF InStep, merge, result_t, R_UNKNOWN, R_PASS, R_FAIL

\* Raising an event tells an open pipe what is merged into the result.
LEMMA RaiseTells ==
  ASSUME TypeOK, SentInv, NEW which \in Thrown \cup {"FDLEAK", "VALGRIND"}, NEW functype,
         NEW fd, raise_event(which, functype, fd), UNCHANGED fds
  PROVE  Heard' => InStep(merge(res, get_result(which)), sent')
<1> SUFFICES ASSUME Heard' PROVE InStep(merge(res, get_result(which)), sent')
  OBVIOUS
<1>1. Heard
  BY DEF Heard
<1>2. get_result(which) \in result_t /\ res \in result_t /\ sent \in result_t
  BY EventResults, Codes, Zenon DEF TypeOK
<1>3. sent' = merge(sent, get_result(which))
  BY <1>1 DEF raise_event
<1> QED
  BY <1>1, <1>2, <1>3, MergeInStep DEF SentInv, InStep

\* Leaving a block with a result the parent has heard of.
LEMMA LeaveTryTells ==
  ASSUME NEW r \in result_t, leave_try(r), Heard' => InStep(r, sent'), sent' \in result_t
  PROVE  Heard' => InStep(res', sent')
<1>1. res' = r \/ res' = merge(r, R_PASS)
  BY DEF leave_try, TeardownResult
<1> QED
  BY <1>1, InStepMerge

\* Every step keeps the parent informed while the pipe is open.
LEMMA SentStep ==
  ASSUME TypeOK, TryInv, SentInv, TypeOK', [Next]_vars PROVE SentInv'
<1> USE DEF user, frame, told, history
<1>0. ASSUME UNCHANGED <<fds, res, sent, over>>, over => stage' = "exited" PROVE SentInv'
  BY <1>0 DEF SentInv, Heard
<1>1. CASE pre_run
  BY <1>0, <1>1 DEF pre_run, SentInv
<1>2. CASE try_done
  <2>1. leave_try(res) /\ UNCHANGED <<fds, sent, over>>
        /\ stage \in {"BEFORE", "TEST", "AFTER"}
    BY <1>2 DEF try_done
  <2>2. Heard' => InStep(res', sent')
    BY <2>1, LeaveTryTells, Zenon DEF TypeOK, SentInv, Heard, InStep
  <2> QED
    BY <2>1, <2>2 DEF SentInv, InStep
<1>3. CASE post_run
  BY <1>0, <1>3 DEF post_run, SentInv
<1>4. ASSUME NEW fd \in Fds, descriptor_leaks(fd) PROVE SentInv'
  <2>1. CASE FdChanged(fd)
    <3>1. /\ raise_event("FDLEAK", "UNKNOWN", fd) /\ res' = merge(res, get_result("FDLEAK"))
          /\ UNCHANGED <<stage, fds>>
      BY <1>4, <2>1 DEF descriptor_leaks, LeakResult
    <3>2. Heard' => InStep(res', sent')
      BY <3>1, RaiseTells
    <3> QED
      BY <3>1, <3>2 DEF SentInv, InStep, raise_event
  <2>2. CASE ~FdChanged(fd)
    BY <1>0, <1>4, <2>2 DEF descriptor_leaks, SentInv
  <2> QED BY <2>1, <2>2
<1>5. CASE fds_checked
  BY <1>0, <1>5 DEF fds_checked, SentInv
<1>6. CASE valgrind_errors
  <2>1. CASE HAVE_VALGRIND /\ memory # {}
    <3>1. /\ raise_event("VALGRIND", "UNKNOWN", NoFd)
          /\ res' = merge(res, get_result("VALGRIND")) /\ UNCHANGED <<stage, fds>>
      BY <1>6, <2>1 DEF valgrind_errors
    <3>2. Heard' => InStep(res', sent')
      BY <3>1, RaiseTells
    <3> QED
      BY <3>1, <3>2 DEF SentInv, InStep, raise_event
  <2>2. CASE ~(HAVE_VALGRIND /\ memory # {})
    BY <1>0, <1>6, <2>2 DEF valgrind_errors, SentInv
  <2> QED BY <2>1, <2>2
<1>7. CASE end_job
  <2>1. /\ stage' = "exited" /\ UNCHANGED <<res, fds>>
        /\ Heard => sent' = merge(sent, res)
    BY <1>7 DEF end_job
  <2>2. Heard' => InStep(res, sent')
    <3>1. Heard' => Heard
      BY <2>1 DEF Heard
    <3>2. Heard => InStep(res, sent)
      BY DEF SentInv, InStep
    <3>3. Heard => InStep(res, merge(sent, res))
      BY <3>2, InStepMerge, Zenon DEF TypeOK
    <3> QED BY <2>1, <3>1, <3>3
  <2> QED
    BY <2>1, <2>2 DEF SentInv, InStep
<1>8. CASE function_returns
  BY <1>0, <1>8 DEF function_returns, SentInv
<1>9. CASE UserThrows
  <2>1. PICK which \in Thrown :
          /\ Running /\ raise_event(which, stage, NoFd)
          /\ leave_try(merge(res, get_result(which)))
          /\ UNCHANGED <<user, frame>>
    BY <1>9, ThrowIsCaught
  <2>2. Heard' => InStep(merge(res, get_result(which)), sent')
    BY <2>1, RaiseTells
  <2>3. merge(res, get_result(which)) \in result_t /\ sent' \in result_t
    BY <2>1, RaiseType
  <2>4. Heard' => InStep(res', sent')
    BY <2>1, <2>2, <2>3, LeaveTryTells
  <2>5. ~over'
    BY <2>1 DEF SentInv, Running, raise_event
  <2> QED
    BY <2>4, <2>5 DEF SentInv, InStep
<1>10. ASSUME NEW fd \in Fds, NEW file \in Files \cup {""}, changes_fd(fd, file)
       PROVE SentInv'
  <2>1. Heard' => Heard
    <3>1. file # "pipe"
      BY FilesAssumption, Zenon
    <3>2. fds' = [fds EXCEPT ![fd] = file] /\ fds \in [Fds -> Files \cup {"", "pipe"}]
      BY <1>10, Zenon DEF changes_fd, TypeOK
    <3>3. fds'[PipeFd] = IF PipeFd = fd THEN file ELSE fds[PipeFd]
      BY <3>2, FdsAssumption, Zenon
    <3> QED BY <3>1, <3>3, Zenon DEF Heard
  <2>2. UNCHANGED <<stage, res, sent, over>>
    BY <1>10, Zenon DEF changes_fd
  <2> QED
    BY <2>1, <2>2, Zenon DEF SentInv
<1>11. ASSUME NEW kind \in {"leaked", "errors"}, memory_error(kind) PROVE SentInv'
  BY <1>0, <1>11 DEF memory_error, SentInv
<1>12. CASE crashes
  BY <1>0, <1>12 DEF crashes, Dies, Running, SentInv
<1>13. CASE UNCHANGED vars
  BY <1>0, <1>13 DEF vars, SentInv
<1> QED
  BY <1>1, <1>2, <1>3, <1>4, <1>5, <1>6, <1>7, <1>8, <1>9, <1>10, <1>11, <1>12,
     <1>13, Zenon DEF Next, Framework, UserCalls, ended

-----------------------------------------------------------------------------

\* begin_job() in the child starts where the invariant holds.
LEMMA ChildInit == Init => ChildInv
<1> SUFFICES ASSUME Init PROVE ChildInv
  OBVIOUS
<1> USE DEF Init
<1>1. TypeOK
  BY Codes, Zenon DEF TypeOK, Stages
<1>2. TryInv
  BY Zenon DEF TryInv
<1>3. FixtureInv
  BY Zenon DEF FixtureInv, FixtureOrder
<1>4. ResultInv
  BY Codes, Zenon DEF ResultInv, Later
<1>5. LeakInv
  BY Zenon DEF LeakInv
<1>6. SentInv
  BY Zenon DEF SentInv
<1> QED
  BY <1>1, <1>2, <1>3, <1>4, <1>5, <1>6, Zenon DEF ChildInv

\* ChildInv is inductive.
LEMMA ChildStep == ChildInv /\ [Next]_vars => ChildInv'
BY TypeStep, TryStep, FixtureStep, ResultStep, LeakStep, SentStep DEF ChildInv

\* run_test_code() never loses track of its blocks, fixtures, result and leaks,
\* whatever the user code does and however deep the tree is.
THEOREM ChildInvariant == Spec => []ChildInv
BY ChildInit, ChildStep, PTL DEF Spec

\* Every variable of the child keeps its type.
THEOREM ChildTypeCorrect == Spec => []TypeOK
<1>1. ChildInv => TypeOK
  BY DEF ChildInv
<1> QED
  BY <1>1, ChildInvariant, PTL

\* User code never runs outside np_try, with an exit() that would end the process
\* or without the values of its parameters.
THEOREM UserCodeWrapped == Spec => []Wrapped
<1>1. ChildInv => Wrapped
  BY DEF ChildInv, TryInv, Wrapped, Running
<1> QED
  BY <1>1, ChildInvariant, PTL

\* Setups precede the test from the outside in, teardowns follow it from the
\* inside out (get_fixtures, run_fixtures).
THEOREM FixturesNest == Spec => []FixtureOrder
<1>1. ChildInv => FixtureOrder
  BY DEF ChildInv, FixtureInv
<1> QED
  BY <1>1, ChildInvariant, PTL

\* The result run_test_code() returns is known, FAIL exactly if an event says so,
\* and PASS only if the test was begun or NP_PASS was called.
THEOREM ResultIsExplained == Spec => []ResultExplained
<1>1. ChildInv => ResultExplained
  BY DEF ChildInv, ResultInv, ResultExplained, Later
<1> QED
  BY <1>1, ChildInvariant, PTL

\* A descriptor that is not what it was before the fixtures fails the test
\* (descriptor_leaks).
THEOREM LeaksAreFailures == Spec => []LeaksFail
<1>1. ChildInv => LeaksFail
  BY DEF ChildInv, LeakInv, LeaksFail
<1> QED
  BY <1>1, ChildInvariant, PTL

-----------------------------------------------------------------------------

\* An event is an add_event of the script.
LEMMA RaiseIsAddEvent ==
  ASSUME ~over, NEW which \in Thrown \cup {"FDLEAK", "VALGRIND"}, NEW functype, NEW fd,
         raise_event(which, functype, fd)
  PROVE  [Script!Next]_<<sent, over>>
BY EventResults
   DEF raise_event, Script!Next, Script!add_event, merge, Script!merge, R_PASS,
       Script!R_PASS, R_NOTAPPLICABLE, Script!R_NOTAPPLICABLE, R_FAIL, Script!R_FAIL

\* Each step of the child is a step of the script, or tells the parent nothing.
LEMMA ScriptStep == ChildInv /\ [Next]_vars => [Script!Next]_<<sent, over>>
<1> SUFFICES ASSUME ChildInv, [Next]_vars PROVE [Script!Next]_<<sent, over>>
  OBVIOUS
<1> USE DEF user, frame, told, history
<1>0. stage # "exited" => ~over
  BY DEF ChildInv, SentInv
<1>1. CASE pre_run
  BY <1>1 DEF pre_run
<1>2. CASE try_done
  BY <1>2 DEF try_done
<1>3. CASE post_run
  BY <1>3 DEF post_run
<1>4. ASSUME NEW fd \in Fds, descriptor_leaks(fd) PROVE [Script!Next]_<<sent, over>>
  BY <1>0, <1>4, RaiseIsAddEvent DEF descriptor_leaks
<1>5. CASE fds_checked
  BY <1>5 DEF fds_checked
<1>6. CASE valgrind_errors
  BY <1>0, <1>6, RaiseIsAddEvent DEF valgrind_errors
<1>7. CASE end_job
  <2>1. CASE Heard
    <3>1. sent' = merge(sent, res) /\ ~over /\ over' = TRUE
      BY <1>0, <1>7, <2>1 DEF end_job
    <3>2. /\ res \in result_t /\ sent \in result_t /\ res # R_UNKNOWN
          /\ merge(sent, R_PASS) = merge(res, R_PASS)
      BY <1>7, <2>1, Zenon DEF end_job, ChildInv, TypeOK, ResultInv, SentInv, Later
    <3>3. merge(sent, res) = merge(sent, R_PASS)
      BY <3>2 DEF merge, result_t, R_UNKNOWN, R_PASS, R_FAIL
    <3> QED
      BY <3>1, <3>3, Zenon
         DEF Script!Next, Script!end_job, merge, Script!merge, R_PASS, Script!R_PASS
  <2>2. CASE ~Heard
    <3>1. over' = FALSE /\ sent' = sent
      BY <1>7, <2>2, Zenon DEF end_job, Heard
    <3>2. over = FALSE
      BY <1>0, <1>7, Zenon DEF end_job, ChildInv, TypeOK
    <3> QED BY <3>1, <3>2, Zenon
  <2> QED BY <2>1, <2>2
<1>8. CASE function_returns
  BY <1>8 DEF function_returns
<1>9. CASE UserThrows
  <2>1. PICK which \in Thrown : Running /\ raise_event(which, stage, NoFd)
    BY <1>9, ThrowIsCaught DEF ChildInv
  <2> QED
    BY <1>0, <2>1, RaiseIsAddEvent DEF Running
<1>10. ASSUME NEW fd \in Fds, NEW file \in Files \cup {""}, changes_fd(fd, file)
       PROVE [Script!Next]_<<sent, over>>
  BY <1>10, Zenon DEF changes_fd
<1>11. ASSUME NEW kind \in {"leaked", "errors"}, memory_error(kind)
       PROVE [Script!Next]_<<sent, over>>
  BY <1>11 DEF memory_error
<1>12. CASE crashes
  BY <1>12 DEF crashes, Dies
<1>13. CASE UNCHANGED vars
  BY <1>13 DEF vars
<1> QED
  BY <1>1, <1>2, <1>3, <1>4, <1>5, <1>6, <1>7, <1>8, <1>9, <1>10, <1>11, <1>12,
     <1>13, Zenon DEF Next, Framework, UserCalls, ended

\* What the child writes to its pipe is what the parent relies on: events, then
\* one FINISHED with the worst of their results, then silence.
THEOREM ChildImplementsScript == Spec => ScriptSpec
<1>1. Init => Script!Init
  BY Zenon DEF Init, Script!Init, R_UNKNOWN, Script!R_UNKNOWN
<1> QED
  BY <1>1, ScriptStep, ChildInvariant, PTL DEF Spec, ScriptSpec, Script!Spec

=============================================================================
