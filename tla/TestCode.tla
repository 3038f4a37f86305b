------------------------------ MODULE TestCode ------------------------------
(***************************************************************************)
(* The child process of one job: run_test_code() (np/runner.cxx) with the  *)
(* fixtures of the test's ancestors, the exceptions of except.h by which   *)
(* every kind of failure leaves user code, the intercept on exit(), the    *)
(* descriptor and Valgrind checks, and the messages sent to the parent.    *)
(*                                                                         *)
(* User code is a process that may do anything the framework reacts to.    *)
(* The test's node and its ancestors are levels 1 (rootmost) .. Depth, and *)
(* a list of fixtures is the set of levels that have one: setups are run   *)
(* in increasing and teardowns in decreasing order.                        *)
(***************************************************************************)
EXTENDS Results, FiniteSets

CONSTANTS
  Depth,          \* nodes from the root of the tree to the test
  Fds, PipeFd,    \* descriptors; the one that is the event pipe
  Files,          \* what a descriptor may be opened on
  MaxCalls,       \* bound: descriptor operations of the user code
  ClosesPipe,     \* user code may close descriptors it does not own
  HAVE_VALGRIND

ASSUME DepthAssumption == Depth \in Nat \ {0}
ASSUME FdsAssumption == Fds \subseteq Nat /\ PipeFd \in Fds
ASSUME FilesAssumption == {"", "pipe"} \cap Files = {}
ASSUME FlagsAssumption == HAVE_VALGRIND \in BOOLEAN /\ ClosesPipe \in BOOLEAN

Levels == 1 .. Depth

VARIABLES
  stage,             \* where run_test_code() is, one of Stages
  funcs_,            \* the fixtures each level has
  left,              \* levels whose function this np_try block has yet to run
  catching,          \* __np_exceptstate.catching
  res,
  fds, prefds,       \* the descriptor table, now and before the fixtures
  unchecked,         \* descriptors descriptor_leaks() has yet to compare
  memory,            \* what Valgrind would report
  intercepted,       \* the intercepts of the test's ancestors are installed
  assigned,          \* the parameter variables hold the job's values
  ncalls,
  raised,            \* the events given to raise_event()
  sent, over,        \* what the parent is told: see TestScript
  ups, tested, downs \* setups that succeeded; test and teardowns begun

user == <<fds, memory, ncalls>>
frame == <<prefds, intercepted, assigned>>
told == <<raised, sent, over>>
history == <<ups, tested, downs>>
vars == <<stage, funcs_, left, catching, res, user, frame, unchecked, told,
          history>>

Stages == {"pre_run", "BEFORE", "TEST", "AFTER", "post_run", "fds", "valgrind",
           "end_job", "exited",
           "aborted",  \* an event was thrown outside np_try
           "died"}     \* user code ended the process

events_t == {"ASSERT", "EXIT", "SIGNAL", "SYSLOG", "FIXTURE", "EXPASS", "EXFAIL",
             "EXNA", "VALGRIND", "SLMATCH", "TIMEOUT", "FDLEAK", "EXCEPTION"}

\* event_t::get_result
get_result(which) ==
  CASE which = "EXPASS" -> R_PASS
    [] which = "EXNA" -> R_NOTAPPLICABLE
    [] which = "SYSLOG" -> R_UNKNOWN
    [] OTHER -> R_FAIL

Event(which, functype, fd) == [which |-> which, functype |-> functype, fd |-> fd]
NoFd == "none"

Init ==
  /\ stage = "pre_run"
  /\ funcs_ \in [Levels -> SUBSET {"BEFORE", "AFTER"}]
  /\ left = {}
  /\ catching = FALSE
  /\ res = R_UNKNOWN
  /\ fds \in {f \in [Fds -> Files \cup {"", "pipe"}] :
                \A d \in Fds : f[d] = "pipe" <=> d = PipeFd}
  /\ prefds = fds
  /\ unchecked = {}
  /\ memory = {}
  /\ intercepted = FALSE
  /\ assigned = FALSE
  /\ ncalls = 0
  /\ raised = {}
  /\ sent = R_UNKNOWN
  /\ over = FALSE
  /\ ups = {}
  /\ tested = FALSE
  /\ downs = {}

-----------------------------------------------------------------------------
(* The framework around the user code.                                     *)

\* testnode_t::get_fixtures
get_fixtures(type) == {a \in Levels : type \in funcs_[a]}

\* The function that is running: the first of those left.
Outermost(S) == {a \in S : \A b \in S : a <= b}
Innermost(S) == {a \in S : \A b \in S : b <= a}
Current == IF stage = "AFTER" THEN Innermost(left) ELSE Outermost(left)
Running == stage \in {"BEFORE", "TEST", "AFTER"} /\ left # {}

\* proxy_listener_t::add_event writes to the pipe if it is still there.
Heard == fds[PipeFd] = "pipe"
raise_event(which, functype, fd) ==
  /\ raised' = raised \cup {Event(which, functype, fd)}
  /\ sent' = IF Heard THEN merge(sent, get_result(which)) ELSE sent
  /\ UNCHANGED over

\* What follows an np_catch block, up to the next np_try; r is the result so
\* far.  The test is run only if the setups raised nothing.
SkipsTest_OnlyOnFail(r) == r = R_FAIL
SkipsTest(r) == r # R_UNKNOWN
catching_AfterTest == TRUE
TeardownResult_Pass(r) == R_PASS
TeardownResult_Kept(r) == r
TeardownResult(r) == merge(r, R_PASS)
Teardowns_OnlyOnPass(r) == IF r = R_UNKNOWN THEN get_fixtures("AFTER") ELSE {}
Teardowns(r) == get_fixtures("AFTER")
leave_try(r) ==
  \/ /\ stage = "BEFORE" /\ SkipsTest(r)
     /\ stage' = "post_run" /\ left' = {} /\ catching' = FALSE /\ res' = r
     /\ UNCHANGED history
  \/ /\ stage = "BEFORE" /\ ~SkipsTest(r)
     /\ stage' = "TEST" /\ left' = {Depth} /\ catching' = TRUE /\ res' = r
     /\ tested' = TRUE
     /\ UNCHANGED <<ups, downs>>
  \/ /\ stage = "TEST"
     /\ stage' = "AFTER" /\ left' = Teardowns(r) /\ res' = r
     /\ catching' = catching_AfterTest
     /\ downs' = Innermost(Teardowns(r))
     /\ UNCHANGED <<ups, tested>>
  \/ /\ stage = "AFTER"
     /\ stage' = "post_run" /\ left' = {} /\ catching' = FALSE
     /\ res' = TeardownResult(r)
     /\ UNCHANGED history

\* np_throw: to the np_catch of the block, or __np_uncaught_event().
np_throw(which) ==
  /\ Running
  /\ \/ /\ catching
        /\ raise_event(which, stage, NoFd)
        /\ leave_try(merge(res, get_result(which)))
     \/ /\ ~catching
        /\ stage' = "aborted"
        /\ UNCHANGED <<left, catching, res, told, history>>
  /\ UNCHANGED <<funcs_, user, frame, unchecked>>

\* job_t::pre_run(false), the descriptor table, the first np_try.
Installed == TRUE
pre_run ==
  /\ stage = "pre_run" /\ stage' = "BEFORE"
  /\ assigned' = TRUE
  /\ intercepted' = Installed
  /\ prefds' = fds
  /\ left' = get_fixtures("BEFORE")
  /\ catching' = TRUE
  /\ UNCHANGED <<funcs_, res, user, unchecked, told, history>>

\* A function returned, run_fixtures() goes on to the next one.
function_returns ==
  /\ Running
  /\ left' = left \ Current
  /\ ups' = IF stage = "BEFORE" THEN ups \cup Current ELSE ups
  /\ downs' = IF stage = "AFTER" THEN downs \cup Innermost(left \ Current) ELSE downs
  /\ UNCHANGED <<stage, funcs_, catching, res, user, frame, unchecked, told, tested>>

\* run_function(): a fixture that returns nonzero.
fixture_fails == stage # "TEST" /\ np_throw("FIXTURE")

\* The np_try block ends normally.
try_done ==
  /\ stage \in {"BEFORE", "TEST", "AFTER"} /\ left = {}
  /\ leave_try(res)
  /\ UNCHANGED <<funcs_, user, frame, unchecked, told>>

\* job_t::post_run(false), and descriptor_leaks() begins.
post_run ==
  /\ stage = "post_run" /\ stage' = "fds"
  /\ assigned' = FALSE
  /\ intercepted' = FALSE
  /\ unchecked' = Fds
  /\ UNCHANGED <<funcs_, left, catching, res, user, prefds, told, history>>

\* descriptor_leaks(): one turn of the loop.
FdChanged_OnlyOpened(fd) == prefds[fd] = "" /\ fds[fd] # ""
FdChanged(fd) == prefds[fd] # fds[fd]
LeakResult_Kept(r) == r
LeakResult(r) == merge(r, get_result("FDLEAK"))
descriptor_leaks(fd) ==
  /\ stage = "fds" /\ fd \in Outermost(unchecked)
  /\ unchecked' = unchecked \ {fd}
  /\ IF FdChanged(fd)
       THEN raise_event("FDLEAK", "UNKNOWN", fd) /\ res' = LeakResult(res)
       ELSE UNCHANGED <<told, res>>
  /\ UNCHANGED <<stage, funcs_, left, catching, user, frame, history>>

fds_checked ==
  /\ stage = "fds" /\ unchecked = {}
  /\ stage' = "valgrind"
  /\ UNCHANGED <<funcs_, left, catching, res, user, frame, unchecked, told, history>>

\* valgrind_errors(): leaks first, then errors; nothing without Valgrind.
valgrind_errors ==
  /\ stage = "valgrind"
  /\ IF HAVE_VALGRIND /\ memory # {}
       THEN /\ raise_event("VALGRIND", "UNKNOWN", NoFd)
            /\ res' = merge(res, get_result("VALGRIND"))
            /\ memory' = IF "leaked" \in memory THEN memory \ {"leaked"} ELSE {}
            /\ UNCHANGED stage
       ELSE stage' = "end_job" /\ UNCHANGED <<told, res, memory>>
  /\ UNCHANGED <<funcs_, left, catching, fds, ncalls, frame, unchecked, history>>

\* begin_job() in the child: end_job of the proxy listener, then exit(0).
end_job ==
  /\ stage = "end_job" /\ stage' = "exited"
  /\ sent' = IF Heard THEN merge(sent, res) ELSE sent
  /\ over' = Heard
  /\ UNCHANGED <<funcs_, left, catching, res, user, frame, unchecked, raised, history>>

-----------------------------------------------------------------------------
(* User code: fixtures, the test, the code under test.                     *)

\* NP_PASS, NP_FAIL, NP_NOTAPPLICABLE and the NP_ASSERT macros (uasserts.c).
np_pass == np_throw("EXPASS")
np_fail == np_throw("EXFAIL")
np_notapplicable == np_throw("EXNA")
np_assert_failed == np_throw("ASSERT")
\* The C library's assert() (iassert.c) and CUnit's (icunit.c).
assert_fail == np_throw("ASSERT")
CU_assertImplementation == np_throw("ASSERT")
\* A C++ exception nobody catches (iexcept.c).
terminate_handler == np_throw("EXCEPTION")
\* syslog() of a message that is not expected (isyslog.c, see Syslog).
unexpected_syslog == np_throw("SLMATCH")

Dies ==
  /\ Running /\ stage' = "died"
  /\ UNCHANGED <<funcs_, left, catching, res, user, frame, unchecked, told, history>>

\* exit() is redirected to mock_exit() while the intercepts are installed.
exit_called == IF intercepted THEN np_throw("EXIT") ELSE Dies

\* open(), close(), dup2(), from user code.
changes_fd(fd, file) ==
  /\ Running /\ ncalls < MaxCalls /\ ncalls' = ncalls + 1
  /\ fds[fd] # file /\ (fd = PipeFd => ClosesPipe)
  /\ fds' = [fds EXCEPT ![fd] = file]
  /\ UNCHANGED <<stage, funcs_, left, catching, res, memory, frame, unchecked,
                 told, history>>

memory_error(kind) ==
  /\ Running /\ ncalls < MaxCalls /\ ncalls' = ncalls + 1
  /\ memory' = memory \cup {kind}
  /\ UNCHANGED <<stage, funcs_, left, catching, res, fds, frame, unchecked, told,
                 history>>

UserThrows ==
  \/ np_pass \/ np_fail \/ np_notapplicable \/ np_assert_failed
  \/ assert_fail \/ CU_assertImplementation \/ terminate_handler
  \/ unexpected_syslog \/ exit_called \/ fixture_fails

UserCalls ==
  \/ \E fd \in Fds, file \in Files \cup {""} : changes_fd(fd, file)
  \/ \E kind \in {"leaked", "errors"} : memory_error(kind)

\* A fatal signal or _exit(); the parent sees it (Runner's child_dies).
crashes == Dies

-----------------------------------------------------------------------------

Ended == stage \in {"exited", "aborted", "died"}
ended == Ended /\ UNCHANGED vars

Framework ==
  \/ pre_run \/ try_done \/ post_run
  \/ \E fd \in Fds : descriptor_leaks(fd)
  \/ fds_checked \/ valgrind_errors \/ end_job

Next ==
  \/ Framework
  \/ function_returns \/ UserThrows \/ UserCalls \/ crashes
  \/ ended

Spec == Init /\ [][Next]_vars

(***************************************************************************)
(* The framework is one thread that runs on, and user code that is running *)
(* comes back: by returning, by throwing or by dying.  A function that     *)
(* hangs is the business of the parent's timeout.                          *)
(***************************************************************************)
FairSpec ==
  Spec /\ WF_vars(Framework) /\ WF_vars(function_returns \/ UserThrows \/ crashes)

-----------------------------------------------------------------------------
(* Properties.                                                             *)

\* Every variable of run_test_code() and of the child keeps its type.
TypeOK ==
  /\ stage \in Stages
  /\ funcs_ \in [Levels -> SUBSET {"BEFORE", "AFTER"}]
  /\ left \subseteq Levels
  /\ catching \in BOOLEAN /\ intercepted \in BOOLEAN /\ assigned \in BOOLEAN
  /\ res \in result_t /\ sent \in result_t /\ over \in BOOLEAN
  /\ fds \in [Fds -> Files \cup {"", "pipe"}]
  /\ prefds \in [Fds -> Files \cup {"", "pipe"}]
  /\ unchecked \subseteq Fds
  /\ memory \subseteq {"leaked", "errors"}
  /\ ncalls \in Nat
  /\ \A e \in raised : e.which \in events_t
  /\ ups \subseteq Levels /\ tested \in BOOLEAN /\ downs \subseteq Levels

\* User code only ever runs inside np_try, with the intercepts installed and the
\* parameters set, so an event it throws always finds its np_catch and exit()
\* never ends the process.
Wrapped ==
  /\ Running => catching /\ intercepted /\ assigned
  /\ stage # "aborted"

\* The test is begun only when every setup of every ancestor has succeeded, and
\* a teardown only after the test and after every teardown further in
\* (run_test_code, get_fixtures).
FixtureOrder ==
  /\ tested => ups = get_fixtures("BEFORE")
  /\ downs # {} => tested
  /\ \A a \in downs, b \in get_fixtures("AFTER") : b > a => b \in downs
  /\ \A a \in ups, b \in get_fixtures("BEFORE") : b < a => b \in ups

\* A job whose setups succeeded and whose functions raised nothing is the only
\* one that can end PASS without NP_PASS: the result run_test_code() returns is
\* the worst of the events it raised, and PASS only if the test was begun or
\* NP_PASS was called in a setup.
ResultExplained ==
  stage \in {"end_job", "exited"} =>
    /\ res # R_UNKNOWN
    /\ res = R_FAIL <=> \E e \in raised : get_result(e.which) = R_FAIL
    /\ res = R_PASS => tested \/ Event("EXPASS", "BEFORE", NoFd) \in raised

\* Each descriptor that differs from before the fixtures when the last teardown
\* has ended is reported and fails the test: "If the test (or any of the fixture
\* code) caused a file descriptor leak, NovaProva fails the test" (failures.rst).
LeaksFail ==
  stage \in {"valgrind", "end_job", "exited"} =>
    \A fd \in Fds : fds[fd] # prefds[fd] =>
                      Event("FDLEAK", "UNKNOWN", fd) \in raised /\ res = R_FAIL

\* The child keeps the promise on its pipe that the parent relies on.
Script == INSTANCE TestScript
ScriptSpec == Script!Spec

\* A test that was begun gets its innermost teardown begun, or the process dies
\* ("regardless of whether the test function succeeded or finished").
TeardownBegins ==
  tested ~> (downs # {} \/ get_fixtures("AFTER") = {} \/ stage = "died")

\* "If the test function is run, the teardown function will always be run"
\* (fixtures.rst), for the teardown function of every ancestor.
TeardownAlwaysRuns ==
  stage = "exited" /\ tested => downs = get_fixtures("AFTER")

\* What fails in the child is heard by the parent: "NovaProva fails the test".
\* The code does not keep this, and no run checks it.
FailuresHeard == stage = "exited" /\ res = R_FAIL => sent = R_FAIL

-----------------------------------------------------------------------------
(* What makes these properties inductive.                                  *)

Later == {"post_run", "fds", "valgrind", "end_job", "exited"}
TryInv ==
  /\ stage \in {"BEFORE", "TEST", "AFTER"} => catching /\ intercepted /\ assigned
  /\ stage # "aborted"
\* left is what remains of a block's fixtures, further in (setups) or further
\* out (teardowns) than those behind it.
FixtureInv ==
  /\ stage \in {"pre_run", "BEFORE"} => ~tested
  /\ stage \in {"pre_run", "BEFORE", "TEST"} => downs = {}
  /\ stage \in {"TEST", "AFTER"} => tested
  /\ stage = "pre_run" => ups = {}
  /\ stage = "BEFORE" =>
       /\ left \subseteq get_fixtures("BEFORE") /\ ups = get_fixtures("BEFORE") \ left
       /\ \A a \in ups, b \in left : a < b
  /\ stage = "AFTER" =>
       /\ left \subseteq get_fixtures("AFTER")
       /\ downs = (get_fixtures("AFTER") \ left) \cup Innermost(left)
       /\ \A a \in get_fixtures("AFTER") \ left, b \in left : b < a
  /\ FixtureOrder
ResultInv ==
  /\ stage \in {"pre_run", "BEFORE", "TEST"} => res = R_UNKNOWN
  /\ res = R_FAIL <=> \E e \in raised : get_result(e.which) = R_FAIL
  /\ stage \in Later =>
       /\ res # R_UNKNOWN
       /\ res = R_PASS => tested \/ Event("EXPASS", "BEFORE", NoFd) \in raised
LeakInv ==
  /\ stage \in {"valgrind", "end_job", "exited"} => unchecked = {}
  /\ stage \in {"fds", "valgrind", "end_job", "exited"} =>
       \A fd \in Fds \ unchecked : fds[fd] # prefds[fd] =>
                      Event("FDLEAK", "UNKNOWN", fd) \in raised /\ res = R_FAIL
\* A pipe that is still open has told the parent everything.
SentInv ==
  /\ over => stage = "exited"
  /\ Heard => merge(sent, R_PASS) = merge(res, R_PASS)

\* run_test_code() never loses track: each block has its np_try, the fixtures
\* behind and before it, a result that its events explain, and a parent that
\* has heard of them unless the pipe was closed.
ChildInv == TypeOK /\ TryInv /\ FixtureInv /\ ResultInv /\ LeakInv /\ SentInv

=============================================================================
