------------------------------ MODULE MCTests -------------------------------
(***************************************************************************)
(* From the functions of the program to the exit status, on small          *)
(* instances: the tree of tests and the plan that makes jobs of it, then   *)
(* main() and a run with its listeners. A behaviour is about one of the    *)
(* two, chosen at the start; the other stays Idle.                         *)
(***************************************************************************)
EXTENDS Integers, Sequences

VARIABLES
  part,
  prog, tree, root_, phase, nodes_, asked, vitr_, nitr_, assigns_,
  jobs, plan_pc,   \* TestTree and Plan
  pc, ec, opts, tracer, valgrind_no, on_valgrind, execs, plan,
  concurrency, maxchildren_, timeout_, listeners_, needs_stdout_,
  nfailed_, queue, running, result_, ended, broke, stdout_path_,
  listed, reports, nruns   \* Session

planvars == <<prog, tree, root_, phase, nodes_, asked, vitr_, nitr_, assigns_, jobs,
  plan_pc>>
sessionvars == <<pc, ec, opts, tracer, valgrind_no, on_valgrind, execs, plan,
  concurrency, maxchildren_, timeout_, listeners_, needs_stdout_, nfailed_, queue,
  running, result_, ended, broke, stdout_path_, listed, reports, nruns>>
vars == <<part, planvars, sessionvars>>

-----------------------------------------------------------------------------
(* The instances.                                                          *)

\* Files d/a.c, d/a/b.c and d/e/c.c; the function test_b() of the first has the
\* same node as the second.
F(u, h, n, rest, values) ==
  [unit |-> u, head |-> h, next |-> n, rest |-> rest, long |-> FALSE, defined |-> TRUE,
   ret |-> IF h \in {"setup", "teardown"} THEN "int" ELSE "void", nargs |-> 0,
   target |-> TRUE, values |-> values]
ThreeFiles == << << <<"d">>, <<"a">> >>, << <<"d">>, <<"a">>, <<"b">> >>,
                 << <<"d">>, <<"e">>, <<"c">> >> >>
Tests == {F(u, "test_", "lower", r, 0) : u \in 1 .. 3, r \in {"b", "t"}}
Fixtures == {F(u, "setup", "end", "", 0) : u \in 1 .. 2} \cup {F(2, "teardown", "end", "", 0)}
Params == {F(u, "__np_parameter_", "lower", "p", v) : u \in 1 .. 2, v \in 1 .. 2}
Odd == {[F(1, "test_", "lower", "b", 0) EXCEPT !.long = TRUE],
        [F(1, "test_", "digit", "b", 0) EXCEPT !.nargs = 1],
        [F(2, "mock_", "lower", "m", 0) EXCEPT !.target = FALSE],
        F(2, "mock_", "lower", "m", 0), F(3, "mock_", "end", "", 0),
        [F(3, "setup", "end", "", 0) EXCEPT !.ret = "void"],
        [F(3, "test_", "lower", "b", 0) EXCEPT !.defined = FALSE]}
Dis == INSTANCE Plan WITH Units <- ThreeFiles, Kinds <- Tests \cup Params \cup Fixtures \cup Odd,
         MaxFunctions <- 3, MaxSpecs <- 1, pc <- plan_pc
Job == INSTANCE Plan WITH Units <- ThreeFiles, Kinds <- Tests \cup Params,
         MaxFunctions <- 4, MaxSpecs <- 1, pc <- plan_pc

\* Three jobs, two of them of one test with a parameter, in two suites whose
\* cases share a name; one run with any command, or two with the plain one.
ThreeJobs == [all |-> <<1, 2, 3>>, a |-> <<1, 2>>, b |-> <<3>>]
Cmd(fmt, j, l, s) == [format |-> fmt, jobs |-> j, list |-> l, specs |-> s]
Formats == {<<>>, <<"text">>, <<"junit">>, <<"junit", "text">>, <<"text", "xml">>}
Commands ==
  {Cmd(fmt, j, FALSE, s) : fmt \in Formats, j \in {-1, 2}, s \in {<<>>, <<"a">>}}
    \cup {Cmd(<<>>, -1, TRUE, s) : s \in {<<>>, <<"a">>, <<"c">>}}
    \cup {Cmd(<<>>, j, FALSE, <<>>) : j \in {-2, 0}}
Ses == INSTANCE Session WITH JobsOf <- ThreeJobs, Root <- "all", Node <- <<"a.t", "a.t", "b.t">>,
         Suite <- <<"a", "a", "b">>, Case <- <<"t[1]", "t[2]", "t[1]">>, Options <- Commands,
         Tracers <- {"none", "gdb", "strace", "unreadable"}, HAVE_VALGRIND <- TRUE,
         Cpus <- 2, MaxRuns <- 1
Twi == INSTANCE Session WITH JobsOf <- ThreeJobs, Root <- "all", Node <- <<"a.t", "a.t", "b.t">>,
         Suite <- <<"a", "a", "b">>, Case <- <<"t[1]", "t[2]", "t[1]">>,
         Options <- {Cmd(<<>>, -1, FALSE, <<>>)}, Tracers <- {"none"}, HAVE_VALGRIND <- FALSE,
         Cpus <- 2, MaxRuns <- 2

-----------------------------------------------------------------------------
Idle == "idle"
Idle_planvars ==
  /\ prog = Idle /\ tree = Idle /\ root_ = Idle /\ phase = Idle /\ nodes_ = Idle
  /\ asked = Idle /\ vitr_ = Idle /\ nitr_ = Idle /\ assigns_ = Idle /\ jobs = Idle
  /\ plan_pc = Idle
Idle_sessionvars ==
  /\ pc = Idle /\ ec = Idle /\ opts = Idle /\ tracer = Idle /\ valgrind_no = Idle
  /\ on_valgrind = Idle /\ execs = Idle /\ plan = Idle /\ concurrency = Idle
  /\ maxchildren_ = Idle /\ timeout_ = Idle /\ listeners_ = Idle
  /\ needs_stdout_ = Idle /\ nfailed_ = Idle /\ queue = Idle /\ running = Idle
  /\ result_ = Idle /\ ended = Idle /\ broke = Idle /\ stdout_path_ = Idle
  /\ listed = Idle /\ reports = Idle /\ nruns = Idle

Init ==
  /\ part \in {"discovery", "jobs", "session", "twice"}
  /\ CASE part = "discovery" -> Dis!PlanInit
       [] part = "jobs" -> Job!PlanInit
       [] OTHER -> Idle_planvars
  /\ CASE part = "session" -> Ses!Init
       [] part = "twice" -> Twi!Init
       [] OTHER -> Idle_sessionvars

Next ==
  \/ /\ \/ part = "discovery" /\ Dis!Next
        \/ part = "jobs" /\ Job!Next
     /\ UNCHANGED <<part, sessionvars>>
  \/ /\ \/ part = "session" /\ Ses!Next
        \/ part = "twice" /\ Twi!Next
     /\ UNCHANGED <<part, planvars>>

Spec == Init /\ [][Next]_vars
          \* One thread makes the plan; nothing waits.
          /\ WF_vars(part = "jobs" /\ Job!Next /\ UNCHANGED <<part, sessionvars>>)

-----------------------------------------------------------------------------
(* Properties: those of the parts, which explain them.                     *)

\* Whatever functions a program has, after the common part of the names is taken off
\* every test is still there under a name that finds it and nothing else (TestTree).
NamesFindTests ==
  /\ part = "discovery" => Dis!PlanTypeOK
  \* detach_common() loses no test.
  /\ part = "discovery" => Dis!NothingPruned
  \* It does leave out what all names begin with.
  /\ part = "discovery" => Dis!NamesShort
  \* The full name of a node finds that node and no other.
  /\ part = "discovery" => Dis!FullNamesIdentify

\* The jobs of a plan are the tests below its nodes with all combinations of the
\* values of their parameters (Plan).
EachJobOnce ==
  \* The plan yields each test and combination of values once.
  /\ part = "jobs" => Job!EachJobOnce
  \* It yields them in the order of the tree.
  /\ part = "jobs" => Job!TraversalOrder
  \* The iterator is not read where there is no node.
  /\ part = "jobs" => Job!NoNullNode

\* The listeners agree with each other and with what happened, in one run and in a
\* second one of the same runner (Session).
ListenersAgree ==
  /\ part = "session" => Ses!ListenersAgree /\ Ses!OutputCaptured /\ Ses!OneRun /\ Ses!SessionInv
  /\ part = "twice" => Twi!ListenersAgree

\* main() does what the command line and the environment ask for and its status tells
\* how it went (Session).
RunsAsAsked ==
  /\ part = "session" => Ses!RunsAsAsked
  \* --list prints each test node of the plan once.
  /\ part = "session" => Ses!ListsOnce

\* The plan comes to its end: its iterator does not go round in circles.
PlanEnds == part = "jobs" ~> plan_pc \in {"done", "crashed"}
=============================================================================
