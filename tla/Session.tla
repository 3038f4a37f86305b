------------------------------ MODULE Session ------------------------------
(***************************************************************************)
(* One run of a test program from main() (main.c) to its exit: the options *)
(* and test specifications, np_init() with its detour through Valgrind     *)
(* (np.c), the choice of formats, concurrency and timeout, run_tests() as  *)
(* the listeners see it (np/runner.cxx), and what the text and the JUnit   *)
(* listeners make of it.  How jobs are run is the module Runner's; here a  *)
(* job begins, raises events, and ends with a result.                      *)
(***************************************************************************)
EXTENDS Results, SeqOps, FiniteSets

CONSTANTS
  JobsOf,       \* specification -> sequence of jobs at or below its node
  Root,         \* the specification of all tests
  Node, Suite, Case,  \* job -> its test node, the node's parent, the rest of its name
  Options,      \* command lines: [format, jobs, list, specs]
  Tracers,      \* what ptrace()s the process: see is_running_under_debugger
  HAVE_VALGRIND,
  Cpus,
  MaxRuns       \* bound: times a program's own main() calls np_run_tests

Jobs == Range(JobsOf[Root])
NoJobs == -1    \* no -j option
JobsMax == -2   \* -j max
Nowhere == "no plan"

VARIABLES
  pc, ec,
  opts, tracer, valgrind_no,  \* the command line and the environment
  on_valgrind, execs,
  plan,          \* specifications in the plan, or <<Nowhere>>
  concurrency, maxchildren_, timeout_,
  listeners_, needs_stdout_,
  nfailed_,
  queue, running,
  result_,       \* running job -> what its child_t has merged so far
  ended,         \* jobs ended in this run
  broke,         \* history: jobs of this run that something went wrong in
  stdout_path_,  \* jobs whose output goes to a file
  listed, reports, nruns

main == <<opts, tracer, valgrind_no, on_valgrind, execs, plan, concurrency>>
runner == <<maxchildren_, timeout_, needs_stdout_>>
turn == <<queue, running, result_, ended, broke, stdout_path_, nfailed_>>
shown == <<listed, reports>>
vars == <<pc, ec, main, runner, listeners_, turn, shown, nruns>>

exit(n) == pc' = "exited" /\ ec' = n

-----------------------------------------------------------------------------
(* main(), up to np_init()                                                 *)

\* -j takes "max" or a positive number.
usage(o) == o.jobs # NoJobs /\ o.jobs # JobsMax /\ o.jobs <= 0

\* plan_t::add_specs stops at a specification without a node; main() does
\* not look at what it returns.
add_specs(specs) ==
  LET bad == {n \in DOMAIN specs : specs[n] \notin DOMAIN JobsOf}
  IN  IF bad = {} THEN specs ELSE SubSeq(specs, 1, Min(bad) - 1)

parse_options ==
  /\ pc = "main"
  /\ IF usage(opts) THEN exit(1) /\ UNCHANGED <<plan, concurrency>>
     ELSE /\ concurrency' = IF opts.jobs = JobsMax THEN 0 ELSE opts.jobs
          /\ plan' = IF opts.specs = <<>> THEN <<Nowhere>> ELSE add_specs(opts.specs)
          /\ pc' = "np_init" /\ UNCHANGED ec
  /\ UNCHANGED <<opts, tracer, valgrind_no, on_valgrind, execs, runner, listeners_, turn, shown, nruns>>

\* A process of which nothing is known but that it traces us is a debugger.
is_running_under_debugger == ~on_valgrind /\ tracer \in {"gdb", "unreadable"}

Skips == on_valgrind \/ valgrind_no \/ ~HAVE_VALGRIND \/ is_running_under_debugger

\* execv() of Valgrind starts the program again, or fails.
be_valground ==
  /\ pc = "np_init" /\ ~Skips
  /\ \/ /\ on_valgrind' = TRUE /\ execs' = execs + 1
        /\ pc' = "main" /\ plan' = <<Nowhere>> /\ concurrency' = NoJobs
        /\ UNCHANGED ec
     \/ exit(1) /\ UNCHANGED <<on_valgrind, execs, plan, concurrency>>
  /\ UNCHANGED <<opts, tracer, valgrind_no, runner, listeners_, turn, shown, nruns>>

choose_timeout ==
  IF is_running_under_debugger THEN 0 ELSE IF on_valgrind THEN 90 ELSE 30

np_init ==
  /\ pc = "np_init" /\ Skips
  /\ maxchildren_' = 1 /\ timeout_' = choose_timeout
  /\ pc' = IF opts.list THEN "list" ELSE "formats"
  /\ UNCHANGED <<ec, main, needs_stdout_, listeners_, turn, shown, nruns>>

-----------------------------------------------------------------------------
(* main(), after np_init()                                                 *)

\* The jobs that the iterator of a plan p comes to, in order.
JobsPlanned(p) ==
  Fold(LAMBDA js, spec : js \o JobsOf[IF spec = Nowhere THEN Root ELSE spec], <<>>, p)
Planned == JobsPlanned(plan)

\* A node's jobs follow one another and make one line.
list_line(js, i) == i = 1 \/ Node[js[i]] # Node[js[i - 1]]

list_tests ==
  /\ pc = "list"
  /\ LET js == Planned
         lines == SelectSeq([i \in DOMAIN js |-> i], LAMBDA i : list_line(js, i))
     IN  listed' = [k \in DOMAIN lines |-> Node[js[lines[k]]]]
  /\ pc' = "np_done"
  /\ UNCHANGED <<ec, main, runner, listeners_, turn, reports, nruns>>

Listener(kind) == [kind |-> kind, nrun_ |-> 0, nfailed_ |-> 0, suites_ |-> <<>>]

needs_stdout(kind) == kind = "junit"

set_concurrency(n) == Max({1, IF n = 0 THEN Cpus ELSE n})

\* np_set_output_format for each of the formats
set_formats ==
  /\ pc = "formats"
  /\ IF \E n \in DOMAIN opts.format : opts.format[n] \notin {"text", "junit"}
     THEN exit(1) /\ UNCHANGED <<listeners_, needs_stdout_, maxchildren_>>
     ELSE /\ listeners_' = [n \in DOMAIN opts.format |-> Listener(opts.format[n])]
          /\ needs_stdout_' = (needs_stdout_ \/ \E n \in DOMAIN opts.format : needs_stdout(opts.format[n]))
          /\ maxchildren_' = IF concurrency = NoJobs THEN maxchildren_
                             ELSE set_concurrency(concurrency)
          /\ pc' = "run_tests" /\ UNCHANGED ec
  /\ UNCHANGED <<main, timeout_, turn, shown, nruns>>

-----------------------------------------------------------------------------
(* runner_t::run_tests and the listeners                                   *)

Begun(l) == IF l.kind = "text" THEN [l EXCEPT !.nrun_ = 0, !.nfailed_ = 0] ELSE l

\* Text output is the default; then runner_t::begin.
begin ==
  /\ pc = "run_tests"
  /\ LET ls == IF listeners_ = <<>> THEN <<Listener("text")>> ELSE listeners_
     IN  listeners_' = [i \in DOMAIN ls |-> Begun(ls[i])]
  /\ queue' = Planned /\ running' = {} /\ result_' = <<>> /\ ended' = {} /\ broke' = {}
  /\ nruns' = nruns + 1
  /\ pc' = "running"
  /\ UNCHANGED <<ec, main, runner, stdout_path_, nfailed_, shown>>

CanBegin == pc = "running" /\ queue # <<>> /\ Cardinality(running) < maxchildren_

begin_job ==
  /\ CanBegin
  /\ queue' = Tail(queue) /\ running' = running \cup {Head(queue)}
  /\ result_' = [j \in running' |-> IF j \in running THEN result_[j] ELSE R_UNKNOWN]
  /\ stdout_path_' = IF needs_stdout_ THEN stdout_path_ \cup {Head(queue)} ELSE stdout_path_
  /\ UNCHANGED <<pc, ec, main, runner, listeners_, ended, broke, nfailed_, shown, nruns>>

\* pipe(), mkstemp() or, twenty delays later, fork() fails: the jobs that
\* are running are abandoned.
begin_job_fails ==
  /\ CanBegin /\ exit(1)
  /\ UNCHANGED <<main, runner, listeners_, turn, shown, nruns>>

\* A mutant: the assignments of parameters are not part of the name.
find_case_Node(j) == <<Suite[j], Node[j]>>
find_case(j) == <<Suite[j], Case[j]>>

case_t == [result_ |-> R_UNKNOWN, event_ |-> FALSE, stdout_ |-> FALSE]
case_of(l, j) == IF find_case(j) \in DOMAIN l.suites_ THEN l.suites_[find_case(j)] ELSE case_t
Stored(l, j, c) ==
  [l EXCEPT !.suites_ = [k \in DOMAIN @ \cup {find_case(j)} |-> IF k = find_case(j) THEN c ELSE @[k]]]

\* A mutant: the latest word is the one that counts.
merge_result_Latest(j, res) == res
merge_result(j, res) == merge(result_[j], res)

\* JUnit keeps the first event that fails the test.
Heard(l, j, which) ==
  IF l.kind = "text" THEN l
  ELSE Stored(l, j, [case_of(l, j) EXCEPT !.event_ = @ \/ which = R_FAIL])

add_event(j, which) ==
  /\ pc = "running" /\ j \in running
  /\ result_' = [result_ EXCEPT ![j] = merge_result(j, which)]
  /\ broke' = IF which = R_FAIL THEN broke \cup {j} ELSE broke
  /\ listeners_' = [i \in DOMAIN listeners_ |-> Heard(listeners_[i], j, which)]
  /\ UNCHANGED <<pc, ec, main, runner, queue, running, ended, stdout_path_, nfailed_, shown, nruns>>

TextEnded(l, res) == [l EXCEPT !.nrun_ = @ + 1, !.nfailed_ = IF res = R_FAIL THEN @ + 1 ELSE @]
JunitEnded(l, j, res) ==
  Stored(l, j, [case_of(l, j) EXCEPT !.result_ = res, !.stdout_ = j \in stdout_path_])
Ended(l, j, res) == IF l.kind = "text" THEN TextEnded(l, res) ELSE JunitEnded(l, j, res)

\* The process is reaped: res is what it said at the end, R_FAIL if that
\* could not be made out.
end_job(j, res) ==
  LET final == merge_result(j, res) IN
  /\ pc = "running" /\ j \in running
  /\ running' = running \ {j} /\ ended' = ended \cup {j}
  /\ result_' = [k \in running' |-> result_[k]]
  /\ broke' = IF res = R_FAIL THEN broke \cup {j} ELSE broke
  /\ nfailed_' = nfailed_ + (IF final = R_FAIL THEN 1 ELSE 0)
  /\ listeners_' = [i \in DOMAIN listeners_ |-> Ended(listeners_[i], j, final)]
  /\ stdout_path_' = stdout_path_ \ {j}
  /\ UNCHANGED <<pc, ec, main, runner, queue, shown, nruns>>

\* junit_listener_t::end: a file for each suite.
Report(l, s) ==
  LET cases == {k \in DOMAIN l.suites_ : k[1] = s}
  IN  [suite |-> s, tests |-> Cardinality(cases),
       errors |-> Cardinality({k \in cases : l.suites_[k].result_ = R_FAIL}),
       explained |-> Cardinality({k \in cases : l.suites_[k].event_}),
       captured |-> \A k \in cases : l.suites_[k].stdout_]
Reports(l) == {Report(l, s) : s \in {k[1] : k \in DOMAIN l.suites_}}

Junits == {i \in DOMAIN listeners_ : listeners_[i].kind = "junit"}

\* The last of several JUnit listeners writes over the others' files; the
\* directory, or a file, may turn out not to be writable.
end ==
  /\ pc = "running" /\ queue = <<>> /\ running = {}
  /\ \E w \in SUBSET (IF Junits = {} THEN {} ELSE Reports(listeners_[Max(Junits)])) :
       reports' = w \cup {r \in reports : \A n \in w : n.suite # r.suite}
  /\ ec' = IF nfailed_ > 0 THEN 1 ELSE 0
  /\ pc' = IF nruns < MaxRuns THEN "again" ELSE "np_done"
  /\ UNCHANGED <<main, runner, listeners_, turn, listed, nruns>>

\* A program with a main() of its own.
again == pc = "again" /\ pc' = "run_tests" /\ UNCHANGED <<ec, main, runner, listeners_, turn, shown, nruns>>

np_done ==
  /\ pc = "np_done" /\ exit(ec)
  /\ UNCHANGED <<main, runner, listeners_, turn, shown, nruns>>

exited == pc = "exited" /\ UNCHANGED vars

Init ==
  /\ pc = "main" /\ ec = 0
  /\ opts \in Options /\ tracer \in Tracers /\ valgrind_no \in BOOLEAN
  /\ on_valgrind = FALSE /\ execs = 0
  /\ plan = <<Nowhere>> /\ concurrency = NoJobs
  /\ maxchildren_ = 1 /\ timeout_ = 0 /\ needs_stdout_ = FALSE
  /\ listeners_ = <<>> /\ nfailed_ = 0
  /\ queue = <<>> /\ running = {} /\ stdout_path_ = {}
  /\ result_ = <<>> /\ ended = {} /\ broke = {}
  /\ listed = <<>> /\ reports = {} /\ nruns = 0

Next ==
  \/ parse_options \/ be_valground \/ np_init \/ list_tests \/ set_formats
  \/ begin \/ begin_job \/ begin_job_fails \/ end \/ again \/ np_done \/ exited
  \/ \E j \in Jobs : \/ \E which \in result_t : add_event(j, which)
                     \/ \E res \in {R_PASS, R_NOTAPPLICABLE, R_FAIL} : end_job(j, res)

Spec == Init /\ [][Next]_vars

-----------------------------------------------------------------------------
(* Properties                                                              *)

TypeOK ==
  /\ running \subseteq Jobs /\ ended \subseteq Jobs /\ DOMAIN result_ = running /\ stdout_path_ \subseteq running
  /\ maxchildren_ > 0 /\ Cardinality(running) <= maxchildren_
  /\ timeout_ \in {0, 30, 90}
  /\ \A i \in DOMAIN listeners_ : \A k \in DOMAIN listeners_[i].suites_ : Len(k) = 2

Over == pc \in {"again", "np_done"} /\ nruns > 0
In(suite, js) == {j \in js : Suite[j] = suite}

(* When run_tests() has returned every listener agrees with what happened: *)
(* the summary line and the JUnit files count the tests that were run and  *)
(* those that something went wrong in, whatever order the events came and  *)
(* the jobs ended in, and an <error> is only given for a test that failed. *)
ListenersAgree ==
  Over =>
    /\ \A i \in DOMAIN listeners_ : listeners_[i].kind = "text" =>
         listeners_[i].nrun_ = Cardinality(ended) /\ listeners_[i].nfailed_ = Cardinality(broke)
    /\ \A r \in reports :
         /\ r.tests = Cardinality(In(r.suite, ended))
         /\ r.errors = Cardinality(In(r.suite, broke))
         /\ r.explained <= r.errors

(* "any output to stdout or stderr are stored in the XML file": a job's    *)
(* output was sent to a file whenever one of the listeners stores it.      *)
OutputCaptured == \A r \in reports : r.captured

(* "0 on success or non-zero if any tests failed" (np_run_tests).          *)
ReturnsFailure == Over => (ec # 0 <=> broke # {})

(* The program is started again at most once and never under a debugger,   *)
(* which has no timeouts; Valgrind has three times the usual one.          *)
DebuggerLeftAlone ==
  /\ execs <= 1
  /\ tracer = "gdb" => ~on_valgrind
  /\ nruns > 0 => timeout_ = IF tracer \in {"gdb", "unreadable"} THEN 0
                             ELSE IF on_valgrind THEN 90 ELSE 30

(* --list prints the name of every test node in the plan once.             *)
ListsOnce ==
  listed # <<>> => IsInjective(listed) /\ Range(listed) = {Node[j] : j \in Range(Planned)}

(* main() does what the command line and the environment ask for, and the  *)
(* status it exits with tells how that went.                               *)
RunsAsAsked == TypeOK /\ ReturnsFailure /\ DebuggerLeftAlone

(* "All the tests at or below the test node will be run" (building.rst).   *)
\* The code does not keep this, and no run checks it.
SpecifiedTestsRun ==
  Over => \A i \in DOMAIN opts.specs : opts.specs[i] \in DOMAIN JobsOf =>
            Range(JobsOf[opts.specs[i]]) \subseteq ended

(* "A value of 0 is shorthand for one job per online CPU" (building.rst).  *)
\* The code does not keep this, and no run checks it.
ZeroMeansCpus == pc \in {"running", "exited"} /\ opts.jobs = 0 => maxchildren_ = Cpus

-----------------------------------------------------------------------------
(* The invariant ListenersAgree, OutputCaptured and RunsAsAsked follow     *)
(* from, when main() is the library's: it calls np_run_tests() once.       *)

Plans == {<<Nowhere>>} \cup {add_specs(o.specs) : o \in Options}
Distinct(s) == \A m, n \in DOMAIN s : s[m] = s[n] => m = n

\* The test specifications do not overlap, and no two jobs have one name.
OneRun ==
  /\ MaxRuns = 1 /\ Cpus \in Int
  /\ \A o \in Options : o.jobs \in Int /\ o.format \in Seq(STRING)
  /\ \A p \in Plans : JobsPlanned(p) \in Seq(Jobs) /\ Distinct(JobsPlanned(p))
  /\ \A j, k \in Jobs : find_case(j) = find_case(k) => j = k

Cases == [result_ : result_t, event_ : BOOLEAN, stdout_ : BOOLEAN]
SuiteTables == UNION {[D -> Cases] : D \in SUBSET {find_case(j) : j \in Jobs}}
Listeners == [kind : {"text", "junit"}, nrun_ : Nat, nfailed_ : Nat, suites_ : SuiteTables]

Early == {"main", "np_init", "list", "formats", "run_tests"}

\* Nothing of a run is there before it begins.
Fresh ==
  /\ nfailed_ = 0 /\ reports = {} /\ running = {} /\ ended = {} /\ broke = {}
  /\ stdout_path_ = {} /\ DOMAIN result_ = {}
  /\ \A n \in DOMAIN listeners_ : DOMAIN listeners_[n].suites_ = {}

\* Each job of the plan waits, runs or has ended, and those that something went
\* wrong in are known as such.
JobsInv ==
  /\ queue \in Seq(Jobs) /\ Distinct(queue)
  /\ running \subseteq Jobs /\ ended \subseteq Jobs /\ IsFiniteSet(running) /\ IsFiniteSet(ended)
  /\ running \cap ended = {} /\ \A n \in DOMAIN queue : queue[n] \notin running \cup ended
  /\ Cardinality(running) <= maxchildren_
  /\ DOMAIN result_ = running /\ \A j \in running : result_[j] \in result_t
  /\ broke \subseteq running \cup ended /\ \A j \in running : result_[j] = R_FAIL <=> j \in broke
  /\ nfailed_ = Cardinality(broke \cap ended)
  /\ stdout_path_ = IF needs_stdout_ THEN running ELSE {}

\* What a listener has counted or stored is what has ended, and for JUnit some
\* of what is running.
ListenerInv(l) ==
  /\ l.kind = "text" => l.nrun_ = Cardinality(ended) /\ l.nfailed_ = Cardinality(broke \cap ended)
  /\ l.kind = "junit" =>
       /\ {find_case(j) : j \in ended} \subseteq DOMAIN l.suites_
       /\ DOMAIN l.suites_ \subseteq {find_case(j) : j \in running \cup ended}
       /\ \A j \in running \cup ended : find_case(j) \in DOMAIN l.suites_ =>
            (l.suites_[find_case(j)].event_ => j \in broke)
       /\ \A j \in ended : /\ l.suites_[find_case(j)].result_ = R_FAIL <=> j \in broke
                           /\ l.suites_[find_case(j)].stdout_

MainInv ==
  /\ opts \in Options /\ plan \in Plans /\ on_valgrind \in BOOLEAN /\ needs_stdout_ \in BOOLEAN
  /\ concurrency \in Int /\ maxchildren_ \in Nat \ {0} /\ timeout_ \in {0, 30, 90}
  /\ execs = IF on_valgrind THEN 1 ELSE 0
  /\ on_valgrind => tracer \notin {"gdb", "unreadable"}
  /\ pc \in {"list", "formats", "run_tests"} \/ nruns = 1 => timeout_ = choose_timeout
  /\ nruns \in {0, 1} /\ pc \in Early \cup {"running", "np_done", "exited"}
  /\ pc \in Early => nruns = 0
  /\ pc = "running" => nruns = 1 /\ reports = {}
  /\ listeners_ \in Seq(Listeners)
  /\ \A n \in DOMAIN listeners_ : listeners_[n].kind = "junit" => needs_stdout_

SessionInv ==
  /\ MainInv
  /\ nruns = 0 => Fresh
  /\ nruns = 1 => JobsInv /\ \A n \in DOMAIN listeners_ : ListenerInv(listeners_[n])
  /\ ListenersAgree /\ OutputCaptured /\ ReturnsFailure
=============================================================================
