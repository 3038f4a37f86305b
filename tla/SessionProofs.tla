--------------------------- MODULE SessionProofs ---------------------------
(***************************************************************************)
(* Proofs about Session, for every set of tests, command lines and         *)
(* environments, if the specifications given do not overlap and no two     *)
(* jobs have one name (OneRun).  The invariant relates what each listener  *)
(* has counted or stored to the jobs that have ended and those that        *)
(* something went wrong in, at every moment of the run; the reports are    *)
(* then equations between cardinalities.                                   *)
(***************************************************************************)
EXTENDS Session, DataInduction

-----------------------------------------------------------------------------
(* Operators.                                                              *)

\* set_concurrency() never leaves the runner without a job to run.
LEMMA AtLeastOne ==
  ASSUME NEW n \in Int, Cpus \in Int
  PROVE  set_concurrency(n) \in Nat \ {0}
<1> DEFINE m == IF n = 0 THEN Cpus ELSE n
<1>1. m \in Int
  OBVIOUS
<1> HIDE DEF m
<1>2. \E x \in {1, m} : \A y \in {1, m} : x >= y
  <2>1. CASE m >= 1
    BY <1>1, <2>1
  <2>2. CASE ~(m >= 1)
    BY <1>1, <2>2
  <2> QED BY <2>1, <2>2
<1>3. Max({1, m}) \in {1, m} /\ \A y \in {1, m} : Max({1, m}) >= y
  BY <1>2, Zenon DEF Max
<1>4. Max({1, m}) \in Nat \ {0}
  BY <1>1, <1>3
<1> QED BY <1>4 DEF set_concurrency, m

\* A listener in the place of each listener (listeners_ is a vector).
LEMMA PlaceByPlace ==
  ASSUME NEW ls \in Seq(Listeners), NEW ms, DOMAIN ms = DOMAIN ls, ms = [n \in DOMAIN ms |-> ms[n]],
         \A n \in DOMAIN ls : ms[n] \in Listeners
  PROVE  ms \in Seq(Listeners)
<1>1. DOMAIN ls = 1 .. Len(ls) /\ Len(ls) \in Nat
  OBVIOUS
<1>2. ms \in [1 .. Len(ls) -> Listeners]
  BY <1>1
<1> QED BY <1>1, <1>2

\* Merging results keeps a failure, and makes none.
LEMMA FailureStays ==
  ASSUME NEW r1 \in result_t, NEW r2 \in result_t
  PROVE  /\ merge(r1, r2) \in result_t
         /\ merge(r1, r2) = R_FAIL <=> r1 = R_FAIL \/ r2 = R_FAIL
BY DEF merge, result_t, R_FAIL, R_UNKNOWN

\* A suite has as many cases as it has jobs: no two jobs share one
\* (find_case).
LEMMA CasesOfJobs ==
  ASSUME OneRun, NEW S \in SUBSET Jobs, IsFiniteSet(S)
  PROVE  /\ IsFiniteSet({find_case(j) : j \in S})
         /\ Cardinality({find_case(j) : j \in S}) = Cardinality(S)
<1> DEFINE T == {find_case(j) : j \in S}
           f == [j \in S |-> find_case(j)]
<1>1. f \in Bijection(S, T)
  BY DEF OneRun, Bijection, Injection, Surjection, IsInjective
<1>2. ExistsBijection(S, T)
  BY <1>1 DEF ExistsBijection
<1> QED BY <1>2, FS_Bijection

\* Storing a case changes that case and nothing else of the listener
\* (junit_listener_t::find_case).
LEMMA StoredCase ==
  ASSUME NEW l \in Listeners, NEW j \in Jobs, NEW c \in Cases
  PROVE  /\ Stored(l, j, c) \in Listeners
         /\ Stored(l, j, c).kind = l.kind
         /\ DOMAIN Stored(l, j, c).suites_ = DOMAIN l.suites_ \cup {find_case(j)}
         /\ Stored(l, j, c).suites_[find_case(j)] = c
         /\ \A k \in DOMAIN l.suites_ : k # find_case(j) => Stored(l, j, c).suites_[k] = l.suites_[k]
<1> DEFINE s == l.suites_
           t == [k \in DOMAIN s \cup {find_case(j)} |-> IF k = find_case(j) THEN c ELSE s[k]]
           N == {find_case(i) : i \in Jobs}
<1>1. s \in SuiteTables
  BY DEF Listeners
<1>2. PICK D \in SUBSET N : s \in [D -> Cases]
  BY <1>1 DEF SuiteTables
<1>3. DOMAIN t \in SUBSET N /\ t \in [DOMAIN t -> Cases]
  BY <1>2
<1>4. t \in SuiteTables
  BY <1>3 DEF SuiteTables
<1>5. Stored(l, j, c) = [l EXCEPT !.suites_ = t]
  BY DEF Stored
<1>6. /\ DOMAIN t = DOMAIN s \cup {find_case(j)} /\ t[find_case(j)] = c
      /\ \A k \in DOMAIN s : k # find_case(j) => t[k] = s[k]
  OBVIOUS
<1> HIDE DEF t
<1>7. [l EXCEPT !.suites_ = t] \in Listeners /\ [l EXCEPT !.suites_ = t].kind = l.kind
      /\ [l EXCEPT !.suites_ = t].suites_ = t
  BY <1>4 DEF Listeners
<1> QED BY <1>5, <1>6, <1>7

\* The same, of a JUnit listener and under the name that the result is given.
LEMMA StoredInJunit ==
  ASSUME NEW l \in Listeners, NEW j \in Jobs, NEW c \in Cases, l.kind = "junit",
         NEW m, m = Stored(l, j, c)
  PROVE  /\ m \in Listeners /\ m.kind = "junit" /\ m.suites_[find_case(j)] = c
         /\ DOMAIN m.suites_ = DOMAIN l.suites_ \cup {find_case(j)}
BY StoredCase

\* A case is the one stored, or a new one that has no event.
LEMMA CaseKnown ==
  ASSUME NEW l \in Listeners, NEW j \in Jobs
  PROVE  /\ case_of(l, j) \in Cases
         /\ find_case(j) \in DOMAIN l.suites_ => case_of(l, j) = l.suites_[find_case(j)]
         /\ find_case(j) \notin DOMAIN l.suites_ => ~case_of(l, j).event_
<1>1. l.suites_ \in SuiteTables
  BY DEF Listeners
<1>2. PICK D \in SUBSET {find_case(i) : i \in Jobs} : l.suites_ \in [D -> Cases]
  BY <1>1 DEF SuiteTables
<1>3. case_t \in Cases /\ ~case_t.event_
  BY DEF case_t, Cases, result_t, R_UNKNOWN, R_FAIL
<1> QED BY <1>2, <1>3 DEF case_of

-----------------------------------------------------------------------------
(* Before the run.                                                         *)

\* What main() does before run_tests() keeps everything of a run as it is at
\* first.
LEMMA StillFresh ==
  ASSUME SessionInv, pc \in Early, nruns' = nruns, UNCHANGED <<turn, reports>>, MainInv',
         \A n \in DOMAIN listeners_' : DOMAIN (listeners_')[n].suites_ = {}
  PROVE  SessionInv'
<1>1. nruns = 0 /\ nruns' = 0 /\ Fresh
  BY DEF SessionInv, MainInv
<1>2. Fresh'
  BY <1>1 DEF Fresh, turn
<1>3. ListenersAgree' /\ OutputCaptured' /\ ReturnsFailure'
  BY <1>1, <1>2 DEF ListenersAgree, OutputCaptured, ReturnsFailure, Over, Fresh
<1> QED BY <1>1, <1>2, <1>3 DEF SessionInv

\* main() reads the command line and makes the plan.
LEMMA OptionsParsed ==
  ASSUME OneRun, SessionInv, parse_options
  PROVE  SessionInv'
<1>1. MainInv /\ pc \in Early /\ Fresh
  BY DEF SessionInv, MainInv, Early, parse_options
<1>2. plan' \in Plans /\ concurrency' \in Int /\ pc' \in {"np_init", "exited"}
  BY <1>1 DEF MainInv, parse_options, OneRun, Plans, exit
<1>3. nruns' = 0
  BY <1>1 DEF MainInv, parse_options
<1>4. MainInv'
  BY <1>1, <1>2, <1>3 DEF MainInv, parse_options, runner, shown, Early
<1> QED BY <1>1, <1>4, StillFresh DEF parse_options, shown, Fresh

\* be_valground() starts the program again, at most once and never under a
\* debugger.
LEMMA Restarted ==
  ASSUME OneRun, SessionInv, be_valground
  PROVE  SessionInv'
<1>1. MainInv /\ pc \in Early /\ Fresh
  BY DEF SessionInv, MainInv, Early, be_valground
<1>2. /\ plan' \in Plans /\ concurrency' \in Int /\ pc' \in {"main", "exited"}
      /\ on_valgrind' \in BOOLEAN /\ execs' = IF on_valgrind' THEN 1 ELSE 0
      /\ on_valgrind' => tracer' \notin {"gdb", "unreadable"}
  <2>1. CASE /\ on_valgrind' = TRUE /\ execs' = execs + 1
             /\ pc' = "main" /\ plan' = <<Nowhere>> /\ concurrency' = NoJobs
    <3>1. ~on_valgrind /\ tracer \notin {"gdb", "unreadable"} /\ tracer' = tracer
      BY DEF be_valground, Skips, is_running_under_debugger
    <3>2. execs' = 1
      BY <1>1, <2>1, <3>1 DEF MainInv
    <3> QED BY <2>1, <3>1, <3>2 DEF Plans, NoJobs
  <2>2. CASE exit(1) /\ UNCHANGED <<on_valgrind, execs, plan, concurrency>>
    BY <1>1, <2>2 DEF MainInv, be_valground, exit
  <2> QED BY <2>1, <2>2 DEF be_valground
<1>3. nruns' = 0
  BY <1>1 DEF MainInv, be_valground
<1>4. MainInv'
  BY <1>1, <1>2, <1>3 DEF MainInv, be_valground, runner, shown, Early
<1> QED BY <1>1, <1>4, StillFresh DEF be_valground, shown, Fresh

\* np_init() chooses the timeout.
LEMMA Initialised ==
  ASSUME OneRun, SessionInv, np_init
  PROVE  SessionInv'
<1>1. MainInv /\ pc \in Early /\ Fresh
  BY DEF SessionInv, MainInv, Early, np_init
<1>2. /\ pc' \in {"list", "formats"} /\ maxchildren_' = 1
      /\ timeout_' = choose_timeout' /\ timeout_' \in {0, 30, 90}
  BY <1>1 DEF np_init, choose_timeout, is_running_under_debugger, main
<1>3. nruns' = 0
  BY <1>1 DEF MainInv, np_init
<1>4. MainInv'
  BY <1>1, <1>2, <1>3 DEF MainInv, np_init, main, shown, Early
<1> QED BY <1>1, <1>4, StillFresh DEF np_init, shown, Fresh

\* --list runs nothing.
LEMMA TestsListed ==
  ASSUME OneRun, SessionInv, list_tests
  PROVE  SessionInv'
<1>1. MainInv /\ pc \in Early /\ Fresh
  BY DEF SessionInv, MainInv, Early, list_tests
<1>2. pc' = "np_done" /\ UNCHANGED <<main, runner, listeners_, turn, reports, nruns>>
  BY DEF list_tests
<1>3. choose_timeout' = choose_timeout
  BY <1>2 DEF choose_timeout, is_running_under_debugger, main
<1>4. nruns' = 0 /\ MainInv'
  BY <1>1, <1>2, <1>3 DEF MainInv, main, runner, Early
<1> QED BY <1>1, <1>2, <1>4, StillFresh DEF Fresh

\* A new listener has counted and stored nothing.
LEMMA NewListener ==
  ASSUME NEW kind \in {"text", "junit"}
  PROVE  /\ Listener(kind) \in Listeners /\ Listener(kind).kind = kind
         /\ DOMAIN Listener(kind).suites_ = {}
<1>1. <<>> \in SuiteTables /\ DOMAIN <<>> = {}
  <2>1. <<>> \in [{} -> Cases]
    OBVIOUS
  <2> QED BY <2>1 DEF SuiteTables
<1> QED BY <1>1 DEF Listener, Listeners

\* main() makes the listeners and sets the concurrency; one that stores output
\* has it captured.
LEMMA FormatsSet ==
  ASSUME OneRun, SessionInv, set_formats
  PROVE  SessionInv'
<1>1. MainInv /\ pc \in Early /\ Fresh
  BY DEF SessionInv, MainInv, Early, set_formats
<1>2. UNCHANGED <<main, timeout_, turn, shown, nruns>>
  BY DEF set_formats
<1>3. choose_timeout' = choose_timeout
  BY <1>2 DEF choose_timeout, is_running_under_debugger, main
<1>4. CASE \E n \in DOMAIN opts.format : opts.format[n] \notin {"text", "junit"}
  <2>1. pc' = "exited" /\ UNCHANGED <<listeners_, needs_stdout_, maxchildren_>>
    BY <1>4 DEF set_formats, exit
  <2>2. MainInv'
    BY <1>1, <1>2, <2>1, <1>3 DEF MainInv, main, shown, Early, set_formats
  <2> QED BY <1>1, <1>2, <2>1, <2>2, StillFresh DEF Fresh, shown
<1>5. CASE \A n \in DOMAIN opts.format : opts.format[n] \in {"text", "junit"}
  <2>1. /\ pc' = "run_tests"
        /\ listeners_' = [n \in DOMAIN opts.format |-> Listener(opts.format[n])]
        /\ needs_stdout_' = (needs_stdout_ \/ \E n \in DOMAIN opts.format : needs_stdout(opts.format[n]))
        /\ maxchildren_' = IF concurrency = NoJobs THEN maxchildren_ ELSE set_concurrency(concurrency)
    BY <1>5 DEF set_formats
  <2>2. maxchildren_' \in Nat \ {0}
    BY <1>1, <2>1, AtLeastOne DEF MainInv, OneRun
  <2>3. opts.format \in Seq(STRING)
    BY <1>1 DEF MainInv, OneRun
  <2>4. \A n \in DOMAIN opts.format :
           /\ (listeners_')[n] \in Listeners /\ (listeners_')[n].kind = opts.format[n]
           /\ DOMAIN (listeners_')[n].suites_ = {}
    BY <1>5, <2>1, NewListener
  <2>5. listeners_' \in Seq(Listeners) /\ DOMAIN listeners_' = DOMAIN opts.format
    <3>1. DOMAIN opts.format = 1 .. Len(opts.format) /\ Len(opts.format) \in Nat
      BY <2>3
    <3>2. DOMAIN listeners_' = 1 .. Len(opts.format)
      BY <2>1, <3>1
    <3>3. listeners_' \in [1 .. Len(opts.format) -> Listeners]
      BY <2>1, <2>4, <3>1, <3>2
    <3> QED BY <3>1, <3>2, <3>3
  <2>6. needs_stdout_' \in BOOLEAN /\ \A n \in DOMAIN listeners_' : (listeners_')[n].kind = "junit" => needs_stdout_'
    BY <1>1, <2>1, <2>4, <2>5, Zenon DEF MainInv, needs_stdout
  <2>7. nruns' = 0
    BY <1>1, <1>2 DEF MainInv, set_formats
  <2>8. MainInv'
    <3>1. /\ pc' \in Early /\ timeout_' = choose_timeout' /\ timeout_' \in {0, 30, 90}
          /\ on_valgrind' \in BOOLEAN /\ execs' = IF on_valgrind' THEN 1 ELSE 0
          /\ on_valgrind' => tracer' \notin {"gdb", "unreadable"}
      BY <1>1, <1>2, <1>3, <2>1 DEF MainInv, main, set_formats, Early
    <3>2. opts' \in Options /\ plan' \in Plans /\ concurrency' \in Int
      BY <1>1, <1>2 DEF MainInv, main
    <3> QED BY <2>1, <2>2, <2>5, <2>6, <2>7, <3>1, <3>2 DEF MainInv
  <2> QED BY <1>1, <1>2, <2>4, <2>5, <2>8, StillFresh DEF Fresh, shown
<1> QED BY <1>4, <1>5

-----------------------------------------------------------------------------
(* The run.                                                                *)

\* run_tests() begins with every job of the plan waiting.
LEMMA RunBegins ==
  ASSUME OneRun, SessionInv, begin
  PROVE  SessionInv'
<1> DEFINE ls == IF listeners_ = <<>> THEN <<Listener("text")>> ELSE listeners_
<1>1. MainInv /\ nruns = 0 /\ Fresh /\ pc = "run_tests"
  BY DEF SessionInv, MainInv, Early, begin
<1>2. /\ listeners_' = [n \in DOMAIN ls |-> Begun(ls[n])]
      /\ queue' = Planned /\ running' = {} /\ result_' = <<>> /\ ended' = {} /\ broke' = {}
      /\ nruns' = 1 /\ pc' = "running"
      /\ UNCHANGED <<ec, main, runner, stdout_path_, nfailed_, shown>>
  BY <1>1 DEF begin
<1>3. /\ ls \in Seq(Listeners)
      /\ \A n \in DOMAIN ls : /\ DOMAIN ls[n].suites_ = {}
                              /\ ls[n].kind = "junit" => needs_stdout_
  <2>1. CASE listeners_ = <<>>
    <3>1. Listener("text") \in Listeners /\ Listener("text").kind = "text" /\ DOMAIN Listener("text").suites_ = {}
      BY NewListener
    <3>2. ls = <<Listener("text")>>
      BY <2>1
    <3> HIDE DEF ls
    <3>3. ls \in Seq(Listeners) /\ DOMAIN ls = {1} /\ ls[1] = Listener("text")
      BY <3>1, <3>2
    <3> QED BY <3>1, <3>3
  <2>2. CASE listeners_ # <<>>
    BY <1>1, <2>2 DEF MainInv, Fresh
  <2> QED BY <2>1, <2>2
<1> HIDE DEF ls
<1>4. ASSUME NEW n \in DOMAIN ls
      PROVE  /\ Begun(ls[n]) \in Listeners /\ Begun(ls[n]).kind = ls[n].kind
             /\ DOMAIN Begun(ls[n]).suites_ = {}
             /\ Begun(ls[n]).kind = "text" => Begun(ls[n]).nrun_ = 0 /\ Begun(ls[n]).nfailed_ = 0
  <2>1. ls[n] \in Listeners
    BY <1>3
  <2> QED BY <1>3, <2>1 DEF Begun, Listeners
<1>5. DOMAIN listeners_' = DOMAIN ls /\ listeners_' \in Seq(Listeners)
  <2>1. DOMAIN ls = 1 .. Len(ls) /\ Len(ls) \in Nat
    BY <1>3
  <2>2. DOMAIN listeners_' = 1 .. Len(ls)
    BY <1>2, <2>1
  <2>3. listeners_' \in [1 .. Len(ls) -> Listeners]
    BY <1>2, <1>4, <2>1, <2>2
  <2> QED BY <2>1, <2>2, <2>3
<1>6. MainInv'
  <2>1. choose_timeout' = choose_timeout
    BY <1>2 DEF choose_timeout, is_running_under_debugger, main
  <2>2. needs_stdout_' = needs_stdout_ /\ \A n \in DOMAIN listeners_' : (listeners_')[n].kind = "junit" => needs_stdout_'
    BY <1>2, <1>3, <1>4, <1>5 DEF runner
  <2> QED BY <1>1, <1>2, <1>5, <2>1, <2>2 DEF MainInv, main, runner, shown, Early, Fresh
<1>7. JobsInv'
  <2>1. queue' \in Seq(Jobs) /\ Distinct(queue')
    BY <1>1, <1>2 DEF OneRun, Planned, MainInv
  <2>2. IsFiniteSet({}) /\ Cardinality({}) = 0 /\ Cardinality(broke' \cap ended') = 0
    BY <1>2, FS_EmptySet
  <2>3. stdout_path_' = {} /\ nfailed_' = 0 /\ maxchildren_' \in Nat
    BY <1>1, <1>2 DEF Fresh, runner, MainInv
  <2>4. DOMAIN result_' = {}
    BY <1>2
  <2> QED BY <1>2, <2>1, <2>2, <2>3, <2>4 DEF JobsInv, Distinct
<1>8. ASSUME NEW n \in DOMAIN listeners_' PROVE ListenerInv(listeners_[n])'
  <2>1. (listeners_')[n] = Begun(ls[n]) /\ n \in DOMAIN ls
    BY <1>2, <1>5
  <2>2. Cardinality(ended') = 0 /\ Cardinality(broke' \cap ended') = 0
    BY <1>2, FS_EmptySet
  <2> QED BY <1>2, <1>4, <2>1, <2>2 DEF ListenerInv
<1>9. ListenersAgree' /\ OutputCaptured' /\ ReturnsFailure'
  BY <1>1, <1>2 DEF ListenersAgree, OutputCaptured, ReturnsFailure, Over, Fresh, shown
<1> QED BY <1>2, <1>6, <1>7, <1>8, <1>9 DEF SessionInv

\* While jobs are running nothing has been reported, so only the jobs and the
\* listeners can go wrong.
LEMMA StillRunning ==
  ASSUME SessionInv, pc = "running", UNCHANGED <<pc, main, runner, nruns, reports>>,
         listeners_' \in Seq(Listeners), JobsInv', DOMAIN listeners_' = DOMAIN listeners_,
         \A n \in DOMAIN listeners_ : (listeners_')[n].kind = listeners_[n].kind /\ ListenerInv(listeners_[n])'
  PROVE  SessionInv'
<1>1. MainInv /\ nruns = 1 /\ reports = {}
  BY DEF SessionInv, MainInv
<1>2. choose_timeout' = choose_timeout
  BY DEF choose_timeout, is_running_under_debugger, main
<1>3. \A n \in DOMAIN listeners_' : (listeners_')[n].kind = "junit" => needs_stdout_'
  BY <1>1 DEF MainInv, runner
<1>4. MainInv'
  BY <1>1, <1>2, <1>3 DEF MainInv, main, runner, Early
<1>5. ListenersAgree' /\ OutputCaptured' /\ ReturnsFailure'
  BY <1>1 DEF ListenersAgree, OutputCaptured, ReturnsFailure, Over
<1> QED BY <1>1, <1>4, <1>5 DEF SessionInv

\* begin_job(): no listener knows the job yet.
LEMMA JobBegins ==
  ASSUME OneRun, SessionInv, begin_job
  PROVE  SessionInv'
<1> DEFINE j == Head(queue)
<1>1. MainInv /\ JobsInv /\ pc = "running" /\ \A n \in DOMAIN listeners_ : ListenerInv(listeners_[n])
  BY DEF SessionInv, MainInv, begin_job, CanBegin
<1>2. /\ queue \in Seq(Jobs) /\ queue # <<>> /\ j = queue[1] /\ 1 \in DOMAIN queue /\ j \in Jobs
      /\ j \notin running /\ j \notin ended
  BY <1>1 DEF JobsInv, begin_job, CanBegin
<1>3. /\ queue' = Tail(queue) /\ running' = running \cup {j}
      /\ result_' = [k \in running \cup {j} |-> IF k \in running THEN result_[k] ELSE R_UNKNOWN]
      /\ stdout_path_' = IF needs_stdout_ THEN stdout_path_ \cup {j} ELSE stdout_path_
      /\ UNCHANGED <<pc, ec, main, runner, listeners_, ended, broke, nfailed_, shown, nruns>>
  BY DEF begin_job
<1> HIDE DEF j
<1>4. queue' \in Seq(Jobs) /\ DOMAIN queue' = 1 .. (Len(queue) - 1) /\ \A n \in DOMAIN queue' : (queue')[n] = queue[n + 1]
  BY <1>2, <1>3
<1>5. DOMAIN queue = 1 .. Len(queue) /\ Len(queue) \in Nat
  BY <1>2
<1>6. Distinct(queue') /\ \A n \in DOMAIN queue' : (queue')[n] # j
  <2>1. \A m, n \in DOMAIN queue : queue[m] = queue[n] => m = n
    BY <1>1 DEF JobsInv, Distinct
  <2> QED BY <1>2, <1>4, <1>5, <2>1, SMTT(30) DEF Distinct
<1>7. IsFiniteSet(running') /\ Cardinality(running') = Cardinality(running) + 1 /\ Cardinality(running) < maxchildren_
      /\ Cardinality(running) \in Nat
  BY <1>1, <1>2, <1>3, FS_AddElement, FS_CardinalityType, SMTT(30) DEF JobsInv, begin_job, CanBegin
<1>8. j \notin broke
  BY <1>1, <1>2 DEF JobsInv
<1>9. JobsInv'
  <2>1. \A n \in DOMAIN queue' : (queue')[n] \notin running \cup ended
    <3>1. \A n \in DOMAIN queue : queue[n] \notin running \cup ended
      BY <1>1 DEF JobsInv
    <3>2. \A n \in DOMAIN queue' : n + 1 \in DOMAIN queue /\ (queue')[n] = queue[n + 1]
      BY <1>4, <1>5
    <3> QED BY <3>1, <3>2, Zenon
  <2>2. DOMAIN result_' = running' /\ \A k \in running' : (result_')[k] \in result_t
    BY <1>1, <1>3 DEF JobsInv, result_t, R_UNKNOWN, R_FAIL
  <2>3. \A k \in running' : (result_')[k] = R_FAIL <=> k \in broke
    BY <1>1, <1>3, <1>8 DEF JobsInv, R_UNKNOWN, R_FAIL
  <2>4. stdout_path_' = IF needs_stdout_' THEN running' ELSE {}
    BY <1>1, <1>3 DEF JobsInv, runner
  <2>5. Cardinality(running') <= maxchildren_' /\ maxchildren_' = maxchildren_
    BY <1>1, <1>3, <1>7 DEF MainInv, runner
  <2>6. /\ running' \cap ended' = {} /\ \A n \in DOMAIN queue' : (queue')[n] \notin running' \cup ended'
        /\ running' \subseteq Jobs /\ ended' \subseteq Jobs /\ IsFiniteSet(ended') /\ broke' \subseteq running' \cup ended'
        /\ nfailed_' = Cardinality(broke' \cap ended')
    BY <1>1, <1>2, <1>3, <1>6, <2>1 DEF JobsInv
  <2> QED BY <1>3, <1>4, <1>6, <1>7, <2>2, <2>3, <2>4, <2>5, <2>6 DEF JobsInv, Distinct
<1>10. ASSUME NEW n \in DOMAIN listeners_ PROVE ListenerInv(listeners_[n])'
  <2> DEFINE l == listeners_[n]
  <2>1. ListenerInv(l) /\ (listeners_')[n] = l
    BY <1>1, <1>3
  <2> HIDE DEF l
  <2>2. \A k \in {j} : find_case(k) \in DOMAIN l.suites_ => l.kind # "junit"
    <3> SUFFICES ASSUME l.kind = "junit", find_case(j) \in DOMAIN l.suites_ PROVE FALSE
      OBVIOUS
    <3>1. PICK i \in running \cup ended : find_case(j) = find_case(i)
      BY <2>1 DEF ListenerInv
    <3>2. i \in Jobs
      BY <1>1 DEF JobsInv
    <3> QED BY <1>2, <3>1, <3>2 DEF OneRun
  <2> QED BY <1>3, <2>1, <2>2 DEF ListenerInv
<1> QED BY <1>1, <1>3, <1>9, <1>10, StillRunning DEF MainInv, shown

\* The cases of other jobs stay as they are.
LEMMA OneCaseChanges ==
  ASSUME OneRun, NEW l \in Listeners, NEW j \in Jobs, NEW c \in Cases, NEW m, m = Stored(l, j, c),
         NEW k \in Jobs, k # j
  PROVE  /\ find_case(k) \in DOMAIN m.suites_ <=> find_case(k) \in DOMAIN l.suites_
         /\ find_case(k) \in DOMAIN l.suites_ => m.suites_[find_case(k)] = l.suites_[find_case(k)]
<1>1. find_case(k) # find_case(j)
  BY DEF OneRun
<1> QED BY <1>1, StoredCase

\* A case with an event belongs to a job that something went wrong in.
LEMMA EventOfABrokenJob ==
  ASSUME JobsInv, NEW l \in Listeners, l.kind = "junit", ListenerInv(l), NEW j \in running,
         case_of(l, j).event_
  PROVE  j \in broke
BY CaseKnown DEF JobsInv, ListenerInv

\* An event reaches every listener (add_event).
LEMMA EventRaised ==
  ASSUME OneRun, SessionInv, NEW j \in Jobs, NEW which \in result_t, add_event(j, which)
  PROVE  SessionInv'
<1>1. /\ MainInv /\ JobsInv /\ pc = "running" /\ j \in running
      /\ \A n \in DOMAIN listeners_ : ListenerInv(listeners_[n]) /\ listeners_[n] \in Listeners
  <2>1. pc = "running" /\ j \in running
    BY DEF add_event
  <2>2. MainInv /\ JobsInv /\ \A n \in DOMAIN listeners_ : ListenerInv(listeners_[n])
    <3>1. MainInv /\ (nruns = 1 => JobsInv /\ \A n \in DOMAIN listeners_ : ListenerInv(listeners_[n]))
      BY Zenon DEF SessionInv
    <3>2. nruns = 1
      BY <2>1, <3>1 DEF MainInv
    <3> QED BY <3>1, <3>2, Zenon
  <2>3. \A n \in DOMAIN listeners_ : listeners_[n] \in Listeners
    <3>1. listeners_ \in Seq(Listeners)
      BY <2>2 DEF MainInv
    <3> QED BY <3>1
  <2> QED BY <2>1, <2>2, <2>3
<1>2. /\ result_' = [result_ EXCEPT ![j] = merge(result_[j], which)]
      /\ broke' = IF which = R_FAIL THEN broke \cup {j} ELSE broke
      /\ listeners_' = [n \in DOMAIN listeners_ |-> Heard(listeners_[n], j, which)]
      /\ UNCHANGED <<pc, ec, main, runner, queue, running, ended, stdout_path_, nfailed_, shown, nruns>>
  BY DEF add_event, merge_result
<1>3. j \notin ended /\ result_[j] \in result_t /\ DOMAIN result_ = running
  BY <1>1 DEF JobsInv
<1>4. broke' \cap ended' = broke \cap ended
  BY <1>2, <1>3
<1>5. JobsInv'
  <2>1. /\ merge(result_[j], which) \in result_t
        /\ merge(result_[j], which) = R_FAIL <=> j \in broke'
    BY <1>1, <1>2, <1>3, FailureStays DEF JobsInv
  <2>2. /\ DOMAIN result_' = running' /\ (result_')[j] = merge(result_[j], which)
        /\ \A k \in running : k # j => (result_')[k] = result_[k]
    BY <1>1, <1>2, <1>3
  <2>3. \A k \in running' : (result_')[k] \in result_t /\ ((result_')[k] = R_FAIL <=> k \in broke')
    BY <1>1, <1>2, <2>1, <2>2 DEF JobsInv
  <2>4. broke' \subseteq running' \cup ended'
    BY <1>1, <1>2 DEF JobsInv
  <2> QED BY <1>1, <1>2, <1>4, <2>2, <2>3, <2>4 DEF JobsInv, Distinct, runner
<1>6. ASSUME NEW n \in DOMAIN listeners_
      PROVE  (listeners_')[n] \in Listeners /\ (listeners_')[n].kind = listeners_[n].kind /\ ListenerInv(listeners_[n])'
  <2> DEFINE l == listeners_[n]
             m == (listeners_')[n]
             c == [case_of(l, j) EXCEPT !.event_ = @ \/ which = R_FAIL]
  <2>1. l \in Listeners /\ ListenerInv(l) /\ m = Heard(l, j, which)
    BY <1>1, <1>2
  <2>2. l.kind \in {"text", "junit"}
    BY <2>1 DEF Listeners
  <2> HIDE DEF l
  <2>3. CASE l.kind = "text"
    <3>1. m = l
      BY <2>1, <2>3 DEF Heard
    <3> QED BY <1>2, <1>4, <2>1, <2>3, <3>1 DEF ListenerInv, l
  <2>4. CASE l.kind = "junit"
    <3>1. m = Stored(l, j, c)
      BY <2>1, <2>4 DEF Heard
    <3>2. case_of(l, j) \in Cases
      BY <2>1, CaseKnown
    <3>3. c \in Cases /\ c.event_ = (case_of(l, j).event_ \/ which = R_FAIL)
      BY <3>2 DEF Cases
    <3>4. c.event_ => j \in broke'
      BY <1>1, <1>2, <2>1, <2>4, <3>3, EventOfABrokenJob
    <3> HIDE DEF c, m
    <3>5. /\ m \in Listeners /\ m.kind = "junit" /\ m.suites_[find_case(j)] = c
          /\ DOMAIN m.suites_ = DOMAIN l.suites_ \cup {find_case(j)}
      <4>1. l \in Listeners /\ c \in Cases /\ l.kind = "junit"
        BY <2>1, <2>4, <3>3
      <4> QED BY <3>1, <4>1, StoredInJunit
    <3>6. \A k \in Jobs : k # j =>
             /\ find_case(k) \in DOMAIN m.suites_ <=> find_case(k) \in DOMAIN l.suites_
             /\ find_case(k) \in DOMAIN l.suites_ => m.suites_[find_case(k)] = l.suites_[find_case(k)]
      <4>1. l \in Listeners /\ c \in Cases
        BY <2>1, <3>3
      <4> SUFFICES ASSUME NEW k \in Jobs, k # j
                   PROVE  /\ find_case(k) \in DOMAIN m.suites_ <=> find_case(k) \in DOMAIN l.suites_
                          /\ find_case(k) \in DOMAIN l.suites_ => m.suites_[find_case(k)] = l.suites_[find_case(k)]
        BY Zenon
      <4> QED BY <3>1, <4>1, OneCaseChanges
    <3>7. running \subseteq Jobs /\ ended \subseteq Jobs
      BY <1>1 DEF JobsInv
    <3>8. {find_case(k) : k \in ended} \subseteq DOMAIN m.suites_
      BY <2>1, <2>4, <3>5 DEF ListenerInv
    <3>9. DOMAIN m.suites_ \subseteq {find_case(k) : k \in running \cup ended}
      BY <1>1, <2>1, <2>4, <3>5 DEF ListenerInv
    <3>10. \A k \in running \cup ended : find_case(k) \in DOMAIN m.suites_ =>
             (m.suites_[find_case(k)].event_ => k \in broke')
      BY <1>2, <2>1, <2>4, <3>4, <3>5, <3>6, <3>7 DEF ListenerInv
    <3>11. \A k \in ended : /\ m.suites_[find_case(k)].result_ = R_FAIL <=> k \in broke'
                            /\ m.suites_[find_case(k)].stdout_
      <4> SUFFICES ASSUME NEW k \in ended
                   PROVE  /\ m.suites_[find_case(k)].result_ = R_FAIL <=> k \in broke'
                          /\ m.suites_[find_case(k)].stdout_
        OBVIOUS
      <4>1. k # j /\ k \in Jobs /\ (k \in broke' <=> k \in broke) /\ find_case(k) \in DOMAIN l.suites_
        BY <1>2, <1>3, <2>1, <2>4, <3>7 DEF ListenerInv
      <4>2. m.suites_[find_case(k)] = l.suites_[find_case(k)]
        BY <3>6, <4>1
      <4> QED BY <2>1, <2>4, <4>1, <4>2 DEF ListenerInv
    <3>12. ListenerInv(listeners_[n])'
      BY <1>2, <3>5, <3>8, <3>9, <3>10, <3>11 DEF ListenerInv, m
    <3> QED BY <2>4, <3>5, <3>12 DEF l, m
  <2> QED BY <2>2, <2>3, <2>4
<1>7. DOMAIN listeners_' = DOMAIN listeners_ /\ listeners_' \in Seq(Listeners)
  <2>1. listeners_ \in Seq(Listeners)
    BY <1>1 DEF MainInv
  <2>2. DOMAIN listeners_' = DOMAIN listeners_ /\ listeners_' = [n \in DOMAIN listeners_' |-> (listeners_')[n]]
    BY <1>2
  <2>3. \A n \in DOMAIN listeners_ : (listeners_')[n] \in Listeners
    BY <1>6
  <2> QED BY <2>1, <2>2, <2>3, PlaceByPlace
<1> QED BY <1>1, <1>2, <1>5, <1>6, <1>7, StillRunning DEF shown

\* The end of a job reaches every listener, with the merged result and its
\* output (end_job).
LEMMA JobEnds ==
  ASSUME OneRun, SessionInv, NEW j \in Jobs, NEW res \in {R_PASS, R_NOTAPPLICABLE, R_FAIL}, end_job(j, res)
  PROVE  SessionInv'
<1> DEFINE final == merge_result(j, res)
<1>1. /\ MainInv /\ JobsInv /\ pc = "running" /\ j \in running
      /\ \A n \in DOMAIN listeners_ : ListenerInv(listeners_[n]) /\ listeners_[n] \in Listeners
  BY SMTT(30) DEF SessionInv, MainInv, end_job
<1>2. /\ running' = running \ {j} /\ ended' = ended \cup {j}
      /\ result_' = [k \in running \ {j} |-> result_[k]]
      /\ broke' = IF res = R_FAIL THEN broke \cup {j} ELSE broke
      /\ nfailed_' = nfailed_ + (IF final = R_FAIL THEN 1 ELSE 0)
      /\ listeners_' = [n \in DOMAIN listeners_ |-> Ended(listeners_[n], j, final)]
      /\ stdout_path_' = stdout_path_ \ {j}
      /\ UNCHANGED <<pc, ec, main, runner, queue, shown, nruns>>
  BY DEF end_job
<1>3. /\ j \notin ended /\ result_[j] \in result_t /\ DOMAIN result_ = running
      /\ running \subseteq Jobs /\ ended \subseteq Jobs
  BY <1>1 DEF JobsInv
<1>4. final \in result_t /\ (final = R_FAIL <=> j \in broke')
  <2>1. res \in result_t
    BY DEF result_t, R_UNKNOWN, R_PASS, R_NOTAPPLICABLE, R_FAIL
  <2> QED BY <1>1, <1>2, <1>3, <2>1, FailureStays DEF JobsInv, merge_result
<1> HIDE DEF final
<1>5. /\ IsFiniteSet(ended') /\ Cardinality(ended') = Cardinality(ended) + 1
      /\ Cardinality(broke' \cap ended') = Cardinality(broke \cap ended) + (IF final = R_FAIL THEN 1 ELSE 0)
      /\ Cardinality(ended) \in Nat /\ Cardinality(broke \cap ended) \in Nat
  <2>1. IsFiniteSet(ended) /\ IsFiniteSet(broke \cap ended)
    BY <1>1, FS_Subset DEF JobsInv
  <2>2. broke' \cap ended' = IF final = R_FAIL THEN (broke \cap ended) \cup {j} ELSE broke \cap ended
    BY <1>2, <1>3, <1>4
  <2>3. j \notin broke \cap ended
    BY <1>3
  <2>4. Cardinality(ended) \in Nat /\ Cardinality(broke \cap ended) \in Nat
    BY <2>1, FS_CardinalityType
  <2>5. IsFiniteSet(ended \cup {j}) /\ Cardinality(ended \cup {j}) = Cardinality(ended) + 1
    BY <1>3, <2>1, FS_AddElement
  <2>6. Cardinality((broke \cap ended) \cup {j}) = Cardinality(broke \cap ended) + 1
    BY <2>1, <2>3, FS_AddElement
  <2>7. CASE final = R_FAIL
    BY <1>2, <2>2, <2>4, <2>5, <2>6, <2>7
  <2>8. CASE final # R_FAIL
    <3>1. ended' = ended \cup {j} /\ broke' \cap ended' = broke \cap ended
      BY <1>2, <2>2, <2>8
    <3>2. (IF final = R_FAIL THEN 1 ELSE 0) = 0 /\ Cardinality(broke \cap ended) + 0 = Cardinality(broke \cap ended)
      BY <2>4, <2>8
    <3> QED BY <2>4, <2>5, <3>1, <3>2
  <2> QED BY <2>7, <2>8
<1>6. JobsInv'
  <2>1. IsFiniteSet(running') /\ Cardinality(running') = Cardinality(running) - 1 /\ Cardinality(running) \in Nat
    BY <1>1, <1>2, FS_RemoveElement, FS_CardinalityType DEF JobsInv
  <2>2. Cardinality(running') <= maxchildren_'
    <3>1. Cardinality(running) <= maxchildren_
      BY <1>1 DEF JobsInv
    <3>2. maxchildren_ \in Nat
      BY <1>1 DEF MainInv
    <3>3. maxchildren_' = maxchildren_
      BY <1>2 DEF runner
    <3> QED BY <2>1, <3>1, <3>2, <3>3
  <2>3. DOMAIN result_' = running' /\ \A k \in running' : (result_')[k] = result_[k] /\ k # j /\ k \in running
    BY <1>2
  <2>4. \A k \in running' : (result_')[k] \in result_t /\ ((result_')[k] = R_FAIL <=> k \in broke')
    BY <1>1, <1>2, <2>3 DEF JobsInv
  <2>5. stdout_path_' = IF needs_stdout_' THEN running' ELSE {}
    BY <1>1, <1>2 DEF JobsInv, runner
  <2>6. /\ running' \cap ended' = {} /\ \A n \in DOMAIN queue' : (queue')[n] \notin running' \cup ended'
        /\ running' \subseteq Jobs /\ ended' \subseteq Jobs /\ broke' \subseteq running' \cup ended'
    BY <1>1, <1>2 DEF JobsInv
  <2>7. nfailed_' = Cardinality(broke' \cap ended')
    BY <1>1, <1>2, <1>5 DEF JobsInv
  <2>8. queue' \in Seq(Jobs) /\ Distinct(queue')
    BY <1>1, <1>2 DEF JobsInv, Distinct
  <2> QED BY <1>5, <2>1, <2>2, <2>3, <2>4, <2>5, <2>6, <2>7, <2>8 DEF JobsInv, Distinct
<1>7. ASSUME NEW n \in DOMAIN listeners_
      PROVE  (listeners_')[n] \in Listeners /\ (listeners_')[n].kind = listeners_[n].kind /\ ListenerInv(listeners_[n])'
  <2> DEFINE l == listeners_[n]
             m == (listeners_')[n]
             c == [case_of(l, j) EXCEPT !.result_ = final, !.stdout_ = j \in stdout_path_]
  <2>1. l \in Listeners /\ ListenerInv(l) /\ m = Ended(l, j, final)
    BY <1>1, <1>2
  <2>2. l.kind \in {"text", "junit"}
    BY <2>1 DEF Listeners
  <2> HIDE DEF l
  <2>3. CASE l.kind = "text"
    <3>1. m = [l EXCEPT !.nrun_ = @ + 1, !.nfailed_ = IF final = R_FAIL THEN @ + 1 ELSE @]
      BY <2>1, <2>3 DEF Ended, TextEnded
    <3>2. m \in Listeners /\ m.kind = "text" /\ m.nrun_ = l.nrun_ + 1
          /\ m.nfailed_ = l.nfailed_ + (IF final = R_FAIL THEN 1 ELSE 0)
      <4>1. l.nrun_ \in Nat /\ l.nfailed_ \in Nat
        BY <2>1 DEF Listeners
      <4> DEFINE nf == IF final = R_FAIL THEN l.nfailed_ + 1 ELSE l.nfailed_
      <4>2. nf \in Nat /\ nf = l.nfailed_ + (IF final = R_FAIL THEN 1 ELSE 0) /\ l.nrun_ + 1 \in Nat
        BY <4>1
      <4>3. m = [l EXCEPT !.nrun_ = l.nrun_ + 1, !.nfailed_ = nf]
        BY <3>1
      <4> HIDE DEF nf, m
      <4>4. m \in Listeners /\ m.kind = "text" /\ m.nrun_ = l.nrun_ + 1 /\ m.nfailed_ = nf
        BY <2>1, <2>3, <4>2, <4>3 DEF Listeners
      <4> QED BY <4>2, <4>4
    <3>3. l.nrun_ = Cardinality(ended) /\ l.nfailed_ = Cardinality(broke \cap ended)
      BY <2>1, <2>3 DEF ListenerInv
    <3> HIDE DEF m
    <3>4. ListenerInv(listeners_[n])'
      BY <1>5, <3>2, <3>3 DEF ListenerInv, m
    <3> QED BY <2>3, <3>2, <3>4 DEF l, m
  <2>4. CASE l.kind = "junit"
    <3>1. m = Stored(l, j, c)
      BY <2>1, <2>4 DEF Ended, JunitEnded
    <3>2. case_of(l, j) \in Cases
      BY <2>1, CaseKnown
    <3>3. needs_stdout_ /\ j \in stdout_path_
      BY <1>1, <2>4 DEF MainInv, JobsInv, l
    <3>4. c \in Cases /\ c.event_ = case_of(l, j).event_ /\ c.result_ = final /\ c.stdout_
      BY <1>4, <3>2, <3>3 DEF Cases
    <3>5. c.event_ => j \in broke'
      BY <1>1, <1>2, <2>1, <2>4, <3>4, EventOfABrokenJob
    <3> HIDE DEF c, m
    <3>6. /\ m \in Listeners /\ m.kind = "junit" /\ m.suites_[find_case(j)] = c
          /\ DOMAIN m.suites_ = DOMAIN l.suites_ \cup {find_case(j)}
      <4>1. l \in Listeners /\ c \in Cases /\ l.kind = "junit"
        BY <2>1, <2>4, <3>4
      <4> QED BY <3>1, <4>1, StoredInJunit
    <3>7. \A k \in Jobs : k # j =>
             /\ find_case(k) \in DOMAIN m.suites_ <=> find_case(k) \in DOMAIN l.suites_
             /\ find_case(k) \in DOMAIN l.suites_ => m.suites_[find_case(k)] = l.suites_[find_case(k)]
      <4>1. l \in Listeners /\ c \in Cases
        BY <2>1, <3>4
      <4> SUFFICES ASSUME NEW k \in Jobs, k # j
                   PROVE  /\ find_case(k) \in DOMAIN m.suites_ <=> find_case(k) \in DOMAIN l.suites_
                          /\ find_case(k) \in DOMAIN l.suites_ => m.suites_[find_case(k)] = l.suites_[find_case(k)]
        BY Zenon
      <4> QED BY <3>1, <4>1, OneCaseChanges
    <3>8. {find_case(k) : k \in ended'} \subseteq DOMAIN m.suites_
      BY <1>2, <2>1, <2>4, <3>6 DEF ListenerInv
    <3>9. DOMAIN m.suites_ \subseteq {find_case(k) : k \in running' \cup ended'}
      BY <1>1, <1>2, <2>1, <2>4, <3>6 DEF ListenerInv
    <3>10. \A k \in running' \cup ended' : find_case(k) \in DOMAIN m.suites_ =>
             (m.suites_[find_case(k)].event_ => k \in broke')
      BY <1>1, <1>2, <1>3, <2>1, <2>4, <3>5, <3>6, <3>7 DEF ListenerInv
    <3>11. \A k \in ended' : /\ m.suites_[find_case(k)].result_ = R_FAIL <=> k \in broke'
                             /\ m.suites_[find_case(k)].stdout_
      <4> SUFFICES ASSUME NEW k \in ended'
                   PROVE  /\ m.suites_[find_case(k)].result_ = R_FAIL <=> k \in broke'
                          /\ m.suites_[find_case(k)].stdout_
        OBVIOUS
      <4>1. CASE k = j
        BY <1>4, <3>4, <3>6, <4>1
      <4>2. CASE k # j
        <5>1. k \in ended /\ k \in Jobs /\ (k \in broke' <=> k \in broke) /\ find_case(k) \in DOMAIN l.suites_
          BY <1>2, <1>3, <2>1, <2>4, <4>2 DEF ListenerInv
        <5>2. m.suites_[find_case(k)] = l.suites_[find_case(k)]
          BY <3>7, <4>2, <5>1
        <5> QED BY <2>1, <2>4, <5>1, <5>2 DEF ListenerInv
      <4> QED BY <4>1, <4>2
    <3>12. ListenerInv(listeners_[n])'
      BY <3>6, <3>8, <3>9, <3>10, <3>11 DEF ListenerInv, m
    <3> QED BY <2>4, <3>6, <3>12 DEF l, m
  <2> QED BY <2>2, <2>3, <2>4
<1>8. DOMAIN listeners_' = DOMAIN listeners_ /\ listeners_' \in Seq(Listeners)
  <2>1. listeners_ \in Seq(Listeners)
    BY <1>1 DEF MainInv
  <2>2. DOMAIN listeners_' = DOMAIN listeners_ /\ listeners_' = [n \in DOMAIN listeners_' |-> (listeners_')[n]]
    BY <1>2
  <2>3. \A n \in DOMAIN listeners_ : (listeners_')[n] \in Listeners
    BY <1>7
  <2> QED BY <2>1, <2>2, <2>3, PlaceByPlace
<1> QED BY <1>1, <1>2, <1>6, <1>7, <1>8, StillRunning DEF shown

-----------------------------------------------------------------------------
(* The end of the run.                                                     *)

\* What the JUnit file of a suite says, when nothing is running any more
\* (junit_listener_t::end).
LEMMA ReportOfASuite ==
  ASSUME OneRun, SessionInv, pc = "running", running = {}, NEW n \in Junits, NEW s
  PROVE  /\ Report(listeners_[n], s).suite = s
         /\ Report(listeners_[n], s).tests = Cardinality(In(s, ended))
         /\ Report(listeners_[n], s).errors = Cardinality(In(s, broke))
         /\ Report(listeners_[n], s).explained <= Report(listeners_[n], s).errors
         /\ Report(listeners_[n], s).captured
<1> DEFINE l == listeners_[n]
           cases == {k \in DOMAIN l.suites_ : k[1] = s}
           failed == {k \in cases : l.suites_[k].result_ = R_FAIL}
           explained == {k \in cases : l.suites_[k].event_}
<1>1. ListenerInv(l) /\ l.kind = "junit" /\ JobsInv
  BY DEF SessionInv, MainInv, Junits
<1> HIDE DEF l
<1>2. /\ ended \subseteq Jobs /\ broke \subseteq ended /\ IsFiniteSet(ended)
      /\ DOMAIN l.suites_ = {find_case(j) : j \in ended}
  BY <1>1 DEF JobsInv, ListenerInv
<1>3. \A j : find_case(j)[1] = Suite[j]
  BY DEF find_case
<1>4. cases = {find_case(j) : j \in In(s, ended)}
  BY <1>2, <1>3 DEF In
<1>5. failed = {find_case(j) : j \in In(s, broke)}
  BY <1>1, <1>2, <1>3 DEF In, ListenerInv
<1>6. explained \subseteq failed
  BY <1>1, <1>2 DEF ListenerInv
<1>7. \A k \in cases : l.suites_[k].stdout_
  BY <1>1, <1>2 DEF ListenerInv
<1>8. In(s, ended) \in SUBSET Jobs /\ In(s, broke) \in SUBSET Jobs
      /\ IsFiniteSet(In(s, ended)) /\ IsFiniteSet(In(s, broke))
  <2>1. In(s, ended) \in SUBSET ended /\ In(s, broke) \in SUBSET ended
    BY <1>2 DEF In
  <2> QED BY <1>2, <2>1, FS_Subset
<1>9. Cardinality(cases) = Cardinality(In(s, ended))
  BY <1>4, <1>8, CasesOfJobs
<1>10. Cardinality(failed) = Cardinality(In(s, broke)) /\ IsFiniteSet(failed)
  BY <1>5, <1>8, CasesOfJobs
<1>11. Cardinality(explained) <= Cardinality(failed)
  BY <1>6, <1>10, FS_Subset
<1>12. Report(l, s) = [suite |-> s, tests |-> Cardinality(cases), errors |-> Cardinality(failed),
                       explained |-> Cardinality(explained), captured |-> \A k \in cases : l.suites_[k].stdout_]
  BY DEF Report
<1> HIDE DEF cases, failed, explained
<1>13. Report(l, s).captured
  BY <1>7, <1>12
<1>14. /\ Report(l, s).suite = s /\ Report(l, s).tests = Cardinality(cases)
       /\ Report(l, s).errors = Cardinality(failed) /\ Report(l, s).explained = Cardinality(explained)
  BY <1>12
<1> QED BY <1>9, <1>10, <1>11, <1>13, <1>14 DEF l

\* run_tests() returns: the last JUnit listener writes the files, and the
\* status tells whether something failed.
LEMMA RunEnds ==
  ASSUME OneRun, SessionInv, end
  PROVE  SessionInv'
<1>1. /\ MainInv /\ JobsInv /\ pc = "running" /\ nruns = 1 /\ reports = {} /\ running = {} /\ queue = <<>>
      /\ \A n \in DOMAIN listeners_ : ListenerInv(listeners_[n])
  BY DEF SessionInv, MainInv, end
<1>2. /\ pc' = "np_done" /\ ec' = (IF nfailed_ > 0 THEN 1 ELSE 0)
      /\ UNCHANGED <<main, runner, listeners_, turn, listed, nruns>>
  BY <1>1 DEF end, OneRun
<1>3. PICK w \in SUBSET (IF Junits = {} THEN {} ELSE Reports(listeners_[Max(Junits)])) : reports' = w
  <2>1. PICK w \in SUBSET (IF Junits = {} THEN {} ELSE Reports(listeners_[Max(Junits)])) :
           reports' = w \cup {r \in reports : \A n \in w : n.suite # r.suite}
    BY DEF end
  <2> QED BY <1>1, <2>1
<1>4. \A r \in reports' : /\ r.tests = Cardinality(In(r.suite, ended))
                          /\ r.errors = Cardinality(In(r.suite, broke))
                          /\ r.explained <= r.errors /\ r.captured
  <2> SUFFICES ASSUME NEW r \in reports'
               PROVE  /\ r.tests = Cardinality(In(r.suite, ended))
                      /\ r.errors = Cardinality(In(r.suite, broke))
                      /\ r.explained <= r.errors /\ r.captured
    OBVIOUS
  <2>1. Junits # {} /\ r \in Reports(listeners_[Max(Junits)])
    BY <1>3
  <2>2. Max(Junits) \in Junits
    <3>1. Junits \in SUBSET (1 .. Len(listeners_)) /\ Len(listeners_) \in Nat
      BY <1>1 DEF MainInv, Junits
    <3> QED BY <2>1, <3>1, MaxOf
  <2>3. PICK s : r = Report(listeners_[Max(Junits)], s)
    BY <2>1 DEF Reports
  <2> QED BY <1>1, <2>2, <2>3, ReportOfASuite
<1>5. choose_timeout' = choose_timeout
  BY <1>2 DEF choose_timeout, is_running_under_debugger, main
<1>6. MainInv'
  BY <1>1, <1>2, <1>5 DEF MainInv, main, runner, Early
<1>7. JobsInv' /\ \A n \in DOMAIN listeners_' : ListenerInv(listeners_[n])'
  BY <1>1, <1>2 DEF JobsInv, ListenerInv, turn, runner, Distinct
<1>8. broke \cap ended = broke
  BY <1>1 DEF JobsInv
<1>9. ListenersAgree'
  <2>1. \A n \in DOMAIN listeners_' : (listeners_')[n].kind = "text" =>
          (listeners_')[n].nrun_ = Cardinality(ended') /\ (listeners_')[n].nfailed_ = Cardinality(broke')
    BY <1>1, <1>2, <1>8 DEF ListenerInv, turn
  <2>2. \A r \in reports' : /\ r.tests = Cardinality(In(r.suite, ended'))
                            /\ r.errors = Cardinality(In(r.suite, broke'))
                            /\ r.explained <= r.errors
    BY <1>2, <1>4 DEF turn
  <2> QED BY <2>1, <2>2 DEF ListenersAgree
<1>10. OutputCaptured'
  BY <1>4 DEF OutputCaptured
<1>11. ReturnsFailure'
  <2>1. IsFiniteSet(broke) /\ nfailed_ = Cardinality(broke)
    BY <1>1, <1>8, FS_Subset DEF JobsInv
  <2>2. Cardinality(broke) \in Nat /\ (Cardinality(broke) = 0 <=> broke = {})
    BY <2>1, FS_CardinalityType, FS_EmptySet
  <2> QED BY <1>2, <2>1, <2>2 DEF ReturnsFailure, turn
<1> QED BY <1>1, <1>2, <1>6, <1>7, <1>9, <1>10, <1>11 DEF SessionInv

\* Exiting, from wherever, changes nothing else.
LEMMA NothingMore ==
  ASSUME SessionInv, UNCHANGED <<main, runner, listeners_, turn, shown, nruns>>,
         pc' = "exited" \/ UNCHANGED <<pc, ec>>
  PROVE  SessionInv'
<1>1. choose_timeout' = choose_timeout
  BY DEF choose_timeout, is_running_under_debugger, main
<1>2. MainInv'
  BY <1>1 DEF SessionInv, MainInv, main, runner, shown, Early
<1>3. nruns' = 0 => Fresh'
  BY DEF SessionInv, Fresh, turn, shown
<1>4. nruns' = 1 => JobsInv'
  BY DEF SessionInv, JobsInv, Distinct, turn, runner
<1>5. nruns' = 1 => \A n \in DOMAIN listeners_' : ListenerInv(listeners_[n])'
  BY DEF SessionInv, ListenerInv, turn
<1>6. ListenersAgree' /\ OutputCaptured' /\ ReturnsFailure'
  BY DEF SessionInv, ListenersAgree, OutputCaptured, ReturnsFailure, Over, In, turn, shown
<1> QED BY <1>2, <1>3, <1>4, <1>5, <1>6 DEF SessionInv

-----------------------------------------------------------------------------
(* The invariant and what follows from it.                                 *)

\* The invariant holds when main() is entered.
LEMMA SessionStarts == ASSUME OneRun, Init PROVE SessionInv
<1>1. MainInv
  <2>1. listeners_ \in Seq(Listeners) /\ \A n \in DOMAIN listeners_ : listeners_[n].kind = "junit" => needs_stdout_
    BY DEF Init
  <2>2. plan \in Plans /\ opts \in Options /\ concurrency \in Int
    BY DEF Init, Plans, NoJobs
  <2>3. /\ maxchildren_ = 1 /\ timeout_ = 0 /\ nruns = 0 /\ pc = "main" /\ execs = 0
        /\ on_valgrind = FALSE /\ needs_stdout_ = FALSE
    BY DEF Init
  <2>4. /\ on_valgrind \in BOOLEAN /\ needs_stdout_ \in BOOLEAN /\ ~on_valgrind
        /\ execs = IF on_valgrind THEN 1 ELSE 0
    BY <2>3
  <2>5. /\ maxchildren_ \in Nat \ {0} /\ timeout_ \in {0, 30, 90} /\ nruns \in {0, 1} /\ nruns # 1
        /\ pc \in Early /\ pc \notin {"list", "formats", "run_tests"} /\ pc # "running"
    BY <2>3 DEF Early
  <2> QED BY <2>1, <2>2, <2>3, <2>4, <2>5 DEF MainInv
<1>2. Fresh
  <2>1. nfailed_ = 0 /\ reports = {} /\ running = {} /\ ended = {} /\ broke = {} /\ stdout_path_ = {}
    BY DEF Init
  <2>2. listeners_ = <<>> /\ result_ = <<>>
    BY DEF Init
  <2>3. DOMAIN result_ = {} /\ DOMAIN listeners_ = {}
    BY <2>2
  <2> QED BY <2>1, <2>3, Zenon DEF Fresh
<1> QED BY <1>1, <1>2 DEF Init, SessionInv, ListenersAgree, OutputCaptured, ReturnsFailure, Over

\* Every step of the program keeps it.
LEMMA SessionStep == ASSUME OneRun, SessionInv, [Next]_vars PROVE SessionInv'
<1>1. CASE parse_options
  BY <1>1, OptionsParsed
<1>2. CASE be_valground
  BY <1>2, Restarted
<1>3. CASE np_init
  BY <1>3, Initialised
<1>4. CASE list_tests
  BY <1>4, TestsListed
<1>5. CASE set_formats
  BY <1>5, FormatsSet
<1>6. CASE begin
  BY <1>6, RunBegins
<1>7. CASE begin_job
  BY <1>7, JobBegins
<1>8. CASE begin_job_fails
  BY <1>8, NothingMore DEF begin_job_fails, exit
<1>9. CASE end
  BY <1>9, RunEnds
<1>10. CASE again
  BY <1>10 DEF again, SessionInv, MainInv, Early
<1>11. CASE np_done
  BY <1>11, NothingMore DEF np_done, exit
<1>12. CASE exited
  BY <1>12, NothingMore DEF exited, vars
<1>13. ASSUME NEW j \in Jobs, NEW which \in result_t, add_event(j, which) PROVE SessionInv'
  BY <1>13, EventRaised
<1>14. ASSUME NEW j \in Jobs, NEW res \in {R_PASS, R_NOTAPPLICABLE, R_FAIL}, end_job(j, res) PROVE SessionInv'
  BY <1>14, JobEnds
<1>15. CASE UNCHANGED vars
  BY <1>15, NothingMore DEF vars
<1> QED
  BY <1>1, <1>2, <1>3, <1>4, <1>5, <1>6, <1>7, <1>8, <1>9, <1>10, <1>11, <1>12, <1>13, <1>14, <1>15 DEF Next

\* The inductive invariant of a run of the program.
THEOREM SessionInvariant == ASSUME OneRun PROVE Spec => []SessionInv
BY SessionStarts, SessionStep, PTL DEF Spec

\* Whatever the tests, the options and the order in which events come and jobs
\* end: when run_tests() has returned, the summary line and the JUnit files
\* count the tests that were run and those that something went wrong in, an
\* <error> is given only for a test that failed, and the captured output is
\* there for every test in a file (proxy_listener_t, text_listener_t,
\* junit_listener_t).
THEOREM ListenersAllAgree == ASSUME OneRun PROVE Spec => [](ListenersAgree /\ OutputCaptured)
<1>1. SessionInv => ListenersAgree /\ OutputCaptured
  BY DEF SessionInv
<1> QED BY <1>1, SessionInvariant, PTL

\* What the invariant says of the options, the timeout and the exit status.
LEMMA SessionShows == ASSUME SessionInv PROVE RunsAsAsked
<1>1. MainInv /\ ReturnsFailure
  BY DEF SessionInv
<1>2. DebuggerLeftAlone
  <2>1. nruns > 0 => nruns = 1
    <3>1. nruns \in {0, 1}
      BY <1>1 DEF MainInv
    <3> QED BY <3>1
  <2>2. nruns > 0 => timeout_ = IF tracer \in {"gdb", "unreadable"} THEN 0 ELSE IF on_valgrind THEN 90 ELSE 30
    BY <1>1, <2>1 DEF MainInv, choose_timeout, is_running_under_debugger
  <2>3. execs <= 1 /\ (tracer = "gdb" => ~on_valgrind)
    BY <1>1 DEF MainInv
  <2> QED BY <2>2, <2>3 DEF DebuggerLeftAlone
<1>3. \A n \in DOMAIN listeners_ : \A k \in DOMAIN listeners_[n].suites_ : Len(k) = 2
  <2> SUFFICES ASSUME NEW n \in DOMAIN listeners_, NEW k \in DOMAIN listeners_[n].suites_ PROVE Len(k) = 2
    OBVIOUS
  <2>0. listeners_[n] \in Listeners
    BY <1>1 DEF MainInv
  <2>1. listeners_[n].suites_ \in SuiteTables
    BY <2>0 DEF Listeners
  <2>2. PICK D \in SUBSET {find_case(j) : j \in Jobs} : listeners_[n].suites_ \in [D -> Cases]
    BY <2>1 DEF SuiteTables
  <2>3. PICK j \in Jobs : k = find_case(j)
    BY <2>2
  <2> QED BY <2>3 DEF find_case
<1>4. /\ running \subseteq Jobs /\ ended \subseteq Jobs /\ DOMAIN result_ = running /\ stdout_path_ \subseteq running
      /\ Cardinality(running) <= maxchildren_
  <2>1. CASE nruns = 0
    <3>1. Fresh /\ Cardinality({}) = 0 /\ maxchildren_ \in Nat
      BY <1>1, <2>1, FS_EmptySet DEF SessionInv, MainInv
    <3> QED BY <3>1 DEF Fresh
  <2>2. CASE nruns = 1
    BY <2>2 DEF SessionInv, JobsInv
  <2> QED BY <1>1, <2>1, <2>2 DEF MainInv
<1>5. TypeOK
  BY <1>1, <1>3, <1>4, SMTT(30) DEF TypeOK, MainInv
<1> QED BY <1>1, <1>2, <1>5 DEF RunsAsAsked

\* Whatever the command line, the environment and the tests: no more jobs run
\* at once than were asked for, the program restarts itself under Valgrind at
\* most once and never under a debugger, the timeout is the one for where it
\* runs, and the status is non-zero exactly if something went wrong in a test
\* (main, np_init, np_run_tests).
THEOREM SessionRunsAsAsked == ASSUME OneRun PROVE Spec => []RunsAsAsked
BY SessionInvariant, SessionShows, PTL

=============================================================================
