----------------------------- MODULE Intercept -----------------------------
(***************************************************************************)
(* Function interception in the child process: the table of intercepts    *)
(* (np/spiegel/intercept.cxx), the breakpoint written over the first      *)
(* instruction of an intercepted function and the trampoline that runs    *)
(* when it is hit (np/spiegel/platform/linux_x86_64.cxx), and the mocks    *)
(* that use them: those of the test's nodes (testnode_t::pre_run) and the *)
(* dynamic ones of np_mock() and np_unmock().                              *)
(*                                                                         *)
(* The first instruction of a function is "push" (push %rbp, one byte, so  *)
(* the trampoline can simulate it) or "other" (the trampoline puts it      *)
(* back and re-inserts the breakpoint when the function has returned).     *)
(* A mock's identity stands for the address of the replacing function.     *)
(***************************************************************************)
EXTENDS SeqOps

CONSTANTS
  Funcs,          \* addresses of functions
  Stubs,          \* PLT stubs, each standing for the function it leads to
  PltTarget,      \* [Stubs -> Funcs], what follow_plt() finds
  FirstInsn,      \* [Funcs -> {"push", "other"}]
  Unwritable,     \* functions whose page mprotect() refuses to change
  NodeMocks,      \* the mocks of the test's nodes, innermost node first
  Dynamic,        \* [intercepts a test may install -> what before() does]
  MaxDepth,       \* bound: active calls
  NestedUnmock,   \* np_unmock() may be called inside a mocked function
  StraySignals,   \* another process may send the trap signal
  Archs,          \* the platforms checked
  Valgrind        \* using_int3: the trap is INT3, which raises SIGTRAP

Trap == "trap"
NULL == "null"
Dangling == "dangling"
Original == "original"

VARIABLES
  arch,
  text,               \* the first instruction of each function
  installed_,         \* intercept_t::installed_
  dynamic_intercepts,
  tramp_intstate,     \* whose state the static pointer points at
  handler,            \* the disposition of the trap signal
  phase,              \* "pre_run", "test", "finished"
  frames,             \* active calls, outermost first
  alive,
  unmocked            \* what the last np_unmock() was asked to unmock, if it
                      \* is the last thing that happened

vars == <<arch, text, installed_, dynamic_intercepts, tramp_intstate, handler, phase,
          frames, alive, unmocked>>

\* state_t::instrumentable_address
instrumentable_address(a) == IF a \in Stubs THEN PltTarget[a] ELSE a

\* What before() of an intercept does with the call.
Before(id) == IF id \in DOMAIN Dynamic THEN Dynamic[id] ELSE "redirect"

Init ==
  /\ arch \in Archs
  /\ text = FirstInsn
  /\ installed_ = << >>
  /\ dynamic_intercepts = << >>
  /\ tramp_intstate = NULL
  /\ handler = "none"
  /\ phase = "pre_run"
  /\ frames = << >>
  /\ alive = TRUE
  /\ unmocked = {}

-----------------------------------------------------------------------------
(* The table. An image m holds what these functions change.                *)

image == [text |-> text, installed_ |-> installed_]

text_write(m, f, insn) ==
  IF f \in Unwritable THEN m ELSE [m EXCEPT !.text[f] = insn]

type_(insn) ==
  CASE insn = "push" -> "PUSHBP"
    [] insn = Trap -> "UNKNOWN"
    [] OTHER -> "OTHER"

get_addrstate(m, f) ==
  IF f \in DOMAIN m.installed_ THEN m.installed_[f]
  ELSE [type_ |-> "UNKNOWN", orig_ |-> NULL, intercepts_ |-> << >>]

put_addrstate(m, f, as) ==
  [m EXCEPT !.installed_ = [g \in DOMAIN @ \cup {f} |-> IF g = f THEN as ELSE @[g]]]

remove_addrstate(m, f) ==
  [m EXCEPT !.installed_ = [g \in DOMAIN @ \ {f} |-> @[g]]]

install_intercept(m, f) ==
  LET as == [m.installed_[f] EXCEPT !.type_ = type_(m.text[f]),
                                    !.orig_ = m.text[f]]
  IN text_write(put_addrstate(m, f, as), f, Trap)

uninstall_intercept(m, f, as) ==
  IF m.text[f] # Trap THEN m ELSE text_write(m, f, as.orig_)

install(m, i) ==
  LET f == i.addr_
      as == get_addrstate(m, f)
      listed == put_addrstate(m, f, [as EXCEPT !.intercepts_ = Append(@, i)])
  IN IF as.intercepts_ = << >> THEN install_intercept(listed, f) ELSE listed

\* A mutant: the breakpoint is left when the last intercept goes.
uninstall_KeepTrap(m, i) ==
  LET as == get_addrstate(m, i.addr_)
      rest == EraseFirst(as.intercepts_, i)
  IN IF rest = << >> THEN remove_addrstate(m, i.addr_)
     ELSE put_addrstate(m, i.addr_, [as EXCEPT !.intercepts_ = rest])

uninstall(m, i) ==
  LET f == i.addr_
      as == get_addrstate(m, f)
      rest == EraseFirst(as.intercepts_, i)
  IN IF rest = << >>
     THEN remove_addrstate(uninstall_intercept(m, f, as), f)
     ELSE put_addrstate(m, f, [as EXCEPT !.intercepts_ = rest])

\* What the child's memory becomes; a pointer into an erased entry dangles.
Becomes(m) ==
  /\ text' = m.text
  /\ installed_' = m.installed_
  /\ tramp_intstate' = IF tramp_intstate \in DOMAIN installed_ \ DOMAIN m.installed_
                       THEN Dangling ELSE tramp_intstate

\* The handler is installed with the first intercept, once.
Handled(m) ==
  handler' = IF handler = "none" /\ DOMAIN m.installed_ # {} THEN "handle_signal" ELSE handler

-----------------------------------------------------------------------------
(* Around the test, and the test's own mocks.                              *)

pre_run ==
  /\ phase = "pre_run"
  /\ LET m == Fold(install, image, NodeMocks)
     IN Becomes(m) /\ Handled(m)
  /\ phase' = "test"
  /\ UNCHANGED <<arch, dynamic_intercepts, frames, alive, unmocked>>

Leftover == NodeMocks \o dynamic_intercepts

post_run ==
  /\ phase = "test"
  /\ alive
  /\ frames = << >>
  /\ Becomes(Fold(uninstall, image, Leftover))
  /\ dynamic_intercepts' = << >>
  /\ phase' = "finished"
  /\ unmocked' = {}
  /\ UNCHANGED <<arch, handler, frames, alive>>

Running == phase = "test" /\ alive

\* The test makes an intercept for address a and installs it.
np_mock(a, id) ==
  LET i == [addr_ |-> instrumentable_address(a), id |-> id] IN
  /\ Running
  /\ \A k \in DOMAIN dynamic_intercepts : dynamic_intercepts[k].id # id
  /\ dynamic_intercepts' = Append(dynamic_intercepts, i)
  /\ Becomes(install(image, i))
  /\ Handled(install(image, i))
  /\ unmocked' = {}
  /\ UNCHANGED <<arch, phase, frames, alive>>

Matching(a) == {k \in DOMAIN dynamic_intercepts : dynamic_intercepts[k].addr_ = a}

np_unmock(a) ==
  /\ Running
  /\ frames = << >> \/ NestedUnmock
  /\ IF Matching(a) = {}
     THEN UNCHANGED <<text, installed_, dynamic_intercepts, tramp_intstate>>
     ELSE LET k == CHOOSE j \in Matching(a) : \A l \in Matching(a) : j <= l
          IN /\ dynamic_intercepts' = Erase(dynamic_intercepts, k)
             /\ Becomes(uninstall(image, dynamic_intercepts[k]))
  /\ unmocked' = {a}
  /\ UNCHANGED <<arch, handler, phase, frames, alive>>

-----------------------------------------------------------------------------
(* A call of function f by the test or by a function it is running.        *)

Redirects(f) ==
  IF f \notin DOMAIN installed_ THEN {}
  ELSE {k \in DOMAIN installed_[f].intercepts_ :
          Before(installed_[f].intercepts_[k].id) = "redirect"}

\* The last before() that redirects the call has its way.
redirect_(f) ==
  IF Redirects(f) = {} THEN Original ELSE installed_[f].intercepts_[Max(Redirects(f))].id

Some(f, what) ==
  \E k \in DOMAIN installed_[f].intercepts_ : Before(installed_[f].intercepts_[k].id) = what

Frame(f, runs, tramp) == [addr |-> f, runs |-> runs, tramp |-> tramp, meant |-> redirect_(f)]

CanCall(f) == Running /\ Len(frames) < MaxDepth

calls_untrapped(f) ==
  /\ CanCall(f)
  /\ text[f] # Trap
  /\ frames' = Append(frames, Frame(f, Original, FALSE))
  /\ unmocked' = {}
  /\ UNCHANGED <<arch, text, installed_, dynamic_intercepts, tramp_intstate, handler, phase, alive>>

(* handle_signal(): the trampoline, nothing, or the default action for good *)
(* ("wtf"), from what the signal says of itself.                           *)
TrapSignal == IF Valgrind THEN "SIGTRAP" ELSE "SIGSEGV"
TrapCodes == IF Valgrind THEN {"SI_KERNEL", "TRAP_BRKPT"} ELSE {"SI_KERNEL"}
TrapInsn == IF Valgrind THEN "INT3" ELSE "HLT"

linux_x86_64_verdict(s) ==
  CASE s.sig # TrapSignal -> "ignore"
    [] s.sig = TrapSignal /\ (s.code \notin TrapCodes \/ s.insn # TrapInsn) -> "wtf"
    [] s.sig = TrapSignal /\ s.code \in TrapCodes /\ s.insn = TrapInsn ->
         IF s.pid # 0 THEN "ignore" ELSE IF s.listed THEN "tramp" ELSE "wtf"

linux_x86_verdict(s) ==
  IF s.sig # TrapSignal THEN "ignore"
  ELSE IF s.code \notin TrapCodes \/ s.insn # TrapInsn THEN "wtf"
  ELSE IF s.pid # 0 THEN "ignore"
  ELSE IF s.listed THEN "tramp" ELSE "wtf"

\* "Darwin seems to set neither si_code nor si_pid to anything useful".
darwin_x86_64_verdict(s) ==
  IF s.sig # TrapSignal THEN "ignore"
  ELSE IF s.insn # TrapInsn THEN "wtf"
  ELSE IF s.pid # 0 THEN "ignore"
  ELSE IF s.listed THEN "tramp" ELSE "wtf"

verdict(s) ==
  CASE arch = "linux_x86_64" -> linux_x86_64_verdict(s)
    [] arch = "linux_x86" -> linux_x86_verdict(s)
    [] arch = "darwin_x86_64" -> darwin_x86_64_verdict(s)

\* The processor's signal for the breakpoint of f, and one from a process.
Hit(f) == [sig |-> TrapSignal, code |-> IF Valgrind THEN "TRAP_BRKPT" ELSE "SI_KERNEL",
           insn |-> TrapInsn, pid |-> 0, listed |-> f \in DOMAIN installed_]
Sent(sig) == [sig |-> sig, code |-> "SI_USER", insn |-> "any", pid |-> 1, listed |-> FALSE]

\* handle_signal, when the trap is not that of an intercept, or the default
\* action, or a trampoline that does not know what instruction to simulate.
trap_kills(f) ==
  /\ CanCall(f)
  /\ text[f] = Trap
  /\ \/ handler = "SIG_DFL"
     \/ verdict(Hit(f)) # "tramp"
     \/ installed_[f].type_ = "UNKNOWN"
  /\ alive' = FALSE
  /\ UNCHANGED <<arch, text, installed_, dynamic_intercepts, tramp_intstate, handler, phase, frames,
                 unmocked>>

Trapped(f) ==
  /\ CanCall(f)
  /\ text[f] = Trap
  /\ handler = "handle_signal"
  /\ verdict(Hit(f)) = "tramp"
  /\ installed_[f].type_ # "UNKNOWN"

Untrapped(f) ==
  IF installed_[f].type_ = "OTHER" THEN text_write(image, f, installed_[f].orig_).text ELSE text

\* A mutant: a redirected call leaves the original instruction in place.
tramp_text_Forgets(f) == Untrapped(f)

\* What text is when the trampoline switches to the function it will run.
tramp_text(f) ==
  IF Some(f, "redirect") THEN text ELSE Untrapped(f)

\* handle_signal and intercept_tramp, up to setcontext().
intercept_tramp(f) ==
  /\ Trapped(f)
  /\ ~Some(f, "skip") /\ ~Some(f, "throw")
  /\ tramp_intstate' = f
  /\ text' = tramp_text(f)
  /\ frames' = Append(frames, Frame(f, redirect_(f), TRUE))
  /\ unmocked' = {}
  /\ UNCHANGED <<arch, installed_, dynamic_intercepts, handler, phase, alive>>

\* A before() asked to skip the function: the trampoline returns at once.
tramp_skips(f) ==
  /\ Trapped(f)
  /\ Some(f, "skip") /\ ~Some(f, "throw")
  /\ tramp_intstate' = f
  /\ unmocked' = {}
  /\ UNCHANGED <<arch, text, installed_, dynamic_intercepts, handler, phase, frames, alive>>

\* A before() fails an assertion: every active call is abandoned.
before_throws(f) ==
  /\ Trapped(f)
  /\ Some(f, "throw")
  /\ tramp_intstate' = f
  /\ text' = Untrapped(f)
  /\ frames' = << >>
  /\ unmocked' = {}
  /\ UNCHANGED <<arch, installed_, dynamic_intercepts, handler, phase, alive>>

\* The type the trampoline reads when the function has returned. Memory that
\* was freed may hold anything.
intstate_types ==
  IF tramp_intstate = Dangling THEN {"UNKNOWN", "PUSHBP", "OTHER"}
  ELSE {installed_[tramp_intstate].type_}

after_text(f, type) ==
  IF type = "OTHER" THEN text_write(image, f, Trap).text ELSE text

returns ==
  /\ Running
  /\ frames # << >>
  /\ IF Last(frames).tramp
     THEN \E type \in intstate_types : text' = after_text(Last(frames).addr, type)
     ELSE UNCHANGED text
  /\ frames' = Front(frames)
  /\ unmocked' = {}
  /\ UNCHANGED <<arch, installed_, dynamic_intercepts, tramp_intstate, handler, phase, alive>>

\* A running function fails an assertion.
np_throw ==
  /\ Running
  /\ frames # << >>
  /\ frames' = << >>
  /\ unmocked' = {}
  /\ UNCHANGED <<arch, text, installed_, dynamic_intercepts, tramp_intstate, handler, phase, alive>>

\* handle_signal, when another process sent the signal: si_code gives it away.
stray_signal ==
  /\ Running
  /\ StraySignals
  /\ handler = "handle_signal"
  /\ handler' = IF verdict(Sent(TrapSignal)) = "wtf" THEN "SIG_DFL" ELSE handler
  /\ UNCHANGED <<arch, text, installed_, dynamic_intercepts, tramp_intstate, phase, frames, alive,
                 unmocked>>

Next ==
  \/ pre_run
  \/ post_run
  \/ \E a \in Funcs \cup Stubs : \E id \in DOMAIN Dynamic : np_mock(a, id)
  \/ \E a \in Funcs \cup Stubs : np_unmock(a)
  \/ \E f \in Funcs : \/ calls_untrapped(f)
                      \/ trap_kills(f)
                      \/ intercept_tramp(f)
                      \/ tramp_skips(f)
                      \/ before_throws(f)
  \/ returns
  \/ np_throw
  \/ stray_signal

Spec == Init /\ [][Next]_vars

-----------------------------------------------------------------------------
(* Properties.                                                             *)

TypeOK ==
  /\ text \in [Funcs -> {"push", "other", Trap}]
  /\ DOMAIN installed_ \subseteq Funcs
  /\ \A f \in DOMAIN installed_ :
       /\ installed_[f].intercepts_ # << >>
       /\ \A k \in DOMAIN installed_[f].intercepts_ : installed_[f].intercepts_[k].addr_ = f
  /\ \A k \in DOMAIN dynamic_intercepts : dynamic_intercepts[k].addr_ \in Funcs
  /\ tramp_intstate \in Funcs \cup {NULL, Dangling}
  /\ handler \in {"none", "handle_signal", "SIG_DFL"}
  /\ \A k \in DOMAIN frames : frames[k].addr \in Funcs

\* An active call runs what the table said when it was made: the replacement
\* given by the last mock installed on the function, or the function itself
\* when it has none. No sequence of nested calls, mocks and failures loses a
\* breakpoint (intercept_tramp and the code after the call).
MockTakesEffect ==
  \A k \in DOMAIN frames : frames[k].addr \notin Unwritable => frames[k].runs = frames[k].meant

\* A function holds a breakpoint exactly when the table has an intercept for
\* it (install and uninstall, intercept.cxx), at every moment of the test.
TrapIffListed ==
  \A f \in Funcs \ Unwritable : text[f] = Trap <=> f \in DOMAIN installed_

\* Sequence s holds the intercepts of L for function f and no others, in the
\* order they have in L.
InOrder(s, L, f) ==
  /\ \A k \in DOMAIN L : L[k].addr_ = f => \E j \in DOMAIN s : s[j] = L[k]
  /\ \A j \in DOMAIN s : s[j].addr_ = f /\ \E k \in DOMAIN L : s[j] = L[k]
  /\ \A j, l \in DOMAIN s : j < l =>
       \A a, b \in DOMAIN L : L[a] = s[j] /\ L[b] = s[l] => a < b

\* Table t holds the intercepts of L.
Lists(t, L) ==
  /\ DOMAIN t = {L[k].addr_ : k \in DOMAIN L}
  /\ \A f \in DOMAIN t : InOrder(t[f].intercepts_, L, f)

\* The intercepts of the table for a function are those of the test's nodes
\* and then the dynamic ones that have not been removed, in the order they
\* were installed (install, uninstall, __np_mock and __np_unmock).
TableIsMocks == phase = "test" => Lists(installed_, NodeMocks \o dynamic_intercepts)

\* When the test is over every function is as the compiler made it, no
\* intercept is listed and no mock is remembered (testnode_t::post_run).
AllRestored ==
  phase = "finished" => text = FirstInsn /\ installed_ = << >> /\ dynamic_intercepts = << >>

\* The process is never killed by a breakpoint of the framework's own making
\* (handle_signal finds every trap in the table).
TrapsAreHandled == alive

\* Whatever order the test's calls, mocks and failures come in, a function's
\* first instruction is its own or a breakpoint, never that of another
\* function, and so is the instruction saved for it (intstate_t::orig_).
OwnInstruction ==
  /\ \A f \in Funcs : text[f] \in {FirstInsn[f], Trap}
  /\ \A f \in DOMAIN installed_ : installed_[f].orig_ \in {FirstInsn[f], Trap}

\* The text and the table agree while mocks come and go (install, uninstall and
\* the trampoline).
TextFollowsTable == TypeOK /\ TrapIffListed /\ AllRestored /\ TrapsAreHandled

\* What of it holds whatever intercepts do and whenever they are removed.
TableKept == TableIsMocks /\ OwnInstruction

-----------------------------------------------------------------------------
(* Why they hold: an invariant of the table, for any surroundings, and one *)
(* of the text where intercepts are removed outside the calls they         *)
(* intercept and either redirect those calls or skip them.                 *)

Ids == {NodeMocks[k].id : k \in DOMAIN NodeMocks} \cup DOMAIN Dynamic
Mocks == [addr_ : Funcs, id : Ids]
DynamicMocks == [addr_ : Funcs, id : DOMAIN Dynamic]
Insns == {"push", "other", Trap}
AddrStates == [type_ : {"UNKNOWN", "PUSHBP", "OTHER"}, orig_ : Insns \cup {NULL},
               intercepts_ : Seq(Mocks)]

\* Every mock is an object of its own, so no two have one identity.
Distinct(L) == \A j, k \in DOMAIN L : L[j].id = L[k].id => j = k

\* What the addresses, the compiler and the tree of nodes give.
Constants ==
  /\ PltTarget \in [Stubs -> Funcs]
  /\ FirstInsn \in [Funcs -> {"push", "other"}]
  /\ NodeMocks \in Seq(Mocks) /\ Distinct(NodeMocks)
  /\ \A k \in DOMAIN NodeMocks : NodeMocks[k].id \notin DOMAIN Dynamic
  /\ Archs \subseteq {"linux_x86_64", "linux_x86", "darwin_x86_64"}

\* Intercepts are removed outside the calls they intercept, which they
\* redirect or skip, as every mock does.
Ordinary ==
  /\ ~NestedUnmock
  /\ \A id \in DOMAIN Dynamic : Dynamic[id] \in {"redirect", "skip"}

\* The instructions in the text of image m and in its table.
Own(m) ==
  /\ \A f \in Funcs : m.text[f] \in {FirstInsn[f], Trap}
  /\ \A f \in DOMAIN m.installed_ : m.installed_[f].orig_ \in {FirstInsn[f], Trap}

\* The text of image m has the breakpoints of its table.
Marked(m) ==
  /\ \A f \in Funcs :
       m.text[f] = IF f \in DOMAIN m.installed_ \ Unwritable THEN Trap ELSE FirstInsn[f]
  /\ \A f \in DOMAIN m.installed_ :
       m.installed_[f].orig_ = FirstInsn[f] /\ m.installed_[f].type_ = type_(FirstInsn[f])

Calls == [addr : Funcs, runs : Ids \cup {Original}, tramp : BOOLEAN,
          meant : Ids \cup {Original}]

TableInv ==
  /\ arch \in Archs
  /\ text \in [Funcs -> Insns]
  /\ DOMAIN installed_ \subseteq Funcs /\ installed_ \in [DOMAIN installed_ -> AddrStates]
  /\ Own(image)
  /\ dynamic_intercepts \in Seq(DynamicMocks)
  /\ Distinct(dynamic_intercepts)
  /\ frames \in Seq(Calls)
  /\ tramp_intstate \in Funcs \cup {NULL, Dangling}
  /\ handler \in {"none", "handle_signal", "SIG_DFL"}
  /\ phase \in {"pre_run", "test", "finished"}
  /\ Lists(installed_, IF phase = "test" THEN NodeMocks \o dynamic_intercepts ELSE << >>)
  /\ phase # "test" => dynamic_intercepts = << >> /\ frames = << >>
  /\ phase = "pre_run" => text = FirstInsn

MocksInv ==
  /\ Marked(image)
  /\ MockTakesEffect
  /\ \A k \in DOMAIN frames :
       frames[k].tramp => frames[k].addr \in DOMAIN installed_ \ Unwritable

HandlerInv ==
  /\ alive
  /\ handler # "SIG_DFL"
  /\ DOMAIN installed_ # {} => handler = "handle_signal"

InterceptInv ==
  /\ Constants => TableInv
  /\ Constants /\ Ordinary => MocksInv
  /\ Constants /\ Ordinary /\ ~StraySignals => HandlerInv

-----------------------------------------------------------------------------
(* What the comments and documents say and the code does not do.           *)

\* np.h on np_unmock(): "Uninstall any dynamic mocks installed earlier by
\* np_mock for function fn". __np_unmock() removes the first it finds.
\* The code does not keep this, and no run checks it.
UnmockRemoves ==
  \A a \in unmocked : \A k \in DOMAIN dynamic_intercepts :
    dynamic_intercepts[k].addr_ # instrumentable_address(a)

\* intercept_tramp's comment: before() can longjmp() out "without drama", e.g.
\* by failing an assertion. The function keeps its breakpoint.
\* The code does not keep this, and no run checks it.
DramaFreeThrow ==
  [][\A f \in Funcs : before_throws(f) => text'[f] = Trap]_vars

\* intercept_tramp's comment: "call the function and wait for it to return,
\* then re-insert the breakpoint", whatever other intercepted functions it
\* called meanwhile.
\* The code does not keep this, and no run checks it.
ReinsertedOnReturn ==
  [][returns => LET f == Last(frames).addr
                IN Last(frames).tramp /\ f \in DOMAIN installed_ => text'[f] = Trap]_vars

\* mocking.rst: while a file's tests run, a call of a function the file mocks
\* "will instead call the mocked function". The mock nearest to the test wins
\* unless the test installed one of its own.
\* The code does not keep this, and no run checks it.
NearestMockRuns ==
  \A k \in DOMAIN frames :
    LET mine == SelectSeq(NodeMocks, LAMBDA i : i.addr_ = frames[k].addr)
    IN mine # << >> /\ frames[k].runs \notin DOMAIN Dynamic => frames[k].runs = mine[1].id

\* handle_signal means to ignore a signal another process sent ("some process
\* sent us SIGSEGV, wtf?"): it does not stop intercepts from working.
\* The code does not keep this, and no run checks it.
HandlerStays == phase = "test" /\ installed_ # << >> => handler = "handle_signal"

=============================================================================
