----------------------------- MODULE EventPipe -----------------------------
(***************************************************************************)
(* Events on their way from test code to the listeners: how event_t is     *)
(* filled in and normalised (np/event.cxx), written field by field to the  *)
(* event pipe by the proxy listener of a test process, and read back by    *)
(* handle_call() in the runner (np/proxy_listener.cxx).                    *)
(*                                                                         *)
(* A string is a sequence of numbers without 0, an integer on the wire is  *)
(* one number: only where fields begin and end matters.  Writers is the    *)
(* test process and the processes it forks, which inherit the write end    *)
(* of the pipe and, if they return into the framework, its proxy listener. *)
(***************************************************************************)
EXTENDS Results, Integers, Sequences, FiniteSets, SequencesExt, FiniteSetsExt

CONSTANTS
  Writers, Test,       \* processes; the one that the runner forked
  Forks,               \* whether a process the test forks may go on: see forks
  Dies,                \* a process may end anywhere
  Whichs, Texts, Traces, FnFile,  \* what events are raised with
  Junk,                \* what memory holds that a string was freed from
  TracebufSize,
  PipeSize, PipeBuf,   \* capacity of a pipe; what it takes in one piece
  MaxEvents            \* bound: events a process raises

VARIABLES
  pipe,      \* bytes in the event pipe
  todo,      \* what each process has yet to write, one sequence per write(2)
  open,      \* processes that have the write end
  idle,      \* processes outside raise_event() and end_job() that may call them
  ncalls,
  raised,    \* the events each process raised, as user code sees them
  begun,     \* processes that have written a part of a call
  cutoff,    \* a process ended inside a call
  vals, buf, want,  \* handle_call(): fields read, bytes of the next, its size
  reading,   \* wait() still polls the pipe
  finished,  \* a FINISHED call has been read
  received,  \* events given to the listeners of the runner
  resp,      \* the result of the test as merged so far
  failed     \* a call could not be decoded

writing == <<todo, open, idle, ncalls, raised, begun, cutoff>>
calling == <<vals, buf, want>>
outcome == <<reading, finished, received, resp, failed>>
vars == <<pipe, writing, calling, outcome>>

-----------------------------------------------------------------------------
(* event_t                                                                 *)

NULL == <<0>>
xstr(s) == IF s = NULL THEN <<>> ELSE s

LT_FILENAME == 1
LT_LINENO == 2
LT_FUNCNAME == 4
LT_SPIEGELFUNC == 8
LT_STACK == 16
LT_FUNCTYPE == 32
LT__function == {LT_FUNCNAME, LT_SPIEGELFUNC, LT_STACK}

has(ev, flag) == (ev.locflags \div flag) % 2 = 1
without(flags, fs) == FoldSet(LAMBDA f, x : IF (x \div f) % 2 = 1 THEN x - f ELSE x, flags, fs)
with(flags, fs) == without(flags, fs) + FoldSet(LAMBDA f, x : f + x, 0, fs)

EV_FIXTURE == 5
get_result(which) ==
  CASE which \in {1, 2, 3, 5, 7, 9, 10, 11, 12, 13} -> R_FAIL
    [] which = 6 -> R_PASS
    [] which = 8 -> R_NOTAPPLICABLE
    [] OTHER -> R_UNKNOWN

event_t(w, d) == [which |-> w, description |-> d, locflags |-> 0, filename |-> NULL,
                  lineno |-> 0, function |-> NULL, functype |-> 0]

at_line(ev, f, l) ==
  [ev EXCEPT !.locflags = with(@, {LT_FILENAME, LT_LINENO}), !.filename = f, !.lineno = l]
in_file(ev, f) == [ev EXCEPT !.locflags = with(@, {LT_FILENAME}), !.filename = f]
in_function(ev, fn, kind) ==
  [ev EXCEPT !.locflags = with(without(@, LT__function), {kind}), !.function = fn]
in_functype(ev, ft) == [ev EXCEPT !.locflags = with(@, {LT_FUNCTYPE}), !.functype = ft]

\* A trace is cut to the size of a static buffer and the cut marked with dots.
Dot == 46
c_str(b) == LET z == SelectInSeq(b, LAMBDA c : c = 0) IN IF z = 0 THEN b ELSE SubSeq(b, 1, z - 1)
\* The mark put where it leaves no room for the end of the string.
tracebuf_OneLater(trace) ==
  LET n == TracebufSize
      copied == [i \in 1 .. n |-> IF i <= Len(trace) THEN trace[i] ELSE 0]
  IN  [copied EXCEPT ![n - 3] = Dot, ![n - 2] = Dot, ![n - 1] = Dot]
tracebuf(trace) ==
  LET n == TracebufSize
      copied == [i \in 1 .. n |-> IF i <= Len(trace) THEN trace[i] ELSE 0]
  IN  [copied EXCEPT ![n - 4] = Dot, ![n - 3] = Dot, ![n - 2] = Dot, ![n - 1] = 0]
with_stack(ev, trace) ==
  IF trace = <<>> THEN ev
  ELSE in_function(ev, c_str(tracebuf(trace)), LT_STACK)

\* in_file() and in_function() keep the c_str() of a string passed to them by
\* value, whose text is freed when they return: it is still there, or it is not.
Returned(s) == {s, Junk}

normalise(orig) ==
  LET plain == event_t(orig.which, xstr(orig.description))
      typed == IF has(orig, LT_FUNCTYPE) THEN in_functype(plain, orig.functype) ELSE plain
      placed == IF has(orig, LT_FILENAME) /\ has(orig, LT_LINENO)
                THEN at_line(typed, xstr(orig.filename), orig.lineno)
                ELSE IF has(orig, LT_FILENAME) THEN in_file(typed, xstr(orig.filename)) ELSE typed
      named == IF has(orig, LT_FUNCNAME) THEN in_function(placed, xstr(orig.function), LT_FUNCNAME) ELSE placed
      stacked == [named EXCEPT !.locflags = with(@, {LT_STACK}), !.function = xstr(orig.function)]
  IN  IF has(orig, LT_SPIEGELFUNC)
      THEN {in_function(in_file(typed, f), fn, LT_FUNCNAME) :
              f \in Returned(FnFile), fn \in Returned(orig.function)}
      ELSE {IF has(orig, LT_STACK) THEN stacked ELSE named}

\* What the user is shown: the parts of the text that are there.
get_short_location(ev) ==
  [at |-> IF has(ev, LT_FILENAME) THEN {ev.filename} ELSE {},
   line |-> IF has(ev, LT_FILENAME) /\ has(ev, LT_LINENO) THEN {ev.lineno} ELSE {},
   in |-> IF has(ev, LT_FUNCNAME) THEN {ev.function} ELSE {},
   type |-> IF has(ev, LT_FUNCNAME) /\ has(ev, LT_FUNCTYPE) THEN {ev.functype} ELSE {}]
get_long_location(ev) ==
  IF has(ev, LT_STACK)
  THEN [short |-> IF has(ev, LT_FILENAME) /\ has(ev, LT_LINENO) THEN {get_short_location(ev)} ELSE {},
        stack |-> {ev.function}]
  ELSE [short |-> {get_short_location(ev)}, stack |-> {}]

\* The events user code and the framework raise in a test process, and the
\* stack traces some of them are given.
Raised ==
  LET plain == {event_t(w, d) : w \in Whichs, d \in Texts}
      placed == {at_line(ev, f, 4) : ev \in plain, f \in Texts}
      named == {in_function(ev, f, LT_FUNCNAME) : ev \in placed, f \in Texts}
      fixtures == {in_function(event_t(EV_FIXTURE, d), f, LT_SPIEGELFUNC) :
                     d \in Texts, f \in Texts \ {NULL}}
  IN  [ev : {in_functype(ev, 2) : ev \in placed \cup named}, trace : Traces]
        \cup [ev : {in_functype(ev, 2) : ev \in plain \cup fixtures}, trace : {<<>>}]

-----------------------------------------------------------------------------
(* The test process.                                                       *)

PROXY_EVENT == 1
PROXY_FINISHED == 2

serialise_uint(i) == <<<<i>>>>
serialise_string(s) ==
  LET len == IF s = NULL THEN 0 ELSE Len(s)
  IN  serialise_uint(len) \o (IF len > 0 THEN <<s, <<0>>>> ELSE <<>>)
serialise_event(ev) ==
  serialise_uint(ev.which) \o serialise_string(ev.description) \o serialise_uint(ev.locflags)
    \o serialise_string(ev.filename) \o serialise_uint(ev.lineno)
    \o serialise_string(ev.function) \o serialise_uint(ev.functype)

MayCall(w) == w \in open /\ w \in idle /\ todo[w] = <<>>

raise_event(w, r) ==
  /\ MayCall(w) /\ ncalls[w] < MaxEvents
  /\ \E n \in normalise(with_stack(r.ev, r.trace)) :
       todo' = [todo EXCEPT ![w] = serialise_uint(PROXY_EVENT) \o serialise_event(n)]
  /\ raised' = [raised EXCEPT ![w] = Append(@, r)]
  /\ ncalls' = [ncalls EXCEPT ![w] = @ + 1]
  /\ UNCHANGED <<pipe, open, idle, begun, cutoff, calling, outcome>>

end_job(w) ==
  /\ MayCall(w)
  /\ LET res == Max({R_PASS} \cup {get_result(r.ev.which) : r \in ToSet(raised[w])})
     IN  todo' = [todo EXCEPT ![w] = serialise_uint(PROXY_FINISHED) \o serialise_uint(res)]
  /\ idle' = idle \ {w}
  /\ UNCHANGED <<pipe, open, ncalls, raised, begun, cutoff, calling, outcome>>

\* write(2) to a pipe: in one piece if it is short, else as much as fits.
write(w) ==
  /\ w \in open /\ todo[w] # <<>>
  /\ LET s == Head(todo[w])
         room == PipeSize - Len(pipe)
         n == Min({Len(s), room})
     IN  /\ n > 0 /\ (Len(s) <= PipeBuf => n = Len(s))
         /\ pipe' = pipe \o SubSeq(s, 1, n)
         /\ todo' = [todo EXCEPT ![w] = IF n = Len(s) THEN Tail(@)
                                        ELSE <<SubSeq(s, n + 1, Len(s))>> \o Tail(@)]
  /\ begun' = IF todo'[w] = <<>> THEN begun \ {w} ELSE begun \cup {w}
  /\ UNCHANGED <<open, idle, ncalls, raised, cutoff, calling, outcome>>

exits(w) ==
  /\ w \in open
  /\ Dies \/ (w \notin idle /\ todo[w] = <<>>)
  /\ open' = open \ {w}
  /\ todo' = [todo EXCEPT ![w] = <<>>]
  /\ cutoff' = (cutoff \/ w \in begun)
  /\ UNCHANGED <<pipe, idle, ncalls, raised, begun, calling, outcome>>

\* fork() in test code, into a process that only waits or one that goes on
\* running the framework's code.
forks(w, goes_on) ==
  /\ goes_on \in Forks /\ w \notin open /\ ncalls[w] = 0 /\ Test \in open /\ MayCall(Test)
  /\ open' = open \cup {w}
  /\ idle' = IF goes_on THEN idle \cup {w} ELSE idle
  /\ ncalls' = [ncalls EXCEPT ![w] = 1]
  /\ raised' = [raised EXCEPT ![w] = raised[Test]]
  /\ UNCHANGED <<pipe, todo, begun, cutoff, calling, outcome>>

-----------------------------------------------------------------------------
(* The runner: handle_call(), one action for a read(2).                    *)

Strings == {3, 5, 7}   \* fields of an EVENT call that are strings
stop(r) == /\ reading' = FALSE
           /\ resp' = merge(resp, r)
           /\ vals' = <<>> /\ buf' = <<>> /\ want' = 1

Event(v) == [which |-> v[2], description |-> v[3], locflags |-> v[4], filename |-> v[5],
             lineno |-> v[6], function |-> v[7], functype |-> v[8]]

\* deserialise_event, raise_event
deliver(v) ==
  /\ \E n \in normalise(Event(v)) :
       /\ received' = Append(received, n)
       /\ resp' = merge(resp, get_result(n.which))
  /\ vals' = <<>> /\ buf' = <<>> /\ want' = 1
  /\ UNCHANGED <<reading, finished, failed>>

field(v) ==
  CASE v[1] = PROXY_EVENT /\ Len(v) = 8 -> deliver(v)
    [] v[1] = PROXY_FINISHED /\ Len(v) = 2 ->
         stop(v[2]) /\ finished' = TRUE /\ UNCHANGED <<received, failed>>
    [] v[1] \notin {PROXY_EVENT, PROXY_FINISHED} ->
         stop(R_FAIL) /\ failed' = TRUE /\ UNCHANGED <<received, finished>>
    [] OTHER -> vals' = v /\ buf' = <<>> /\ want' = 1 /\ UNCHANGED outcome

\* deserialise_string: the length, then that many bytes and one more.
string(b) == field(Append(vals, b))
length(n) ==
  IF n = 0 THEN string(<<>>)
  ELSE want' = n + 1 /\ buf' = <<>> /\ UNCHANGED <<vals, outcome>>
\* want is greater than 1 exactly while the bytes of a string are read.
complete(b) ==
  IF want > 1 THEN string(c_str(b))
  ELSE IF Len(vals) + 1 \in Strings /\ vals[1] = PROXY_EVENT THEN length(b[1])
  ELSE field(Append(vals, b[1]))

taken(n) == Min({n, Len(pipe)})

deserialise_bytes ==
  /\ reading /\ pipe # <<>>
  /\ LET n == taken(want - Len(buf))
         b == buf \o SubSeq(pipe, 1, n)
     IN  /\ n > 0
         /\ pipe' = SubSeq(pipe, n + 1, Len(pipe))
         /\ IF Len(b) = want THEN complete(b)
            ELSE buf' = b /\ UNCHANGED <<vals, want, outcome>>
  /\ UNCHANGED writing

InCall == vals # <<>>

\* The test ignored when the pipe ends inside a call.
cut_Passes == R_PASS
cut == R_FAIL

\* read(2) called again when it returned 0.
end_of_file_Spins == reading /\ InCall /\ pipe = <<>> /\ open = {} /\ UNCHANGED vars
end_of_file ==
  /\ reading /\ InCall /\ pipe = <<>> /\ open = {}
  /\ stop(cut)
  /\ failed' = TRUE
  /\ UNCHANGED <<pipe, writing, finished, received>>

hangup ==
  /\ reading /\ ~InCall /\ pipe = <<>> /\ open = {}
  /\ stop(R_UNKNOWN)
  /\ UNCHANGED <<pipe, writing, finished, received, failed>>

ended == ~reading /\ UNCHANGED vars

Init ==
  /\ pipe = <<>>
  /\ todo = [w \in Writers |-> <<>>]
  /\ open = {Test} /\ idle = {Test}
  /\ ncalls = [w \in Writers |-> 0]
  /\ raised = [w \in Writers |-> <<>>]
  /\ begun = {} /\ cutoff = FALSE
  /\ vals = <<>> /\ buf = <<>> /\ want = 1
  /\ reading = TRUE /\ finished = FALSE /\ failed = FALSE
  /\ received = <<>>
  /\ resp = R_UNKNOWN

Next ==
  \/ \E w \in Writers : write(w) \/ end_job(w) \/ exits(w) \/ \E r \in Raised : raise_event(w, r)
  \/ \E w \in Writers \ {Test}, goes_on \in BOOLEAN : forks(w, goes_on)
  \/ deserialise_bytes \/ end_of_file \/ hangup \/ ended

Spec == Init /\ [][Next]_vars

(* The runner runs; a process that has something to write does so while    *)
(* there is room, and the test process comes to its end.                   *)
Fairness ==
  /\ WF_vars(deserialise_bytes) /\ WF_vars(end_of_file) /\ WF_vars(hangup)
  /\ \A w \in Writers : WF_vars(write(w))
  /\ WF_vars(end_job(Test)) /\ WF_vars(exits(Test))
FairSpec == Spec /\ Fairness

-----------------------------------------------------------------------------
(* Properties                                                              *)

TypeOK ==
  /\ Len(pipe) <= PipeSize
  /\ open \subseteq Writers /\ idle \subseteq Writers
  /\ want \in Nat \ {0} /\ Len(buf) < want /\ Len(vals) < 8
  /\ resp \in result_t
  /\ ~reading => ~InCall

\* What the text of a raised event says of where it happened, and the trace
\* it is given if it has one: whole, or its beginning followed by dots.
Meant(ev) ==
  IF has(ev, LT_SPIEGELFUNC)
  THEN {get_long_location(in_function(in_file(ev, f), fn, LT_FUNCNAME)) :
          f \in Returned(FnFile), fn \in Returned(ev.function)}
  ELSE {get_long_location([ev EXCEPT !.filename = xstr(@), !.function = xstr(@)])}
MeantTrace(t) ==
  IF Len(t) + 5 < TracebufSize THEN t
  ELSE SubSeq(t, 1, TracebufSize - 5) \o <<Dot, Dot, Dot>>
MeantStack(ev, t) ==
  [short |-> {get_short_location([ev EXCEPT !.filename = xstr(@), !.locflags = without(@, LT__function)])},
   stack |-> {MeantTrace(t)}]

(* The listeners of the runner are given the events of the test process,   *)
(* in order, with the descriptions, locations and stack traces they were   *)
(* raised with, whatever the process did later: the trace buffer, two      *)
(* calls of normalise() and the wire between them lose nothing but the end *)
(* of a long trace and the names of a failing fixture, which normalise()   *)
(* takes from strings that are gone.                                       *)
EventsArriveAsRaised ==
  /\ Len(received) <= Len(raised[Test])
  /\ \A i \in DOMAIN received :
       LET r == raised[Test][i] IN
         /\ received[i].which = r.ev.which
         /\ received[i].description = xstr(r.ev.description)
         /\ get_long_location(received[i]) \in IF r.trace = <<>> THEN Meant(r.ev) ELSE {MeantStack(r.ev, r.trace)}

(* When the runner stops reading, a test whose process ended inside a call *)
(* has failed, and one whose FINISHED call was read has the worst of the   *)
(* results of all the events it raised.                                    *)
ResultArrives ==
  ~reading =>
    /\ cutoff => resp = R_FAIL
    /\ finished => resp = Max({R_PASS} \cup {get_result(r.ev.which) : r \in ToSet(raised[Test])})

(* handle_call() blocks in read(2) only for a while: once it has begun to  *)
(* read a call it comes to the end of it, unless a process that the test   *)
(* forked has the write end still, for as long as that process lives.      *)
HandlerReturns == InCall ~> (~InCall \/ open \ {Test} # {})

(* "end of test, expect no more calls" (proxy_listener.cxx): when a        *)
(* FINISHED call has been read no process writes another.                  *)
\* The code does not keep this, and no run checks it.
ExpectNoMoreCalls == finished => pipe = <<>> /\ \A w \in Writers : todo[w] = <<>>

(* "Decoding failed somehow so fail the test and tell the user"            *)
(* (proxy_listener.cxx): the user is told by an event.                     *)
\* The code does not keep this, and no run checks it.
UserIsTold == failed => \E i \in DOMAIN received : get_result(received[i].which) = R_FAIL

=============================================================================
