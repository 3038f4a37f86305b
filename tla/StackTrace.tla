----------------------------- MODULE StackTrace -----------------------------
(***************************************************************************)
(* Stack traces on x86 (np/spiegel/platform/x86x.cxx): get_stacktrace()    *)
(* follows the chain of saved frame pointers, turns each return address    *)
(* into the address of the CALL before it, and describe_stacktrace()       *)
(* (np/spiegel/spiegel.cxx) names the functions as far as main.            *)
(*                                                                         *)
(* Frame i of "frames" is called from function i, counting from the        *)
(* innermost; the last one is called from main.  What lies beyond is       *)
(* main's own frame, made by code without frame pointers.                  *)
(***************************************************************************)
EXTENDS Integers, Sequences, FiniteSetsExt

CONSTANTS
  Calls,       \* CALL instructions, as bytes
  Before,      \* bytes that come before one
  Gaps,        \* distances between frames
  Outer,       \* what main's frame holds as frame pointer: "zero", "low", "far"
  Near,        \* 16384 in the code
  MaxFrames    \* bound: calls between main and get_stacktrace

VARIABLES
  frames,      \* sequence of [code, call, at, last]
  outer,
  pc, bp, stack, lines

vars == <<frames, outer, pc, bp, stack, lines>>

-----------------------------------------------------------------------------
(* CALL instructions                                                       *)

Byte == 0..255
EXACT(x) == {x}
ANY == Byte
\* The bytes b with (b & m) = v, for a mask m of leading ones.
MASK(m, v) == v..(v + 255 - m)

\* E8 and a displacement, or FF, a ModR/M byte and what goes with it
ff(modrm, n) == <<EXACT(255), modrm>> \o [i \in 1..n |-> ANY]
insn_forms ==
  << <<EXACT(232), ANY, ANY, ANY, ANY>>,
     ff(MASK(224, 0), 0), ff(MASK(248, 32), 1), ff(MASK(248, 40), 4), ff(MASK(240, 48), 0),
     ff(MASK(224, 64), 1), ff(MASK(248, 96), 2), ff(MASK(248, 104), 1), ff(MASK(240, 112), 1),
     ff(MASK(224, 128), 4), ff(MASK(248, 160), 5), ff(MASK(248, 168), 4), ff(MASK(240, 176), 4),
     ff(MASK(224, 192), 0), ff(MASK(248, 224), 0), ff(MASK(248, 232), 0), ff(MASK(240, 240), 0) >>

matches(code, form) ==
  /\ Len(form) <= Len(code)
  /\ \A i \in DOMAIN form : code[Len(code) - Len(form) + i] \in form[i]

call_instruction_length(code) ==
  LET hits == {i \in DOMAIN insn_forms : matches(code, insn_forms[i])}
  IN  IF hits = {} THEN 0 ELSE Len(insn_forms[Min(hits)])

-----------------------------------------------------------------------------
(* The stack                                                               *)

Top == 65536            \* where main's frame lies
Low == Top - 40000      \* memory below the frames that points back at them
N == Len(frames)
FrameAt(i) == IF i > N THEN Top ELSE frames[i].at
Frames == 1..(N + 1)
Mapped == {FrameAt(i) : i \in Frames} \cup {Low}
Saved(a) ==
  IF a = Low THEN FrameAt(1)
  ELSE IF a = Top
  THEN CASE outer = "zero" -> 0 [] outer = "low" -> Low [] OTHER -> Top + Near + 1
  ELSE FrameAt(1 + CHOOSE i \in Frames : FrameAt(i) = a)

call(b, c, g, l) ==
  /\ pc = "calling" /\ N < MaxFrames /\ FrameAt(1) - g > Low
  /\ frames' = <<[code |-> b \o c, call |-> c, at |-> FrameAt(1) - g, last |-> l]>> \o frames
  /\ UNCHANGED <<outer, pc, bp, stack, lines>>

\* with_stack() calls describe_stacktrace(), which calls get_stacktrace().
raise ==
  /\ pc = "calling" /\ N > 0
  /\ pc' = "walking" /\ bp' = FrameAt(1)
  /\ UNCHANGED <<frames, outer, stack, lines>>

-----------------------------------------------------------------------------
(* get_stacktrace() and describe_stacktrace()                              *)

\* An address is a frame's return address less "back".  Frame N + 1 returns
\* to code that is not described.
Calling(i) == [frame |-> i, back |-> IF i > N THEN 0 ELSE call_instruction_length(frames[i].code)]

\* Mutants: a limit that leaves out its own value, and conditions dropped.
too_far_Early(next) == next - bp >= Near
too_far(next) == next - bp > Near
wrong_direction_Never(next) == FALSE
wrong_direction(next) == next < bp

\* The frame at an address; Low is none of them.
FrameOf(a) == IF a = Low THEN N + 2 ELSE CHOOSE i \in Frames : FrameAt(i) = a

\* Bound: no more entries are kept than MaxFrames calls can make.
push_back(i) == IF Len(stack) > MaxFrames THEN stack ELSE Append(stack, Calling(i))

get_stacktrace ==
  LET next == Saved(bp)
  IN  /\ pc = "walking" /\ bp \in Mapped
      /\ stack' = push_back(FrameOf(bp))
      /\ IF next = 0 \/ wrong_direction(next) \/ too_far(next)
         THEN pc' = "describing" /\ UNCHANGED bp
         ELSE bp' = next /\ UNCHANGED pc
      /\ UNCHANGED <<frames, outer, lines>>

\* A return address after the last instruction of its function is in the
\* function that follows.
Unknown == 0
Following == -1
described(a) ==
  IF a.frame > N THEN Unknown
  ELSE IF a.back = 0 /\ frames[a.frame].last THEN Following ELSE a.frame

describe_stacktrace ==
  LET names == [k \in DOMAIN stack |-> described(stack[k])]
      main == {k \in DOMAIN names : names[k] = N}
  IN  /\ pc = "describing"
      /\ lines' = IF main = {} THEN names ELSE SubSeq(names, 1, Min(main))
      /\ pc' = "done"
      /\ UNCHANGED <<frames, outer, bp, stack>>

done == pc = "done" /\ UNCHANGED vars

Init ==
  /\ frames = <<>> /\ outer \in Outer
  /\ pc = "calling" /\ bp = 0 /\ stack = <<>> /\ lines = <<>>

Next ==
  \/ \E b \in Before, c \in Calls, g \in Gaps, l \in BOOLEAN : call(b, c, g, l)
  \/ raise \/ get_stacktrace \/ describe_stacktrace \/ done

Spec == Init /\ [][Next]_vars

-----------------------------------------------------------------------------
(* Properties                                                              *)

(* The trace that a failure is reported with names the functions of the    *)
(* call chain from the innermost to main, each once, and nothing beyond.   *)
NamesCallChain == pc = "done" => lines = [k \in 1..N |-> k]

(* "the vector should contain calling addresses, not return addresses"     *)
(* (porting.rst): each entry of a caller is the first byte of its CALL.    *)
CallingAddresses ==
  \A k \in DOMAIN stack : stack[k].frame <= N => stack[k].back = Len(frames[stack[k].frame].call)

(* get_stacktrace() reads no frame where main's caller left something that *)
(* is not a frame pointer far above the stack.                             *)
WalksTheStack == pc = "walking" => bp \in Mapped

(* A stack trace is the chain of calls, read from the stack and nothing    *)
(* else.                                                                   *)
TraceIsCallChain == NamesCallChain /\ CallingAddresses /\ WalksTheStack

(* The inductive invariant: the frames lie one above the other, no further *)
(* apart than the walk looks, and the walk has come as many frames far as  *)
(* it has entries.                                                         *)
FrameSet == [code : Seq(Byte), call : Seq(Byte) \ {<<>>}, at : Int, last : BOOLEAN]
Stacked ==
  /\ frames \in Seq(FrameSet) /\ N <= MaxFrames
  /\ \A i \in 1..N : /\ call_instruction_length(frames[i].code) = Len(frames[i].call)
                     /\ FrameAt(i) > Low /\ FrameAt(i + 1) - FrameAt(i) \in 1..Near
  /\ \A i, j \in Frames : i < j => FrameAt(i) < FrameAt(j)
Walked(n) == Len(stack) = n /\ \A k \in 1..n : stack[k] = Calling(k)
TraceInv ==
  /\ Stacked
  /\ stack \in Seq([frame : Nat, back : Nat])
  /\ pc \in {"calling", "walking", "describing", "done"}
  /\ pc = "calling" => Walked(0)
  /\ pc = "walking" => N > 0 /\ \E n \in 0..N : Walked(n) /\ bp = FrameAt(n + 1)
  /\ pc \in {"describing", "done"} => N > 0 /\ Walked(N + 1)
  /\ pc = "done" => lines = [k \in 1..N |-> k]

(* A CALL is recognised whatever comes before it, and a frame is no larger *)
(* than the walk takes for one.                                            *)
Recognised ==
  /\ Calls \subseteq Seq(Byte) \ {<<>>} /\ Before \subseteq Seq(Byte)
  /\ \A b \in Before, c \in Calls : call_instruction_length(b \o c) = Len(c)
  /\ Near \in Nat /\ Gaps \subseteq 1..Near /\ MaxFrames \in Nat

=============================================================================
