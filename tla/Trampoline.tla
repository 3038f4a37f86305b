----------------------------- MODULE Trampoline -----------------------------
(***************************************************************************)
(* One call of an intercepted function, word by word, on each of the three *)
(* platforms: the fake stack frame intercept_tramp() builds, what the      *)
(* function (or the one the call is redirected to) finds there, and the    *)
(* way back to the caller (np/spiegel/platform/linux_x86_64.cxx,           *)
(* linux_x86.cxx and darwin_x86_64.cxx). Intercept models the table, the   *)
(* breakpoints and nested calls.                                           *)
(*                                                                         *)
(* Addresses are bytes; a word of memory holds a symbolic value. The       *)
(* trampoline is compiled with a frame pointer, as the build does.         *)
(***************************************************************************)
EXTENDS Integers, FiniteSets

CONSTANTS
  Archs,          \* the platforms checked, members of Platforms
  CallerSps,      \* where the caller's call may have put the return address
  ArgCounts,      \* bound: numbers of arguments of the function
  AddressSpace    \* bound: addresses are computed modulo this, not 2^64

Platforms == {"linux_x86_64", "linux_x86", "darwin_x86_64"}

VARIABLES
  pc, arch, type, nargs,
  C,              \* where the return address of the call is
  wish,           \* what before() asks for
  changed,        \* the argument before() changes, or none
  rip, rsp, rbp, rax, edx, regs, \* registers; regs holds the register arguments
  stack,          \* frame.stack[]
  tramp_uc,
  retval          \* what the caller should get

vars == <<pc, arch, type, nargs, C, wish, changed, rip, rsp, rbp, rax, edx, regs, stack,
          tramp_uc, retval>>
call == <<arch, type, nargs, C, wish, changed>>

W == IF arch = "linux_x86" THEN 4 ELSE 8
Slots == IF arch = "linux_x86" THEN 36 ELSE 28
NRegs == IF arch = "linux_x86" THEN 0 ELSE 6
FrameAlign == IF arch = "linux_x86" THEN 4 ELSE 16

\* Words of memory and registers are tagged, so that any two can be compared.
Sym(s) == <<s, 0>>
Addr(a) == <<"addr", a>>
Arg(k) == <<"arg", k>>
New(k) == <<"new", k>>
Junk == Sym("junk")
NoArg == -1

\* Where intercept_tramp's struct frame is: below the saved %rbp, aligned.
\* The struct is larger than its stack[] by a few words.
FrameBase ==
  LET top == C - W - (Slots + 16) * W IN top - (top % FrameAlign)

InFrame(a) == a >= FrameBase /\ a < FrameBase + Slots * W

\* The word at address a, below or in the frame of the caller.
Word(a) ==
  CASE InFrame(a) /\ (a - FrameBase) % W = 0 -> stack[(a - FrameBase) \div W]
    [] a = C -> Sym("caller")
    [] a = C - W -> Sym("caller_bp")
    [] a > C /\ (a - C) % W = 0 /\ (a - C) \div W <= nargs - NRegs ->
         Arg(NRegs + (a - C) \div W - 1)
    [] OTHER -> Junk

Init ==
  /\ pc = "called"
  /\ arch \in Archs
  /\ type \in {"PUSHBP", "OTHER"}
  /\ nargs \in ArgCounts
  /\ C \in {c \in CallerSps : IF arch = "linux_x86" THEN c % 4 = 0 ELSE c % 16 = 8}
  /\ wish \in {"call", "skip", "redirect"}
  /\ changed \in (0 .. nargs - 1) \cup {NoArg}
  /\ rip = Sym("f") /\ rsp = C /\ rbp = Sym("caller_bp") /\ rax = Junk /\ edx = Junk
  /\ regs = [k \in 0 .. 5 |-> IF k < nargs /\ k < NRegs THEN Arg(k) ELSE Junk]
  /\ stack = [s \in 0 .. Slots - 1 |-> Junk]
  /\ tramp_uc = << >>
  /\ retval = Junk

\* The context of the call is stashed and execution resumes in the trampoline,
\* which pushes %rbp.
handle_signal ==
  /\ pc = "called"
  /\ pc' = "tramp"
  /\ tramp_uc' = [rip |-> rip, rsp |-> rsp, rbp |-> rbp, regs |-> regs]
  /\ rip' = Sym("intercept_tramp")
  /\ rsp' = C - W
  /\ rbp' = Addr(C - W)
  /\ UNCHANGED <<call, rax, edx, regs, stack, retval>>

-----------------------------------------------------------------------------
(* The fake frames.                                                        *)

\* The words copied from the caller's frame: parent_size is computed from the
\* trampoline's own %rbp, which is below %rsp, so it wraps round.
CopyWords(base) ==
  LET parent_size == (rbp[2] - (tramp_uc.rsp + W)) % AddressSpace
      room == (Slots - base) * W
  IN (IF parent_size < room THEN parent_size ELSE room) \div W

\* A mutant: the copy starts at the return address.
Copied_OffByOne(base, s) == Word(tramp_uc.rsp + W * (s - base))

Copied(base, s) == Word(tramp_uc.rsp + W + W * (s - base))

Filled(base, head) ==
  [s \in 0 .. Slots - 1 |->
     IF s < base THEN head[s]
     ELSE IF s < base + CopyWords(base) THEN Copied(base, s) ELSE stack[s]]

Entry == IF type = "PUSHBP" THEN Sym("f+1") ELSE Sym("f")

linux_x86_64_frame ==
  [stack |-> Filled(2, [s \in 0 .. 1 |-> IF s = 1 THEN Sym("after")
                                         ELSE IF type = "PUSHBP" THEN rbp ELSE Junk]),
   rsp |-> FrameBase + (IF type = "PUSHBP" THEN 0 ELSE 8),
   rip |-> Entry, args |-> 2]

linux_x86_frame ==
  LET nstack == IF type = "PUSHBP" THEN 2 ELSE 1
  IN [stack |-> Filled(nstack, [s \in 0 .. nstack - 1 |->
                                  IF s = nstack - 1 THEN Sym("after") ELSE rbp]),
      rsp |-> FrameBase, rip |-> Entry, args |-> nstack]

darwin_x86_64_frame ==
  [stack |-> Filled(2, [s \in 0 .. 1 |->
                          IF s = 1 THEN IF type = "PUSHBP" THEN Sym("tramp1") ELSE Sym("tramp0")
                          ELSE IF type = "PUSHBP" THEN rbp ELSE Junk]),
   rsp |-> FrameBase + (IF type = "PUSHBP" THEN 0 ELSE 8),
   rip |-> Entry, args |-> 2]

fake_frame ==
  CASE arch = "linux_x86_64" -> linux_x86_64_frame
    [] arch = "linux_x86" -> linux_x86_frame
    [] arch = "darwin_x86_64" -> darwin_x86_64_frame

\* set_arg() on the call_t of each platform.
x86_64_argp(i) == IF i < 6 THEN <<"reg", i>> ELSE <<"stack", 2 + i - 6>>
x86_argp(base, i) == <<"stack", base + i>>
argp(base, i) == IF arch = "linux_x86" THEN x86_argp(base, i) ELSE x86_64_argp(i)

Set(kind, f, p, k) == IF p[1] = kind /\ p[2] \in DOMAIN f THEN [f EXCEPT ![p[2]] = New(k)] ELSE f

intercept_tramp ==
  /\ pc = "tramp"
  /\ pc' = "before"
  /\ stack' = fake_frame.stack
  /\ tramp_uc' = [tramp_uc EXCEPT !.rsp = fake_frame.rsp, !.rip = fake_frame.rip, !.rbp = rbp]
  /\ UNCHANGED <<call, rip, rsp, rbp, rax, edx, regs, retval>>

\* leave; ret: the trampoline's way back to the caller.
Epilogue(value) ==
  /\ rsp' = rbp[2] + 2 * W
  /\ rip' = Word(rbp[2] + W)
  /\ rbp' = Word(rbp[2])
  /\ rax' = value

Redirected(uc) ==
  [uc EXCEPT !.rip = Sym("mock"), !.rsp = IF type = "PUSHBP" THEN @ + W ELSE @]

before_skips ==
  /\ pc = "before"
  /\ wish = "skip"
  /\ pc' = "returned"
  /\ retval' = Sym("skip_rv")
  /\ Epilogue(Sym("skip_rv")) /\ edx' = Junk
  /\ UNCHANGED <<call, regs, stack, tramp_uc>>

\* dispatch_before() and setcontext().
before ==
  LET base == fake_frame.args
      uc == IF wish = "redirect" THEN Redirected(tramp_uc) ELSE tramp_uc
      p == IF changed = NoArg THEN <<"none", 0>> ELSE argp(base, changed) IN
  /\ pc = "before"
  /\ wish # "skip"
  /\ pc' = "entered"
  /\ stack' = Set("stack", stack, p, changed)
  /\ regs' = Set("reg", uc.regs, p, changed)
  /\ rip' = uc.rip /\ rsp' = uc.rsp /\ rbp' = uc.rbp
  /\ tramp_uc' = uc
  /\ UNCHANGED <<call, rax, edx, retval>>

-----------------------------------------------------------------------------
(* The function and the way back.                                          *)

\* Where the function that was entered expects its return address.
EntrySp == IF rip = Sym("f+1") THEN rsp + W ELSE rsp

function_returns ==
  /\ pc = "entered"
  /\ pc' = "after"
  /\ rip' = Word(EntrySp)
  /\ rsp' = EntrySp + W
  /\ rbp' = IF rip = Sym("f+1") THEN Word(rsp) ELSE rbp
  /\ \E v \in {Sym("rv"), Sym("0")} : rax' = v /\ retval' = v
  /\ edx' = Sym("rv_high")
  /\ UNCHANGED <<call, regs, stack, tramp_uc>>

\* The code at the after label; after() may change what is returned. On x86 the
\* high half of a 64-bit result is kept past the call of after().
linux_x86_64_after ==
  /\ pc = "after" /\ arch = "linux_x86_64"
  /\ rip = Sym("after")
  /\ pc' = "returned"
  /\ \E v \in {rax, Sym("after_rv")} : retval' = v /\ Epilogue(v)
  /\ edx' = Junk
  /\ UNCHANGED <<call, regs, stack, tramp_uc>>

returned_edx_ == edx
linux_x86_after ==
  /\ pc = "after" /\ arch = "linux_x86"
  /\ rip = Sym("after")
  /\ pc' = "returned"
  /\ \E v \in {rax, Sym("after_rv")} : retval' = v /\ Epilogue(v)
  /\ edx' = returned_edx_
  /\ UNCHANGED <<call, regs, stack, tramp_uc>>

\* %rsi in the assembly of __np_intercept_tramp0 and tramp1.
frame_arg == rsp - 16

\* %rsp when __np_intercept_tramp0 or tramp1 calls __np_intercept_after.
CallSp == rsp - (IF rip = Sym("tramp1") THEN 32 ELSE 24)

frame_found == frame_arg % 16 = 0 /\ frame_arg = FrameBase

__np_intercept_after ==
  /\ pc = "after"
  /\ rip \in {Sym("tramp0"), Sym("tramp1")}
  /\ pc' = "returned"
  /\ IF frame_found
     THEN \E v \in {rax, Sym("after_rv")} : retval' = v /\ Epilogue(v)
     ELSE retval' = retval /\ Epilogue(Sym("~0UL"))
  /\ edx' = Junk
  /\ UNCHANGED <<call, regs, stack, tramp_uc>>

Next ==
  \/ handle_signal
  \/ intercept_tramp
  \/ before_skips
  \/ before
  \/ function_returns
  \/ linux_x86_64_after
  \/ linux_x86_after
  \/ __np_intercept_after

Spec == Init /\ [][Next]_vars

-----------------------------------------------------------------------------
(* Properties.                                                             *)

\* The argument as the caller passed it and before() changed it.
Meant(k) == IF k = changed THEN New(k) ELSE Arg(k)

Seen(k) == IF k < NRegs THEN regs[k] ELSE Word(EntrySp + W + W * (k - NRegs))

\* Stack arguments there is room for in frame.stack[].
Room == Slots - 2

\* The function that is entered, original or replacement, finds what its
\* caller's call instruction would have left: a return address into the
\* trampoline, the trampoline's %rbp if it has already been pushed, and every
\* argument there is room for, as before() left it (intercept_tramp).
CalleeSeesCall ==
  pc = "entered" =>
    /\ Word(EntrySp) \in {Sym("after"), Sym("tramp0"), Sym("tramp1")}
    /\ rip = Sym("f+1") => Word(rsp) = Addr(C - W)
    /\ \A k \in 0 .. nargs - 1 : k - NRegs < Room => Seen(k) = Meant(k)

\* x86_64: the stack is aligned as the ABI asks when the function is entered
\* (the alignment of struct frame and its unused slot).
CalleeAligned == pc = "entered" /\ arch # "linux_x86" => (EntrySp + W) % 16 = 0

\* The caller gets control back as from an ordinary return: its stack and frame
\* pointers, its return address, and the value that skip(), the function or
\* after() chose.
ReturnsToCaller ==
  pc = "returned" => /\ rip = Sym("caller")
                     /\ rsp = C + W
                     /\ rbp = Sym("caller_bp")
                     /\ rax = retval

\* x86: a function that returns 64 bits returns all of them, also when after()
\* has run in between (returned_edx_).
HighHalfReturned ==
  pc = "returned" /\ arch = "linux_x86" /\ wish # "skip" => edx = Sym("rv_high")

\* Nothing of the trampoline is to be seen from the function or its caller.
TrampolineUnseen == CalleeSeesCall /\ CalleeAligned /\ ReturnsToCaller /\ HighHalfReturned

\* The comment on struct frame and that on __np_intercept_tramp0 promise the
\* "ABI-mandated 16B stack alignment" for the calls made from the trampolines.
\* The code does not keep this, and no run checks it.
AfterCallAligned == pc = "after" /\ rip \in {Sym("tramp0"), Sym("tramp1")} => CallSp % 16 = 0

-----------------------------------------------------------------------------
(* The invariant these follow from.                                        *)

\* The call's return address is in slot Base - 1 of the fake frame and leads
\* into the trampoline.
Base == IF arch = "linux_x86" /\ type # "PUSHBP" THEN 1 ELSE 2
Ret ==
  IF arch # "darwin_x86_64" THEN Sym("after")
  ELSE IF type = "PUSHBP" THEN Sym("tramp1") ELSE Sym("tramp0")

Passed == [k \in 0 .. 5 |-> IF k < nargs /\ k < NRegs THEN Arg(k) ELSE Junk]
FrameHead == stack[Base - 1] = Ret /\ (type = "PUSHBP" => stack[0] = Addr(C - W))
\* The slots that hold stack arguments.
ArgSlots == {s \in Base .. Slots - 1 : s - Base < nargs - NRegs}

CallInv ==
  /\ arch \in Platforms /\ type \in {"PUSHBP", "OTHER"} /\ nargs \in Nat
  /\ C \in Int /\ changed \in (0 .. nargs - 1) \cup {NoArg}
  /\ wish \in {"call", "skip", "redirect"}
  /\ arch = "linux_x86" \/ C % 16 = 8
  /\ DOMAIN stack = 0 .. Slots - 1

\* What holds at each step of the call.
CalledInv == rip = Sym("f") /\ rsp = C /\ rbp = Sym("caller_bp") /\ regs = Passed
TrampInv ==
  /\ rbp = Addr(C - W)
  /\ tramp_uc = [rip |-> Sym("f"), rsp |-> C, rbp |-> Sym("caller_bp"), regs |-> Passed]
BeforeInv ==
  /\ rbp = Addr(C - W) /\ FrameHead /\ \A s \in ArgSlots : stack[s] = Arg(NRegs + s - Base)
  /\ tramp_uc = [rip |-> Entry, rbp |-> rbp, regs |-> Passed,
                 rsp |-> FrameBase + W * (Base - 1) - (IF type = "PUSHBP" THEN W ELSE 0)]
EnteredInv ==
  /\ rbp = Addr(C - W) /\ wish # "skip"
  /\ FrameHead /\ \A s \in ArgSlots : stack[s] = Meant(NRegs + s - Base)
  /\ EntrySp = FrameBase + W * (Base - 1)
  /\ rip = Sym("f+1") => type = "PUSHBP" /\ rsp = FrameBase
  /\ \A k \in 0 .. nargs - 1 : k < NRegs => regs[k] = Meant(k)
AfterInv ==
  /\ rbp = Addr(C - W) /\ rip = Ret /\ rsp = FrameBase + W * Base
  /\ rax = retval /\ edx = Sym("rv_high")

TrampolineInv ==
  /\ CallInv
  /\ pc \in {"called", "tramp", "before", "entered", "after", "returned"}
  /\ pc = "called" => CalledInv
  /\ pc = "tramp" => TrampInv
  /\ pc = "before" => BeforeInv
  /\ pc = "entered" => EnteredInv
  /\ pc = "after" => AfterInv
  /\ ReturnsToCaller /\ HighHalfReturned

\* The machine's addresses are more than the fake frame holds.
Machine ==
  /\ Archs \subseteq Platforms /\ CallerSps \subseteq Int /\ ArgCounts \subseteq Nat
  /\ AddressSpace \in Nat /\ AddressSpace >= 1024
=============================================================================
