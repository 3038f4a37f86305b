------------------------------ MODULE MCMocks -------------------------------
(***************************************************************************)
(* The parts with which the framework puts itself between a test and the   *)
(* code it calls, on small instances: the tables of mocks and intercepts,  *)
(* the trampoline that a trapped call goes through, the writing of traps   *)
(* into the program's text, the walk of the stack, and the mocked          *)
(* syslog(). A behaviour is about one part, chosen at the start; the       *)
(* others stay Idle.                                                       *)
(***************************************************************************)
EXTENDS Integers, Sequences

CONSTANT BadRegexp

VARIABLES
  part,
  arch, text, installed_, dynamic_intercepts, tramp_intstate, handler,
  phase, frames, alive, unmocked,   \* Intercept
  call_pc, call_arch, type, nargs, C, wish, changed, rip, rsp, rbp,
  rax, edx, regs, call_stack, tramp_uc, retval,   \* Trampoline
  platform, code, lib, prot, bytes, to, len, i, r, write_pc, runs,   \* TextWrite
  chain, outer, pc, bp, stack, lines,   \* StackTrace
  slmatches, thrown, counted, logged   \* Syslog

interceptvars == <<arch, text, installed_, dynamic_intercepts, tramp_intstate, handler,
  phase, frames, alive, unmocked>>
trampvars == <<call_pc, call_arch, type, nargs, C, wish, changed, rip, rsp, rbp, rax,
  edx, regs, call_stack, tramp_uc, retval>>
writevars == <<platform, code, lib, prot, bytes, to, len, i, r, write_pc, runs>>
tracevars == <<chain, outer, pc, bp, stack, lines>>
syslogvars == <<slmatches, thrown, counted, logged>>
vars == <<part, interceptvars, trampvars, writevars, tracevars, syslogvars>>

-----------------------------------------------------------------------------
(* The instances.                                                          *)

\* Two functions, one that begins with a PUSH and one that does not, which a
\* PLT stub leads to.
Mock(fn, m) == [addr_ |-> fn, id |-> m]
Insns == [fn \in {"p", "o"} |-> IF fn = "p" THEN "push" ELSE "other"]
Ord == INSTANCE Intercept WITH Archs <- {"linux_x86_64", "linux_x86", "darwin_x86_64"},
         Valgrind <- FALSE, Funcs <- {"p", "o"}, Stubs <- {"stub"},
         PltTarget <- [s \in {"stub"} |-> "o"], FirstInsn <- Insns, Unwritable <- {},
         NodeMocks <- <<Mock("o", "file_mock"), Mock("p", "root_mock")>>,
         Dynamic <- [d \in {"d1", "d2"} |-> "redirect"],
         MaxDepth <- 3, NestedUnmock <- FALSE, StraySignals <- FALSE

\* A page that cannot be written, intercepts that skip and throw, np_unmock()
\* inside a mocked function and trap signals sent by other processes.
Does == [d \in {"d1", "d2", "d3"} |->
           CASE d = "d1" -> "skip" [] d = "d2" -> "throw" [] d = "d3" -> "redirect"]
Hos == INSTANCE Intercept WITH Archs <- {"linux_x86_64"}, Valgrind <- TRUE,
         Funcs <- {"p", "o"}, Stubs <- {"stub"},
         PltTarget <- [s \in {"stub"} |-> "o"], FirstInsn <- Insns, Unwritable <- {"p"},
         NodeMocks <- <<Mock("o", "file_mock")>>, Dynamic <- Does,
         MaxDepth <- 3, NestedUnmock <- TRUE, StraySignals <- TRUE

\* Few arguments, the register boundary, and both sides of the room there is.
Tra == INSTANCE Trampoline WITH Archs <- {"linux_x86_64", "linux_x86", "darwin_x86_64"},
         CallerSps <- {4096, 4100, 4104, 4120}, ArgCounts <- {0, 1, 5, 6, 7, 8, 32, 33, 34, 35},
         AddressSpace <- 65536, pc <- call_pc, arch <- call_arch, stack <- call_stack

\* Four pages: the program's, one with the PLT, text_write()'s, the stub's.
Wri == INSTANCE TextWrite WITH PageSize <- 3, NPages <- 4, MaxLen <- 2, CodePages <- {2},
         StubPage <- 3, LibPages <- {0, 1}, Platforms <- {"linux", "darwin"},
         RestoreMayFail <- FALSE, text <- bytes, pc <- write_pc

\* call f; call *%rax; call *8(%rdi); call *0x1000(%rax)
UsualCalls == {<<232, 0, 0, 255, 16>>, <<232, 0, 255, 255, 255>>, <<255, 208>>, <<255, 87, 8>>,
               <<255, 144, 0, 16, 0, 0>>}
Sta == INSTANCE StackTrace WITH Calls <- UsualCalls,
         Before <- {[b \in 1 .. 7 |-> 144]}, Gaps <- {16, 16384},
         Outer <- {"zero", "low", "far"}, Near <- 16384, MaxFrames <- 2, frames <- chain

Sys == INSTANCE Syslog WITH Messages <- {"m1", "m2"}, Tags <- {0, 1},
         MaxMatches <- 2, MaxLogs <- 3

-----------------------------------------------------------------------------
Idle == "idle"
Idle_interceptvars ==
  /\ arch = Idle /\ text = Idle /\ installed_ = Idle /\ dynamic_intercepts = Idle
  /\ tramp_intstate = Idle /\ handler = Idle /\ phase = Idle /\ frames = Idle
  /\ alive = Idle /\ unmocked = Idle
Idle_trampvars ==
  /\ call_pc = Idle /\ call_arch = Idle /\ type = Idle /\ nargs = Idle /\ C = Idle
  /\ wish = Idle /\ changed = Idle /\ rip = Idle /\ rsp = Idle /\ rbp = Idle
  /\ rax = Idle /\ edx = Idle /\ regs = Idle /\ call_stack = Idle /\ tramp_uc = Idle
  /\ retval = Idle
Idle_writevars ==
  /\ platform = Idle /\ code = Idle /\ lib = Idle /\ prot = Idle /\ bytes = Idle
  /\ to = Idle /\ len = Idle /\ i = Idle /\ r = Idle /\ write_pc = Idle /\ runs = Idle
Idle_tracevars ==
  /\ chain = Idle /\ outer = Idle /\ pc = Idle /\ bp = Idle /\ stack = Idle
  /\ lines = Idle
Idle_syslogvars ==
  /\ slmatches = Idle /\ thrown = Idle /\ counted = Idle /\ logged = Idle

Init ==
  /\ part \in {"mocks", "hostile", "calls", "textwrite", "trace", "matching"}
  /\ CASE part = "mocks" -> Ord!Init
       [] part = "hostile" -> Hos!Init
       [] OTHER -> Idle_interceptvars
  /\ IF part = "calls" THEN Tra!Init ELSE Idle_trampvars
  /\ IF part = "textwrite" THEN Wri!Init ELSE Idle_writevars
  /\ IF part = "trace" THEN Sta!Init ELSE Idle_tracevars
  /\ IF part = "matching" THEN Sys!Init ELSE Idle_syslogvars

Next ==
  \/ /\ \/ part = "mocks" /\ Ord!Next
        \/ part = "hostile" /\ Hos!Next
     /\ UNCHANGED <<part, trampvars, writevars, tracevars, syslogvars>>
  \/ /\ part = "calls" /\ Tra!Next
     /\ UNCHANGED <<part, interceptvars, writevars, tracevars, syslogvars>>
  \/ /\ part = "textwrite" /\ Wri!Next
     /\ UNCHANGED <<part, interceptvars, trampvars, tracevars, syslogvars>>
  \/ /\ part = "trace" /\ Sta!Next
     /\ UNCHANGED <<part, interceptvars, trampvars, writevars, syslogvars>>
  \/ /\ part = "matching" /\ Sys!Next
     /\ UNCHANGED <<part, interceptvars, trampvars, writevars, tracevars>>

Spec == Init /\ [][Next]_vars
\* The walk of a stack is a loop of one thread.
          /\ WF_vars(/\ part = "trace" /\ Sta!get_stacktrace
                     /\ UNCHANGED <<part, interceptvars, trampvars, writevars, syslogvars>>)

-----------------------------------------------------------------------------
(* Properties: those of the parts, which explain them.                     *)

\* A call of a mocked function goes to its mock, however calls nest (Intercept).
MockTakesEffect == part = "mocks" => Ord!MockTakesEffect

\* The program's text and the table of intercepts stay consistent while mocks come and
\* go (Intercept).
TextFollowsTable ==
  /\ part = "mocks" => Ord!TextFollowsTable /\ Ord!Constants /\ Ord!Ordinary /\ Ord!InterceptInv
  /\ part = "hostile" => Hos!TableKept /\ Hos!Constants /\ Hos!InterceptInv

\* A call through the trampoline is to both sides the call that the compiler made
\* (Trampoline).
TrampolineUnseen == part = "calls" => Tra!TrampolineUnseen /\ Tra!Machine /\ Tra!TrampolineInv

\* A write to the text is done whole or not at all and leaves the pages as they were
\* protected (TextWrite).
TextWritten == part = "textwrite" => Wri!TextWritten /\ Wri!Placed /\ Wri!WriteInv

\* A stack trace is the chain of calls, read from the stack and nothing else
\* (StackTrace).
TraceIsCallChain == part = "trace" => Sta!TraceIsCallChain /\ Sta!Recognised /\ Sta!TraceInv

\* A syslog() message passes only where the matches of the test let it, and is counted
\* where they say (Syslog).
MatchesDecide == part = "matching" => Sys!MatchesDecide /\ Sys!SyslogInv

\* Whatever main's caller left in the frame pointer, the walk of the stack ends.
WalkEnds == part = "trace" /\ pc = "walking" ~> pc = "describing"
=============================================================================
