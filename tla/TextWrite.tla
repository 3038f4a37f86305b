----------------------------- MODULE TextWrite -----------------------------
(***************************************************************************)
(* text_write(): how a breakpoint gets into, or out of, the text of the    *)
(* running program (np/spiegel/platform/mprotect.cxx on Linux,             *)
(* mach_vm_protect.cxx on Darwin).  The pages the bytes are on are made    *)
(* writable, the bytes are stored, the pages made executable again.        *)
(* Between the two calls no code on those pages can run.                   *)
(***************************************************************************)
EXTENDS Integers, FiniteSets

CONSTANTS
  PageSize, NPages,
  MaxLen,           \* the longest trap sequence, scaled
  CodePages,        \* where text_write() itself may have been linked
  StubPage,         \* the page of __np_mprotect(), shared with nothing
  LibPages,         \* where the PLT and libc may be
  Platforms,        \* {"linux", "darwin"}
  RestoreMayFail    \* the second system call may fail too

VARIABLES
  platform, code, lib,  \* where things are
  prot,                 \* page -> its protection
  text,                 \* address -> "old" or "new"
  to, len,              \* the arguments
  i, r, pc,
  runs                  \* the page whose code has just been run

vars == <<platform, code, lib, prot, text, to, len, i, r, pc, runs>>
where == <<platform, code, lib>>
args == <<to, len>>

Pages == 0 .. NPages - 1
Addresses == 0 .. NPages * PageSize - 1
PageOf(a) == a \div PageSize
RX == {"READ", "EXEC"}
RW == {"READ", "WRITE"}

page_round_down(x) == (x \div PageSize) * PageSize
page_round_up(x) == page_round_down(x + PageSize - 1)

\* The pages from start up to end.
Span(a, n) == {p \in Pages : /\ p * PageSize >= page_round_down(a)
                             /\ p * PageSize < page_round_up(a + n)}

Init ==
  /\ platform \in Platforms /\ code \in CodePages /\ lib \in LibPages
  /\ prot = [p \in Pages |-> RX]
  /\ text = [a \in Addresses |-> "old"]
  /\ to = 0 /\ len = 0 /\ i = 0 /\ r = 0
  /\ pc = "idle" /\ runs = code

\* A call for bytes of the program's text, not of the framework's own pages.
call ==
  /\ pc = "idle"
  /\ \E a \in Addresses, n \in 1 .. MaxLen :
       /\ a + n - 1 \in Addresses
       /\ {PageOf(a), PageOf(a + n - 1)} \cap {code, StubPage} = {}
       /\ to' = a /\ len' = n
  /\ pc' = "writable" /\ runs' = code
  /\ UNCHANGED <<where, prot, text, i, r>>

\* The system call goes through the stub; a failure is reported with eprintf().
protect(p, next) ==
  \/ /\ prot' = [q \in Pages |-> IF q \in Span(to, len) THEN p ELSE prot[q]]
     /\ runs' = StubPage /\ pc' = next
     /\ UNCHANGED r
  \/ /\ p = RW \/ RestoreMayFail
     /\ runs' = lib /\ r' = -1 /\ pc' = "return"
     /\ UNCHANGED prot

linux_text_map_writable ==
  /\ pc = "writable" /\ platform = "linux"
  /\ protect(RW, "copy") /\ i' = 0
  /\ UNCHANGED <<where, text, args>>

darwin_text_map_writable ==
  /\ pc = "writable" /\ platform = "darwin"
  /\ protect(RW, "copy") /\ i' = 0
  /\ UNCHANGED <<where, text, args>>

\* The loop ends one byte early.
Copied_Short == i >= len - 1
Copied == i = len

\* One byte; the page must be writable, else the store faults.
copy ==
  /\ pc = "copy" /\ ~Copied
  /\ runs' = code
  /\ IF "WRITE" \in prot[PageOf(to + i)]
     THEN /\ text' = [text EXCEPT ![to + i] = IF @ = "old" THEN "new" ELSE "old"]
          /\ i' = i + 1 /\ UNCHANGED pc
     ELSE pc' = "fault" /\ UNCHANGED <<text, i>>
  /\ UNCHANGED <<where, prot, args, r>>

linux_text_restore ==
  /\ pc = "copy" /\ Copied /\ platform = "linux"
  /\ protect(RX, "return")
  /\ UNCHANGED <<where, text, args, i>>

darwin_text_restore ==
  /\ pc = "copy" /\ Copied /\ platform = "darwin"
  /\ protect(RX, "return")
  /\ UNCHANGED <<where, text, args, i>>

\* The caller goes on with its next intercept.
return ==
  /\ pc = "return" /\ pc' = "idle"
  /\ runs' = code /\ r' = 0 /\ i' = 0 /\ to' = 0 /\ len' = 0
  /\ text' = [a \in Addresses |-> "old"]
  /\ UNCHANGED <<where, prot>>

Next ==
  \/ call \/ linux_text_map_writable \/ darwin_text_map_writable \/ copy
  \/ linux_text_restore \/ darwin_text_restore \/ return

Spec == Init /\ [][Next]_vars

\* Every store finds its byte writable, also when the bytes straddle two pages
\* (text_map_writable rounds both ends).
StoresLand == pc # "fault"

\* No page is writable and executable at once, and when text_write() has
\* succeeded all text is executable and none writable.
TextProtected ==
  /\ \A p \in Pages : ~{"WRITE", "EXEC"} \subseteq prot[p]
  /\ pc \in {"idle", "writable"} /\ ~RestoreMayFail => \A p \in Pages : prot[p] = RX

\* A call that succeeds has written all the bytes and one that fails none: a
\* failure to make the pages writable leaves the text as it was.
AllOrNothing ==
  pc = "return" =>
    \A k \in 0 .. len - 1 : text[to + k] = IF r = 0 THEN "new" ELSE "old"

\* Everything text_write() runs in its critical section is executable: the
\* comments promise the stub's page is its own because "there is no guarantee
\* that calls to libc (or any other shared library) will work" there.
RunsExecutable == "EXEC" \in prot[runs]

\* A write to the text is done whole or not at all and leaves the pages as they
\* were protected.
TextWritten == StoresLand /\ TextProtected /\ AllOrNothing /\ RunsExecutable

-----------------------------------------------------------------------------
(* The invariant these follow from.                                        *)

\* The bytes are within the text and share no page with what runs meanwhile.
ArgsInv ==
  pc \in {"writable", "copy", "return"} =>
    /\ len \in 1 .. MaxLen /\ to \in Addresses /\ to + len - 1 \in Addresses
    /\ {PageOf(to), PageOf(to + len - 1)} \cap {code, StubPage} = {}

\* Exactly the pages of the bytes are writable, while they are copied.
ProtInv ==
  prot = [p \in Pages |-> IF pc = "copy" /\ p \in Span(to, len) THEN RW ELSE RX]

\* The bytes before i are new.
TextInv ==
  /\ text \in [Addresses -> {"old", "new"}]
  /\ pc \in {"idle", "writable"} => \A a \in Addresses : text[a] = "old"
  /\ pc = "copy" => /\ i \in 0 .. len /\ r = 0
                    /\ \A k \in 0 .. len - 1 : text[to + k] = IF k < i THEN "new" ELSE "old"

\* The inductive invariant of text_write(), if the second system call does not
\* fail: where it is, what it has written and whose code it runs.
WriteInv ==
  /\ pc \in {"idle", "writable", "copy", "return"}
  /\ code \in CodePages /\ lib \in LibPages
  /\ pc \in {"idle", "writable"} => r = 0
  /\ runs \in {code, StubPage} \/ (runs = lib /\ pc = "return")
  /\ ArgsInv /\ ProtInv /\ TextInv /\ AllOrNothing

\* A trap is no longer than a page, and the second system call does not fail.
Placed ==
  /\ PageSize \in Nat \ {0} /\ NPages \in Nat
  /\ MaxLen \in Nat /\ MaxLen <= PageSize
  /\ CodePages \subseteq Pages /\ LibPages \subseteq Pages /\ StubPage \in Pages
  /\ ~RestoreMayFail
=============================================================================
