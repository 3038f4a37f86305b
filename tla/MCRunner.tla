------------------------------ MODULE MCRunner ------------------------------
(***************************************************************************)
(* Values for the constants of Runner.                                     *)
(***************************************************************************)
EXTENDS RunnerInv

\* Tests that pass, fail, crash, hang or stop half way through a message.
Ordinary == {"torn"}

\* Everything the surroundings may do to whole messages.
Hostile == Surroundings \ {"torn"}

\* A test that leaves a process behind which keeps its pipe open.
Daemon == {"grandchild"}

\* NP_NOTAPPLICABLE and a failed assertion: the two results that FINISHED with
\* PASS does not already stand for.
NaOrFail == {R_NOTAPPLICABLE, R_FAIL}

OnlyFail == {R_FAIL}

=============================================================================
