----------------------------- MODULE TestScript -----------------------------
(***************************************************************************)
(* What a test process promises on its event pipe, as the parent relies on *)
(* it: any number of EVENT messages that each carry a result, then one     *)
(* FINISHED message whose result is the worst of them and at least PASS,   *)
(* then silence.  The process may stop anywhere.                           *)
(***************************************************************************)
EXTENDS Results

VARIABLES sent,  \* the worst result any message carried
          over   \* FINISHED has been sent

Init == sent = R_UNKNOWN /\ over = FALSE

add_event ==
  /\ ~over
  /\ \E r \in {R_PASS, R_NOTAPPLICABLE, R_FAIL} : sent' = merge(sent, r)
  /\ UNCHANGED over

end_job ==
  /\ ~over /\ over' = TRUE
  /\ sent' = merge(sent, R_PASS)

Next == add_event \/ end_job

Spec == Init /\ [][Next]_<<sent, over>>

=============================================================================
