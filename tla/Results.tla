------------------------------ MODULE Results ------------------------------
(***************************************************************************)
(* The result codes of np/types.hxx.  Their ordinals matter: the results   *)
(* of one test are combined with a maximum, so a later PASS never hides an *)
(* earlier FAIL.                                                           *)
(***************************************************************************)
EXTENDS Naturals

R_UNKNOWN == 0
R_PASS == 1
R_NOTAPPLICABLE == 2
R_FAIL == 3

result_t == R_UNKNOWN .. R_FAIL

merge(r1, r2) == IF r1 > r2 THEN r1 ELSE r2

=============================================================================
