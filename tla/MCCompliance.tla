---------------------------- MODULE MCCompliance ----------------------------
(***************************************************************************)
(* Compliance for one partner, of either kind, and interchangeable         *)
(* requests.  Partners share no state, so one is enough.                   *)
(***************************************************************************)
EXTENDS Compliance, TLC

CONSTANTS r1, r2

RequestSymmetry == Permutations(Requests)
=============================================================================
