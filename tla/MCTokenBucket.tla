---------------------------- MODULE MCTokenBucket ----------------------------
(***************************************************************************)
(* Instances of the token bucket for TLC: small costs and windows, so that *)
(* the bucket empties, refills, overflows and expires within MaxTime.      *)
(***************************************************************************)
EXTENDS TokenBucket, TLC

CONSTANTS r1, r2

TwoRequests == {r1, r2}

Symmetry == Permutations(TwoRequests)
===============================================================================
