----------------------------- MODULE MCClaimLock ------------------------------
(* Instances of ClaimLock for TLC: solve runs s1, s2 and manual reviews v1, v2. *)
EXTENDS ClaimLock, TLC

CONSTANTS s1, s2, s3, v1, v2

SolveSymmetry == Permutations(Solve)
===============================================================================
