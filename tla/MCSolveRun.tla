------------------------------ MODULE MCSolveRun ------------------------------
(* Instances of SolveRun for TLC: a and b are independent, c is blocked by a. *)
EXTENDS SolveRun

CONSTANTS a, b, c

Wide == [u \in {a, b, c} |-> IF u = c THEN {a} ELSE {}]
Pair == [u \in {a, b} |-> {}]
Chain == [u \in {a, b} |-> IF u = b THEN {a} ELSE {}]
===============================================================================
