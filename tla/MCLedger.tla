------------------------------- MODULE MCLedger -------------------------------
(* Instances of Ledger for TLC: five runs over two problems. *)
EXTENDS Ledger

CONSTANTS r1, r2, r3, r4, r5, pa, pb

MCProblemOf == [r \in {r1, r2, r3, r4, r5} |-> IF r \in {r1, r2, r3} THEN pa ELSE pb]
===============================================================================
