------------------------------ MODULE EdgeMemory ------------------------------
(***************************************************************************)
(* What scripts/graph.py promises its callers: an execution memory with    *)
(* one log of edges per session file.  Recording an edge replaces the edge *)
(* with the same (src, tgt, type, session) key and keeps every other edge; *)
(* a writer that dies, or cannot read what it is to rewrite, may cost the  *)
(* log it was writing, and no other.                                       *)
(***************************************************************************)
EXTENDS Naturals

CONSTANTS
  File,     \* the session files of the store
  Edge,     \* the edges the commands may build
  Key(_),   \* _dedup_key
  Lossy     \* TRUE when a writer may die while it writes, or fail to read

VARIABLE log    \* file |-> the edges recorded in it

Merge(old, e) == {x \in old : Key(x) # Key(e)} \cup {e}

EMInit == log = [f \in File |-> {}]

Record(f) == \E e \in log'[f] : e \in Edge /\ log' = [log EXCEPT ![f] = Merge(@, e)]

Lose(f) == Lossy /\ log' = [log EXCEPT ![f] = {}]

EMNext == \E f \in File : Record(f) \/ Lose(f)

EMSpec == EMInit /\ [][EMNext]_log
===============================================================================
