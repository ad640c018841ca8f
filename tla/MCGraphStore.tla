----------------------------- MODULE MCGraphStore -----------------------------
(***************************************************************************)
(* Instances of GraphStore for TLC.  Sessions "feat/a" and "feat__a" are    *)
(* sanitised to one file; "b" has a file of its own.                       *)
(***************************************************************************)
EXTENDS GraphReads, TLC

CONSTANTS slash, under, b, u1, u2

MCSession == {slash, under, b}
MCFileName == [s \in MCSession |-> IF s = b THEN "b" ELSE "feat__a"]

Issue(cmd, s, u) == [cmd |-> cmd, session |-> s, unit |-> u,
                     outcome |-> IF cmd = "dispatch-end" THEN "solved" ELSE None]

\* One run from its dispatch to its handoff, beside the dispatch of a session
\* whose id shares its file, which opens a pull request, is sent back or stops.
RunCalls == {Issue(cmd, slash, u1) : cmd \in Cmd \ {"labeled"}}
            \cup {Issue(cmd, under, u1) : cmd \in {"dispatch-start", "pr-opened", "rework"}}
            \cup {[Issue("dispatch-end", under, u1) EXCEPT !.outcome = "blocked"]}

\* A parallel group: one session starts and ends two units.
GroupCalls == {Issue(cmd, b, u) : cmd \in {"dispatch-start", "dispatch-end"}, u \in {u1, u2}}

CONSTANTS p1, p2
Symmetry == Permutations({p1, p2})
===============================================================================
