------------------------------- MODULE Delivery -------------------------------
(***************************************************************************)
(* What /backlogd:solve promises for one problem, whatever crashes, lost   *)
(* telemetry writes and re-runs lie between: units are Done in the order   *)
(* of their blocks; each unit's work lands on the problem's branch once,   *)
(* after it is Done and after the work of the units it is blocked by; the  *)
(* pull request is opened once every unit has landed; the problem is put   *)
(* In Review only with that pull request in front of the reviewer.  A Done *)
(* unit may be excused: it counts as landed, whether its commit is there   *)
(* or not.                                                                 *)
(***************************************************************************)
EXTENDS Naturals, Sequences, SequencesExt

CONSTANTS Unit, Before   \* unit |-> the units it is blocked by

VARIABLES done,      \* the units that are Done in Linear
          landed,    \* the units' commits on the problem's branch, in order
          excused,   \* the units counted as landed without a look at their commits
          offered,   \* the units whose commits the pull request shows
          inReview

dvars == <<done, landed, excused, offered, inReview>>

DInit == /\ done = {} /\ landed = <<>> /\ excused = {} /\ offered = {}
         /\ inReview = FALSE

Finish(u) == /\ u \notin done
             /\ Before[u] \subseteq done
             /\ done' = done \cup {u}
             /\ UNCHANGED <<landed, excused, offered, inReview>>

Land(u) == /\ u \in done \ ToSet(landed)
           /\ Before[u] \subseteq ToSet(landed) \cup excused
           /\ landed' = Append(landed, u)
           /\ UNCHANGED <<done, excused, offered, inReview>>

Excuse == \E U \in SUBSET (done \ ToSet(landed)) :
            excused' = excused \cup U /\ UNCHANGED <<done, landed, offered, inReview>>

\* The product owner takes a Done unit that did not land back.
Reopen(u) == /\ u \in done \ ToSet(landed)
             /\ done' = done \ {u}
             /\ UNCHANGED <<landed, excused, offered, inReview>>

Offer == /\ done = Unit
         /\ ToSet(landed) \cup excused = Unit
         /\ offered' = ToSet(landed)
         /\ UNCHANGED <<done, landed, excused, inReview>>

HandOver == /\ offered \cup excused = Unit
            /\ inReview' = TRUE
            /\ UNCHANGED <<done, landed, excused, offered>>

SendBack == inReview /\ inReview' = FALSE /\ UNCHANGED <<done, landed, excused, offered>>

DNext == \/ \E u \in Unit : Finish(u) \/ Land(u) \/ Reopen(u)
         \/ Excuse \/ Offer \/ HandOver \/ SendBack

DSpec == DInit /\ [][DNext]_dvars
===============================================================================
