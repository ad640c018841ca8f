------------------------------ MODULE ClaimLock -------------------------------
(***************************************************************************)
(* The claim on one problem (skills/linear/claim-lock.md) as the solve and *)
(* review sessions use it from pickup to merge (skills/solve/pickup.md,    *)
(* dispatch.md step 1, handoff.md, ship.md; commands/review.md steps 2-5). *)
(* The claim is a Linear comment: reading the comments and saving one are  *)
(* separate MCP calls, so check is a read step and each of acquire,        *)
(* refresh and release a read step and a write step.  A comment is named   *)
(* after the session that created it; every reader takes the most recently *)
(* updated one.  The skill says it is no mutex; what it asks of sessions   *)
(* to be one in effect is kept in the history variable orderly.            *)
(***************************************************************************)
EXTENDS Naturals, FiniteSets

CONSTANTS
  Solve, Review,  \* the solve runs and the manual review runs ($SESSION of each)
  TTL,            \* age beyond which a claim is stale
  MaxUnits,       \* bound: units the solve runs come to
  MaxPush,        \* bound: pushes to the problem's branch
  MaxCrash,       \* bound: sessions killed
  None

Session == Solve \cup Review

ASSUME ClaimAssumption ==
  /\ TTL \in Nat \ {0} /\ MaxUnits \in Nat /\ MaxPush \in Nat /\ MaxCrash \in Nat
  /\ Solve \cap Review = {} /\ None \notin Session

VARIABLES
  comment,   \* creator |-> the claim comment: holder, age since it was stamped, live or tombstone
  latest,    \* creator of the most recently updated claim comment
  pc,        \* session |-> where its run is
  seen,      \* session |-> the claim comment it has read and is about to save over
  units,     \* units the solve runs have come to
  problem,   \* the problem's workflow state
  pr,        \* the problem's pull request
  head,      \* commits pushed: the live head of the PR
  approved,  \* history: the heads a verdict accepted
  merged,    \* history: the heads squash-merged
  crashes,   \* sessions killed so far
  orderly    \* history: no session has checked while another was between its check
             \* and its acquire, no claim has lapsed at work, none was stolen

claim == <<comment, latest>>
ship == <<problem, pr, head, approved, merged>>
vars == <<comment, latest, pc, seen, units, problem, pr, head, approved, merged, crashes, orderly>>

NoComment == [holder |-> None, age |-> 0, live |-> FALSE]

\* Faulty variants of Live: a claim as old as the TTL is stale; none ever is.
LiveBelowTTL == latest # None /\ comment[latest].live /\ comment[latest].age < TTL
LiveForEver == latest # None /\ comment[latest].live

\* check: the most recent claim comment, if it is neither a tombstone nor stale.
Live == latest # None /\ comment[latest].live /\ comment[latest].age <= TTL
Mine(s) == Live /\ comment[latest].holder = s
HeldByOther(s) == Live /\ comment[latest].holder # s

\* Faulty variant of Save: always a comment of its own.
SaveNew(s, live) ==
  /\ comment' = [comment EXCEPT ![s] = [holder |-> s, age |-> 0, live |-> live]]
  /\ latest' = s
  /\ seen' = [seen EXCEPT ![s] = None]

\* save_comment: over the comment the session read, or a new one if it read none;
\* the id it read is of no use afterwards.
Save(s, live) ==
  LET c == IF seen[s] = None THEN s ELSE seen[s]
  IN  /\ comment' = [comment EXCEPT ![c] = [holder |-> s, age |-> 0, live |-> live]]
      /\ latest' = c
      /\ seen' = [seen EXCEPT ![s] = None]

Go(s, to) == pc' = [pc EXCEPT ![s] = to]

\* Where a run that ends without a merge or a rework goes: only ship.md releases there.
Stop(s) == IF s \in Solve THEN "releasing" ELSE "ended"

AtWork == {"holding", "confirmed", "refreshing", "verdict", "guard", "merging", "closing",
           "releasing", "tombstoning"}
PickingUp == {"checked", "acquiring"}

-------------------------------------------------------------------------------

Init == /\ comment = [s \in Session |-> NoComment]
        /\ latest = None
        /\ pc = [s \in Session |-> "idle"]
        /\ seen = [s \in Session |-> None]
        /\ units = 0
        /\ problem = "todo"
        /\ pr = "none"
        /\ head = 0
        /\ approved = {}
        /\ merged = {}
        /\ crashes = 0
        /\ orderly = TRUE

\* Time passes for every stamped claim, a session's at work too.
Tick == /\ comment' = [s \in Session |->
             [comment[s] EXCEPT !.age = IF comment[s].live /\ @ <= TTL THEN @ + 1 ELSE @]]
        /\ orderly' = (orderly /\ \A s \in Session :
                        ~(pc[s] \in AtWork /\ Mine(s) /\ comment[latest].age = TTL))
        /\ UNCHANGED <<latest, pc, seen, units, ship, crashes>>

\* pickup.md, review.md steps 2-3: check before the first mutation.  A session
\* that finds the problem held stands off: it changes nothing and may be re-run.
MayPickUp(s) == pc[s] = "idle" /\ problem # "done" /\ (s \in Review => pr = "open")

Pickup(s) ==
  /\ MayPickUp(s)
  /\ ~HeldByOther(s)
  /\ Go(s, "checked")
  /\ orderly' = (orderly /\ \A t \in Session : pc[t] \notin PickingUp)
  /\ UNCHANGED <<claim, seen, units, ship, crashes>>

\* --steal: the operator vouches that the session found is dead.
PickupStealing(s) ==
  /\ MayPickUp(s)
  /\ HeldByOther(s)
  /\ Go(s, "checked")
  /\ orderly' = FALSE
  /\ UNCHANGED <<claim, seen, units, ship, crashes>>

\* acquire and refresh list the comments for the one to save over, ...
AcquireRead(s) ==
  /\ pc[s] \in {"checked", "confirmed"}
  /\ seen' = [seen EXCEPT ![s] = latest]
  /\ Go(s, IF pc[s] = "checked" THEN "acquiring" ELSE "refreshing")
  /\ UNCHANGED <<claim, units, ship, crashes, orderly>>

\* ... and save it.
Acquire(s) ==
  /\ pc[s] = "acquiring"
  /\ Save(s, TRUE)
  /\ Go(s, IF s \in Review THEN "verdict" ELSE "holding")
  /\ UNCHANGED <<units, ship, crashes, orderly>>

\* dispatch.md step 1: confirm the claim before a unit, or stand off.
Recheck(s) ==
  /\ pc[s] = "holding"
  /\ units < MaxUnits
  /\ Go(s, IF HeldByOther(s) THEN "ended" ELSE "confirmed")
  /\ units' = units + 1
  /\ UNCHANGED <<claim, seen, ship, crashes, orderly>>

\* ... refresh it, and move the work to In Progress.
Dispatch(s) ==
  /\ pc[s] = "refreshing"
  /\ Save(s, TRUE)
  /\ problem' = "in progress"
  /\ Go(s, "holding")
  /\ UNCHANGED <<units, pr, head, approved, merged, crashes, orderly>>

\* capture.md: BLOCKED, NEEDS_CONTEXT and DISPUTES_AC end the run.
Blocked(s) ==
  /\ pc[s] = "holding"
  /\ Go(s, "releasing")
  /\ UNCHANGED <<claim, seen, units, ship, crashes, orderly>>

\* handoff.md: push, open or reuse the PR, In Review.  Under --no-ship the claim
\* is released here, otherwise the verdict follows.
Handoff(s) ==
  /\ pc[s] = "holding"
  /\ head < MaxPush
  /\ head' = head + 1
  /\ pr' = "open"
  /\ problem' = "in review"
  /\ \E next \in {"verdict", "releasing"} : Go(s, next)
  /\ UNCHANGED <<claim, seen, units, approved, merged, crashes, orderly>>

\* The reviewer's rollup on the head as it is now.
Accept(s) ==
  /\ pc[s] = "verdict"
  /\ approved' = approved \cup {head}
  /\ Go(s, "guard")
  /\ UNCHANGED <<claim, seen, units, problem, pr, head, merged, crashes, orderly>>

SendBack(s) ==
  /\ pc[s] = "verdict"
  /\ problem' = "in progress"
  /\ Go(s, "releasing")
  /\ UNCHANGED <<claim, seen, units, pr, head, approved, merged, crashes, orderly>>

\* Faulty variant of NeedsYou: the unanswered manual checks pass.
NeedsYouMerges(s) ==
  /\ pc[s] = "verdict"
  /\ Go(s, "guard")
  /\ UNCHANGED <<claim, seen, units, ship, crashes, orderly>>

\* needs PO, or a block on a missing standard: held In Review.
NeedsYou(s) ==
  /\ pc[s] = "verdict"
  /\ Go(s, Stop(s))
  /\ UNCHANGED <<claim, seen, units, ship, crashes, orderly>>

\* Faulty variant of Guard: the problem is closed before the merge.
GuardThenClose(s) ==
  /\ pc[s] = "guard"
  /\ \E safe \in BOOLEAN :
       Go(s, IF safe /\ pr = "open" /\ Mine(s) THEN "closing" ELSE Stop(s))
  /\ UNCHANGED <<claim, seen, units, ship, crashes, orderly>>

\* The base-race guard: CI and mergeability of the live PR (safe), and the claim.
Guard(s) ==
  /\ pc[s] = "guard"
  /\ \E safe \in BOOLEAN :
       Go(s, IF safe /\ pr = "open" /\ Mine(s) THEN "merging" ELSE Stop(s))
  /\ UNCHANGED <<claim, seen, units, ship, crashes, orderly>>

\* gh pr merge --squash: merges the PR's live head; on a PR already merged it is a no-op.
Merge(s) ==
  /\ pc[s] = "merging"
  /\ IF pr = "open" THEN pr' = "merged" /\ merged' = merged \cup {head}
                    ELSE UNCHANGED <<pr, merged>>
  /\ Go(s, "closing")
  /\ UNCHANGED <<claim, seen, units, problem, head, approved, crashes, orderly>>

\* Faulty variant of Close: the problem takes the verdict's name, not the state's.
CloseAsAccepted(s) ==
  /\ pc[s] = "closing"
  /\ problem' = "accepted"
  /\ Go(s, "releasing")
  /\ UNCHANGED <<claim, seen, units, pr, head, approved, merged, crashes, orderly>>

Close(s) ==
  /\ pc[s] = "closing"
  /\ problem' = "done"
  /\ Go(s, "releasing")
  /\ UNCHANGED <<claim, seen, units, pr, head, approved, merged, crashes, orderly>>

\* release is release-if-mine: read the comment, then tombstone it in place.
\* A stale comment that still names this session counts as its own.
ReleaseRead(s) ==
  /\ pc[s] = "releasing"
  /\ IF latest # None /\ comment[latest].live /\ comment[latest].holder = s
     THEN Go(s, "tombstoning") /\ seen' = [seen EXCEPT ![s] = latest]
     ELSE Go(s, "ended") /\ UNCHANGED seen
  /\ UNCHANGED <<claim, units, ship, crashes, orderly>>

ReleaseWrite(s) ==
  /\ pc[s] = "tombstoning"
  /\ Save(s, FALSE)
  /\ Go(s, "ended")
  /\ UNCHANGED <<units, ship, crashes, orderly>>

\* A killed terminal, at any point of a run.
Crash(s) ==
  /\ pc[s] \in AtWork \cup PickingUp
  /\ crashes < MaxCrash
  /\ crashes' = crashes + 1
  /\ Go(s, "crashed")
  /\ seen' = [seen EXCEPT ![s] = None]
  /\ UNCHANGED <<claim, units, ship, orderly>>

Step(s) == \/ Pickup(s) \/ AcquireRead(s) \/ Acquire(s) \/ Recheck(s) \/ Dispatch(s) \/ Blocked(s)
           \/ Handoff(s) \/ Accept(s) \/ SendBack(s) \/ NeedsYou(s) \/ Guard(s)
           \/ Merge(s) \/ Close(s) \/ ReleaseRead(s) \/ ReleaseWrite(s)

Next == Tick \/ \E s \in Session : Step(s) \/ PickupStealing(s) \/ Crash(s)

Spec == Init /\ [][Next]_vars

\* Time passes, and a session that is alive goes on; nobody is obliged to crash
\* or to steal.
FairSpec == Spec /\ WF_vars(Tick) /\ \A s \in Session : WF_vars(Step(s))

-------------------------------------------------------------------------------
Comment == [holder : Session \cup {None}, age : 0 .. TTL + 1, live : BOOLEAN]

ClaimType == comment \in [Session -> Comment] /\ latest \in Session \cup {None}

RunType == /\ pc \in [Session -> AtWork \cup PickingUp \cup {"idle", "ended", "crashed"}]
           /\ seen \in [Session -> Session \cup {None}]

CountType == units \in 0 .. MaxUnits /\ crashes \in 0 .. MaxCrash /\ orderly \in BOOLEAN

ShipType == /\ problem \in {"todo", "in progress", "in review", "done"}
            /\ pr \in {"none", "open", "merged"}
            /\ head \in 0 .. MaxPush
            /\ approved \subseteq 0 .. MaxPush
            /\ merged \subseteq 0 .. MaxPush

TypeOK == ClaimType /\ RunType /\ CountType /\ ShipType

\* The stand-off: while every session keeps to the skill's terms (orderly), two
\* of them are never at work on the problem at once, killed sessions, expired
\* claims and re-runs included.
Alone == \A s, t \in Session : pc[s] \in AtWork /\ pc[t] \in AtWork => s = t
Exclusive == orderly => Alone

\* claim-lock.md:62-63: on those terms the claim is one comment, upserted in place
\* by whichever session takes it, never a second one.
OneClaimComment == orderly => Cardinality({s \in Session : comment[s] # NoComment}) <= 1

\* On those terms what lands on the integration branch is a head an independent
\* verdict accepted: nobody pushes between a verdict and the merge it allows.
MergedHeadReviewed == orderly => merged \subseteq approved

\* On any terms, lapsed claims, steals and overlaps included, the problem is Done
\* only once its PR has been merged, wherever a session dies.
DoneWasMerged == problem = "done" => merged # {}

\* claim-lock.md:100-103: a session that finds the problem claimed by a crashed
\* one does not wait for ever; it gets to work unless the problem is closed first.
NeverDeadlocked ==
  \A s \in Solve : pc[s] = "idle" ~> (pc[s] # "idle" \/ problem = "done")
===============================================================================
