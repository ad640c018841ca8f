------------------------------- MODULE SolveRun -------------------------------
(***************************************************************************)
(* One problem under /backlogd:solve, over as many runs as it takes: the   *)
(* reconcile that opens a run (skills/solve/resume.md), the walk over the  *)
(* units in parallel groups with its sub-branches and its collect          *)
(* (walk.md), the eight dispatch steps of a unit (dispatch.md, gate.md,    *)
(* capture.md), and the handoff (handoff.md).  What survives a crash is    *)
(* Linear, the graph, the ledger and git; the orchestrator's own memory    *)
(* does not.  One run is live at a time: that is what ClaimLock is for.    *)
(* Telemetry is best-effort, so each graph or ledger write may be lost.    *)
(***************************************************************************)
EXTENDS Naturals, Sequences, FiniteSets, SequencesExt

CONSTANTS
  Unit,         \* the sub-issues of the problem
  Before,       \* unit |-> the units it is blocked by
  Fanout,       \* $CONCURRENCY_MAX
  MaxRuns,      \* bound: runs
  MaxLost,      \* bound: telemetry writes lost
  MaxCrash      \* bound: runs killed

ASSUME UnitAssumption == /\ IsFiniteSet(Unit)
                         /\ Before \in [Unit -> SUBSET Unit]
ASSUME FanoutAssumption == Fanout \in 1 .. 4
ASSUME RunsAssumption == MaxRuns \in Nat /\ MaxLost \in Nat /\ MaxCrash \in Nat

VARIABLES
  linear,   \* unit |-> its workflow state type
  problem,  \* the problem's workflow state
  starts,   \* the graph's dispatch_started edges: <<run, unit>>
  ends,     \* its dispatch_completed edges: <<run, unit, outcome>>
  runEnds,  \* its run_completed edges: runs
  ledger,   \* the runs recorded in the solve ledger
  trusted,  \* history: the units a reconcile counted as completed without their commit
  branch,   \* the problem's branch: the units committed on it, oldest first
  sub,      \* unit |-> its sub-branch and worktree
  pr,       \* the units whose commits the pull request shows
  run,      \* the latest run
  phase,    \* where it is, "idle" when it is over
  group,    \* the units it is dispatching
  step,     \* unit |-> the dispatch step it is at
  status,   \* unit |-> what its developer (or its gate) reported
  rounds,   \* unit |-> gate_round
  lost, crashes

edges == <<starts, ends>>
records == <<runEnds, ledger, trusted>>
git == <<branch, sub, pr>>
memory == <<group, step, status, rounds>>
bounds == <<lost, crashes>>
vars == <<linear, problem, edges, records, git, run, phase, memory, bounds>>

Run == 1 .. MaxRuns
MaxRounds == 2

Committed == ToSet(branch)

-------------------------------------------------------------------------------
\* run_status of scripts/graph.py: any dispatch_completed makes a unit
\* completed, with the most recent outcome.
GraphState(u) == IF \E e \in ends : e[2] = u THEN "completed"
                 ELSE IF \E e \in starts : e[2] = u THEN "in-progress"
                 ELSE "untouched"

LastOutcome(u, outcome) ==
  \E e \in ends : e[2] = u /\ e[3] = outcome /\ \A f \in ends : f[2] = u => f[1] <= e[1]

\* The 4-state decision table.  The grep for the unit's commit is best-effort: a
\* missing match is paired with the graph (resume.md:102-104).
Classify(u) ==
  CASE /\ linear[u] = "completed"
       /\ GraphState(u) = "completed" /\ LastOutcome(u, "solved") -> "completed"
    [] /\ linear[u] = "started"
       /\ GraphState(u) = "in-progress"
       /\ Cardinality({e \in starts : e[2] = u}) = 1 -> "in-progress-mine"
    [] linear[u] = "unstarted" /\ GraphState(u) = "untouched" -> "untouched"
    [] OTHER -> "inconsistent"

InconsistentUnits == {u \in Unit : Classify(u) = "inconsistent"}

\* Completed for the graph and Linear, with no commit on the branch: inconsistent by
\* resume.md:100, completed by resume.md:102-104.
Doubtful(u) == Classify(u) = "completed" /\ u \notin Committed

\* Faulty variant of Ready: a blocker that has been started is enough.
ReadyOnStart == {u \in Unit : /\ linear[u] # "completed"
                              /\ \A b \in Before[u] : linear[b] # "unstarted"}

\* A unit is ready when every unit it is blocked by is completed.
Ready == {u \in Unit : /\ linear[u] # "completed"
                       /\ \A b \in Before[u] : linear[b] = "completed"}

Go(u, to) == step' = [step EXCEPT ![u] = to]

\* The orchestrator forgets: a run that is over keeps nothing in its context.
Over == /\ phase' = "idle"
        /\ group' = {}
        /\ step' = [u \in Unit |-> "none"]
        /\ status' = [u \in Unit |-> "none"]
        /\ rounds' = [u \in Unit |-> 0]

\* A telemetry write lands, or fails and is swallowed.
BestEffort(landed, unwritten) ==
  \/ landed /\ UNCHANGED lost
  \/ lost < MaxLost /\ unwritten /\ lost' = lost + 1

-------------------------------------------------------------------------------
Init == /\ linear = [u \in Unit |-> "unstarted"]
        /\ problem = "todo"
        /\ starts = {} /\ ends = {} /\ runEnds = {} /\ ledger = {} /\ trusted = {}
        /\ branch = <<>> /\ sub = [u \in Unit |-> "none"] /\ pr = {}
        /\ run = 0 /\ phase = "idle" /\ group = {}
        /\ step = [u \in Unit |-> "none"]
        /\ status = [u \in Unit |-> "none"]
        /\ rounds = [u \in Unit |-> 0]
        /\ lost = 0 /\ crashes = 0

\* pickup.md: a run picks the problem up.
Pickup ==
  /\ phase = "idle"
  /\ run < MaxRuns
  /\ problem # "in review"
  /\ run' = run + 1
  /\ phase' = "reconcile"
  /\ UNCHANGED <<linear, problem, edges, records, git, memory, bounds>>

\* Any inconsistent unit pauses the run, and so may a unit whose commit is missing,
\* or uncommitted work that an interrupted run left in a worktree.
Pause ==
  /\ phase = "reconcile"
  /\ \E u \in Unit : Classify(u) \in {"inconsistent", "in-progress-mine"} \/ Doubtful(u)
  /\ Over
  /\ UNCHANGED <<linear, problem, edges, records, git, run, bounds>>

\* Otherwise the per-unit worktrees of completed and untouched units are removed with
\* their sub-branches, collected or not; those of in-progress units are kept.
Reconcile ==
  /\ phase = "reconcile"
  /\ InconsistentUnits = {}
  /\ sub' = [u \in Unit |-> IF Classify(u) = "in-progress-mine" THEN sub[u] ELSE "none"]
  /\ phase' = IF \A u \in Unit : Classify(u) = "completed" THEN "push" ELSE "walk"
  /\ trusted' = trusted \cup {u \in Unit : Doubtful(u)}
  /\ UNCHANGED <<linear, problem, edges, runEnds, ledger, branch, pr, run, memory, bounds>>

\* The next parallel group: at most Fanout of the ready units.  Two or more get
\* a sub-branch each; one goes straight to the branch, unless it has kept its own.
FormGroup ==
  /\ phase = "walk"
  /\ \E g \in SUBSET Ready :
       /\ g # {}
       /\ Cardinality(g) = Fanout \/ (g = Ready /\ Cardinality(g) < Fanout)
       /\ group' = g
       /\ step' = [u \in Unit |-> IF u \in g THEN "claim" ELSE "none"]
       /\ sub' = [u \in Unit |-> IF u \in g /\ Cardinality(g) > 1 THEN "open" ELSE sub[u]]
  /\ phase' = "dispatch"
  /\ UNCHANGED <<linear, problem, edges, records, branch, pr, run, status, rounds, bounds>>

\* No unit is ready: the problem is solved, or an open blocker stops the run.
NoneReady ==
  /\ phase = "walk"
  /\ Ready = {}
  /\ IF \A u \in Unit : linear[u] = "completed" THEN phase' = "push" /\ UNCHANGED memory
                                               ELSE Over
  /\ UNCHANGED <<linear, problem, edges, records, git, run, bounds>>

\* Step 1: the unit is moved to In Progress.
Claim(u) ==
  /\ step[u] = "claim"
  /\ linear' = [linear EXCEPT ![u] = "started"]
  /\ Go(u, "start")
  /\ UNCHANGED <<problem, edges, records, git, run, phase, group, status, rounds, bounds>>

\* Step 3: dispatch-start, then the developer is called.
Dispatch(u) ==
  /\ step[u] = "start"
  /\ BestEffort(starts' = starts \cup {<<run, u>>}, UNCHANGED starts)
  /\ Go(u, "running")
  /\ UNCHANGED <<linear, problem, ends, records, git, run, phase, group, status, rounds, crashes>>

\* Steps 4-5: it reports DONE or DONE_WITH_CONCERNS ("done"), or BLOCKED,
\* NEEDS_CONTEXT, DISPUTES_AC or a malformed line ("stopped").  The calls of a
\* group are issued together.
Return(u) ==
  /\ step[u] = "running"
  /\ \A v \in group : step[v] # "claim"
  /\ \E s \in {"done", "stopped"} : status' = [status EXCEPT ![u] = s]
  /\ Go(u, "gate")
  /\ UNCHANGED <<linear, problem, edges, records, git, run, phase, group, rounds, bounds>>

\* Step 5b: the quality gate passes the unit, ...
GateOk(u) ==
  /\ step[u] = "gate"
  /\ Go(u, "record")
  /\ UNCHANGED <<linear, problem, edges, records, git, run, phase, group, status, rounds, bounds>>

\* Faulty variants of NeedsChanges: one round too many, and no count of them.
NeedsChangesOnceMore(u) ==
  /\ step[u] = "gate"
  /\ IF rounds[u] <= MaxRounds
     THEN rounds' = [rounds EXCEPT ![u] = @ + 1] /\ Go(u, "start") /\ UNCHANGED status
     ELSE status' = [status EXCEPT ![u] = "stopped"] /\ Go(u, "record") /\ UNCHANGED rounds
  /\ UNCHANGED <<linear, problem, edges, records, git, run, phase, group, bounds>>
NeedsChangesUncounted(u) ==
  /\ step[u] = "gate"
  /\ Go(u, "start")
  /\ UNCHANGED <<linear, problem, edges, records, git, run, phase, group, status, rounds, bounds>>

\* ... has it reworked from step 3, or at the cap blocks it.
NeedsChanges(u) ==
  /\ step[u] = "gate"
  /\ IF rounds[u] < MaxRounds
     THEN /\ rounds' = [rounds EXCEPT ![u] = @ + 1]
          /\ Go(u, "start")
          /\ UNCHANGED status
     ELSE /\ status' = [status EXCEPT ![u] = "stopped"]
          /\ Go(u, "record")
          /\ UNCHANGED rounds
  /\ UNCHANGED <<linear, problem, edges, records, git, run, phase, group, bounds>>

\* Step 6: dispatch-end.
Record(u) ==
  /\ step[u] = "record"
  /\ BestEffort(ends' = ends \cup
       {<<run, u, IF status[u] = "done" THEN "solved" ELSE "blocked">>}, UNCHANGED ends)
  /\ Go(u, "transition")
  /\ UNCHANGED <<linear, problem, starts, records, git, run, phase, group, status, rounds, crashes>>

\* Step 7: the unit is completed, or left In Progress; a unit of a group waits
\* until every dispatch of the group has finished.
Transition(u) ==
  /\ step[u] = "transition"
  /\ \A v \in group : step[v] \in {"record", "transition", "commit", "finished"}
  /\ IF status[u] = "done"
     THEN linear' = [linear EXCEPT ![u] = "completed"] /\ Go(u, "commit")
     ELSE Go(u, "finished") /\ UNCHANGED linear
  /\ UNCHANGED <<problem, edges, records, git, run, phase, group, status, rounds, bounds>>

\* Step 8: one commit, on the unit's sub-branch if it has one.
Commit(u) ==
  /\ step[u] = "commit"
  /\ IF sub[u] = "open"
     THEN sub' = [sub EXCEPT ![u] = "committed"] /\ UNCHANGED branch
     ELSE branch' = Append(branch, u) /\ UNCHANGED sub
  /\ Go(u, "finished")
  /\ UNCHANGED <<linear, problem, edges, records, pr, run, phase, group, status, rounds, bounds>>

GroupFinished == phase = "dispatch" /\ \A u \in group : step[u] = "finished"

\* Faulty variant of Collect: a merged sub-branch is not told from one to merge.
CollectAgain(u) ==
  /\ GroupFinished
  /\ u \in group /\ sub[u] = "committed"
  /\ branch' = Append(branch, u)
  /\ UNCHANGED <<linear, problem, edges, records, sub, pr, run, phase, memory, bounds>>

\* The collect: each sub-branch is rebased and fast-forwarded into the branch, ...
Collect(u) ==
  /\ GroupFinished
  /\ u \in group /\ sub[u] = "committed"
  /\ branch' = Append(branch, u)
  /\ sub' = [sub EXCEPT ![u] = "merged"]
  /\ UNCHANGED <<linear, problem, edges, records, pr, run, phase, memory, bounds>>

\* Faulty variant of Teardown: a sub-branch that was not collected is torn down too.
TeardownUncollected(u) ==
  /\ GroupFinished
  /\ u \in group /\ sub[u] \in {"committed", "merged"}
  /\ sub' = [sub EXCEPT ![u] = "none"]
  /\ UNCHANGED <<linear, problem, edges, records, branch, pr, run, phase, memory, bounds>>

\* ... and torn down;
Teardown(u) ==
  /\ GroupFinished
  /\ u \in group /\ sub[u] = "merged"
  /\ sub' = [sub EXCEPT ![u] = "none"]
  /\ UNCHANGED <<linear, problem, edges, records, branch, pr, run, phase, memory, bounds>>

\* a rebase that conflicts with a sibling's commit stops the run.
Conflict(u) ==
  /\ GroupFinished
  /\ u \in group /\ sub[u] = "committed"
  /\ group \cap Committed # {}
  /\ Over
  /\ UNCHANGED <<linear, problem, edges, records, git, run, bounds>>

\* A group with a unit that did not land ends the run; otherwise the walk goes on.
EndGroup ==
  /\ GroupFinished
  /\ \A u \in group : sub[u] \notin {"committed", "merged"}
  /\ IF \E u \in group : status[u] = "stopped" THEN Over
     ELSE phase' = "walk" /\ group' = {} /\ UNCHANGED <<step, status, rounds>>
  /\ UNCHANGED <<linear, problem, edges, records, git, run, bounds>>

\* handoff.md: push and open the PR, unless a per-unit worktree is still there.
Push ==
  /\ phase = "push"
  /\ IF \E u \in Unit : sub[u] # "none" THEN Over /\ UNCHANGED pr
     ELSE phase' = "run end" /\ pr' = Committed /\ UNCHANGED memory
  /\ UNCHANGED <<linear, problem, edges, records, branch, sub, run, bounds>>

RunEnd ==
  /\ phase = "run end"
  /\ BestEffort(runEnds' = runEnds \cup {run}, UNCHANGED runEnds)
  /\ phase' = "ledger"
  /\ UNCHANGED <<linear, problem, edges, ledger, trusted, git, run, memory, crashes>>

RecordRun ==
  /\ phase = "ledger"
  /\ BestEffort(ledger' = ledger \cup {run}, UNCHANGED ledger)
  /\ phase' = "handback"
  /\ UNCHANGED <<linear, problem, edges, runEnds, trusted, git, run, memory, crashes>>

InReview ==
  /\ phase = "handback"
  /\ problem' = "in review"
  /\ Over
  /\ UNCHANGED <<linear, edges, records, git, run, bounds>>

Step == \/ Pause \/ Reconcile \/ FormGroup \/ NoneReady
        \/ \E u \in Unit : \/ Claim(u) \/ Dispatch(u) \/ Return(u) \/ GateOk(u)
                           \/ NeedsChanges(u) \/ Record(u) \/ Transition(u) \/ Commit(u)
                           \/ Collect(u) \/ Teardown(u) \/ Conflict(u)
        \/ EndGroup \/ Push \/ RunEnd \/ RecordRun \/ InReview

\* The terminal is closed, at any point of a run.
Crash ==
  /\ phase # "idle"
  /\ crashes < MaxCrash
  /\ crashes' = crashes + 1
  /\ Over
  /\ UNCHANGED <<linear, problem, edges, records, git, run, lost>>

\* review.md step 5: the reviewer sends the problem back.
SendBack ==
  /\ phase = "idle"
  /\ problem = "in review"
  /\ problem' = "in progress"
  /\ UNCHANGED <<linear, edges, records, git, run, phase, memory, bounds>>

\* The product owner resolves a unit a run paused on, when no work of it was
\* committed: back to its unstarted state, its edges deleted by hand.
CleanUp(u) ==
  /\ phase = "idle"
  /\ Classify(u) = "inconsistent" \/ Doubtful(u)
  /\ u \notin Committed /\ sub[u] # "committed"
  /\ linear' = [linear EXCEPT ![u] = "unstarted"]
  /\ starts' = {e \in starts : e[2] # u}
  /\ ends' = {e \in ends : e[2] # u}
  /\ UNCHANGED <<problem, records, git, run, phase, memory, bounds>>

Next == Pickup \/ Step \/ Crash \/ SendBack \/ \E u \in Unit : CleanUp(u)

Spec == Init /\ [][Next]_vars

\* A live run goes on, and the developers it calls report.
FairSpec == Spec /\ WF_vars(Step)

-------------------------------------------------------------------------------
TypeOK ==
  /\ linear \in [Unit -> {"unstarted", "started", "completed"}]
  /\ problem \in {"todo", "in progress", "in review"}
  /\ starts \subseteq Run \X Unit
  /\ ends \subseteq Run \X Unit \X {"solved", "blocked"}
  /\ runEnds \subseteq Run
  /\ ledger \subseteq Run
  /\ trusted \subseteq Unit
  /\ branch \in Seq(Unit)
  /\ sub \in [Unit -> {"none", "open", "committed", "merged"}]
  /\ pr \subseteq Unit
  /\ run \in 0 .. MaxRuns
  /\ phase \in {"idle", "reconcile", "walk", "dispatch", "push", "run end", "ledger", "handback"}
  /\ group \subseteq Unit
  /\ step \in [Unit -> {"none", "claim", "start", "running", "gate", "record",
                        "transition", "commit", "finished"}]
  /\ status \in [Unit -> {"none", "done", "stopped"}]
  /\ rounds \in [Unit -> 0 .. MaxRounds]
  /\ lost \in 0 .. MaxLost
  /\ crashes \in 0 .. MaxCrash

\* A developer is called only when the work of every unit its unit is blocked by is
\* on the branch its worktree was cut from, not merely Done in Linear, unless a
\* reconcile took the graph's word for that work.
BlockersPresent ==
  \A u \in Unit : step[u] = "running" => Before[u] \subseteq Committed \cup trusted

\* Committed work is not dropped, over crashes, conflicts and re-runs: a sub-branch
\* with a commit disappears only once the commit is on the problem's branch, or in a
\* reconcile that finds its unit Done in Linear and solved on the graph.
NoWorkLost ==
  [][\A u \in Unit : sub[u] = "committed" =>
       \/ sub'[u] = "committed" \/ u \in ToSet(branch')
       \/ phase = "reconcile" /\ linear[u] = "completed" /\ LastOutcome(u, "solved")]_vars

\* resume.md:52-55: a ledger record means the whole problem ran to handoff, all its
\* units in the pull request but those a reconcile took the graph's word for.
LedgerMeansHandedOff == ledger # {} => Unit \subseteq pr \cup trusted

\* resume.md:210: the final PR carries one commit per sub-issue.
PRCarriesEveryUnit == pr # {} => pr = Unit

\* A run that is live ends: handed off, stopped, paused or killed.  The cap on
\* gate rounds is what keeps a unit from being reworked for ever.
RunTerminates == phase # "idle" ~> phase = "idle"

\* review.md:344-345: after a send-back a fresh run adds commits to the branch.
SendBackAddsCommits ==
  problem = "in progress" /\ phase = "run end" => Len(branch) > Cardinality(Unit)

-------------------------------------------------------------------------------
Promise == INSTANCE Delivery WITH done <- {u \in Unit : linear[u] = "completed"},
                                  landed <- branch, excused <- trusted, offered <- pr,
                                  inReview <- problem = "in review"

\* Over all its runs the solve loop implements Delivery.
ImplementsDelivery == Promise!DSpec
===============================================================================
