---------------------------- MODULE SolveRun_proofs ----------------------------
(***************************************************************************)
(* Proofs about SolveRun, for any units, blocking relation and bounds: its *)
(* types, the safety invariants of the runs, and that the solve loop over  *)
(* all its runs implements Delivery.                                       *)
(***************************************************************************)
EXTENDS SolveRun, SequenceTheorems, TLAPS

\* A unit on its way to the transition, a landed run, the handoff's phases.
AtWork == {"claim", "start", "running", "gate", "record", "transition"}
Handoff == {"push", "run end", "ledger", "handback"}

\* Where a run is: a unit has a step to take only in a group being dispatched.
Position ==
  /\ \A u \in Unit : step[u] \notin {"none", "finished"} => phase = "dispatch" /\ u \in group
  /\ phase # "idle" => run \in Run

\* What the stores say of one unit, together.
Sound(u) ==
  /\ u \in Committed => linear[u] = "completed"
  /\ sub[u] = "committed" => linear[u] = "completed" /\ u \notin Committed
  /\ sub[u] = "merged" => u \in Committed
  /\ step[u] \in AtWork => linear[u] # "completed"
  /\ step[u] = "commit" => /\ linear[u] = "completed" /\ u \notin Committed
                           /\ sub[u] \notin {"committed", "merged"}

\* A unit being dispatched has its blockers Done, and on the branch or trusted.
Cleared(u) ==
  phase = "dispatch" /\ u \in group =>
    /\ Before[u] \subseteq Committed \cup trusted
    /\ \A b \in Before[u] : linear[b] = "completed"

\* After the reconcile, a unit that is Done in Linear is on the branch, except
\* between its transition and its commit, or its commit and its collect, unless the
\* reconcile counted it as completed without its commit.
Landed(u) ==
  phase \notin {"idle", "reconcile"} /\ linear[u] = "completed"
    => \/ u \in Committed \cup trusted
       \/ phase = "dispatch" /\ u \in group /\ (step[u] = "commit" \/ sub[u] = "committed")

\* The handoff starts with every unit Done, and on the branch or trusted.
Offered == /\ phase \in Handoff =>
                Committed \cup trusted = Unit /\ \A u \in Unit : linear[u] = "completed"
           /\ phase \in Handoff \ {"push"} => pr \cup trusted = Unit
           /\ ledger # {} => pr \cup trusted = Unit

IInv == /\ TypeOK
        /\ Position
        /\ \A u \in Unit : Sound(u) /\ Landed(u) /\ Cleared(u)
        /\ Offered

\* The parts of TypeOK.
LinearType == linear \in [Unit -> {"unstarted", "started", "completed"}]
RunType == /\ run \in 0 .. MaxRuns
           /\ problem \in {"todo", "in progress", "in review"}
           /\ phase \in {"idle", "reconcile", "walk", "dispatch", "push", "run end",
                         "ledger", "handback"}
RecordType == /\ starts \subseteq Run \X Unit
              /\ ends \subseteq Run \X Unit \X {"solved", "blocked"}
              /\ runEnds \subseteq Run
              /\ ledger \subseteq Run
              /\ trusted \subseteq Unit
GitType == /\ branch \in Seq(Unit)
           /\ sub \in [Unit -> {"none", "open", "committed", "merged"}]
           /\ pr \subseteq Unit
StepType == /\ group \subseteq Unit
            /\ step \in [Unit -> {"none", "claim", "start", "running", "gate", "record",
                                  "transition", "commit", "finished"}]
            /\ status \in [Unit -> {"none", "done", "stopped"}]
CountType == /\ rounds \in [Unit -> 0 .. MaxRounds]
             /\ lost \in 0 .. MaxLost
             /\ crashes \in 0 .. MaxCrash

LEMMA TypeParts ==
  TypeOK <=> LinearType /\ RunType /\ RecordType /\ GitType /\ StepType /\ CountType
BY DEF TypeOK, LinearType, RunType, RecordType, GitType, StepType, CountType

\* The units on the branch are units, and a commit adds its own.
LEMMA CommittedAreUnits == GitType => Committed \subseteq Unit
BY DEF GitType, Committed, ToSet

LEMMA CommitAdds ==
  ASSUME GitType, NEW u \in Unit, branch' = Append(branch, u)
  PROVE  /\ Committed' = Committed \cup {u}
         /\ branch' \in Seq(Unit)
<1>1. branch \in Seq(Unit)
  BY DEF GitType
<1>2. /\ Len(branch') = Len(branch) + 1
      /\ branch' \in Seq(Unit)
      /\ \A i \in 1 .. Len(branch) : branch'[i] = branch[i]
      /\ branch'[Len(branch) + 1] = u
  BY <1>1
<1>3. /\ Len(branch) \in Nat
      /\ DOMAIN branch = 1 .. Len(branch)
      /\ DOMAIN branch' = 1 .. Len(branch) + 1
  BY <1>1, <1>2
<1>4. ToSet(branch) = {branch[i] : i \in 1 .. Len(branch)}
  BY <1>3 DEF ToSet
<1>5. ToSet(branch') = {branch'[i] : i \in 1 .. Len(branch) + 1}
  BY <1>3 DEF ToSet
<1>6. \A x \in ToSet(branch') : x \in ToSet(branch) \cup {u}
  <2> SUFFICES ASSUME NEW i \in 1 .. Len(branch) + 1
               PROVE  branch'[i] \in ToSet(branch) \cup {u}
    BY <1>5
  <2>1. i \in 1 .. Len(branch) \/ i = Len(branch) + 1
    BY <1>3
  <2> QED
    BY <2>1, <1>2, <1>4
<1>7. \A x \in ToSet(branch) : x \in ToSet(branch')
  <2> SUFFICES ASSUME NEW i \in 1 .. Len(branch) PROVE branch[i] \in ToSet(branch')
    BY <1>4
  <2>1. i \in 1 .. Len(branch) + 1
    BY <1>3
  <2> QED
    BY <2>1, <1>2, <1>5
<1>8. u \in ToSet(branch')
  BY <1>2, <1>3, <1>5
<1> QED
  BY <1>2, <1>6, <1>7, <1>8 DEF Committed

\* A unit the decision table finds completed is Done in Linear and was last solved on
\* the graph, and a Done unit it finds anything else is inconsistent.
LEMMA CompletedIsSolved ==
  ASSUME NEW u \in Unit
  PROVE  /\ Classify(u) = "completed" => linear[u] = "completed" /\ LastOutcome(u, "solved")
         /\ linear[u] = "completed" => Classify(u) \in {"completed", "inconsistent"}
         /\ Classify(u) = "completed" => u \in Committed \/ Doubtful(u)
BY DEF Classify, Doubtful

-------------------------------------------------------------------------------
\* Where a run is and what is said of the units; what a step of a run keeps.
Held == Position /\ \A u \in Unit : Sound(u) /\ Landed(u)

\* Steps that touch no more than a run's position keep what is said of the units.
LEMMA OverKeeps ==
  ASSUME IInv, Over, UNCHANGED <<linear, git, ledger, trusted, run>>
  PROVE  Held' /\ Offered'
<1>1. Committed' = Committed
  BY DEF git, Committed
<1>2. ASSUME NEW u \in Unit PROVE Sound(u)' /\ Landed(u)'
  <2>1. Sound(u)'
    BY <1>1 DEF IInv, Sound, AtWork, Over, git
  <2>2. Landed(u)'
    BY DEF Landed, Over
  <2> QED
    BY <2>1, <2>2
<1>3. Position'
  BY DEF Position, Over
<1>4. Offered'
  BY DEF IInv, Offered, Handoff, Over, git
<1> QED
  BY <1>2, <1>3, <1>4 DEF Held

\* The steps of one unit before it reaches its transition.
LEMMA WorkKeeps ==
  ASSUME IInv, NEW u \in Unit,
         Claim(u) \/ Dispatch(u) \/ Return(u) \/ GateOk(u) \/ NeedsChanges(u) \/ Record(u)
  PROVE  Held' /\ Offered'
<1>1. /\ step[u] \in AtWork
      /\ \E to \in AtWork : step' = [step EXCEPT ![u] = to]
      /\ linear' = linear \/ linear' = [linear EXCEPT ![u] = "started"]
      /\ UNCHANGED <<git, ledger, trusted, run, phase, group>>
  BY DEF Claim, Dispatch, Return, GateOk, NeedsChanges, Record, Go, AtWork, records
<1>2. Committed' = Committed
  BY <1>1 DEF git, Committed
<1>3. LinearType /\ StepType
  BY TypeParts DEF IInv
<1>4. ASSUME NEW v \in Unit PROVE Sound(v)' /\ Landed(v)'
  <2>1. CASE v = u
    BY <2>1, <1>1, <1>2, <1>3 DEF IInv, Sound, Landed, AtWork, git, LinearType, StepType
  <2>2. CASE v # u
    BY <2>2, <1>1, <1>2, <1>3 DEF IInv, Sound, Landed, git, LinearType, StepType
  <2> QED
    BY <2>1, <2>2
<1>5. Position'
  BY <1>1, <1>3 DEF IInv, Position, AtWork, StepType
<1>6. phase = "dispatch"
  BY <1>1 DEF IInv, Position, AtWork
<1>7. Offered'
  BY <1>1, <1>6 DEF IInv, Offered, Handoff, git
<1> QED
  BY <1>4, <1>5, <1>7 DEF Held

LEMMA TransitionKeeps ==
  ASSUME IInv, NEW u \in Unit, Transition(u)
  PROVE  Held' /\ Offered'
<1>1. Committed' = Committed
  BY DEF Transition, git, Committed
<1>2. LinearType /\ StepType
  BY TypeParts DEF IInv
<1>3. ASSUME NEW v \in Unit PROVE Sound(v)' /\ Landed(v)'
  BY <1>1, <1>2 DEF IInv, Position, Sound, Landed, AtWork, Transition, Go, git,
                    records, LinearType, StepType
<1>4. Position'
  BY <1>2 DEF IInv, Position, Transition, Go, StepType
<1>5. Offered'
  BY DEF IInv, Position, Offered, Handoff, Transition, git, records
<1> QED
  BY <1>3, <1>4, <1>5 DEF Held

\* A commit, on the branch or on the sub-branch, and a collect.
LEMMA CommitKeeps ==
  ASSUME IInv, NEW u \in Unit, Commit(u) \/ Collect(u)
  PROVE  Held' /\ Offered'
<1>1. LinearType /\ StepType /\ GitType
  BY TypeParts DEF IInv
<1>2. phase = "dispatch" /\ u \in group
  BY DEF IInv, Position, Commit, Collect, GroupFinished
<1>3. \/ UNCHANGED branch /\ Committed' = Committed
      \/ branch' = Append(branch, u) /\ Committed' = Committed \cup {u}
  BY <1>1, CommitAdds DEF Commit, Collect, Committed
<1>4. ASSUME NEW v \in Unit PROVE Sound(v)' /\ Landed(v)'
  <2>1. CASE Commit(u) /\ sub[u] = "open"
    <3>1. Committed' = Committed
      BY <2>1 DEF Commit, Committed
    <3> QED
      BY <2>1, <3>1, <1>1, <1>2 DEF IInv, Sound, Landed, AtWork, Commit, Go,
                                    records, LinearType, StepType, GitType
  <2>2. CASE Commit(u) /\ sub[u] # "open"
    <3>1. Committed' = Committed \cup {u}
      BY <2>2, <1>1, CommitAdds DEF Commit
    <3> QED
      BY <2>2, <3>1, <1>1, <1>2 DEF IInv, Sound, Landed, AtWork, Commit, Go,
                                    records, LinearType, StepType, GitType
  <2>3. CASE Collect(u)
    <3>1. Committed' = Committed \cup {u}
      BY <2>3, <1>1, CommitAdds DEF Collect
    <3> QED
      BY <2>3, <3>1, <1>1, <1>2 DEF IInv, Sound, Landed, AtWork, Collect, GroupFinished,
                                    memory, records, LinearType, StepType, GitType
  <2> QED
    BY <2>1, <2>2, <2>3
<1>5. Position'
  BY <1>1 DEF IInv, Position, Commit, Collect, GroupFinished, Go, memory, StepType
<1>6. Offered'
  BY <1>2 DEF IInv, Offered, Handoff, Commit, Collect, records
<1> QED
  BY <1>4, <1>5, <1>6 DEF Held

\* The reconcile lets a run on only if every Done unit is on the branch or last
\* solved on the graph, and straight to the handoff only if all units are.
LEMMA ReconcileKeeps == IInv /\ Reconcile => Held' /\ Offered'
<1> SUFFICES ASSUME IInv, Reconcile PROVE Held' /\ Offered'
  OBVIOUS
<1>1. StepType /\ GitType /\ LinearType /\ RecordType
  BY TypeParts DEF IInv
<1>2. Committed' = Committed /\ trusted \subseteq trusted'
  BY DEF Reconcile, Committed
<1>3. ASSUME NEW u \in Unit, linear[u] = "completed" PROVE u \in Committed \cup trusted'
  BY <1>3, CompletedIsSolved DEF Reconcile, InconsistentUnits
<1>4. ASSUME NEW u \in Unit PROVE Sound(u)' /\ Landed(u)'
  <2>1. sub'[u] = sub[u] \/ sub'[u] = "none"
    BY DEF Reconcile
  <2>2. step[u] \in {"none", "finished"} /\ phase' \in {"push", "walk"}
    BY DEF IInv, Position, Reconcile
  <2> QED
    BY <2>1, <2>2, <1>2, <1>3 DEF IInv, Sound, Landed, Reconcile, memory, AtWork
<1>5. Position'
  BY DEF IInv, Position, Reconcile, memory
<1>6. ASSUME phase' = "push"
      PROVE  Committed \cup trusted' = Unit /\ \A u \in Unit : linear[u] = "completed"
  <2>1. \A u \in Unit : linear[u] = "completed"
    BY <1>6, CompletedIsSolved DEF Reconcile
  <2>2. Committed \cup trusted' \subseteq Unit
    BY <1>1, CommittedAreUnits DEF Reconcile, RecordType
  <2> QED
    BY <2>1, <2>2, <1>3
<1>7. phase' \in {"push", "walk"} /\ UNCHANGED <<linear, pr, ledger>>
  BY DEF Reconcile
<1>8. pr \cup trusted = Unit => pr \cup trusted' = Unit
  BY <1>2 DEF Reconcile
<1>9. Offered'
  BY <1>2, <1>6, <1>7, <1>8 DEF IInv, Offered, Handoff
<1> QED
  BY <1>4, <1>5, <1>9 DEF Held

\* A group is formed of units whose blockers are Done, which at the walk means
\* on the branch or trusted.
LEMMA FormGroupKeeps == IInv /\ FormGroup => Held' /\ Offered'
<1> SUFFICES ASSUME IInv, FormGroup PROVE Held' /\ Offered'
  OBVIOUS
<1>1. StepType /\ GitType /\ LinearType
  BY TypeParts DEF IInv
<1>2. Committed' = Committed
  BY DEF FormGroup, Committed
<1>3. ASSUME NEW u \in Unit, linear[u] = "completed" PROVE u \in Committed \cup trusted
  BY <1>3 DEF IInv, Landed, FormGroup
<1>4. PICK g \in SUBSET Ready :
        /\ group' = g
        /\ step' = [u \in Unit |-> IF u \in g THEN "claim" ELSE "none"]
        /\ sub' = [u \in Unit |-> IF u \in g /\ Cardinality(g) > 1 THEN "open" ELSE sub[u]]
  BY DEF FormGroup
<1>5. ASSUME NEW u \in g
      PROVE  u \in Unit /\ linear[u] # "completed"
  BY <1>4 DEF Ready
<1>6. ASSUME NEW u \in Unit PROVE Sound(u)' /\ Landed(u)'
  BY <1>2, <1>3, <1>4, <1>5 DEF IInv, Sound, Landed, AtWork, FormGroup, records
<1>7. Position'
  BY <1>4 DEF IInv, Position, FormGroup
<1>8. Offered'
  BY <1>2 DEF IInv, Offered, Handoff, FormGroup, records
<1> QED
  BY <1>6, <1>7, <1>8 DEF Held

\* With no unit left and all of them Done, the branch is complete.
LEMMA NoneReadyKeeps == IInv /\ NoneReady => Held' /\ Offered'
<1> SUFFICES ASSUME IInv, NoneReady PROVE Held' /\ Offered'
  OBVIOUS
<1>1. CASE \A u \in Unit : linear[u] = "completed"
  <2>1. phase' = "push" /\ UNCHANGED <<linear, git, ledger, trusted, run, memory>>
    BY <1>1 DEF NoneReady, records
  <2>2. Committed' = Committed
    BY <2>1 DEF git, Committed
  <2>3. Committed \cup trusted = Unit
    BY <1>1, TypeParts, CommittedAreUnits DEF IInv, Landed, NoneReady, RecordType
  <2>4. ASSUME NEW u \in Unit PROVE Sound(u)' /\ Landed(u)'
    BY <2>1, <2>2, <2>3 DEF IInv, Sound, Landed, git, memory, AtWork
  <2>5. Position'
    BY <2>1 DEF IInv, Position, NoneReady, memory
  <2>6. Offered'
    BY <1>1, <2>1, <2>2, <2>3 DEF IInv, Offered, Handoff, git
  <2> QED
    BY <2>4, <2>5, <2>6 DEF Held
<1>2. CASE ~(\A u \in Unit : linear[u] = "completed")
  BY <1>2, OverKeeps DEF NoneReady, records
<1> QED
  BY <1>1, <1>2

LEMMA TeardownKeeps ==
  ASSUME IInv, NEW u \in Unit, Teardown(u)
  PROVE  Held' /\ Offered'
<1>1. GitType /\ Committed' = Committed
  BY TypeParts DEF IInv, Teardown, Committed
<1>2. ASSUME NEW v \in Unit PROVE Sound(v)' /\ Landed(v)'
  BY <1>1 DEF IInv, Sound, Landed, AtWork, Teardown, GroupFinished, memory, records, GitType
<1>3. Position'
  BY DEF IInv, Position, Teardown, memory
<1>4. Offered'
  BY <1>1 DEF IInv, Offered, Teardown, records
<1> QED
  BY <1>2, <1>3, <1>4 DEF Held

\* A group that has finished, with nothing left to collect, has landed.
LEMMA EndGroupKeeps == IInv /\ EndGroup => Held' /\ Offered'
<1> SUFFICES ASSUME IInv, EndGroup PROVE Held' /\ Offered'
  OBVIOUS
<1>1. CASE \E u \in group : status[u] = "stopped"
  BY <1>1, OverKeeps DEF EndGroup, records
<1>2. CASE ~(\E u \in group : status[u] = "stopped")
  <2>1. phase' = "walk" /\ group' = {} /\ UNCHANGED <<linear, git, ledger, trusted, run, step>>
    BY <1>2 DEF EndGroup, records
  <2>2. Committed' = Committed
    BY <2>1 DEF git, Committed
  <2>3. ASSUME NEW u \in Unit PROVE step[u] \in {"none", "finished"}
    BY DEF IInv, Position, EndGroup, GroupFinished
  <2>4. ASSUME NEW u \in Unit PROVE Sound(u)' /\ Landed(u)'
    BY <2>1, <2>2, <2>3 DEF IInv, Sound, Landed, git, AtWork, EndGroup, GroupFinished
  <2>5. Position'
    BY <2>1, <2>3 DEF IInv, Position, EndGroup, GroupFinished
  <2>6. Offered'
    BY <2>1, <2>2 DEF IInv, Offered, Handoff, git
  <2> QED
    BY <2>4, <2>5, <2>6 DEF Held
<1> QED
  BY <1>1, <1>2

\* The handoff: the pull request shows the branch, and the ledger follows it.
LEMMA HandoffKeeps ==
  IInv /\ (Push \/ RunEnd \/ RecordRun \/ InReview) => Held' /\ Offered'
<1> SUFFICES ASSUME IInv, Push \/ RunEnd \/ RecordRun \/ InReview PROVE Held' /\ Offered'
  OBVIOUS
<1>1. CASE Over /\ UNCHANGED <<linear, git, ledger, trusted, run>>
  BY <1>1, OverKeeps
<1>2. CASE ~(Over /\ UNCHANGED <<linear, git, ledger, trusted, run>>)
  <2>1. /\ UNCHANGED <<linear, branch, sub, trusted, run, memory>>
        /\ phase \in Handoff /\ phase' \in Handoff \ {"push"}
        /\ pr' = IF phase = "push" THEN Committed ELSE pr
    BY <1>2 DEF Push, RunEnd, RecordRun, InReview, records, git, Handoff
  <2>2. /\ Committed' = Committed /\ Committed \cup trusted = Unit
        /\ pr' \cup trusted = Unit
        /\ \A u \in Unit : linear[u] = "completed"
    BY <2>1 DEF Committed, IInv, Offered, Handoff
  <2>3. ASSUME NEW u \in Unit PROVE Sound(u)' /\ Landed(u)'
    BY <2>1, <2>2 DEF IInv, Sound, Landed, memory, AtWork, Handoff
  <2>4. Position'
    BY <2>1 DEF IInv, Position, memory, Handoff
  <2>5. Offered'
    BY <2>1, <2>2 DEF Offered
  <2> QED
    BY <2>3, <2>4, <2>5 DEF Held
<1> QED
  BY <1>1, <1>2

LEMMA PickupCounts == RunType /\ Pickup => run' \in Run
<1> SUFFICES ASSUME RunType, Pickup PROVE run' \in Run
  OBVIOUS
<1>1. run < MaxRuns /\ run' = run + 1
  BY DEF Pickup
<1>2. run \in 0 .. MaxRuns
  BY DEF RunType
<1> QED
  BY <1>1, <1>2, RunsAssumption DEF Run

\* What happens between two runs.
LEMMA IdleKeeps ==
  IInv /\ (Pickup \/ SendBack \/ \E u \in Unit : CleanUp(u)) => Held' /\ Offered'
<1> SUFFICES ASSUME IInv, Pickup \/ SendBack \/ \E u \in Unit : CleanUp(u)
             PROVE  Held' /\ Offered'
  OBVIOUS
<1>1. /\ phase = "idle" /\ phase' \in {"idle", "reconcile"}
      /\ UNCHANGED <<git, ledger, trusted, memory>>
  BY DEF Pickup, SendBack, CleanUp, records
<1>2. Committed' = Committed
  BY <1>1 DEF git, Committed
<1>3. ASSUME NEW u \in Unit PROVE Sound(u)' /\ Landed(u)'
  <2>1. \/ linear'[u] = linear[u]
        \/ u \notin Committed /\ sub[u] # "committed" /\ linear'[u] = "unstarted"
    BY TypeParts DEF IInv, LinearType, Pickup, SendBack, CleanUp
  <2> QED
    BY <2>1, <1>1, <1>2 DEF IInv, Position, Sound, Landed, git, memory, AtWork
<1>4. Position'
  <2>1. Pickup => run' \in Run
    BY PickupCounts, TypeParts DEF IInv
  <2>2. phase' # "idle" => run' \in Run
    BY <1>1, <2>1 DEF SendBack, CleanUp
  <2> QED
    BY <1>1, <2>2 DEF IInv, Position, memory
<1>5. Offered'
  BY <1>1, <1>2 DEF IInv, Offered, git, Handoff
<1> QED
  BY <1>3, <1>4, <1>5 DEF Held

LEMMA StepKeeps == IInv /\ [Next]_vars => Held' /\ Offered'
<1> SUFFICES ASSUME IInv, [Next]_vars PROVE Held' /\ Offered'
  OBVIOUS
<1>1. CASE Pause \/ Crash \/ \E u \in Unit : Conflict(u)
  BY <1>1, OverKeeps DEF Pause, Crash, Conflict, records
<1>2. CASE UNCHANGED vars
  <2>1. Committed' = Committed
    BY <1>2 DEF vars, git, Committed
  <2> QED
    BY <1>2, <2>1 DEF vars, git, records, memory, IInv, Held, Position, Sound, Landed,
                      Offered, Handoff, AtWork
<1> QED
  BY <1>1, <1>2, WorkKeeps, TransitionKeeps, CommitKeeps, ReconcileKeeps, FormGroupKeeps,
     NoneReadyKeeps, TeardownKeeps, EndGroupKeeps, HandoffKeeps, IdleKeeps DEF Next, Step

\* Nothing that was committed or trusted is forgotten.
LEMMA LandedStays ==
  ASSUME IInv, [Next]_vars
  PROVE  Committed \cup trusted \subseteq Committed' \cup trusted'
<1>1. ASSUME NEW u \in Unit, Commit(u) \/ Collect(u) PROVE Committed \subseteq Committed'
  BY <1>1, CommitAdds, TypeParts DEF IInv, Commit, Collect, Committed
<1>2. UNCHANGED branch => UNCHANGED Committed
  BY DEF Committed
<1>3. Committed \subseteq Committed'
  BY <1>1, <1>2 DEF Next, Step, vars, git, Pickup, Pause, Reconcile, FormGroup, NoneReady,
     Claim, Dispatch, Return, GateOk, NeedsChanges, Record, Transition, Teardown, Conflict,
     EndGroup, Push, RunEnd, RecordRun, InReview, Crash, SendBack, CleanUp
<1>4. trusted \subseteq trusted'
  BY DEF Next, Step, vars, records, Pickup, Pause, Reconcile, FormGroup, NoneReady,
     Claim, Dispatch, Return, GateOk, NeedsChanges, Record, Transition, Commit, Collect,
     Teardown, Conflict, EndGroup, Push, RunEnd, RecordRun, InReview, Crash, SendBack, CleanUp
<1> QED
  BY <1>3, <1>4

\* While a group is dispatched, a Done unit stays Done.
LEMMA DoneStays ==
  ASSUME IInv, [Next]_vars, phase = "dispatch", NEW b \in Unit, linear[b] = "completed"
  PROVE  linear'[b] = "completed"
<1>1. LinearType
  BY TypeParts DEF IInv
<1>2. ASSUME NEW u \in Unit, Claim(u) PROVE linear'[b] = "completed"
  <2>1. u # b
    BY <1>2 DEF IInv, Sound, AtWork, Claim
  <2> QED
    BY <1>1, <1>2, <2>1 DEF Claim, LinearType
<1>3. ASSUME NEW u \in Unit, Transition(u) PROVE linear'[b] = "completed"
  BY <1>1, <1>3 DEF Transition, LinearType
<1> QED
  BY <1>2, <1>3 DEF Next, Step, vars, Pickup, Pause, Reconcile, FormGroup, NoneReady,
     Dispatch, Return, GateOk, NeedsChanges, Record, Commit, Collect, Teardown, Conflict,
     EndGroup, Push, RunEnd, RecordRun, InReview, Crash, SendBack, CleanUp

LEMMA ClearedStep ==
  ASSUME IInv, [Next]_vars, NEW u \in Unit
  PROVE  Cleared(u)'
<1> SUFFICES ASSUME phase' = "dispatch", u \in group'
             PROVE  /\ Before[u] \subseteq Committed' \cup trusted'
                    /\ \A b \in Before[u] : linear'[b] = "completed"
  BY DEF Cleared
<1>1. Before[u] \subseteq Unit
  BY UnitAssumption
<1>2. \/ FormGroup
      \/ phase = "dispatch" /\ group' = group
  BY DEF Next, Step, vars, memory, Pickup, Pause, Reconcile, NoneReady, Claim, Dispatch,
     Return, GateOk, NeedsChanges, Record, Transition, Commit, Collect, Teardown, Conflict,
     EndGroup, Push, RunEnd, RecordRun, InReview, Crash, SendBack, CleanUp, Over
<1>3. /\ Before[u] \subseteq Committed \cup trusted
      /\ \A b \in Before[u] : linear[b] = "completed"
  <2>1. CASE FormGroup
    <3>1. \A b \in Before[u] : linear[b] = "completed"
      BY <2>1 DEF FormGroup, Ready
    <3>2. phase = "walk"
      BY <2>1 DEF FormGroup
    <3> QED
      BY <3>1, <3>2, <1>1 DEF IInv, Landed
  <2>2. CASE phase = "dispatch" /\ group' = group
    BY <2>2 DEF IInv, Cleared
  <2> QED
    BY <1>2, <2>1, <2>2
<1>4. ASSUME NEW b \in Before[u] PROVE linear'[b] = "completed"
  <2>1. CASE FormGroup
    BY <2>1, <1>3 DEF FormGroup
  <2>2. CASE phase = "dispatch"
    BY <2>2, <1>1, <1>3, DoneStays
  <2> QED
    BY <1>2, <2>1, <2>2
<1> QED
  BY <1>3, <1>4, LandedStays

-------------------------------------------------------------------------------
\* The types are kept.
LEMMA LinearTypeStep == LinearType /\ [Next]_vars => LinearType'
BY DEF LinearType, Next, Step, vars, Pickup, Pause, Reconcile, FormGroup, NoneReady, Claim,
       Dispatch, Return, GateOk, NeedsChanges, Record, Transition, Commit, Collect, Teardown,
       Conflict, EndGroup, Push, RunEnd, RecordRun, InReview, Crash, SendBack, CleanUp

LEMMA RunTypeStep == RunType /\ [Next]_vars => RunType'
<1> SUFFICES ASSUME RunType, [Next]_vars PROVE RunType'
  OBVIOUS
<1>1. run' \in 0 .. MaxRuns
  <2>1. CASE Pickup
    <3>1. run' \in 1 .. MaxRuns
      BY <2>1, PickupCounts DEF Run
    <3> QED
      BY <3>1, RunsAssumption
  <2>2. CASE run' = run
    BY <2>2 DEF RunType
  <2> QED
    BY <2>1, <2>2 DEF Next, Step, vars, Pause, Reconcile, FormGroup, NoneReady, Claim, Dispatch,
           Return, GateOk, NeedsChanges, Record, Transition, Commit, Collect, Teardown,
           Conflict, EndGroup, Push, RunEnd, RecordRun, InReview, Crash, SendBack, CleanUp
<1>2. problem' \in {"todo", "in progress", "in review"}
  BY DEF RunType, Next, Step, vars, Pickup, Pause, Reconcile, FormGroup, NoneReady, Claim,
         Dispatch, Return, GateOk, NeedsChanges, Record, Transition, Commit, Collect, Teardown,
         Conflict, EndGroup, Push, RunEnd, RecordRun, InReview, Crash, SendBack, CleanUp
<1>3. phase' \in {"idle", "reconcile", "walk", "dispatch", "push", "run end", "ledger", "handback"}
  BY DEF RunType, Next, Step, vars, Pickup, Pause, Reconcile, FormGroup, NoneReady, Claim,
         Dispatch, Return, GateOk, NeedsChanges, Record, Transition, Commit, Collect, Teardown,
         Conflict, EndGroup, Push, RunEnd, RecordRun, InReview, Crash, SendBack, CleanUp,
         Over, memory
<1> QED
  BY <1>1, <1>2, <1>3 DEF RunType

LEMMA RecordTypeStep == RecordType /\ StepType /\ Position /\ [Next]_vars => RecordType'
<1> SUFFICES ASSUME RecordType, StepType, Position, [Next]_vars PROVE RecordType'
  OBVIOUS
<1>1. ASSUME NEW u \in Unit, Dispatch(u) \/ Record(u) PROVE run \in Run
  BY <1>1 DEF Position, Dispatch, Record
<1>2. ASSUME NEW u \in Unit, Dispatch(u) PROVE RecordType'
  BY <1>1, <1>2 DEF RecordType, Dispatch, BestEffort, records
<1>3. ASSUME NEW u \in Unit, Record(u) PROVE RecordType'
  BY <1>1, <1>3 DEF RecordType, Record, BestEffort, records
<1>4. ASSUME RunEnd \/ RecordRun PROVE RecordType'
  <2>1. run \in Run
    BY <1>4 DEF Position, RunEnd, RecordRun
  <2> QED
    BY <1>4, <2>1 DEF RecordType, RunEnd, RecordRun, BestEffort, edges
<1>5. ASSUME NEW u \in Unit, CleanUp(u) PROVE RecordType'
  BY <1>5 DEF RecordType, CleanUp, records
<1>6. ASSUME UNCHANGED <<edges, records>> PROVE RecordType'
  BY <1>6 DEF RecordType, edges, records
<1>7. ASSUME Reconcile PROVE RecordType'
  BY <1>7 DEF RecordType, Reconcile, edges
<1> QED
  BY <1>2, <1>3, <1>4, <1>5, <1>6, <1>7 DEF Next, Step, vars, Pickup, Pause, FormGroup,
     NoneReady, Claim, Return, GateOk, NeedsChanges, Transition, Commit, Collect, Teardown,
     Conflict, EndGroup, Push, InReview, Crash, SendBack

LEMMA GitTypeStep == GitType /\ [Next]_vars => GitType'
<1> SUFFICES ASSUME GitType, [Next]_vars PROVE GitType'
  OBVIOUS
<1>1. ASSUME NEW u \in Unit, Commit(u) \/ Collect(u) \/ Teardown(u) PROVE GitType'
  <2>1. branch' \in Seq(Unit)
    BY <1>1, CommitAdds DEF GitType, Commit, Collect, Teardown
  <2> QED
    BY <1>1, <2>1 DEF GitType, Commit, Collect, Teardown
<1>2. ASSUME Push PROVE GitType'
  BY <1>2, CommittedAreUnits DEF GitType, Push
<1>3. ASSUME Reconcile \/ FormGroup PROVE GitType'
  BY <1>3 DEF GitType, Reconcile, FormGroup
<1>4. ASSUME UNCHANGED git PROVE GitType'
  BY <1>4 DEF GitType, git
<1> QED
  BY <1>1, <1>2, <1>3, <1>4 DEF Next, Step, vars, Pickup, Pause, NoneReady, Claim, Dispatch,
     Return, GateOk, NeedsChanges, Record, Transition, Conflict, EndGroup, RunEnd, RecordRun,
     InReview, Crash, SendBack, CleanUp

LEMMA StepTypeStep == StepType /\ [Next]_vars => StepType'
<1> SUFFICES ASSUME StepType, [Next]_vars PROVE StepType'
  OBVIOUS
<1>1. ASSUME Over PROVE StepType'
  BY <1>1 DEF StepType, Over
<1>2. ASSUME FormGroup PROVE StepType'
  BY <1>2 DEF StepType, FormGroup, Ready
<1>3. ASSUME NEW u \in Unit,
             Claim(u) \/ Dispatch(u) \/ Return(u) \/ GateOk(u) \/ NeedsChanges(u)
               \/ Record(u) \/ Transition(u) \/ Commit(u)
      PROVE  StepType'
  <2>1. group' = group
    BY <1>3 DEF Claim, Dispatch, Return, GateOk, NeedsChanges, Record, Transition, Commit
  <2>2. \E to \in {"start", "running", "gate", "record", "transition", "commit", "finished"} :
          step' = [step EXCEPT ![u] = to]
    BY <1>3 DEF Claim, Dispatch, Return, GateOk, NeedsChanges, Record, Transition, Commit, Go
  <2>3. status' = status \/ \E s \in {"done", "stopped"} : status' = [status EXCEPT ![u] = s]
    BY <1>3 DEF Claim, Dispatch, Return, GateOk, NeedsChanges, Record, Transition, Commit
  <2> QED
    BY <2>1, <2>2, <2>3 DEF StepType
<1>4. ASSUME UNCHANGED memory PROVE StepType'
  BY <1>4 DEF StepType, memory
<1>5. ASSUME EndGroup PROVE StepType'
  BY <1>5, <1>1 DEF EndGroup, StepType
<1> QED
  BY <1>1, <1>2, <1>3, <1>4, <1>5 DEF Next, Step, vars, Pickup, Pause, Reconcile, NoneReady,
     Collect, Teardown, Conflict, Push, RunEnd, RecordRun, InReview, Crash, SendBack, CleanUp

LEMMA CountTypeStep == CountType /\ [Next]_vars => CountType'
<1> SUFFICES ASSUME CountType, [Next]_vars PROVE CountType'
  OBVIOUS
<1>1. rounds' \in [Unit -> 0 .. MaxRounds]
  <2>1. ASSUME Over PROVE rounds' \in [Unit -> 0 .. MaxRounds]
    BY <2>1 DEF Over, MaxRounds
  <2>2. ASSUME NEW u \in Unit, NeedsChanges(u) PROVE rounds' \in [Unit -> 0 .. MaxRounds]
    BY <2>2 DEF CountType, NeedsChanges, MaxRounds
  <2>3. ASSUME rounds' = rounds PROVE rounds' \in [Unit -> 0 .. MaxRounds]
    BY <2>3 DEF CountType
  <2> QED
    BY <2>1, <2>2, <2>3 DEF Next, Step, vars, memory, Pickup, Pause, Reconcile, FormGroup,
       NoneReady, Claim, Dispatch, Return, GateOk, Record, Transition, Commit, Collect, Teardown,
       Conflict, EndGroup, Push, RunEnd, RecordRun, InReview, Crash, SendBack, CleanUp
<1>2. lost' \in 0 .. MaxLost
  <2>1. lost' = lost \/ (lost < MaxLost /\ lost' = lost + 1)
    BY DEF Next, Step, vars, bounds, BestEffort, Pickup, Pause, Reconcile, FormGroup,
       NoneReady, Claim, Dispatch, Return, GateOk, NeedsChanges, Record, Transition, Commit,
       Collect, Teardown, Conflict, EndGroup, Push, RunEnd, RecordRun, InReview, Crash,
       SendBack, CleanUp
  <2>2. lost \in 0 .. MaxLost
    BY DEF CountType
  <2> QED
    BY <2>1, <2>2, RunsAssumption
<1>3. crashes' \in 0 .. MaxCrash
  <2>1. crashes' = crashes \/ (crashes < MaxCrash /\ crashes' = crashes + 1)
    BY DEF Next, Step, vars, bounds, Pickup, Pause, Reconcile, FormGroup,
       NoneReady, Claim, Dispatch, Return, GateOk, NeedsChanges, Record, Transition, Commit,
       Collect, Teardown, Conflict, EndGroup, Push, RunEnd, RecordRun, InReview, Crash,
       SendBack, CleanUp
  <2>2. crashes \in 0 .. MaxCrash
    BY DEF CountType
  <2> QED
    BY <2>1, <2>2, RunsAssumption
<1> QED
  BY <1>1, <1>2, <1>3 DEF CountType

-------------------------------------------------------------------------------
\* The invariant holds at the start, ...
LEMMA InvInit == Init => IInv
<1> SUFFICES ASSUME Init PROVE IInv
  OBVIOUS
<1>1. TypeOK
  BY RunsAssumption DEF Init, TypeOK, MaxRounds
<1>2. Committed = {}
  BY DEF Init, Committed, ToSet
<1>3. ASSUME NEW u \in Unit PROVE Sound(u) /\ Landed(u) /\ Cleared(u)
  <2>1. Sound(u)
    BY <1>2 DEF Init, Sound, AtWork
  <2>2. Landed(u) /\ Cleared(u)
    BY DEF Init, Landed, Cleared
  <2> QED
    BY <2>1, <2>2
<1>4. Position /\ Offered
  BY DEF Init, Position, Offered, Handoff
<1> QED
  BY <1>1, <1>3, <1>4 DEF IInv

\* ... and every step of every run keeps it.
LEMMA InvStep == IInv /\ [Next]_vars => IInv'
<1> SUFFICES ASSUME IInv, [Next]_vars PROVE IInv'
  OBVIOUS
<1>1. Held' /\ Offered'
  BY StepKeeps
<1>2. LinearType /\ RunType /\ RecordType /\ GitType /\ StepType /\ CountType /\ Position
  BY TypeParts DEF IInv
<1>3. LinearType' /\ RunType' /\ RecordType' /\ GitType' /\ StepType' /\ CountType'
  BY <1>2, LinearTypeStep, RunTypeStep, RecordTypeStep, GitTypeStep, StepTypeStep, CountTypeStep
<1>4. TypeOK'
  BY <1>3 DEF TypeOK, LinearType, RunType, RecordType, GitType, StepType, CountType
<1> QED
  BY <1>1, <1>4, ClearedStep DEF IInv, Held

LEMMA Invariance == Spec => []IInv
BY InvInit, InvStep, PTL DEF Spec

-------------------------------------------------------------------------------
\* Linear, the graph, the ledger, git and the run's memory keep their types over
\* any number of runs, crashes and lost telemetry writes.
THEOREM TypeCorrect == Spec => []TypeOK
<1>1. IInv => TypeOK
  BY DEF IInv
<1> QED
  BY <1>1, Invariance, PTL

\* A developer is called only when the work of every unit its unit is blocked by is
\* on the branch (walk.md, "Ready"; dispatch.md, step 4), or was taken as being there
\* by a reconcile that paired the missing commit with the graph (resume.md:102-104).
THEOREM BlockersArePresent == Spec => []BlockersPresent
<1>1. IInv => BlockersPresent
  BY DEF IInv, Position, Cleared, BlockersPresent
<1> QED
  BY <1>1, Invariance, PTL

\* A record in the solve ledger means every unit is in the pull request, but those
\* whose missing commit a reconcile let the graph make up for.
THEOREM LedgerIsHonest == Spec => []LedgerMeansHandedOff
<1>1. IInv => LedgerMeansHandedOff
  BY DEF IInv, Offered, LedgerMeansHandedOff
<1> QED
  BY <1>1, Invariance, PTL

\* No step drops a sub-branch whose commit is not on the problem's branch: not a new
\* group, not a conflict, not the teardown; the reconcile only when the unit is Done
\* in Linear and last solved on the graph (resume.md:133-136).
THEOREM WorkIsKept == Spec => NoWorkLost
<1> DEFINE Kept == \A u \in Unit : sub[u] = "committed" =>
              \/ sub'[u] = "committed" \/ u \in ToSet(branch')
              \/ phase = "reconcile" /\ linear[u] = "completed" /\ LastOutcome(u, "solved")
<1>1. IInv /\ [Next]_vars => [Kept]_vars
  <2> SUFFICES ASSUME IInv, [Next]_vars, NEW u \in Unit, sub[u] = "committed"
               PROVE  \/ sub'[u] = "committed" \/ u \in Committed'
                      \/ /\ phase = "reconcile" /\ linear[u] = "completed"
                         /\ LastOutcome(u, "solved")
    BY DEF Committed
  <2>1. linear[u] = "completed" /\ GitType
    BY TypeParts DEF IInv, Sound
  <2>2. CASE Reconcile
    <3>1. Classify(u) = "completed"
      BY <2>1, <2>2, CompletedIsSolved DEF Reconcile, InconsistentUnits
    <3> QED
      BY <3>1, <2>2, CompletedIsSolved DEF Reconcile
  <2>3. CASE FormGroup
    BY <2>1, <2>3 DEF FormGroup, Ready
  <2>4. ASSUME NEW v \in Unit, Commit(v) PROVE sub'[u] = "committed"
    BY <2>1, <2>4 DEF Commit, GitType
  <2>5. ASSUME NEW v \in Unit, Collect(v)
        PROVE  sub'[u] = "committed" \/ u \in Committed'
    <3>1. Committed' = Committed \cup {v}
      BY <2>1, <2>5, CommitAdds DEF Collect
    <3> QED
      BY <3>1, <2>5 DEF Collect
  <2>6. ASSUME NEW v \in Unit, Teardown(v) PROVE sub'[u] = "committed"
    BY <2>6 DEF Teardown
  <2>7. CASE UNCHANGED sub
    BY <2>7
  <2> QED
    BY <2>2, <2>3, <2>4, <2>5, <2>6, <2>7 DEF Next, Step, vars, git, Pickup, Pause, NoneReady,
       Claim, Dispatch, Return, GateOk, NeedsChanges, Record, Transition, Conflict, EndGroup,
       Push, RunEnd, RecordRun, InReview, Crash, SendBack, CleanUp
<1> QED
  BY <1>1, Invariance, PTL DEF Spec, NoWorkLost

-------------------------------------------------------------------------------
\* What has landed, in Delivery's terms.
LEMMA LandedIsCommitted == Promise!ToSet(branch) = Committed
BY DEF Committed, ToSet, Promise!ToSet

\* The units that are Done, which no step but a transition and a clean-up changes.
Finished == {u \in Unit : linear[u] = "completed"}

LEMMA ClaimFinishesNone ==
  ASSUME IInv, NEW u \in Unit, Claim(u)
  PROVE  Finished' = Finished
<1>1. LinearType /\ linear[u] # "completed"
  BY TypeParts DEF IInv, Sound, AtWork, Claim
<1> QED
  BY <1>1 DEF Claim, LinearType, Finished

\* A transition finishes a unit, after the units it is blocked by.
LEMMA FinishImplemented ==
  ASSUME IInv, NEW u \in Unit, Transition(u)
  PROVE  Promise!Finish(u) \/ UNCHANGED <<Finished, branch, trusted, pr, problem>>
<1>1. LinearType /\ linear[u] # "completed" /\ phase = "dispatch" /\ u \in group
  BY TypeParts DEF IInv, Position, Sound, AtWork, Transition
<1>2. UNCHANGED <<branch, trusted, pr, problem>>
  BY DEF Transition, git, records
<1>3. CASE status[u] = "done"
  <2>1. Finished' = Finished \cup {u} /\ u \notin Finished
    BY <1>1, <1>3 DEF Transition, LinearType, Finished
  <2>2. Before[u] \subseteq Finished
    BY <1>1, UnitAssumption DEF IInv, Cleared, Finished
  <2> QED
    BY <1>2, <2>1, <2>2 DEF Promise!Finish, Finished
<1>4. CASE status[u] # "done"
  BY <1>2, <1>4 DEF Transition, Finished
<1> QED
  BY <1>3, <1>4

\* Commits and collects land one Done unit's work, once, after its blockers'.
LEMMA LandImplemented ==
  ASSUME IInv, NEW u \in Unit, Commit(u) \/ Collect(u)
  PROVE  Promise!Land(u) \/ UNCHANGED <<Finished, branch, trusted, pr, problem>>
<1>1. phase = "dispatch" /\ u \in group /\ u \notin Committed /\ linear[u] = "completed"
  BY DEF IInv, Position, Sound, Commit, Collect, GroupFinished
<1>2. Before[u] \subseteq Committed \cup trusted
  BY <1>1 DEF IInv, Cleared
<1>3. UNCHANGED <<Finished, trusted, pr, problem>>
  BY DEF Commit, Collect, Finished, records
<1>4. UNCHANGED branch \/ branch' = Append(branch, u)
  BY DEF Commit, Collect
<1> QED
  BY <1>1, <1>2, <1>3, <1>4, LandedIsCommitted DEF Promise!Land, Finished

\* A reconcile excuses Done units that did not land.
LEMMA ExcuseImplemented == Reconcile => Promise!Excuse
<1> SUFFICES ASSUME Reconcile PROVE Promise!Excuse
  OBVIOUS
<1> DEFINE U == {u \in Unit : Doubtful(u)}
<1>1. U \in SUBSET (Finished \ Committed)
  BY CompletedIsSolved DEF Doubtful, Finished
<1>2. trusted' = trusted \cup U /\ UNCHANGED <<Finished, branch, pr, problem>>
  BY DEF Reconcile, Finished
<1> HIDE DEF U
<1> QED
  BY <1>1, <1>2, LandedIsCommitted DEF Promise!Excuse, Finished

\* The handoff offers the complete branch, and puts the problem In Review with it.
LEMMA OfferImplemented ==
  ASSUME IInv, Push \/ InReview
  PROVE  \/ Promise!Offer \/ Promise!HandOver
         \/ UNCHANGED <<Finished, branch, trusted, pr, problem>>
<1>1. CASE Push
  <2>1. UNCHANGED <<Finished, branch, trusted, problem>>
    BY <1>1 DEF Push, Finished, records
  <2>2. Committed \cup trusted = Unit /\ Finished = Unit
    BY <1>1 DEF Push, IInv, Offered, Handoff, Finished
  <2>3. pr' = pr \/ pr' = Committed
    BY <1>1 DEF Push
  <2> QED
    BY <2>1, <2>2, <2>3, LandedIsCommitted DEF Promise!Offer, Finished
<1>2. CASE InReview
  <2>1. UNCHANGED <<Finished, branch, trusted, pr>> /\ problem' = "in review"
    BY <1>2 DEF InReview, Finished, git, records
  <2>2. pr \cup trusted = Unit
    BY <1>2 DEF InReview, IInv, Offered, Handoff
  <2> QED
    BY <2>1, <2>2 DEF Promise!HandOver, Finished
<1> QED
  BY <1>1, <1>2

\* A clean-up takes a unit that did not land back, Done or not.
LEMMA ReopenImplemented ==
  ASSUME IInv, NEW u \in Unit, CleanUp(u)
  PROVE  Promise!Reopen(u) \/ UNCHANGED <<Finished, branch, trusted, pr, problem>>
<1>1. LinearType /\ u \notin Committed
  BY TypeParts DEF IInv, CleanUp
<1>2. UNCHANGED <<branch, trusted, pr, problem>>
  BY DEF CleanUp, git, records
<1>3. Finished' = Finished \ {u}
  BY <1>1 DEF CleanUp, LinearType, Finished
<1> QED
  BY <1>1, <1>2, <1>3, LandedIsCommitted DEF Promise!Reopen, Finished

\* Every step of the solve loop is a step of Delivery or changes nothing it sees.
LEMMA StepImplemented ==
  IInv /\ [Next]_vars => [Promise!DNext]_(Promise!dvars)
<1> SUFFICES ASSUME IInv, [Next]_vars
             PROVE  Promise!DNext \/ UNCHANGED <<Finished, branch, trusted, pr, problem>>
  BY DEF Promise!dvars, Finished
<1>1. ASSUME SendBack PROVE Promise!SendBack
  BY <1>1 DEF SendBack, Promise!SendBack, git, records
<1>2. CASE Push \/ InReview
  BY <1>2, OfferImplemented DEF Promise!DNext
<1>3. ASSUME NEW u \in Unit,
             Claim(u) \/ Transition(u) \/ Commit(u) \/ Collect(u) \/ CleanUp(u)
      PROVE  Promise!DNext \/ UNCHANGED <<Finished, branch, trusted, pr, problem>>
  <2>1. Claim(u) => UNCHANGED <<Finished, branch, trusted, pr, problem>>
    BY ClaimFinishesNone DEF Claim, git, records
  <2> QED
    BY <1>3, <2>1, FinishImplemented, LandImplemented, ReopenImplemented DEF Promise!DNext
<1>4. ASSUME Reconcile PROVE Promise!DNext
  BY <1>4, ExcuseImplemented DEF Promise!DNext
<1>5. CASE UNCHANGED <<linear, branch, trusted, pr, problem>>
  BY <1>5 DEF Finished
<1> QED
  BY <1>1, <1>2, <1>3, <1>4, <1>5 DEF Promise!DNext, Next, Step, vars, git, records, Pickup,
     Pause, FormGroup, NoneReady, Dispatch, Return, GateOk, NeedsChanges, Record, Teardown,
     Conflict, EndGroup, RunEnd, RecordRun, Crash

\* Over all its runs, whatever is killed and whatever telemetry is lost, the solve
\* loop delivers what Delivery promises: each unit lands once, after it is Done and
\* after its blockers, the pull request shows every unit that is not excused, and In
\* Review is set only with it.
THEOREM SolveImplementsDelivery == Spec => ImplementsDelivery
<1>1. Init => Promise!DInit
  BY DEF Init, Promise!DInit
<1> QED
  BY <1>1, StepImplemented, Invariance, PTL DEF Spec, ImplementsDelivery, Promise!DSpec
===============================================================================
