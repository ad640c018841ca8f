--------------------------- MODULE ClaimLock_proofs ---------------------------
(***************************************************************************)
(* Proofs about ClaimLock, for any sessions, TTL and bounds.  Exclusive,   *)
(* OneClaimComment and MergedHeadReviewed speak of orderly executions: no  *)
(* two sessions between their check and their acquire, a claim refreshed   *)
(* before its TTL, and no --steal.  The others hold of every execution.    *)
(***************************************************************************)
EXTENDS ClaimLock, FiniteSetTheorems, TLAPS

\* What saving a claim comment leaves: the most recent comment is the session's,
\* fresh, and live or a tombstone as asked.
LEMMA SaveResult ==
  ASSUME ClaimType, NEW s \in Session, seen[s] \in Session \cup {None},
         NEW live \in BOOLEAN, Save(s, live)
  PROVE  /\ ClaimType'
         /\ latest' # None
         /\ comment'[latest'] = [holder |-> s, age |-> 0, live |-> live]
         /\ seen' = [seen EXCEPT ![s] = None]
<1> DEFINE c == IF seen[s] = None THEN s ELSE seen[s]
           new == [holder |-> s, age |-> 0, live |-> live]
<1>1. c \in Session /\ None \notin Session
  BY ClaimAssumption
<1>2. new \in Comment
  BY ClaimAssumption DEF Comment
<1>3. comment' = [comment EXCEPT ![c] = new] /\ latest' = c /\ seen' = [seen EXCEPT ![s] = None]
  BY DEF Save
<1> HIDE DEF c, new
<1>4. ClaimType' /\ comment'[latest'] = new /\ latest' # None
  BY <1>1, <1>2, <1>3 DEF ClaimType
<1> QED
  BY <1>3, <1>4 DEF new

-------------------------------------------------------------------------------
LEMMA ClaimTypeStep == ClaimType /\ RunType /\ [Next]_vars => ClaimType'
<1> SUFFICES ASSUME ClaimType, RunType, [Next]_vars PROVE ClaimType'
  OBVIOUS
<1>1. CASE Tick
  <2>1. ASSUME NEW s \in Session
        PROVE  [comment[s] EXCEPT !.age = IF comment[s].live /\ @ <= TTL THEN @ + 1 ELSE @] \in Comment
    <3>1. comment[s] \in Comment
      BY DEF ClaimType
    <3>2. TTL \in Nat
      BY ClaimAssumption
    <3> QED
      BY <3>1, <3>2 DEF Comment
  <2> QED
    BY <1>1, <2>1 DEF Tick, ClaimType
<1>2. ASSUME NEW s \in Session, Acquire(s) \/ Dispatch(s) \/ ReleaseWrite(s) PROVE ClaimType'
  BY <1>2, SaveResult DEF Acquire, Dispatch, ReleaseWrite, RunType
<1>3. ASSUME UNCHANGED claim PROVE ClaimType'
  BY <1>3 DEF claim, ClaimType
<1> QED
  BY <1>1, <1>2, <1>3 DEF Next, Step, vars, claim, Pickup, PickupStealing, AcquireRead, Recheck, Blocked, Handoff,
     Accept, SendBack, NeedsYou, Guard, Merge, Close, ReleaseRead, Crash

LEMMA RunTypeStep == ClaimType /\ RunType /\ [Next]_vars => RunType'
<1> SUFFICES ASSUME ClaimType, RunType, [Next]_vars PROVE RunType'
  OBVIOUS
<1>1. ASSUME NEW s \in Session, NEW to \in AtWork \cup PickingUp \cup {"ended", "crashed"}, Go(s, to),
             \/ seen' = seen
             \/ seen' = [seen EXCEPT ![s] = latest]
             \/ seen' = [seen EXCEPT ![s] = None]
      PROVE  RunType'
  BY <1>1 DEF Go, RunType, ClaimType
<1>2. ASSUME NEW s \in Session, Step(s) \/ PickupStealing(s) \/ Crash(s) PROVE RunType'
  BY <1>1, <1>2 DEF Step, ship, claim, AtWork, PickingUp, Stop, Save, Pickup, PickupStealing,
     AcquireRead, Acquire, Recheck, Dispatch, Blocked, Handoff, Accept, SendBack, NeedsYou, Guard,
     Merge, Close, ReleaseRead, ReleaseWrite, Crash
<1>3. ASSUME UNCHANGED <<pc, seen>> PROVE RunType'
  BY <1>3 DEF RunType
<1> QED
  BY <1>2, <1>3 DEF Next, Tick, vars

LEMMA CountTypeStep == CountType /\ [Next]_vars => CountType'
<1> SUFFICES ASSUME CountType, [Next]_vars PROVE CountType'
  OBVIOUS
<1>1. orderly' \in BOOLEAN
  BY DEF CountType, Next, Step, Tick, vars, Pickup, PickupStealing, AcquireRead, Acquire, Recheck,
     Dispatch, Blocked, Handoff, Accept, SendBack, NeedsYou, Guard, Merge, Close, ReleaseRead,
     ReleaseWrite, Crash
<1>2. units' \in 0 .. MaxUnits
  <2>1. ASSUME NEW s \in Session, Recheck(s) PROVE units' \in 0 .. MaxUnits
    BY <2>1, ClaimAssumption DEF Recheck, CountType
  <2>2. ASSUME UNCHANGED units PROVE units' \in 0 .. MaxUnits
    BY <2>2 DEF CountType
  <2> QED
    BY <2>1, <2>2 DEF Next, Step, Tick, vars, Pickup, PickupStealing, AcquireRead, Acquire,
       Dispatch, Blocked, Handoff, Accept, SendBack, NeedsYou, Guard, Merge, Close, ReleaseRead,
       ReleaseWrite, Crash
<1>3. crashes' \in 0 .. MaxCrash
  <2>1. ASSUME NEW s \in Session, Crash(s) PROVE crashes' \in 0 .. MaxCrash
    BY <2>1, ClaimAssumption DEF Crash, CountType
  <2>2. ASSUME UNCHANGED crashes PROVE crashes' \in 0 .. MaxCrash
    BY <2>2 DEF CountType
  <2> QED
    BY <2>1, <2>2 DEF Next, Step, Tick, vars, Pickup, PickupStealing, AcquireRead, Acquire,
       Recheck, Dispatch, Blocked, Handoff, Accept, SendBack, NeedsYou, Guard, Merge, Close,
       ReleaseRead, ReleaseWrite
<1> QED
  BY <1>1, <1>2, <1>3 DEF CountType

LEMMA ShipTypeStep == ShipType /\ [Next]_vars => ShipType'
<1> SUFFICES ASSUME ShipType, [Next]_vars PROVE ShipType'
  OBVIOUS
<1>1. ASSUME NEW s \in Session, Handoff(s) PROVE ShipType'
  <2>1. head \in 0 .. MaxPush /\ head < MaxPush /\ MaxPush \in Nat /\ head' = head + 1
    BY <1>1, ClaimAssumption DEF Handoff, ShipType
  <2>2. head' \in 0 .. MaxPush
    BY <2>1
  <2>3. problem' = "in review" /\ pr' = "open" /\ UNCHANGED <<approved, merged>>
    BY <1>1 DEF Handoff
  <2> QED
    BY <2>2, <2>3 DEF ShipType
<1>2. ASSUME NEW s \in Session, Dispatch(s) \/ Accept(s) \/ SendBack(s) \/ Merge(s) \/ Close(s)
      PROVE  ShipType'
  BY <1>2 DEF Dispatch, Accept, SendBack, Merge, Close, ShipType
<1>3. ASSUME UNCHANGED ship PROVE ShipType'
  BY <1>3 DEF ship, ShipType
<1> QED
  BY <1>1, <1>2, <1>3 DEF Next, Step, Tick, vars, ship, Pickup, PickupStealing, AcquireRead,
     Acquire, Recheck, Blocked, NeedsYou, Guard, ReleaseRead, ReleaseWrite, Crash

LEMMA TypeInit == Init => TypeOK
<1> SUFFICES ASSUME Init PROVE TypeOK
  OBVIOUS
<1>1. NoComment \in Comment
  BY ClaimAssumption DEF NoComment, Comment
<1> QED
  BY <1>1, ClaimAssumption DEF Init, TypeOK, ClaimType, RunType, CountType, ShipType

\* Every variable of the claim protocol keeps its type, whatever the sessions do.
THEOREM TypeCorrect == Spec => []TypeOK
<1>1. TypeOK /\ [Next]_vars => TypeOK'
  BY ClaimTypeStep, RunTypeStep, CountTypeStep, ShipTypeStep DEF TypeOK
<1> QED
  BY <1>1, TypeInit, PTL DEF Spec

-------------------------------------------------------------------------------
\* A session at work holds the live claim; a session on its way to one is alone.
Holding ==
  /\ \A s \in Session : pc[s] \in AtWork => Mine(s)
  /\ \A s, t \in Session : pc[s] \in PickingUp /\ pc[t] \in AtWork \cup PickingUp => s = t

\* Two sessions at work would both be the holder of the same comment.
LEMMA HoldingExcludes == Holding => Alone
BY DEF Holding, Alone, Mine

\* What a session does once out of order is not forgotten.
LEMMA OrderlyBefore == [Next]_vars /\ orderly' => orderly
BY DEF Next, Step, Tick, vars, Pickup, PickupStealing, AcquireRead, Acquire, Recheck, Dispatch,
   Blocked, Handoff, Accept, SendBack, NeedsYou, Guard, Merge, Close, ReleaseRead, ReleaseWrite, Crash

LEMMA HoldingStep ==
  ASSUME orderly', ClaimType, RunType, Holding, [Next]_vars
  PROVE  Holding'
<1>1. CASE Tick
  <2> SUFFICES ASSUME NEW s \in Session, pc[s] \in AtWork PROVE Mine(s)'
    BY <1>1 DEF Tick, Holding
  <2>1. Mine(s) /\ latest \in Session /\ comment[latest] \in Comment
    BY DEF Holding, Mine, Live, ClaimType
  <2>2. comment[latest].age # TTL
    BY <1>1, <2>1 DEF Tick
  <2>3. comment[latest].age \in Nat /\ TTL \in Nat /\ comment[latest].age < TTL
    BY <2>1, <2>2, ClaimAssumption DEF Mine, Live, Comment
  <2>4. /\ latest' = latest
        /\ comment'[latest] = [comment[latest] EXCEPT !.age = @ + 1]
    BY <1>1, <2>1, <2>3 DEF Tick, Mine, Live
  <2>5. /\ comment'[latest].age <= TTL
        /\ comment'[latest].holder = s /\ comment'[latest].live
    BY <2>1, <2>3, <2>4 DEF Comment, Mine, Live
  <2> QED
    BY <2>1, <2>4, <2>5 DEF Mine, Live
<1>2. ASSUME NEW s \in Session, Pickup(s) PROVE Holding'
  <2>1. \A t \in Session : pc[t] \notin AtWork \/ t = s
    BY <1>2 DEF Pickup, Holding, Mine, HeldByOther
  <2>2. /\ \A t \in Session : pc[t] \notin PickingUp
        /\ pc[s] = "idle" /\ pc' = [pc EXCEPT ![s] = "checked"]
        /\ UNCHANGED <<comment, latest>>
    BY <1>2 DEF Pickup, MayPickUp, Go, claim
  <2> QED
    BY <2>1, <2>2 DEF Holding, RunType, AtWork, PickingUp, Mine, Live
<1>3. ASSUME NEW s \in Session, Acquire(s) \/ Dispatch(s) PROVE Holding'
  <2>1. \A t \in Session : pc[t] \in AtWork \cup PickingUp => t = s
    BY <1>3, HoldingExcludes DEF Acquire, Dispatch, Holding, Alone, AtWork, PickingUp
  <2>2. Save(s, TRUE) /\ seen[s] \in Session \cup {None}
    BY <1>3 DEF Acquire, Dispatch, RunType
  <2>3. latest' # None /\ comment'[latest'] = [holder |-> s, age |-> 0, live |-> TRUE]
    BY <2>2, SaveResult
  <2>4. Mine(s)'
    BY <2>3, ClaimAssumption DEF Mine, Live
  <2>5. pc' = [pc EXCEPT ![s] = pc'[s]] /\ pc'[s] \in AtWork
    BY <1>3 DEF Acquire, Dispatch, Go, RunType, AtWork
  <2> QED
    BY <2>1, <2>4, <2>5 DEF Holding, RunType, AtWork, PickingUp
<1>4. ASSUME NEW s \in Session, ReleaseWrite(s) PROVE Holding'
  <2>1. \A t \in Session : pc[t] \in AtWork \cup PickingUp => t = s
    BY <1>4, HoldingExcludes DEF ReleaseWrite, Holding, Alone, AtWork, PickingUp
  <2>2. pc' = [pc EXCEPT ![s] = "ended"]
    BY <1>4 DEF ReleaseWrite, Go
  <2> QED
    BY <2>1, <2>2 DEF Holding, RunType, AtWork, PickingUp
<1>5. ASSUME NEW s \in Session, UNCHANGED claim, pc[s] \in AtWork \cup PickingUp,
             NEW to \in AtWork \cup PickingUp \cup {"ended", "crashed"}, Go(s, to),
             to \in AtWork => pc[s] \in AtWork, to \in PickingUp => pc[s] \in PickingUp
      PROVE  Holding'
  BY <1>5 DEF Holding, RunType, Go, claim, Mine, Live, AtWork, PickingUp
<1>6. ASSUME NEW s \in Session, \/ AcquireRead(s) \/ Recheck(s) \/ Blocked(s) \/ Handoff(s)
                                \/ Accept(s) \/ SendBack(s) \/ NeedsYou(s) \/ Guard(s) \/ Merge(s)
                                \/ Close(s) \/ ReleaseRead(s) \/ Crash(s)
      PROVE  Holding'
  BY <1>5, <1>6 DEF AcquireRead, Recheck, Blocked, Handoff, Accept, SendBack, NeedsYou, Guard,
     Merge, Close, ReleaseRead, Crash, claim, ship, AtWork, PickingUp, Stop
<1>7. ASSUME NEW s \in Session, PickupStealing(s) PROVE Holding'
  BY <1>7 DEF PickupStealing
<1>8. CASE UNCHANGED vars
  BY <1>8 DEF vars, Holding, Mine, Live
<1> QED
  BY <1>1, <1>2, <1>3, <1>4, <1>6, <1>7, <1>8 DEF Next, Step

\* While the sessions are orderly, two of them are never at work on the problem at
\* once, whatever the interleaving of reads and writes, ticks and crashes.
THEOREM MutualExclusion == Spec => []Exclusive
<1>1. Init => Holding
  BY DEF Init, Holding, AtWork, PickingUp
<1>2. ClaimType /\ RunType /\ (orderly => Holding) /\ [Next]_vars => (orderly => Holding)'
  BY HoldingStep, OrderlyBefore
<1>3. TypeOK => ClaimType /\ RunType
  BY DEF TypeOK
<1>4. (orderly => Holding) => Exclusive
  BY HoldingExcludes DEF Exclusive
<1> QED
  BY <1>1, <1>2, <1>3, <1>4, TypeCorrect, PTL DEF Spec

-------------------------------------------------------------------------------
\* The head a session past its verdict is about to merge is one it accepted: only
\* a session at work pushes, and there is no other.
Accepted ==
  /\ merged \subseteq approved
  /\ \A s \in Session : pc[s] \in {"guard", "merging"} => head \in approved

LEMMA AcceptedStep ==
  ASSUME RunType, Alone, Accepted, [Next]_vars
  PROVE  Accepted'
<1>1. ASSUME NEW s \in Session, Handoff(s) PROVE Accepted'
  <2>1. \A t \in Session : pc[t] \notin {"guard", "merging"}
    BY <1>1 DEF Handoff, Alone, AtWork
  <2>2. \A t \in Session : pc'[t] \notin {"guard", "merging"}
    BY <1>1, <2>1 DEF Handoff, Go, RunType
  <2> QED
    BY <1>1, <2>2 DEF Handoff, Accepted
<1>2. ASSUME NEW s \in Session, Accept(s) PROVE Accepted'
  BY <1>2 DEF Accept, Go, Accepted, RunType
<1>3. ASSUME NEW s \in Session, Merge(s) PROVE Accepted'
  BY <1>3 DEF Merge, Go, Accepted, RunType
<1>4. ASSUME NEW s \in Session, Guard(s) PROVE Accepted'
  BY <1>4 DEF Guard, Go, Stop, Accepted, RunType, ship
<1>5. ASSUME NEW s \in Session, UNCHANGED <<head, approved, merged>>,
             NEW to, Go(s, to), to \notin {"guard", "merging"}
      PROVE  Accepted'
  BY <1>5 DEF Go, Accepted, RunType
<1>6. ASSUME NEW s \in Session,
             \/ Pickup(s) \/ PickupStealing(s) \/ AcquireRead(s) \/ Acquire(s) \/ Recheck(s)
             \/ Dispatch(s) \/ Blocked(s) \/ SendBack(s) \/ NeedsYou(s) \/ Close(s)
             \/ ReleaseRead(s) \/ ReleaseWrite(s) \/ Crash(s)
      PROVE  Accepted'
  BY <1>5, <1>6 DEF Pickup, PickupStealing, AcquireRead, Acquire, Recheck, Dispatch, Blocked, SendBack, NeedsYou, Close,
     ReleaseRead, ReleaseWrite, Crash, Stop, ship
<1>7. CASE UNCHANGED <<pc, head, approved, merged>>
  BY <1>7 DEF Accepted
<1> QED
  BY <1>1, <1>2, <1>3, <1>4, <1>6, <1>7 DEF Next, Step, Tick, vars, ship

\* While the sessions are orderly, what is merged is a head an independent verdict
\* accepted: no session pushes between another's verdict and its merge.
THEOREM OnlyReviewedMerged == Spec => []MergedHeadReviewed
<1>1. Init => Accepted
  BY DEF Init, Accepted
<1>2. RunType /\ Exclusive /\ (orderly => Accepted) /\ [Next]_vars => (orderly => Accepted)'
  BY AcceptedStep, OrderlyBefore DEF Exclusive
<1>3. TypeOK => RunType
  BY DEF TypeOK
<1>4. (orderly => Accepted) => MergedHeadReviewed
  BY DEF Accepted, MergedHeadReviewed
<1> QED
  BY <1>1, <1>2, <1>3, <1>4, TypeCorrect, MutualExclusion, PTL DEF Spec

-------------------------------------------------------------------------------
\* The only claim comment is the latest, and a session that is about to save has
\* seen it.
OneComment ==
  /\ \A s \in Session : comment[s] # NoComment => s = latest
  /\ \A s \in Session : pc[s] \in {"acquiring", "refreshing", "tombstoning"} => seen[s] = latest

LEMMA OneCommentStep ==
  ASSUME ClaimType, RunType, Holding, OneComment, [Next]_vars
  PROVE  OneComment'
<1>1. CASE Tick
  <2>1. \A s \in Session : comment[s] = NoComment => comment'[s] = NoComment
    BY <1>1 DEF Tick, NoComment
  <2> QED
    BY <1>1, <2>1 DEF Tick, OneComment
<1>2. ASSUME NEW s \in Session, Acquire(s) \/ Dispatch(s) \/ ReleaseWrite(s) PROVE OneComment'
  <2>1. PICK live \in BOOLEAN : Save(s, live)
    BY <1>2 DEF Acquire, Dispatch, ReleaseWrite
  <2>2. seen[s] = latest
    BY <1>2 DEF Acquire, Dispatch, ReleaseWrite, OneComment
  <2>3. \A t \in Session : comment'[t] # NoComment => t = latest'
    BY <2>1, <2>2, ClaimAssumption DEF Save, OneComment, ClaimType
  <2>4. \A t \in Session : pc[t] \in AtWork \cup PickingUp => t = s
    BY <1>2, HoldingExcludes DEF Acquire, Dispatch, ReleaseWrite, Holding, Alone, AtWork, PickingUp
  <2>5. pc' = [pc EXCEPT ![s] = pc'[s]] /\ pc'[s] \notin {"acquiring", "refreshing", "tombstoning"}
    BY <1>2 DEF Acquire, Dispatch, ReleaseWrite, Go, RunType
  <2>6. \A t \in Session : pc'[t] \notin {"acquiring", "refreshing", "tombstoning"}
    BY <2>4, <2>5 DEF RunType, AtWork, PickingUp
  <2> QED
    BY <2>3, <2>6 DEF OneComment
<1>3. ASSUME NEW s \in Session, UNCHANGED claim, NEW to, Go(s, to),
             \/ seen' = [seen EXCEPT ![s] = latest]
             \/ /\ seen' = seen \/ seen' = [seen EXCEPT ![s] = None]
                /\ to \notin {"acquiring", "refreshing", "tombstoning"}
      PROVE  OneComment'
  BY <1>3 DEF OneComment, RunType, Go, claim
<1>4. ASSUME NEW s \in Session, \/ Pickup(s) \/ PickupStealing(s) \/ AcquireRead(s) \/ Recheck(s)
                                \/ Blocked(s) \/ Handoff(s) \/ Accept(s)
                                \/ SendBack(s) \/ NeedsYou(s) \/ Guard(s) \/ Merge(s) \/ Close(s)
                                \/ ReleaseRead(s) \/ Crash(s)
      PROVE  OneComment'
  BY <1>3, <1>4 DEF Pickup, PickupStealing, AcquireRead, Recheck, Blocked, Handoff, Accept, SendBack, NeedsYou, Guard, Merge,
     Close, ReleaseRead, Crash, Stop
<1>5. CASE UNCHANGED vars
  BY <1>5 DEF vars, OneComment
<1> QED
  BY <1>1, <1>2, <1>4, <1>5 DEF Next, Step

LEMMA OneCommentOnly == (orderly => OneComment) => OneClaimComment
<1> SUFFICES ASSUME OneComment PROVE OneClaimComment
  BY DEF OneClaimComment
<1> DEFINE C == {s \in Session : comment[s] # NoComment}
<1>1. C \subseteq {latest} /\ IsFiniteSet({latest}) /\ Cardinality({latest}) = 1
  BY FS_Singleton DEF OneComment
<1>2. Cardinality(C) <= 1
  BY <1>1, FS_Subset
<1> QED
  BY <1>2 DEF OneClaimComment

\* While the sessions are orderly, the upsert never leaves a second claim comment.
THEOREM SingleComment == Spec => []OneClaimComment
<1> DEFINE Inv == orderly => OneComment /\ Holding
<1>1. Init => Inv
  BY DEF Init, OneComment, Holding, AtWork, PickingUp
<1>2. ClaimType /\ RunType /\ Inv /\ [Next]_vars => Inv'
  BY HoldingStep, OneCommentStep, OrderlyBefore
<1>3. TypeOK => ClaimType /\ RunType
  BY DEF TypeOK
<1>4. Inv => OneClaimComment
  BY OneCommentOnly
<1> QED
  BY <1>1, <1>2, <1>3, <1>4, TypeCorrect, PTL DEF Spec

-------------------------------------------------------------------------------
\* A session that is closing the problem has seen its pull request merged.
MergedFirst ==
  /\ problem = "done" \/ pr = "merged" => merged # {}
  /\ \A s \in Session : /\ pc[s] = "merging" => pr # "none"
                        /\ pc[s] = "closing" => merged # {}

LEMMA MergedFirstStep ==
  ASSUME RunType, ShipType, MergedFirst, [Next]_vars
  PROVE  MergedFirst'
<1>1. ASSUME NEW s \in Session, Merge(s) PROVE MergedFirst'
  BY <1>1 DEF Merge, Go, MergedFirst, RunType, ShipType
<1>2. ASSUME NEW s \in Session, Guard(s) PROVE MergedFirst'
  BY <1>2 DEF Guard, Go, Stop, MergedFirst, RunType, ship
<1>3. ASSUME NEW s \in Session, Close(s) PROVE MergedFirst'
  BY <1>3 DEF Close, Go, MergedFirst, RunType
<1>4. ASSUME NEW s \in Session, NEW to, Go(s, to), to \notin {"merging", "closing"},
             pr' \in {pr, "open"}, merged' = merged, problem' # "done" \/ problem' = problem
      PROVE  MergedFirst'
  BY <1>4 DEF Go, MergedFirst, RunType
<1>5. ASSUME NEW s \in Session, \/ Pickup(s) \/ PickupStealing(s) \/ AcquireRead(s) \/ Acquire(s)
                                \/ Recheck(s) \/ Dispatch(s) \/ Blocked(s)
                                \/ Handoff(s) \/ Accept(s) \/ SendBack(s) \/ NeedsYou(s)
                                \/ ReleaseRead(s) \/ ReleaseWrite(s) \/ Crash(s)
      PROVE  MergedFirst'
  BY <1>4, <1>5 DEF Pickup, PickupStealing, AcquireRead, Acquire, Recheck, Dispatch, Blocked, Handoff, Accept, SendBack,
     NeedsYou, ReleaseRead, ReleaseWrite, Crash, Stop, ship
<1>6. CASE UNCHANGED <<pc, problem, pr, merged>>
  BY <1>6 DEF MergedFirst
<1> QED
  BY <1>1, <1>2, <1>3, <1>5, <1>6 DEF Next, Step, Tick, vars, ship

\* In every execution, orderly or not, and wherever a session is killed, the problem
\* is Done only after its pull request was merged.
THEOREM DoneOnlyOnceMerged == Spec => []DoneWasMerged
<1>1. Init => MergedFirst
  BY DEF Init, MergedFirst
<1>2. RunType /\ ShipType /\ MergedFirst /\ [Next]_vars => MergedFirst'
  BY MergedFirstStep
<1>3. TypeOK => RunType /\ ShipType
  BY DEF TypeOK
<1>4. MergedFirst => DoneWasMerged
  BY DEF MergedFirst, DoneWasMerged
<1> QED
  BY <1>1, <1>2, <1>3, <1>4, TypeCorrect, PTL DEF Spec
===============================================================================
