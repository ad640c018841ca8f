---------------------------- MODULE Release_proofs ----------------------------
(***************************************************************************)
(* Proofs about Release: the types, what a tag names as long as releases   *)
(* are cut one at a time, and whom the "Shipped in" comments tell.         *)
(***************************************************************************)
EXTENDS Release, FiniteSetTheorems, WellFoundedInduction, TLAPS

\* The commits that carry an issue's work say so where the scan looks for it, and no
\* other does: the convention release_scan rests on.
TextTells == \A c \in Commit : IncludedBy(c) = Work[c]

Bumped(commits) == {v \in Version : Bump(v) \in commits}

\* What holds however many releases are cut at once.
Basic ==
  /\ Bumped(dev) \subseteq Bumped(main)
  /\ \A v \in Version : v \notin since[v]
  /\ \A s \in Session : run[s].pc \in {"back-merge", "scan", "gh", "list", "save"} => run[s].version \in Tagged
  /\ \A s \in Session : run[s].pc = "save" => /\ run[s].issue \in Issue \cap run[s].targets
                                              /\ run[s].found => shipped[run[s].issue][run[s].version] > 0

\* No two sessions comment on one version, and none misses a comment it looked for.
Apart ==
  /\ \A s, t \in Session, v \in Version : Commenting(s, v) /\ Commenting(t, v) => s = t
  /\ \A s \in Session : run[s].pc = "save" /\ ~run[s].found => shipped[run[s].issue][run[s].version] = 0
  /\ \A i \in Issue, v \in Version : shipped[i][v] <= 1

OneCutter == \A s, t \in Session : Cutting(s) /\ Cutting(t) => s = t

\* plugin.json went up with every merge into main ...
Upward == \A a, b \in Bumped(main) : a < b => b \in since[a] /\ a \notin since[b]

\* ... and at most the newest of them is not merged back yet.
AtMostOneAhead == \A a \in Bumped(main) \ Bumped(dev) : \A b \in Bumped(main) : b <= a

\* The version a session is cutting is above all of dev's, then above all of main's.
CutAbove(s) ==
  LET v == run[s].version IN
    /\ run[s].pc \in {"cut", "merge"} => \A b \in Bumped(dev) : b < v
    /\ run[s].pc = "merge" => /\ Bumped(run[s].head) = Bumped(dev) \cup {v}
                             /\ since[v] = {}
                             /\ \A w \in Version \ {v} : v \in since[w]
    /\ run[s].pc = "tag" => v \in Bumped(main) /\ \A b \in Bumped(main) : b <= v

CutsAbove == \A s \in Session : CutAbove(s)

TagsGrow ==
  \A v \in Tagged : /\ v \in Bumped(tags[v]) /\ tags[v] \subseteq main
                    /\ \A b \in Bumped(tags[v]) : b <= v
                    /\ \A w \in Tagged : v <= w => tags[v] \subseteq tags[w]

Orderly == OneCutter /\ Upward /\ AtMostOneAhead /\ CutsAbove /\ TagsGrow

\* All that holds whatever the commits' texts say.
Sound == TypeOK /\ Basic /\ (apart => Apart) /\ (orderly => Orderly)

\* A session that tells of a version has the rest of some source's issues before it.
Rest(s, v) ==
  run[s].pc \in {"gh", "list", "save"} /\ run[s].version = v =>
    /\ run[s].targets \subseteq UNION Sources(v)
    /\ \E issues \in Sources(v) : \A i \in issues : i \in run[s].targets \/ shipped[i][v] > 0

Told(v) ==
  /\ \A i \in Issue : shipped[i][v] > 0 => v \in Tagged /\ i \in UNION Sources(v)
  /\ v \in said => v \in Tagged /\ \E issues \in Sources(v) : \A i \in issues : shipped[i][v] > 0

Telling == \A v \in Version : Told(v) /\ \A s \in Session : Rest(s, v)

-------------------------------------------------------------------------------
(* The types *)

RunType == run \in [Session -> Step \cup {Idle}]

\* A session that is at some step of a release runs a well-formed one.
LEMMA Works ==
  ASSUME RunType, NEW s \in Session, run[s].pc # "idle" \/ run[s] # Idle
  PROVE  run[s] \in Step /\ run[s] # Idle /\ run[s].pc # "idle"
BY DEF RunType, Idle, Step

\* What the scan includes of some commits is the work in them.
LEMMA ScanFinds ==
  ASSUME TextTells, NEW commits
  PROVE  Scan(commits).included = WorkIn(commits)
<1>1. \A c \in commits \ Commit : IncludedBy(c) = {}
  BY DEF IncludedBy, Streamed, RefsOf, ScopeIds, BareSubjectIds, MagicWordIds, BranchIds, Ids
<1>2. \A c \in commits \cap Commit : IncludedBy(c) = Work[c]
  BY DEF TextTells
<1>3. UNION {IncludedBy(c) : c \in commits} = UNION {Work[c] : c \in commits \cap Commit}
  BY <1>1, <1>2
<1> QED
  BY <1>3 DEF Scan, WorkIn

\* It is a set of numbers in any case.
LEMMA ScanIsTyped ==
  ASSUME NEW commits
  PROVE  Scan(commits).included \subseteq Nat
<1>1. \A c : RefsOf(c) \subseteq Ref
  BY RefsAssumption DEF RefsOf
<1>2. \A c : IncludedBy(c) \subseteq Nat
  BY <1>1 DEF IncludedBy, Streamed, ScopeIds, BareSubjectIds, MagicWordIds, BranchIds, Ids, Ref
<1> QED
  BY <1>2 DEF Scan

\* A step of one session leaves the others alone.
LEMMA OneMoves ==
  ASSUME RunType, NEW s \in Session, NEW r, run' = [run EXCEPT ![s] = r]
  PROVE  /\ run'[s] = r
         /\ \A t \in Session : t # s => run'[t] = run[t]
         /\ r \in Step \cup {Idle} => RunType'
BY DEF RunType

LEMMA Moved ==
  ASSUME RunType, NEW s \in Session, run[s] \in Step, NEW pc, Goes(s, pc)
  PROVE  run' = [run EXCEPT ![s] = [run[s] EXCEPT !.pc = pc]]
BY DEF Goes, RunType

\* What each action makes of its session's release.
LEMMA RunAfter ==
  ASSUME RunType, NEW s \in Session
  PROVE  /\ \A v \in Version : Start(s, v) => run[s] = Idle /\ run' = [run EXCEPT ![s] = Fresh(v, "cut")]
         /\ \A v \in Version : Rerun(s, v) => run[s] = Idle /\ run' = [run EXCEPT ![s] = Fresh(v, "scan")]
         /\ Cut(s) => /\ run[s] \in Step /\ run[s].pc = "cut"
                      /\ \/ run' = [run EXCEPT ![s] = Idle] /\ trees' = trees /\ since' = since
                         \/ run' = [run EXCEPT ![s] =
                                     [run[s] EXCEPT !.pc = "merge", !.head = dev \cup {Bump(run[s].version)}]]
         /\ MergePr(s) => /\ run[s] \in Step /\ run[s].pc = "merge"
                          /\ \/ run' = [run EXCEPT ![s] = Idle] /\ main' = main
                             \/ /\ run' = [run EXCEPT ![s] = [run[s] EXCEPT !.pc = "tag"]]
                                /\ Clean(main, run[s].head)
                                /\ main' = main \cup run[s].head \cup {Merged(run[s].version)}
         /\ Tag(s) => /\ run[s] \in Step /\ run[s].pc = "tag"
                      /\ \/ run' = [run EXCEPT ![s] = Idle] /\ tags' = tags
                         \/ /\ run' = [run EXCEPT ![s] = [run[s] EXCEPT !.pc = "back-merge"]]
                            /\ run[s].version \notin Tagged
                            /\ tags' = [tags EXCEPT ![run[s].version] = main]
         /\ BackMerge(s) => /\ run[s] \in Step /\ run[s].pc = "back-merge"
                            /\ \/ run' = [run EXCEPT ![s] = Idle] /\ dev' = dev
                               \/ /\ run' = [run EXCEPT ![s] = [run[s] EXCEPT !.pc = "scan"]]
                                  /\ dev' = dev \cup main \cup {BackMerged(run[s].version)}
         /\ GhRelease(s) => /\ run[s] \in Step /\ run[s].pc = "gh"
                            /\ run' = [run EXCEPT ![s] = [run[s] EXCEPT !.pc = "list"]]
         /\ \A i \in Issue : List(s, i) =>
              /\ run[s] \in Step /\ run[s].pc = "list" /\ i \in run[s].targets
              /\ run' = [run EXCEPT ![s] = [run[s] EXCEPT !.pc = "save", !.issue = i,
                                               !.found = shipped[i][run[s].version] > 0]]
         /\ Save(s) => /\ run[s] \in Step /\ run[s].pc = "save"
                       /\ run' = [run EXCEPT ![s] = [run[s] EXCEPT !.pc = "list",
                                                        !.targets = @ \ {run[s].issue}]]
         /\ Finish(s) => /\ run[s] \in Step /\ run[s].pc = "list" /\ run[s].targets = {}
                         /\ run' = [run EXCEPT ![s] = Idle]
         /\ Stop(s) => run[s] \in Step /\ run' = [run EXCEPT ![s] = Idle]
<1>1. \A v \in Version : Start(s, v) => run[s] = Idle /\ run' = [run EXCEPT ![s] = Fresh(v, "cut")]
  BY DEF Start
<1>2. \A v \in Version : Rerun(s, v) => run[s] = Idle /\ run' = [run EXCEPT ![s] = Fresh(v, "scan")]
  BY DEF Rerun
<1>3. ASSUME Cut(s)
      PROVE  /\ run[s] \in Step /\ run[s].pc = "cut"
             /\ \/ run' = [run EXCEPT ![s] = Idle] /\ trees' = trees /\ since' = since
                \/ run' = [run EXCEPT ![s] =
                            [run[s] EXCEPT !.pc = "merge", !.head = dev \cup {Bump(run[s].version)}]]
  <2>1. run[s] \in Step /\ run[s].pc = "cut"
    BY <1>3, Works DEF Cut
  <2> QED
    BY <1>3, <2>1 DEF Cut, Ends, RunType
<1>4. ASSUME MergePr(s)
      PROVE  /\ run[s] \in Step /\ run[s].pc = "merge"
             /\ \/ run' = [run EXCEPT ![s] = Idle] /\ main' = main
                \/ /\ run' = [run EXCEPT ![s] = [run[s] EXCEPT !.pc = "tag"]]
                   /\ Clean(main, run[s].head)
                   /\ main' = main \cup run[s].head \cup {Merged(run[s].version)}
  BY <1>4, Works, Moved DEF MergePr, Ends
<1>5. ASSUME Tag(s)
      PROVE  /\ run[s] \in Step /\ run[s].pc = "tag"
             /\ \/ run' = [run EXCEPT ![s] = Idle] /\ tags' = tags
                \/ /\ run' = [run EXCEPT ![s] = [run[s] EXCEPT !.pc = "back-merge"]]
                   /\ run[s].version \notin Tagged
                   /\ tags' = [tags EXCEPT ![run[s].version] = main]
  BY <1>5, Works, Moved DEF Tag, TagOf, Ends
<1>6. ASSUME BackMerge(s)
      PROVE  /\ run[s] \in Step /\ run[s].pc = "back-merge"
             /\ \/ run' = [run EXCEPT ![s] = Idle] /\ dev' = dev
                \/ /\ run' = [run EXCEPT ![s] = [run[s] EXCEPT !.pc = "scan"]]
                   /\ dev' = dev \cup main \cup {BackMerged(run[s].version)}
  BY <1>6, Works, Moved DEF BackMerge, Ends
<1>7. ASSUME GhRelease(s)
      PROVE  /\ run[s] \in Step /\ run[s].pc = "gh"
             /\ run' = [run EXCEPT ![s] = [run[s] EXCEPT !.pc = "list"]]
  BY <1>7, Works, Moved DEF GhRelease
<1>8. ASSUME NEW i \in Issue, List(s, i)
      PROVE  /\ run[s] \in Step /\ run[s].pc = "list" /\ i \in run[s].targets
             /\ run' = [run EXCEPT ![s] = [run[s] EXCEPT !.pc = "save", !.issue = i,
                                              !.found = shipped[i][run[s].version] > 0]]
  <2>1. run[s] \in Step /\ run[s].pc = "list" /\ i \in run[s].targets
    BY <1>8, Works DEF List
  <2>2. ASSUME NEW w \in BOOLEAN
        PROVE  [run EXCEPT ![s].pc = "save", ![s].issue = i, ![s].found = w]
                 = [run EXCEPT ![s] = [run[s] EXCEPT !.pc = "save", !.issue = i, !.found = w]]
    BY <2>1 DEF RunType, Step
  <2> QED
    BY <1>8, <2>1, <2>2 DEF List
<1>9. ASSUME Save(s)
      PROVE  /\ run[s] \in Step /\ run[s].pc = "save"
             /\ run' = [run EXCEPT ![s] = [run[s] EXCEPT !.pc = "list", !.targets = @ \ {run[s].issue}]]
  <2>1. run[s] \in Step /\ run[s].pc = "save"
    BY <1>9, Works DEF Save
  <2> QED
    BY <1>9, <2>1 DEF Save, RunType, Step
<1>10. Finish(s) => /\ run[s] \in Step /\ run[s].pc = "list" /\ run[s].targets = {}
                    /\ run' = [run EXCEPT ![s] = Idle]
  BY Works DEF Finish, Ends
<1>11. Stop(s) => run[s] \in Step /\ run' = [run EXCEPT ![s] = Idle]
  BY Works DEF Stop, Ends
<1> QED
  BY <1>1, <1>2, <1>3, <1>4, <1>5, <1>6, <1>7, <1>8, <1>9, <1>10, <1>11

\* The scan leaves a session with the work in its range, or with a guess.
LEMMA ScanAfter ==
  ASSUME RunType, NEW s \in Session, ScanRange(s)
  PROVE  /\ run[s] \in Step /\ run[s].pc = "scan"
         /\ \E targets \in SUBSET Nat :
              /\ run' = [run EXCEPT ![s] = [run[s] EXCEPT !.pc = "gh", !.targets = targets]]
              /\ \/ guessed' = guessed \cup {run[s].version} /\ targets = Completed(run[s].version)
                 \/ guessed' = guessed /\ (TextTells => targets = WorkIn(TagRange(run[s].version)))
<1> DEFINE v == run[s].version
           included(streamed) == Scan(streamed).included
           targets(streamed) == IF included(streamed) = {} THEN Completed(v) ELSE included(streamed)
<1>1. run[s] \in Step /\ run[s].pc = "scan"
  BY Works DEF ScanRange
<1>2. PICK streamed \in {{}, TagRange(v)} :
        /\ run' = [run EXCEPT ![s].pc = "gh", ![s].targets = targets(streamed)]
        /\ guessed' = IF included(streamed) = {} THEN guessed \cup {v} ELSE guessed
  BY DEF ScanRange
<1>3. (TextTells => included(streamed) = WorkIn(streamed)) /\ included({}) = {}
  BY ScanFinds DEF Scan
<1>4. targets(streamed) \in SUBSET Nat
  BY ScanIsTyped, RefsAssumption DEF Completed
<1>5. ASSUME NEW T
      PROVE  [run EXCEPT ![s].pc = "gh", ![s].targets = T]
               = [run EXCEPT ![s] = [run[s] EXCEPT !.pc = "gh", !.targets = T]]
  BY <1>1 DEF RunType, Step
<1>6. run' = [run EXCEPT ![s] = [run[s] EXCEPT !.pc = "gh", !.targets = targets(streamed)]]
  BY <1>2, <1>5
<1>7. \/ guessed' = guessed \cup {v} /\ targets(streamed) = Completed(v)
      \/ guessed' = guessed /\ (TextTells => targets(streamed) = WorkIn(TagRange(v)))
  BY <1>2, <1>3
<1> HIDE DEF targets
<1> QED
  BY <1>1, <1>4, <1>6, <1>7

\* The types but for that of run.
RestType ==
  /\ dev \in History /\ main \in History
  /\ tags \in [Version -> History \cup {None}]
  /\ trees \subseteq Version /\ since \in [Version -> SUBSET Version]
  /\ shipped \in [Issue -> [Version -> Nat]]
  /\ doneAt \in [Issue -> (SUBSET Version) \cup {None}]
  /\ runs \in 0 .. MaxRuns /\ faults \in 0 .. MaxFaults
  /\ guessed \subseteq Version /\ said \subseteq Version

LEMMA TypeParts == TypeOK <=> RunType /\ RestType
BY DEF TypeOK, RunType, RestType

LEMMA RunTypeStep ==
  ASSUME TypeOK, [Next]_vars
  PROVE  RunType'
<1>0. RunType /\ RestType
  BY TypeParts
<1>1. ASSUME NEW s \in Session, NEW r \in Step \cup {Idle}, run' = [run EXCEPT ![s] = r] PROVE RunType'
  BY <1>0, <1>1, OneMoves
<1>2. \A v \in Version : Fresh(v, "cut") \in Step /\ Fresh(v, "scan") \in Step
  BY DEF Fresh, Step, History
<1>3. ASSUME NEW s \in Session, Cut(s) PROVE RunType'
  <2>1. ASSUME run[s] \in Step
        PROVE  [run[s] EXCEPT !.pc = "merge", !.head = dev \cup {Bump(run[s].version)}] \in Step
    <3>1. run[s].version \in Version
      BY <2>1 DEF Step
    <3>2. dev \cup {Bump(run[s].version)} \in History
      BY <1>0, <3>1 DEF RestType, History, Mark, Bump
    <3> QED
      BY <2>1, <3>2 DEF Step
  <2> QED
    BY <1>0, <1>1, <1>3, <2>1, RunAfter
<1>4. ASSUME NEW s \in Session, MergePr(s) \/ Tag(s) \/ BackMerge(s) \/ GhRelease(s) PROVE RunType'
  <2>1. run[s] \in Step => \A pc \in {"tag", "back-merge", "scan", "list"} : [run[s] EXCEPT !.pc = pc] \in Step
    BY DEF Step
  <2> QED
    BY <1>0, <1>1, <1>4, <2>1, RunAfter
<1>5. ASSUME NEW s \in Session, ScanRange(s) PROVE RunType'
  <2>1. PICK targets \in SUBSET Nat :
          run' = [run EXCEPT ![s] = [run[s] EXCEPT !.pc = "gh", !.targets = targets]]
    BY <1>0, <1>5, ScanAfter
  <2>2. run[s] \in Step
    BY <1>0, <1>5, ScanAfter
  <2>3. [run[s] EXCEPT !.pc = "gh", !.targets = targets] \in Step
    BY <2>2 DEF Step
  <2> QED
    BY <1>1, <2>1, <2>3
<1>6. ASSUME NEW s \in Session, NEW i \in Issue, List(s, i) PROVE RunType'
  <2> DEFINE w == shipped[i][run[s].version] > 0
  <2>1. run[s] \in Step /\ run' = [run EXCEPT ![s] = [run[s] EXCEPT !.pc = "save", !.issue = i, !.found = w]]
    BY <1>0, <1>6, RunAfter
  <2>2. w \in BOOLEAN
    OBVIOUS
  <2> HIDE DEF w
  <2>3. [run[s] EXCEPT !.pc = "save", !.issue = i, !.found = w] \in Step
    BY <2>1, <2>2 DEF Step
  <2> QED
    BY <1>1, <2>1, <2>3
<1>7. ASSUME NEW s \in Session, Save(s) PROVE RunType'
  <2>1. run[s] \in Step => [run[s] EXCEPT !.pc = "list", !.targets = @ \ {run[s].issue}] \in Step
    BY DEF Step
  <2> QED
    BY <1>0, <1>1, <1>7, <2>1, RunAfter
<1>8. ASSUME NEW s \in Session, Finish(s) \/ Stop(s) PROVE RunType'
  BY <1>0, <1>1, <1>8, RunAfter
<1>9. ASSUME NEW s \in Session, NEW v \in Version, Start(s, v) \/ Rerun(s, v) PROVE RunType'
  <2>1. run' = [run EXCEPT ![s] = Fresh(v, "cut")] \/ run' = [run EXCEPT ![s] = Fresh(v, "scan")]
    BY <1>9 DEF Start, Rerun
  <2> QED
    BY <1>1, <1>2, <2>1
<1>10. CASE UNCHANGED run
  BY <1>0, <1>10 DEF RunType
<1> QED
  BY <1>3, <1>4, <1>5, <1>6, <1>7, <1>8, <1>9, <1>10
  DEF Next, MergeBackByHand, Develop, CleanUp, vars

LEMMA RestTypeStep ==
  ASSUME TypeOK, [Next]_vars
  PROVE  RestType'
<1>0. RunType /\ RestType
  BY TypeParts
<1>1. ASSUME MergeBackByHand PROVE RestType'
  BY <1>0, <1>1 DEF MergeBackByHand, RestType, linear, history, History
<1>2. ASSUME NEW c \in Commit, Develop(c) PROVE RestType'
  <2>1. Tagged \in SUBSET Version
    BY DEF Tagged
  <2> QED
    BY <1>0, <1>2, <2>1 DEF Develop, RestType, history, History
<1>3. ASSUME NEW v \in Version, CleanUp(v) PROVE RestType'
  BY <1>0, <1>3 DEF CleanUp, RestType, linear, history
<1>4. ASSUME NEW s \in Session, NEW v \in Version, Start(s, v) \/ Rerun(s, v) PROVE RestType'
  BY <1>0, <1>4, BoundsAssumption DEF Start, Rerun, RestType, origin, linear, history
<1>5. ASSUME NEW s \in Session, Cut(s) PROVE RestType'
  <2>1. run[s] \in Step
    BY <1>0, <1>5, RunAfter
  <2> QED
    BY <1>0, <1>5, <2>1 DEF Cut, RestType, linear, history, Step
<1>6. ASSUME NEW s \in Session, MergePr(s) PROVE RestType'
  <2>1. run[s] \in Step
    BY <1>0, <1>6, RunAfter
  <2> QED
    BY <1>0, <1>6, <2>1 DEF MergePr, RestType, linear, history, Step, History, Mark, Merged
<1>7. ASSUME NEW s \in Session, Tag(s) PROVE RestType'
  <2>1. run[s] \in Step
    BY <1>0, <1>7, RunAfter
  <2> QED
    BY <1>0, <1>7, <2>1 DEF Tag, TagOf, RestType, linear, history, Step
<1>8. ASSUME NEW s \in Session, BackMerge(s) PROVE RestType'
  <2>1. run[s] \in Step
    BY <1>0, <1>8, RunAfter
  <2> QED
    BY <1>0, <1>8, <2>1 DEF BackMerge, RestType, linear, history, Step, History, Mark, BackMerged
<1>9. ASSUME NEW s \in Session, ScanRange(s) PROVE RestType'
  <2>1. run[s] \in Step
    BY <1>0, <1>9, RunAfter, ScanAfter
  <2>2. guessed' \subseteq Version /\ trees' \subseteq Version
    BY <1>0, <1>9, <2>1 DEF ScanRange, RestType, Step
  <2> QED
    BY <1>0, <1>9, <2>2 DEF ScanRange, RestType, linear
<1>10. ASSUME NEW s \in Session, Save(s) PROVE RestType'
  <2>1. run[s] \in Step
    BY <1>0, <1>10, RunAfter
  <2>2. \/ shipped' = shipped
        \/ shipped' = [shipped EXCEPT ![run[s].issue] =
                        [shipped[run[s].issue] EXCEPT ![run[s].version] = shipped[run[s].issue][run[s].version] + 1]]
    BY <1>10 DEF Save
  <2>3. \A i \in Issue : [shipped[i] EXCEPT ![run[s].version] = shipped[i][run[s].version] + 1] \in [Version -> Nat]
    BY <1>0, <2>1 DEF RestType, Step
  <2>4. shipped' \in [Issue -> [Version -> Nat]]
    BY <1>0, <2>2, <2>3 DEF RestType
  <2> QED
    BY <1>0, <1>10, <2>4 DEF Save, RestType, origin, history
<1>11. ASSUME NEW s \in Session, GhRelease(s) \/ \E i \in Issue : List(s, i) PROVE RestType'
  BY <1>0, <1>11 DEF GhRelease, List, RestType, origin, linear, history
<1>12. ASSUME NEW s \in Session, Stop(s) PROVE RestType'
  BY <1>0, <1>12, BoundsAssumption DEF Stop, RestType, origin, linear, history
<1>13. ASSUME NEW s \in Session, Finish(s) PROVE RestType'
  <2>1. run[s].version \in Version
    BY <1>0, <1>13, RunAfter DEF Step
  <2> QED
    BY <1>0, <1>13, <2>1 DEF Finish, RestType, origin, linear
<1>14. CASE UNCHANGED vars
  BY <1>0, <1>14 DEF RestType, vars, origin, linear, history
<1> QED
  BY <1>1, <1>2, <1>3, <1>4, <1>5, <1>6, <1>7, <1>8, <1>9, <1>10, <1>11, <1>12, <1>13, <1>14
  DEF Next

\* Every variable keeps its type, however many releases are cut at once.
THEOREM TypeCorrect == Spec => []TypeOK
<1>1. Init => TypeOK
  BY BoundsAssumption DEF Init, TypeOK, History
<1>2. TypeOK /\ [Next]_vars => TypeOK'
  <2>1. TypeOK /\ [Next]_vars => RunType' /\ RestType'
    BY RunTypeStep, RestTypeStep
  <2> QED
    BY <2>1 DEF TypeOK, RunType, RestType
<1> QED
  BY <1>1, <1>2, PTL DEF Spec

-------------------------------------------------------------------------------
(* What a step does to the release that is cut *)

\* Which bumps some commits hold.
LEMMA Bumps ==
  /\ \A X, Y : Bumped(X \cup Y) = Bumped(X) \cup Bumped(Y) /\ Bumped(X \cap Y) = Bumped(X) \cap Bumped(Y)
  /\ \A X, Y : X \subseteq Y => Bumped(X) \subseteq Bumped(Y)
  /\ \A X : Bumped(X) \subseteq Version
  /\ \A c \in Commit : Bumped({c}) = {}
  /\ \A v \in Version : Bumped({Merged(v)}) = {} /\ Bumped({BackMerged(v)}) = {} /\ Bumped({Bump(v)}) = {v}
<1>1. \A c \in Commit, v \in Version : Bump(v) # c
  BY MarkAssumption DEF Bump, Mark
<1>2. \A v, w \in Version : Bump(v) # Merged(w) /\ Bump(v) # BackMerged(w) /\ (Bump(v) = Bump(w) => v = w)
  BY DEF Bump, Merged, BackMerged
<1>3. \A c \in Commit : Bumped({c}) = {}
  BY <1>1 DEF Bumped
<1>4. \A v \in Version : Bumped({Merged(v)}) = {} /\ Bumped({BackMerged(v)}) = {} /\ Bumped({Bump(v)}) = {v}
  BY <1>2 DEF Bumped
<1> QED
  BY <1>3, <1>4 DEF Bumped

\* A step starts a release, takes it one step on, merges main back, or changes neither
\* plugin.json anywhere, nor the tags, nor the release any session is cutting.
LEMMA ReleaseStep ==
  ASSUME TypeOK, [Next]_vars
  PROVE  \/ \E s \in Session, v \in Version :
              /\ run' = [run EXCEPT ![s] = Fresh(v, "cut")]
              /\ UNCHANGED <<dev, main, tags, since>>
              /\ orderly' => orderly /\ v > VersionOf(dev) /\ \A t \in Session : ~Cutting(t)
         \/ \E s \in Session :
              /\ run[s] \in Step /\ run[s].pc = "cut"
              /\ run' = [run EXCEPT ![s] = [run[s] EXCEPT !.pc = "merge", !.head = dev \cup {Bump(run[s].version)}]]
              /\ since' = [v \in Version |-> IF v = run[s].version THEN {} ELSE since[v] \cup {run[s].version}]
              /\ UNCHANGED <<dev, main, tags, orderly>>
         \/ \E s \in Session :
              /\ run[s] \in Step /\ run[s].pc = "merge" /\ Clean(main, run[s].head)
              /\ run' = [run EXCEPT ![s] = [run[s] EXCEPT !.pc = "tag"]]
              /\ main' = main \cup run[s].head \cup {Merged(run[s].version)}
              /\ UNCHANGED <<dev, tags, since, orderly>>
         \/ \E s \in Session :
              /\ run[s] \in Step /\ run[s].pc = "tag" /\ run[s].version \notin Tagged
              /\ run' = [run EXCEPT ![s] = [run[s] EXCEPT !.pc = "back-merge"]]
              /\ tags' = [tags EXCEPT ![run[s].version] = main]
              /\ UNCHANGED <<dev, main, since, orderly>>
         \/ /\ \/ \A t \in Session : ~Cutting(t) /\ run'[t] = run[t]
               \/ \E s \in Session : /\ Cutting(s) /\ ~Cutting(s)'
                                     /\ \A t \in Session : t # s => run'[t] = run[t]
            /\ Bumped(dev') = Bumped(dev) \cup Bumped(main)
            /\ UNCHANGED <<main, tags, since, orderly>>
         \/ /\ \A t \in Session : Cutting(t)' => run'[t] = run[t]
            /\ Bumped(dev') = Bumped(dev)
            /\ UNCHANGED <<main, tags, since, orderly>>
<1> DEFINE Quiet == /\ \A t \in Session : Cutting(t)' => run'[t] = run[t]
                    /\ Bumped(dev') = Bumped(dev)
                    /\ UNCHANGED <<main, tags, since, orderly>>
           Back == /\ \/ \A t \in Session : ~Cutting(t) /\ run'[t] = run[t]
                      \/ \E s \in Session : /\ Cutting(s) /\ ~Cutting(s)'
                                            /\ \A t \in Session : t # s => run'[t] = run[t]
                   /\ Bumped(dev') = Bumped(dev) \cup Bumped(main)
                   /\ UNCHANGED <<main, tags, since, orderly>>
           Started(s, v) ==
             /\ run' = [run EXCEPT ![s] = Fresh(v, "cut")]
             /\ UNCHANGED <<dev, main, tags, since>>
             /\ orderly' => orderly /\ v > VersionOf(dev) /\ \A t \in Session : ~Cutting(t)
           IsCut(s) ==
             /\ run[s] \in Step /\ run[s].pc = "cut"
             /\ run' = [run EXCEPT ![s] = [run[s] EXCEPT !.pc = "merge", !.head = dev \cup {Bump(run[s].version)}]]
             /\ since' = [v \in Version |-> IF v = run[s].version THEN {} ELSE since[v] \cup {run[s].version}]
             /\ UNCHANGED <<dev, main, tags, orderly>>
           IsMerged(s) ==
             /\ run[s] \in Step /\ run[s].pc = "merge" /\ Clean(main, run[s].head)
             /\ run' = [run EXCEPT ![s] = [run[s] EXCEPT !.pc = "tag"]]
             /\ main' = main \cup run[s].head \cup {Merged(run[s].version)}
             /\ UNCHANGED <<dev, tags, since, orderly>>
           IsTagged(s) ==
             /\ run[s] \in Step /\ run[s].pc = "tag" /\ run[s].version \notin Tagged
             /\ run' = [run EXCEPT ![s] = [run[s] EXCEPT !.pc = "back-merge"]]
             /\ tags' = [tags EXCEPT ![run[s].version] = main]
             /\ UNCHANGED <<dev, main, since, orderly>>
<1>0. RunType /\ RestType
  BY TypeParts
<1>1. ASSUME NEW s \in Session, NEW r, run' = [run EXCEPT ![s] = r],
             r.pc \notin {"cut", "merge", "tag", "back-merge"}
      PROVE  /\ \A t \in Session : Cutting(t)' => run'[t] = run[t]
             /\ ~Cutting(s)' /\ \A t \in Session : t # s => run'[t] = run[t]
  BY <1>0, <1>1, OneMoves DEF Cutting
<1>2. Idle.pc \notin {"cut", "merge", "tag", "back-merge"}
  BY DEF Idle
<1>3. ASSUME MergeBackByHand PROVE Back
  BY <1>3, Bumps DEF MergeBackByHand, history
<1>4. ASSUME NEW c \in Commit, Develop(c) PROVE Quiet
  <2>1. Bumped(dev \cup {c}) = Bumped(dev) \cup Bumped({c}) /\ Bumped({c}) = {}
    BY Bumps
  <2> QED
    BY <1>4, <2>1 DEF Develop, history
<1>5. ASSUME NEW v \in Version, CleanUp(v) PROVE Quiet
  BY <1>5 DEF CleanUp, history
<1>6. ASSUME NEW s \in Session, NEW v \in Version, Start(s, v) PROVE Started(s, v)
  BY <1>6 DEF Start, origin
<1>7. ASSUME NEW s \in Session, NEW v \in Version, Rerun(s, v) PROVE Quiet
  <2>1. run' = [run EXCEPT ![s] = Fresh(v, "scan")] /\ Fresh(v, "scan").pc = "scan"
    BY <1>7 DEF Rerun, Fresh
  <2> QED
    BY <1>1, <1>7, <2>1 DEF Rerun, origin, history
<1>8. ASSUME NEW s \in Session, run' = [run EXCEPT ![s] = Idle],
             UNCHANGED <<dev, main, tags, since, orderly>>
      PROVE  Quiet
  BY <1>1, <1>2, <1>8
<1>9. ASSUME NEW s \in Session, Cut(s) PROVE Quiet \/ IsCut(s)
  <2>1. UNCHANGED <<dev, main, tags, orderly>>
    BY <1>9 DEF Cut, history
  <2>2. CASE run[s].version \in trees
    <3>1. run' = [run EXCEPT ![s] = Idle] /\ since' = since
      BY <1>9, <2>2 DEF Cut, Ends
    <3> QED
      BY <1>8, <2>1, <3>1
  <2>3. CASE run[s].version \notin trees
    <3>1. run[s] \in Step /\ run[s].pc = "cut"
      BY <1>0, <1>9, RunAfter
    <3>2. /\ run' = [run EXCEPT ![s].pc = "merge", ![s].head = dev \cup {Bump(run[s].version)}]
          /\ since' = [v \in Version |-> IF v = run[s].version THEN {} ELSE since[v] \cup {run[s].version}]
      BY <1>9, <2>3 DEF Cut
    <3>3. run' = [run EXCEPT ![s] = [run[s] EXCEPT !.pc = "merge", !.head = dev \cup {Bump(run[s].version)}]]
      BY <1>0, <3>1, <3>2 DEF RunType
    <3> QED
      BY <2>1, <3>1, <3>2, <3>3
  <2> QED
    BY <2>2, <2>3
<1>10. ASSUME NEW s \in Session, MergePr(s) PROVE Quiet \/ IsMerged(s)
  <2>1. UNCHANGED <<dev, tags, since, orderly>>
    BY <1>10 DEF MergePr, history
  <2> HIDE DEF Quiet
  <2> QED
    BY <1>0, <1>8, <1>10, <2>1, RunAfter
<1>11. ASSUME NEW s \in Session, Tag(s) PROVE Quiet \/ IsTagged(s)
  <2>1. UNCHANGED <<dev, main, since, orderly>>
    BY <1>11 DEF Tag, history
  <2> HIDE DEF Quiet
  <2> QED
    BY <1>0, <1>8, <1>11, <2>1, RunAfter
<1>12. ASSUME NEW s \in Session, BackMerge(s) PROVE Quiet \/ Back
  <2>1. UNCHANGED <<main, tags, since, orderly>> /\ run[s] \in Step /\ run[s].pc = "back-merge"
    BY <1>0, <1>12, RunAfter DEF BackMerge, history
  <2>2. CASE run' = [run EXCEPT ![s] = Idle] /\ dev' = dev
    BY <1>8, <2>1, <2>2
  <2>3. CASE /\ run' = [run EXCEPT ![s] = [run[s] EXCEPT !.pc = "scan"]]
             /\ dev' = dev \cup main \cup {BackMerged(run[s].version)}
    <3>1. [run[s] EXCEPT !.pc = "scan"].pc = "scan"
      BY <2>1 DEF Step
    <3>2. Cutting(s) /\ ~Cutting(s)' /\ \A t \in Session : t # s => run'[t] = run[t]
      BY <1>1, <2>1, <2>3, <3>1 DEF Cutting
    <3>3. run[s].version \in Version
      BY <2>1 DEF Step
    <3>4. Bumped(dev') = Bumped(dev) \cup Bumped(main)
      <4>1. /\ Bumped(dev \cup main \cup {BackMerged(run[s].version)})
                 = Bumped(dev \cup main) \cup Bumped({BackMerged(run[s].version)})
            /\ Bumped(dev \cup main) = Bumped(dev) \cup Bumped(main)
        BY Bumps
      <4>2. Bumped({BackMerged(run[s].version)}) = {}
        BY <3>3, Bumps
      <4> QED
        BY <2>3, <4>1, <4>2
    <3> QED
      BY <2>1, <3>2, <3>4
  <2> QED
    BY <1>0, <1>12, <2>2, <2>3, RunAfter
<1>13. ASSUME NEW s \in Session, NEW r, run' = [run EXCEPT ![s] = r],
              r.pc \notin {"cut", "merge", "tag", "back-merge"},
              UNCHANGED <<dev, main, tags, since, orderly>>
       PROVE  Quiet
  BY <1>1, <1>13
<1>14. ASSUME NEW s \in Session, ScanRange(s) PROVE Quiet
  <2>1. run[s] \in Step /\ UNCHANGED <<dev, main, tags, since, orderly>>
    BY <1>0, <1>14, ScanAfter DEF ScanRange
  <2>2. PICK T : run' = [run EXCEPT ![s] = [run[s] EXCEPT !.pc = "gh", !.targets = T]]
    BY <1>0, <1>14, ScanAfter
  <2>3. [run[s] EXCEPT !.pc = "gh", !.targets = T].pc = "gh"
    BY <2>1 DEF Step
  <2> QED
    BY <1>13, <2>1, <2>2, <2>3
<1>15. ASSUME NEW s \in Session, GhRelease(s) PROVE Quiet
  <2>1. UNCHANGED <<dev, main, tags, since, orderly>>
    BY <1>15 DEF GhRelease, origin
  <2>2. run[s] \in Step /\ run' = [run EXCEPT ![s] = [run[s] EXCEPT !.pc = "list"]]
    BY <1>0, <1>15, RunAfter
  <2>3. [run[s] EXCEPT !.pc = "list"].pc = "list"
    BY <2>2 DEF Step
  <2> QED
    BY <1>13, <2>1, <2>2, <2>3
<1>16. ASSUME NEW s \in Session, NEW i \in Issue, List(s, i) PROVE Quiet
  <2> DEFINE r == [run[s] EXCEPT !.pc = "save", !.issue = i, !.found = shipped[i][run[s].version] > 0]
  <2>1. UNCHANGED <<dev, main, tags, since, orderly>>
    BY <1>16 DEF List, origin, history
  <2>2. run[s] \in Step /\ run' = [run EXCEPT ![s] = r]
    BY <1>0, <1>16, RunAfter
  <2>3. r.pc = "save"
    BY <2>2 DEF Step
  <2> HIDE DEF r, Quiet
  <2> QED
    BY <1>13, <2>1, <2>2, <2>3
<1>17. ASSUME NEW s \in Session, Save(s) PROVE Quiet
  <2> DEFINE r == [run[s] EXCEPT !.pc = "list", !.targets = @ \ {run[s].issue}]
  <2>1. UNCHANGED <<dev, main, tags, since, orderly>>
    BY <1>17 DEF Save, origin, history
  <2>2. run[s] \in Step /\ run' = [run EXCEPT ![s] = r]
    BY <1>0, <1>17, RunAfter
  <2>3. r.pc = "list"
    BY <2>2 DEF Step
  <2> HIDE DEF r, Quiet
  <2> QED
    BY <1>13, <2>1, <2>2, <2>3
<1>18. ASSUME NEW s \in Session, Finish(s) \/ Stop(s) PROVE Quiet
  BY <1>8, <1>18 DEF Finish, Stop, Ends, origin, history
<1>19. CASE UNCHANGED vars
  BY <1>19 DEF vars, origin, history
<1> HIDE DEF Quiet, Back, Started, IsCut, IsMerged, IsTagged
<1>20. Next =>
       \/ \E s \in Session, v \in Version : Started(s, v)
       \/ \E s \in Session : IsCut(s)
       \/ \E s \in Session : IsMerged(s)
       \/ \E s \in Session : IsTagged(s)
       \/ Back
       \/ Quiet
  BY <1>3, <1>4, <1>5, <1>6, <1>7, <1>9, <1>10, <1>11, <1>12, <1>14, <1>15, <1>16, <1>17, <1>18
  DEF Next
<1>21. CASE \E s \in Session, v \in Version : Started(s, v)
  BY <1>21 DEF Started
<1>22. CASE \E s \in Session : IsCut(s)
  BY <1>22 DEF IsCut
<1>23. CASE \E s \in Session : IsMerged(s)
  BY <1>23 DEF IsMerged
<1>24. CASE \E s \in Session : IsTagged(s)
  BY <1>24 DEF IsTagged
<1>25. CASE Back
  BY <1>25 DEF Back
<1>26. CASE Quiet
  BY <1>26 DEF Quiet
<1> QED
  BY <1>19, <1>20, <1>21, <1>22, <1>23, <1>24, <1>25, <1>26

-------------------------------------------------------------------------------
(* What it does to those that tell the issues *)

\* A step scans, publishes, lists an issue's comments, saves one, finishes, or leaves
\* alone whatever a session has told or is about to tell.
LEMMA TellStep ==
  ASSUME TypeOK, Basic, [Next]_vars
  PROVE  \/ \E s \in Session, targets \in SUBSET Nat :
              /\ run[s] \in Step /\ run[s].pc = "scan"
              /\ run' = [run EXCEPT ![s] = [run[s] EXCEPT !.pc = "gh", !.targets = targets]]
              /\ \/ guessed' = guessed \cup {run[s].version} /\ targets = Completed(run[s].version)
                 \/ guessed' = guessed /\ (TextTells => targets = WorkIn(TagRange(run[s].version)))
              /\ UNCHANGED <<tags, shipped, apart, said>>
         \/ \E s \in Session :
              /\ run[s] \in Step /\ run[s].pc = "gh"
              /\ run' = [run EXCEPT ![s] = [run[s] EXCEPT !.pc = "list"]]
              /\ apart' => apart /\ \A t \in Session \ {s} : ~Commenting(t, run[s].version)
              /\ UNCHANGED <<tags, shipped, guessed, said>>
         \/ \E s \in Session, i \in Issue, found \in BOOLEAN :
              /\ run[s] \in Step /\ run[s].pc = "list" /\ i \in run[s].targets
              /\ run' = [run EXCEPT ![s] = [run[s] EXCEPT !.pc = "save", !.issue = i, !.found = found]]
              /\ found <=> shipped[i][run[s].version] > 0
              /\ UNCHANGED <<tags, shipped, apart, guessed, said>>
         \/ \E s \in Session :
              /\ run[s] \in Step /\ run[s].pc = "save"
              /\ run' = [run EXCEPT ![s] = [run[s] EXCEPT !.pc = "list", !.targets = @ \ {run[s].issue}]]
              /\ \A i \in Issue, v \in Version :
                   shipped'[i][v] = IF ~run[s].found /\ i = run[s].issue /\ v = run[s].version
                                    THEN shipped[i][v] + 1 ELSE shipped[i][v]
              /\ UNCHANGED <<tags, apart, guessed, said>>
         \/ \E s \in Session :
              /\ run[s] \in Step /\ run[s].pc = "list" /\ run[s].targets = {}
              /\ run' = [run EXCEPT ![s] = Idle]
              /\ said' = said \cup {run[s].version}
              /\ UNCHANGED <<tags, shipped, apart, guessed>>
         \/ /\ \A t \in Session : run'[t].pc \in {"gh", "list", "save"} => run'[t] = run[t]
            /\ \A t \in Session : run'[t].pc \in {"back-merge", "scan"} => run'[t].version \in Tagged'
            /\ \A v \in Tagged : v \in Tagged' /\ tags'[v] = tags[v]
            /\ UNCHANGED <<shipped, apart, guessed, said>>
<1> DEFINE Scanned(s, targets) ==
             /\ run[s] \in Step /\ run[s].pc = "scan"
             /\ run' = [run EXCEPT ![s] = [run[s] EXCEPT !.pc = "gh", !.targets = targets]]
             /\ \/ guessed' = guessed \cup {run[s].version} /\ targets = Completed(run[s].version)
                \/ guessed' = guessed /\ (TextTells => targets = WorkIn(TagRange(run[s].version)))
             /\ UNCHANGED <<tags, shipped, apart, said>>
           Published(s) ==
             /\ run[s] \in Step /\ run[s].pc = "gh"
             /\ run' = [run EXCEPT ![s] = [run[s] EXCEPT !.pc = "list"]]
             /\ apart' => apart /\ \A t \in Session \ {s} : ~Commenting(t, run[s].version)
             /\ UNCHANGED <<tags, shipped, guessed, said>>
           Listed(s, i, found) ==
             /\ run[s] \in Step /\ run[s].pc = "list" /\ i \in run[s].targets
             /\ run' = [run EXCEPT ![s] = [run[s] EXCEPT !.pc = "save", !.issue = i, !.found = found]]
             /\ found <=> shipped[i][run[s].version] > 0
             /\ UNCHANGED <<tags, shipped, apart, guessed, said>>
           Saved(s) ==
             /\ run[s] \in Step /\ run[s].pc = "save"
             /\ run' = [run EXCEPT ![s] = [run[s] EXCEPT !.pc = "list", !.targets = @ \ {run[s].issue}]]
             /\ \A i \in Issue, v \in Version :
                  shipped'[i][v] = IF ~run[s].found /\ i = run[s].issue /\ v = run[s].version
                                   THEN shipped[i][v] + 1 ELSE shipped[i][v]
             /\ UNCHANGED <<tags, apart, guessed, said>>
           Finished(s) ==
             /\ run[s] \in Step /\ run[s].pc = "list" /\ run[s].targets = {}
             /\ run' = [run EXCEPT ![s] = Idle]
             /\ said' = said \cup {run[s].version}
             /\ UNCHANGED <<tags, shipped, apart, guessed>>
           Else ==
             /\ \A t \in Session : run'[t].pc \in {"gh", "list", "save"} => run'[t] = run[t]
             /\ \A t \in Session : run'[t].pc \in {"back-merge", "scan"} => run'[t].version \in Tagged'
             /\ \A v \in Tagged : v \in Tagged' /\ tags'[v] = tags[v]
             /\ UNCHANGED <<shipped, apart, guessed, said>>
<1>0. RunType /\ RestType
  BY TypeParts
<1>1. \A s \in Session : run[s].pc \in {"back-merge", "scan"} => run[s].version \in Tagged
  BY DEF Basic
<1>2. ASSUME tags' = tags PROVE Tagged' = Tagged
  BY <1>2 DEF Tagged
<1>3. ASSUME run' = run, tags' = tags, UNCHANGED <<shipped, apart, guessed, said>> PROVE Else
  BY <1>1, <1>2, <1>3
<1>4. ASSUME NEW s \in Session, NEW r, run' = [run EXCEPT ![s] = r],
             r.pc \notin {"gh", "list", "save"},
             r.pc \in {"back-merge", "scan"} => r.version \in Tagged,
             UNCHANGED <<tags, shipped, apart, guessed, said>>
      PROVE  Else
  BY <1>0, <1>1, <1>2, <1>4, OneMoves
<1>5. ASSUME NEW s \in Session, run' = [run EXCEPT ![s] = Idle],
             UNCHANGED <<tags, shipped, apart, guessed, said>>
      PROVE  Else
  BY <1>4, <1>5 DEF Idle
<1>6. ASSUME MergeBackByHand \/ (\E c \in Commit : Develop(c)) \/ (\E v \in Version : CleanUp(v))
      PROVE  Else
  <2>1. run' = run /\ tags' = tags /\ UNCHANGED <<shipped, apart, guessed, said>>
    BY <1>6 DEF MergeBackByHand, Develop, CleanUp, linear, history
  <2> QED
    BY <1>3, <2>1
<1>7. ASSUME NEW s \in Session, NEW v \in Version, Start(s, v) PROVE Else
  <2>1. Fresh(v, "cut").pc = "cut"
    BY DEF Fresh
  <2> HIDE DEF Else
  <2> QED
    BY <1>4, <1>7, <2>1 DEF Start, origin, linear
<1>8. ASSUME NEW s \in Session, NEW v \in Version, Rerun(s, v) PROVE Else
  <2>1. Fresh(v, "scan").pc = "scan" /\ Fresh(v, "scan").version = v
    BY DEF Fresh
  <2> HIDE DEF Else
  <2> QED
    BY <1>4, <1>8, <2>1 DEF Rerun, origin, linear, history
<1>9. ASSUME NEW s \in Session, Cut(s) PROVE Else
  <2> DEFINE r == [run[s] EXCEPT !.pc = "merge", !.head = dev \cup {Bump(run[s].version)}]
  <2>1. UNCHANGED <<tags, shipped, apart, guessed, said>>
    BY <1>9 DEF Cut, linear, history
  <2>2. run[s] \in Step /\ (run' = [run EXCEPT ![s] = Idle] \/ run' = [run EXCEPT ![s] = r])
    BY <1>0, <1>9, RunAfter
  <2>3. r.pc = "merge"
    BY <2>2 DEF Step
  <2> HIDE DEF r, Else
  <2> QED
    BY <1>4, <1>5, <2>1, <2>2, <2>3
<1>10. ASSUME NEW s \in Session, MergePr(s) PROVE Else
  <2> DEFINE r == [run[s] EXCEPT !.pc = "tag"]
  <2>1. UNCHANGED <<tags, shipped, apart, guessed, said>>
    BY <1>10 DEF MergePr, linear, history
  <2>2. run[s] \in Step /\ (run' = [run EXCEPT ![s] = Idle] \/ run' = [run EXCEPT ![s] = r])
    BY <1>0, <1>10, RunAfter
  <2>3. r.pc = "tag"
    BY <2>2 DEF Step
  <2> HIDE DEF r, Else
  <2> QED
    BY <1>4, <1>5, <2>1, <2>2, <2>3
<1>11. ASSUME NEW s \in Session, BackMerge(s) PROVE Else
  <2> DEFINE r == [run[s] EXCEPT !.pc = "scan"]
  <2>1. UNCHANGED <<tags, shipped, apart, guessed, said>>
    BY <1>11 DEF BackMerge, linear, history
  <2>2. run[s] \in Step /\ (run' = [run EXCEPT ![s] = Idle] \/ run' = [run EXCEPT ![s] = r])
    BY <1>0, <1>11, RunAfter
  <2>3. r.pc = "scan" /\ r.version = run[s].version /\ run[s].version \in Tagged
    BY <1>0, <1>1, <1>11, <2>2, RunAfter DEF Step
  <2> HIDE DEF r, Else
  <2> QED
    BY <1>4, <1>5, <2>1, <2>2, <2>3
<1>12. ASSUME NEW s \in Session, Tag(s) PROVE Else
  <2> DEFINE v == run[s].version
             r == [run[s] EXCEPT !.pc = "back-merge"]
  <2>1. UNCHANGED <<shipped, apart, guessed, said>>
    BY <1>12 DEF Tag, linear, history
  <2>2. CASE run' = [run EXCEPT ![s] = Idle] /\ tags' = tags
    BY <1>5, <2>1, <2>2
  <2>3. CASE /\ run[s] \in Step /\ run' = [run EXCEPT ![s] = r]
             /\ v \notin Tagged /\ tags' = [tags EXCEPT ![v] = main]
    <3>1. r.pc = "back-merge" /\ r.version = v /\ v \in Version
      BY <2>3 DEF Step
    <3>2. main # None
      BY <1>0, NoneAssumption DEF RestType
    <3>3. v \in Tagged' /\ \A w \in Tagged : w \in Tagged' /\ tags'[w] = tags[w]
      BY <1>0, <2>3, <3>1, <3>2 DEF Tagged, RestType
    <3>4. run'[s] = r /\ \A t \in Session : t # s => run'[t] = run[t]
      BY <1>0, <2>3, OneMoves
    <3> HIDE DEF r
    <3> QED
      BY <1>1, <2>1, <3>1, <3>3, <3>4
  <2> QED
    BY <1>0, <1>12, <2>2, <2>3, RunAfter
<1>13. ASSUME NEW s \in Session, ScanRange(s) PROVE \E targets \in SUBSET Nat : Scanned(s, targets)
  <2>1. UNCHANGED <<tags, shipped, apart, said>>
    BY <1>13 DEF ScanRange, linear
  <2> QED
    BY <1>0, <1>13, <2>1, ScanAfter
<1>14. ASSUME NEW s \in Session, GhRelease(s) PROVE Published(s)
  <2>1. UNCHANGED <<tags, shipped, guessed, said>>
    BY <1>14 DEF GhRelease, origin, linear
  <2>2. apart' => apart /\ \A t \in Session \ {s} : ~Commenting(t, run[s].version)
    BY <1>14 DEF GhRelease
  <2> QED
    BY <1>0, <1>14, <2>1, <2>2, RunAfter
<1>15. ASSUME NEW s \in Session, NEW i \in Issue, List(s, i)
       PROVE  \E found \in BOOLEAN : Listed(s, i, found)
  <2> DEFINE w == shipped[i][run[s].version] > 0
  <2>1. UNCHANGED <<tags, shipped, apart, guessed, said>>
    BY <1>15 DEF List, origin, linear, history
  <2>2. Listed(s, i, w)
    BY <1>0, <1>15, <2>1, RunAfter
  <2>3. w \in BOOLEAN
    OBVIOUS
  <2> HIDE DEF w, Listed
  <2> QED
    BY <2>2, <2>3
<1>16. ASSUME NEW s \in Session, Save(s) PROVE Saved(s)
  <2>1. UNCHANGED <<tags, apart, guessed, said>>
    BY <1>16 DEF Save, origin, history
  <2>2. run[s] \in Step /\ run[s].pc = "save"
    BY <1>0, <1>16, RunAfter
  <2>3. run[s].version \in Version /\ run[s].found \in BOOLEAN
    BY <2>2 DEF Step
  <2>4. ASSUME NEW i \in Issue, NEW v \in Version
        PROVE  shipped'[i][v] = IF ~run[s].found /\ i = run[s].issue /\ v = run[s].version
                                THEN shipped[i][v] + 1 ELSE shipped[i][v]
    <3>1. shipped \in [Issue -> [Version -> Nat]]
      BY <1>0 DEF RestType
    <3>2. CASE run[s].found
      BY <1>16, <3>2 DEF Save
    <3>3. CASE ~run[s].found
      <4>1. shipped' = [shipped EXCEPT ![run[s].issue][run[s].version] = @ + 1]
        BY <1>16, <3>3 DEF Save
      <4> QED
        BY <2>3, <3>1, <3>3, <4>1
    <3> QED
      BY <3>2, <3>3
  <2> QED
    BY <1>0, <1>16, <2>1, <2>4, RunAfter
<1>17. ASSUME NEW s \in Session, Finish(s) PROVE Finished(s)
  <2>1. UNCHANGED <<tags, shipped, apart, guessed>> /\ said' = said \cup {run[s].version}
    BY <1>17 DEF Finish, origin, linear
  <2> QED
    BY <1>0, <1>17, <2>1, RunAfter
<1>18. ASSUME NEW s \in Session, Stop(s) PROVE Else
  BY <1>5, <1>18 DEF Stop, Ends, origin, linear, history
<1>19. CASE UNCHANGED vars
  BY <1>3, <1>19 DEF vars, origin, linear, history
<1> HIDE DEF Scanned, Published, Listed, Saved, Finished, Else
<1>20. Next => \/ \E s \in Session, targets \in SUBSET Nat : Scanned(s, targets)
               \/ \E s \in Session : Published(s)
               \/ \E s \in Session, i \in Issue, found \in BOOLEAN : Listed(s, i, found)
               \/ \E s \in Session : Saved(s)
               \/ \E s \in Session : Finished(s)
               \/ Else
  BY <1>6, <1>7, <1>8, <1>9, <1>10, <1>11, <1>12, <1>13, <1>14, <1>15, <1>16, <1>17, <1>18 DEF Next
<1>21. CASE \E s \in Session, targets \in SUBSET Nat : Scanned(s, targets)
  BY <1>21 DEF Scanned
<1>22. CASE \E s \in Session : Published(s)
  BY <1>22 DEF Published
<1>23. CASE \E s \in Session, i \in Issue, found \in BOOLEAN : Listed(s, i, found)
  BY <1>23 DEF Listed
<1>24. CASE \E s \in Session : Saved(s)
  BY <1>24 DEF Saved
<1>25. CASE \E s \in Session : Finished(s)
  BY <1>25 DEF Finished
<1>26. CASE Else
  BY <1>26 DEF Else
<1> QED
  BY <1>19, <1>20, <1>21, <1>22, <1>23, <1>24, <1>25, <1>26

-------------------------------------------------------------------------------
(* What holds however many releases are cut *)

LEMMA BasicStep ==
  ASSUME TypeOK, Basic, [Next]_vars
  PROVE  Basic'
<1>0. RunType /\ RestType
  BY TypeParts
<1> DEFINE Branches == /\ Bumped(dev) \subseteq Bumped(main)
                       /\ \A v \in Version : v \notin since[v]
           Named(s) == run[s].pc \in {"back-merge", "scan", "gh", "list", "save"} => run[s].version \in Tagged
           Looked(s) == run[s].pc = "save" =>
                          /\ run[s].issue \in Issue \cap run[s].targets
                          /\ run[s].found => shipped[run[s].issue][run[s].version] > 0
<1>1. Branches /\ \A s \in Session : Named(s) /\ Looked(s)
  BY DEF Basic
<1>2. Branches'
  <2>1. CASE UNCHANGED <<dev, main, since>>
    BY <1>1, <2>1 DEF Bumped
  <2>2. CASE \E s \in Session :
               /\ since' = [v \in Version |-> IF v = run[s].version THEN {} ELSE since[v] \cup {run[s].version}]
               /\ UNCHANGED <<dev, main>>
    BY <1>1, <2>2 DEF Bumped
  <2>3. CASE main \subseteq main' /\ UNCHANGED <<dev, since>>
    <3>1. Bumped(main) \subseteq Bumped(main')
      BY <2>3, Bumps
    <3>2. Bumped(main)' = Bumped(main') /\ Bumped(dev)' = Bumped(dev)
      BY <2>3 DEF Bumped
    <3> QED
      BY <1>1, <2>3, <3>1, <3>2
  <2>4. CASE /\ Bumped(dev') = Bumped(dev) \cup Bumped(main) \/ Bumped(dev') = Bumped(dev)
             /\ UNCHANGED <<main, since>>
    BY <1>1, <2>4 DEF Bumped
  <2> HIDE DEF Branches
  <2> QED
    BY <2>1, <2>2, <2>3, <2>4, ReleaseStep
<1>3. ASSUME NEW t \in Session, run[t].pc = "save"
      PROVE  run[t] \in Step /\ run[t].version \in Version /\ run[t].issue \in Issue
  BY <1>0, <1>1, <1>3, Works DEF Step
<1>4. ASSUME NEW s \in Session, NEW r, run' = [run EXCEPT ![s] = r], tags' = tags,
             r = Idle \/ r.version \in Tagged,
             \A i \in Issue, v \in Version : shipped[i][v] > 0 => shipped'[i][v] > 0,
             r.pc = "save" => /\ r.issue \in Issue \cap r.targets
                              /\ r.found => shipped'[r.issue][r.version] > 0
      PROVE  \A t \in Session : Named(t)' /\ Looked(t)'
  <2>1. run'[s] = r /\ Tagged' = Tagged /\ \A t \in Session : t # s => run'[t] = run[t]
    BY <1>0, <1>4, OneMoves DEF Tagged
  <2>2. Named(s)' /\ Looked(s)'
    BY <1>4, <2>1 DEF Idle
  <2>3. ASSUME NEW t \in Session, t # s PROVE Named(t)' /\ Looked(t)'
    BY <1>1, <1>3, <1>4, <2>1, <2>3
  <2> QED
    BY <2>2, <2>3
<1> DEFINE Grown == \A i \in Issue, v \in Version : shipped[i][v] > 0 => shipped'[i][v] > 0
           AllFine == \A t \in Session : Named(t)' /\ Looked(t)'
<1>5. ASSUME NEW s \in Session, NEW targets,
             run[s] \in Step, run[s].pc = "scan", tags' = tags, shipped' = shipped,
             run' = [run EXCEPT ![s] = [run[s] EXCEPT !.pc = "gh", !.targets = targets]]
      PROVE  AllFine
  <2> DEFINE r == [run[s] EXCEPT !.pc = "gh", !.targets = targets]
  <2>1. r.pc = "gh" /\ r.version = run[s].version /\ run[s].version \in Tagged
    BY <1>1, <1>5 DEF Step
  <2> HIDE DEF r, Named, Looked
  <2> QED
    BY <1>4, <1>5, <2>1 DEF r
<1>6. ASSUME NEW s \in Session,
             run[s] \in Step, run[s].pc = "gh", tags' = tags, shipped' = shipped,
             run' = [run EXCEPT ![s] = [run[s] EXCEPT !.pc = "list"]]
      PROVE  AllFine
  <2> DEFINE r == [run[s] EXCEPT !.pc = "list"]
  <2>1. r.pc = "list" /\ r.version = run[s].version /\ run[s].version \in Tagged
    BY <1>1, <1>6 DEF Step
  <2> HIDE DEF r, Named, Looked
  <2> QED
    BY <1>4, <1>6, <2>1 DEF r
<1>7. ASSUME NEW s \in Session, NEW i \in Issue, NEW found \in BOOLEAN,
             run[s] \in Step, run[s].pc = "list", i \in run[s].targets, tags' = tags, shipped' = shipped,
             run' = [run EXCEPT ![s] = [run[s] EXCEPT !.pc = "save", !.issue = i, !.found = found]],
             found <=> shipped[i][run[s].version] > 0
      PROVE  AllFine
  <2> DEFINE r == [run[s] EXCEPT !.pc = "save", !.issue = i, !.found = found]
  <2>1. /\ r.pc = "save" /\ r.version = run[s].version /\ run[s].version \in Tagged
        /\ r.issue = i /\ r.targets = run[s].targets /\ r.found = found
    BY <1>1, <1>7 DEF Step
  <2>2. r.issue \in Issue \cap r.targets /\ (r.found => shipped'[r.issue][r.version] > 0)
    BY <1>7, <2>1
  <2> HIDE DEF r, Named, Looked
  <2> QED
    BY <1>4, <1>7, <2>1, <2>2 DEF r
<1>8. ASSUME NEW s \in Session,
             run[s] \in Step, run[s].pc = "save", tags' = tags,
             run' = [run EXCEPT ![s] = [run[s] EXCEPT !.pc = "list", !.targets = @ \ {run[s].issue}]],
             \A i \in Issue, v \in Version :
               shipped'[i][v] = IF ~run[s].found /\ i = run[s].issue /\ v = run[s].version
                                THEN shipped[i][v] + 1 ELSE shipped[i][v]
      PROVE  AllFine
  <2> DEFINE r == [run[s] EXCEPT !.pc = "list", !.targets = @ \ {run[s].issue}]
  <2>1. r.pc = "list" /\ r.version = run[s].version /\ run[s].version \in Tagged
    BY <1>1, <1>8 DEF Step
  <2>2. \A i \in Issue, v \in Version : shipped[i][v] \in Nat
    BY <1>0 DEF RestType
  <2>3. Grown
    BY <1>8, <2>2
  <2> HIDE DEF r, Named, Looked
  <2> QED
    BY <1>4, <1>8, <2>1, <2>3 DEF r
<1>9. ASSUME NEW s \in Session, run' = [run EXCEPT ![s] = Idle], tags' = tags, shipped' = shipped
      PROVE  AllFine
  <2>1. Idle.pc = "idle"
    BY DEF Idle
  <2> HIDE DEF Named, Looked
  <2> QED
    BY <1>4, <1>9, <2>1
<1>10. ASSUME \A t \in Session : run'[t].pc \in {"gh", "list", "save"} => run'[t] = run[t],
              \A t \in Session : run'[t].pc \in {"back-merge", "scan"} => run'[t].version \in Tagged',
              \A v \in Tagged : v \in Tagged' /\ tags'[v] = tags[v],
              shipped' = shipped
       PROVE  AllFine
  BY <1>1, <1>10
<1>11. AllFine
  <2> HIDE DEF AllFine
  <2> QED
    BY <1>5, <1>6, <1>7, <1>8, <1>9, <1>10, TellStep
<1> QED
  BY <1>2, <1>11 DEF Basic

\* Alone on a version, a session posts what it found nothing of, and nobody else does.
LEMMA ApartStep ==
  ASSUME TypeOK, Basic, apart => Apart, [Next]_vars
  PROVE  (apart => Apart)'
<1>0. RunType /\ RestType
  BY TypeParts
<1>1. SUFFICES ASSUME apart' PROVE Apart'
  OBVIOUS
<1> DEFINE Alone == \A s, t \in Session, v \in Version : Commenting(s, v) /\ Commenting(t, v) => s = t
           Misses(s) == run[s].pc = "save" /\ ~run[s].found => shipped[run[s].issue][run[s].version] = 0
           Once == \A i \in Issue, v \in Version : shipped[i][v] <= 1
<1>2. apart => Alone /\ Once /\ \A s \in Session : Misses(s)
  BY DEF Apart
<1>3. ASSUME NEW t \in Session, run[t].pc = "save"
      PROVE  /\ run[t] \in Step /\ run[t].version \in Version /\ run[t].issue \in Issue
             /\ Commenting(t, run[t].version)
  BY <1>0, <1>3, Works DEF Step, Commenting, Basic
\* A session's own version is the only one it comments on.
<1>4. ASSUME NEW s \in Session, NEW r, run' = [run EXCEPT ![s] = r],
             r.pc \in {"list", "save"} => r.version = run[s].version,
             r.pc \in {"list", "save"} =>
               \/ Commenting(s, run[s].version)
               \/ \A t \in Session \ {s} : ~Commenting(t, run[s].version),
             apart
      PROVE  Alone'
  <2>1. run'[s] = r /\ \A t \in Session : t # s => run'[t] = run[t]
    BY <1>0, <1>4, OneMoves
  <2>2. \A t \in Session, v \in Version : t # s => (Commenting(t, v)' <=> Commenting(t, v))
    BY <2>1 DEF Commenting
  <2>3. \A v \in Version : Commenting(s, v)' => v = run[s].version /\ r.pc \in {"list", "save"}
    BY <1>4, <2>1 DEF Commenting
  <2>4. Alone
    BY <1>2, <1>4
  <2> QED
    BY <1>4, <2>2, <2>3, <2>4
<1>5. ASSUME NEW s \in Session, NEW r, run' = [run EXCEPT ![s] = r], shipped' = shipped, apart,
             r.pc = "save" /\ ~r.found => shipped[r.issue][r.version] = 0
      PROVE  Once' /\ \A t \in Session : Misses(t)'
  <2>1. run'[s] = r /\ \A t \in Session : t # s => run'[t] = run[t]
    BY <1>0, <1>5, OneMoves
  <2> QED
    BY <1>2, <1>5, <2>1
<1>6. ASSUME NEW s \in Session, NEW targets,
             run[s] \in Step, run[s].pc = "scan", UNCHANGED <<tags, shipped, apart>>,
             run' = [run EXCEPT ![s] = [run[s] EXCEPT !.pc = "gh", !.targets = targets]]
      PROVE  Apart'
  <2> DEFINE r == [run[s] EXCEPT !.pc = "gh", !.targets = targets]
  <2>1. r.pc = "gh"
    BY <1>6 DEF Step
  <2> HIDE DEF r
  <2>2. Alone'
    BY <1>1, <1>4, <1>6, <2>1 DEF r
  <2>3. Once' /\ \A t \in Session : Misses(t)'
    BY <1>1, <1>5, <1>6, <2>1 DEF r
  <2> QED
    BY <2>2, <2>3 DEF Apart
<1>7. ASSUME NEW s \in Session,
             run[s] \in Step, run[s].pc = "gh", UNCHANGED <<tags, shipped>>,
             run' = [run EXCEPT ![s] = [run[s] EXCEPT !.pc = "list"]],
             apart, \A t \in Session \ {s} : ~Commenting(t, run[s].version)
      PROVE  Apart'
  <2> DEFINE r == [run[s] EXCEPT !.pc = "list"]
  <2>1. r.pc = "list" /\ r.version = run[s].version
    BY <1>7 DEF Step
  <2> HIDE DEF r
  <2>2. Alone'
    BY <1>4, <1>7, <2>1 DEF r
  <2>3. Once' /\ \A t \in Session : Misses(t)'
    BY <1>5, <1>7, <2>1 DEF r
  <2> QED
    BY <2>2, <2>3 DEF Apart
<1>8. ASSUME NEW s \in Session, NEW i \in Issue, NEW found \in BOOLEAN,
             run[s] \in Step, run[s].pc = "list", UNCHANGED <<tags, shipped, apart>>,
             run' = [run EXCEPT ![s] = [run[s] EXCEPT !.pc = "save", !.issue = i, !.found = found]],
             found <=> shipped[i][run[s].version] > 0
      PROVE  Apart'
  <2> DEFINE r == [run[s] EXCEPT !.pc = "save", !.issue = i, !.found = found]
  <2>1. r.version = run[s].version /\ r.issue = i /\ r.found = found /\ run[s].version \in Version
    BY <1>8 DEF Step
  <2>2. shipped[i][run[s].version] \in Nat
    BY <1>0, <2>1 DEF RestType
  <2>3. ~r.found => shipped[r.issue][r.version] = 0
    BY <1>8, <2>1, <2>2
  <2> HIDE DEF r
  <2>4. Alone'
    BY <1>1, <1>4, <1>8, <2>1 DEF r, Commenting
  <2>5. Once' /\ \A t \in Session : Misses(t)'
    BY <1>1, <1>5, <1>8, <2>3 DEF r
  <2> QED
    BY <2>4, <2>5 DEF Apart
<1>9. ASSUME NEW s \in Session,
             run[s] \in Step, run[s].pc = "save", UNCHANGED <<tags, apart>>,
             run' = [run EXCEPT ![s] = [run[s] EXCEPT !.pc = "list", !.targets = @ \ {run[s].issue}]],
             \A i \in Issue, v \in Version :
               shipped'[i][v] = IF ~run[s].found /\ i = run[s].issue /\ v = run[s].version
                                THEN shipped[i][v] + 1 ELSE shipped[i][v]
      PROVE  Apart'
  <2> DEFINE r == [run[s] EXCEPT !.pc = "list", !.targets = @ \ {run[s].issue}]
  <2>1. r.pc = "list" /\ r.version = run[s].version
    BY <1>9 DEF Step
  <2> HIDE DEF r
  <2>2. Alone'
    BY <1>1, <1>4, <1>9, <2>1 DEF r, Commenting
  <2>3. run'[s] = r /\ \A t \in Session : t # s => run'[t] = run[t]
    BY <1>0, <1>9, OneMoves DEF r
  <2>4. Alone /\ Once /\ \A t \in Session : Misses(t)
    BY <1>1, <1>2, <1>9
  <2>5. \A i \in Issue, v \in Version : shipped[i][v] \in Nat
    BY <1>0 DEF RestType
  <2>6. Once'
    BY <1>3, <1>9, <2>4, <2>5
  <2>7. ASSUME NEW t \in Session PROVE Misses(t)'
    <3>1. CASE t = s
      BY <2>1, <2>3, <3>1
    <3>2. CASE t # s /\ run[t].pc = "save"
      <4>1. Commenting(t, run[t].version) /\ Commenting(s, run[s].version)
        BY <1>3, <1>9, <3>2
      <4>2. run[t].version # run[s].version
        BY <1>3, <1>9, <2>4, <3>2, <4>1
      <4> QED
        BY <1>3, <1>9, <2>3, <2>4, <3>2, <4>2
    <3>3. CASE t # s /\ run[t].pc # "save"
      BY <2>3, <3>3
    <3> QED
      BY <3>1, <3>2, <3>3
  <2> QED
    BY <2>2, <2>6, <2>7 DEF Apart
<1>10. ASSUME NEW s \in Session, run' = [run EXCEPT ![s] = Idle], UNCHANGED <<tags, shipped, apart>>
       PROVE  Apart'
  <2>1. Idle.pc = "idle"
    BY DEF Idle
  <2>2. Alone'
    BY <1>1, <1>4, <1>10, <2>1
  <2>3. Once' /\ \A t \in Session : Misses(t)'
    BY <1>1, <1>5, <1>10, <2>1
  <2> QED
    BY <2>2, <2>3 DEF Apart
<1>11. ASSUME \A t \in Session : run'[t].pc \in {"gh", "list", "save"} => run'[t] = run[t],
              shipped' = shipped, apart' = apart
       PROVE  Apart'
  <2>1. \A t \in Session, v \in Version : Commenting(t, v)' => Commenting(t, v)
    BY <1>11 DEF Commenting
  <2>2. Alone'
    BY <1>1, <1>2, <1>11, <2>1
  <2>3. Once' /\ \A t \in Session : Misses(t)'
    BY <1>1, <1>2, <1>11
  <2> QED
    BY <2>2, <2>3 DEF Apart
<1> QED
  BY <1>1, <1>6, <1>7, <1>8, <1>9, <1>10, <1>11, TellStep

-------------------------------------------------------------------------------
(* What a tag names *)

LEMMA Highest ==
  ASSUME NEW S, S \subseteq Version, S # {}
  PROVE  \E m \in S : \A x \in S : x <= m
<1> DEFINE U == {t .. MaxVersion : t \in S}
           R == StrictSubsetOrdering(Version)
<1>1. \A t \in S : t \in Int /\ t <= MaxVersion /\ t \in t .. MaxVersion /\ t .. MaxVersion \subseteq Version
  BY BoundsAssumption DEF Version
<1>2. U \subseteq FiniteSubsetsOf(Version) /\ U # {}
  <2>1. \A t \in S : IsFiniteSet(t .. MaxVersion)
    BY <1>1, FS_Interval, BoundsAssumption
  <2> QED
    BY <1>1, <2>1 DEF FiniteSubsetsOf
<1>3. IsWellFoundedOn(R, FiniteSubsetsOf(Version))
  BY FS_StrictSubsetOrderingWellFounded
<1>4. PICK m \in U : \A y \in U : ~ (<<y, m>> \in R)
  <2> HIDE DEF U, R
  <2> QED
    BY <1>2, <1>3, WFMin
<1>5. PICK t \in S : m = t .. MaxVersion
  BY <1>4
<1>6. ASSUME NEW x \in S PROVE x <= t
  <2>1. SUFFICES ASSUME t < x PROVE FALSE
    BY <1>1
  <2>2. x .. MaxVersion \subseteq t .. MaxVersion /\ t \notin x .. MaxVersion /\ t \in t .. MaxVersion
    BY <1>1, <2>1
  <2>3. <<x .. MaxVersion, t .. MaxVersion>> \in R
    BY <1>1, <2>2 DEF StrictSubsetOrdering
  <2> QED
    BY <1>4, <1>5, <2>3
<1> QED
  BY <1>6

\* plugin.json on some commits is the bump that was made after all the others.
LEMMA NewestVersion ==
  ASSUME NEW commits, NEW m \in Bumped(commits), since[m] \cap Bumped(commits) = {},
         \A b \in Bumped(commits) \ {m} : m \in since[b]
  PROVE  VersionOf(commits) = m
<1>1. \A b \in Bumped(commits) : since[b] \cap Bumped(commits) = {} <=> b = m
  OBVIOUS
<1>2. m = CHOOSE v \in Bumped(commits) : since[v] \cap Bumped(commits) = {}
  BY <1>1
<1> QED
  BY <1>2 DEF VersionOf, Bumped

\* Of commits that are on main it is the highest version.
LEMMA HighestVersion ==
  ASSUME Basic, Upward, NEW commits, Bumped(commits) \subseteq Bumped(main)
  PROVE  /\ Bumped(commits) = {} => VersionOf(commits) = 0
         /\ Bumped(commits) # {} => /\ VersionOf(commits) \in Bumped(commits)
                                    /\ \A b \in Bumped(commits) : b <= VersionOf(commits)
         /\ \A m \in Bumped(commits) : (\A b \in Bumped(commits) : b <= m) => VersionOf(commits) = m
<1>1. Bumped(commits) = {} => VersionOf(commits) = 0
  BY DEF VersionOf, Bumped
<1>2. Bumped(commits) \subseteq Version /\ \A b \in Version : b \in Int
  BY BoundsAssumption DEF Bumped, Version
<1>3. ASSUME NEW m \in Bumped(commits), \A b \in Bumped(commits) : b <= m PROVE VersionOf(commits) = m
  <2>1. \A b \in Bumped(commits) \ {m} : m \in since[b] /\ b \notin since[m]
    <3>1. \A b \in Bumped(commits) \ {m} : b < m
      BY <1>2, <1>3
    <3> QED
      BY <3>1 DEF Upward
  <2>2. m \notin since[m]
    BY <1>2 DEF Basic
  <2> QED
    BY <2>1, <2>2, NewestVersion
<1>4. ASSUME Bumped(commits) # {}
      PROVE  /\ VersionOf(commits) \in Bumped(commits)
             /\ \A b \in Bumped(commits) : b <= VersionOf(commits)
  BY <1>2, <1>3, <1>4, Highest
<1> QED
  BY <1>1, <1>3, <1>4

\* A release pull request that merges brings the only version main is ahead with.
LEMMA CleanMerge ==
  ASSUME TypeOK, Basic, Orderly, NEW s \in Session, run[s] \in Step, run[s].pc = "merge", Clean(main, run[s].head)
  PROVE  /\ Bumped(main) \subseteq Bumped(dev) \cup {run[s].version}
         /\ \A b \in Bumped(dev) : b < run[s].version
         /\ run[s].version \in Version
         /\ Bumped(run[s].head) = Bumped(dev) \cup {run[s].version}
<1> DEFINE v == run[s].version
           head == run[s].head
<1>1. /\ \A b \in Bumped(dev) : b < v
      /\ Bumped(head) = Bumped(dev) \cup {v} /\ since[v] = {} /\ \A w \in Version \ {v} : v \in since[w]
      /\ v \in Version
  BY DEF Orderly, CutsAbove, CutAbove, Step
<1>2. Bumped(dev) \subseteq Bumped(main) /\ Bumped(main) \subseteq Version /\ \A b \in Version : b \in Int
  BY BoundsAssumption DEF Basic, Bumped, Version
<1>3. VersionOf(head) = v
  <2>1. v \in Bumped(head) /\ since[v] \cap Bumped(head) = {} /\ \A b \in Bumped(head) \ {v} : v \in since[b]
    BY <1>1, <1>2
  <2> QED
    BY <2>1, NewestVersion
<1>4. Bumped(main \cap head) = Bumped(main) \cap Bumped(head)
  BY Bumps
<1>5. VersionOf(main \cap head) \in {0} \cup (Bumped(main) \cap Bumped(head))
  BY <1>4, HighestVersion DEF Orderly
<1>6. ASSUME NEW a \in Bumped(main), a \notin Bumped(dev), a # v PROVE FALSE
  <2>1. \A b \in Bumped(main) : b <= a
    BY <1>6 DEF Orderly, AtMostOneAhead
  <2>2. VersionOf(main) = a
    BY <2>1, HighestVersion DEF Orderly
  <2>3. a # 0 /\ a \notin Bumped(head)
    BY <1>1, <1>2, <1>6 DEF Version
  <2>4. VersionOf(main \cap head) = v
    BY <1>3, <1>5, <1>6, <2>2, <2>3 DEF Clean
  <2>5. v \in Bumped(main) /\ v \notin Bumped(dev)
    <3>1. v # 0 /\ ~ (v < v)
      BY <1>1, BoundsAssumption DEF Version
    <3> QED
      BY <1>1, <1>5, <2>4, <3>1
  <2>6. a <= v /\ v <= a
    BY <1>6, <2>1, <2>5 DEF Orderly, AtMostOneAhead
  <2> QED
    BY <1>1, <1>2, <1>6, <2>6
<1> QED
  BY <1>1, <1>6

\* Only the release that is being cut has to be looked at after a step of it.
LEMMA OneCut ==
  ASSUME RunType, OneCutter, NEW s \in Session, NEW r, run' = [run EXCEPT ![s] = r],
         Cutting(s) \/ \A t \in Session : ~Cutting(t)
  PROVE  OneCutter' /\ (CutAbove(s)' => CutsAbove')
<1>1. run'[s] = r /\ \A t \in Session : t # s => run'[t] = run[t]
  BY OneMoves
<1>2. \A t \in Session : t # s => ~Cutting(t)'
  BY <1>1 DEF OneCutter, Cutting
<1>3. OneCutter'
  BY <1>2 DEF OneCutter
<1>4. ASSUME CutAbove(s)' PROVE CutsAbove'
  <2>1. \A t \in Session : t # s => CutAbove(t)'
    BY <1>2 DEF CutAbove, Cutting
  <2> QED
    BY <1>4, <2>1 DEF CutsAbove, CutAbove
<1> QED
  BY <1>3, <1>4

LEMMA BranchesKept ==
  ASSUME UNCHANGED <<dev, main, since>>
  PROVE  (Upward => Upward') /\ (AtMostOneAhead => AtMostOneAhead')
BY DEF Upward, AtMostOneAhead, Bumped

\* Cutting one release at a time keeps plugin.json, main and the tags in order.
LEMMA OrderlyStep ==
  ASSUME TypeOK, Basic, orderly => Orderly, [Next]_vars
  PROVE  (orderly => Orderly)'
<1>0. RunType /\ RestType
  BY TypeParts
<1>1. SUFFICES ASSUME orderly' PROVE Orderly'
  OBVIOUS
<1>2. orderly => OneCutter /\ Upward /\ AtMostOneAhead /\ CutsAbove /\ TagsGrow
  BY DEF Orderly
<1>3. \A v \in Version : v \in Int
  BY BoundsAssumption DEF Version
<1>4. Bumped(dev) \subseteq Bumped(main) /\ Bumped(main) \subseteq Version
  BY Bumps DEF Basic
<1>5. ASSUME TagsGrow, tags' = tags, main \subseteq main' PROVE TagsGrow'
  BY <1>5 DEF TagsGrow, Tagged, Bumped
\* A release is started above what dev says.
<1>6. ASSUME NEW s \in Session, NEW v \in Version,
             run' = [run EXCEPT ![s] = Fresh(v, "cut")], v > VersionOf(dev),
             UNCHANGED <<dev, main, tags, since>>,
             orderly, \A t \in Session : ~Cutting(t)
      PROVE  Orderly'
  <2>1. \A b \in Bumped(dev) : b < v
    <3>1. CASE Bumped(dev) = {}
      BY <3>1
    <3>2. CASE Bumped(dev) # {}
      <4>1. VersionOf(dev) \in Version /\ \A b \in Bumped(dev) : b <= VersionOf(dev)
        BY <1>2, <1>4, <1>6, <3>2, HighestVersion
      <4> QED
        BY <1>3, <1>4, <1>6, <4>1
    <3> QED
      BY <3>1, <3>2
  <2>2. run'[s] = Fresh(v, "cut") /\ Fresh(v, "cut").pc = "cut" /\ Fresh(v, "cut").version = v
    BY <1>0, <1>6, OneMoves DEF Fresh
  <2>3. Bumped(dev)' = Bumped(dev)
    BY <1>6 DEF Bumped
  <2>4. CutAbove(s)'
    BY <2>1, <2>2, <2>3 DEF CutAbove
  <2>5. OneCutter' /\ CutsAbove'
    BY <1>0, <1>2, <1>6, <2>4, OneCut
  <2> QED
    BY <1>2, <1>5, <1>6, <2>5, BranchesKept DEF Orderly
\* Its bump is the newest, and above any version dev has not got yet.
<1>7. ASSUME NEW s \in Session, run[s] \in Step, run[s].pc = "cut", orderly,
             run' = [run EXCEPT ![s] = [run[s] EXCEPT !.pc = "merge", !.head = dev \cup {Bump(run[s].version)}]],
             since' = [v \in Version |-> IF v = run[s].version THEN {} ELSE since[v] \cup {run[s].version}],
             UNCHANGED <<dev, main, tags>>
      PROVE  Orderly'
  <2> DEFINE v == run[s].version
             r == [run[s] EXCEPT !.pc = "merge", !.head = dev \cup {Bump(v)}]
  <2>1. v \in Version /\ r.pc = "merge" /\ r.version = v /\ r.head = dev \cup {Bump(v)}
    BY <1>7 DEF Step
  <2>2. \A b \in Bumped(dev) : b < v
    BY <1>2, <1>7 DEF CutsAbove, CutAbove
  <2>3. Bumped(dev)' = Bumped(dev) /\ Bumped(main)' = Bumped(main)
    BY <1>7 DEF Bumped
  <2>4. Bumped(dev \cup {Bump(v)}) = Bumped(dev) \cup {v}
    <3>1. Bumped(dev \cup {Bump(v)}) = Bumped(dev) \cup Bumped({Bump(v)})
      BY Bumps
    <3>2. Bumped({Bump(v)}) = {v}
      BY <2>1, Bumps
    <3> QED
      BY <3>1, <3>2
  <2>5. run'[s] = r /\ Cutting(s)
    BY <1>0, <1>7, OneMoves DEF Cutting
  <2> HIDE DEF r
  <2>6. CutAbove(s)'
    BY <1>7, <2>1, <2>2, <2>3, <2>4, <2>5 DEF CutAbove
  <2>7. OneCutter' /\ CutsAbove'
    BY <1>0, <1>2, <1>7, <2>5, <2>6, OneCut DEF r
  <2>8. Upward'
    <3>1. ASSUME NEW a \in Bumped(main), NEW b \in Bumped(main), a < b
          PROVE  b \in since'[a] /\ a \notin since'[b]
      <4>1. a # v
        <5>1. SUFFICES ASSUME a = v PROVE FALSE
          OBVIOUS
        <5>2. a \notin Bumped(dev)
          BY <1>3, <1>4, <2>2, <5>1
        <5>3. b <= a
          BY <1>2, <1>7, <5>2 DEF AtMostOneAhead
        <5> QED
          BY <1>3, <1>4, <3>1, <5>3
      <4>2. b \in since[a] /\ a \notin since[b]
        BY <1>2, <1>7, <3>1 DEF Upward
      <4> QED
        BY <1>4, <1>7, <4>1, <4>2
    <3> QED
      BY <2>3, <3>1 DEF Upward
  <2>9. AtMostOneAhead'
    BY <1>2, <1>7, <2>3 DEF AtMostOneAhead
  <2> QED
    BY <1>2, <1>5, <1>7, <2>7, <2>8, <2>9 DEF Orderly
\* What merges makes it main's highest version, and the only one that dev has not got.
<1>8. ASSUME NEW s \in Session, run[s] \in Step, run[s].pc = "merge", Clean(main, run[s].head), orderly,
             run' = [run EXCEPT ![s] = [run[s] EXCEPT !.pc = "tag"]],
             main' = main \cup run[s].head \cup {Merged(run[s].version)},
             UNCHANGED <<dev, tags, since>>
      PROVE  Orderly'
  <2> DEFINE v == run[s].version
             r == [run[s] EXCEPT !.pc = "tag"]
  <2>1. /\ Bumped(main) \subseteq Bumped(dev) \cup {v} /\ \A b \in Bumped(dev) : b < v /\ v \in Version
        /\ Bumped(run[s].head) = Bumped(dev) \cup {v} /\ v \in Version
    BY <1>2, <1>8, CleanMerge
  <2>2. Bumped(main') = Bumped(dev) \cup {v}
    <3>1. /\ Bumped(main \cup run[s].head \cup {Merged(v)})
               = Bumped(main \cup run[s].head) \cup Bumped({Merged(v)})
          /\ Bumped(main \cup run[s].head) = Bumped(main) \cup Bumped(run[s].head)
      BY Bumps
    <3>2. Bumped({Merged(v)}) = {}
      BY <2>1, Bumps
    <3> QED
      BY <1>8, <2>1, <3>1, <3>2
  <2>3. Bumped(main)' = Bumped(dev) \cup {v} /\ Bumped(dev)' = Bumped(dev) /\ since' = since
    BY <1>8, <2>2 DEF Bumped
  <2>4. run'[s] = r /\ r.pc = "tag" /\ r.version = v /\ Cutting(s)
    BY <1>0, <1>8, OneMoves DEF Cutting, Step
  <2>5. since[v] = {} /\ \A w \in Version \ {v} : v \in since[w]
    BY <1>2, <1>8 DEF CutsAbove, CutAbove
  <2> HIDE DEF r
  <2>6. CutAbove(s)'
    BY <1>3, <1>4, <2>1, <2>3, <2>4 DEF CutAbove
  <2>7. OneCutter' /\ CutsAbove'
    BY <1>0, <1>2, <1>8, <2>4, <2>6, OneCut DEF r
  <2>8. Upward'
    <3>1. ASSUME NEW a \in Bumped(dev) \cup {v}, NEW b \in Bumped(dev) \cup {v}, a < b
          PROVE  b \in since[a] /\ a \notin since[b]
      <4>1. CASE b = v
        BY <1>3, <1>4, <2>1, <2>5, <3>1, <4>1
      <4>2. CASE b # v
        <5>1. a \in Bumped(main) /\ b \in Bumped(main)
          BY <1>3, <1>4, <2>1, <3>1, <4>2
        <5> QED
          BY <1>2, <1>8, <3>1, <5>1 DEF Upward
      <4> QED
        BY <4>1, <4>2
    <3> QED
      BY <2>3, <3>1 DEF Upward
  <2>9. AtMostOneAhead'
    BY <1>3, <1>4, <2>1, <2>3 DEF AtMostOneAhead
  <2> QED
    BY <1>2, <1>5, <1>8, <2>7, <2>8, <2>9 DEF Orderly
\* The tag is on main's highest version, which is above all that is tagged.
<1>9. ASSUME NEW s \in Session, run[s] \in Step, run[s].pc = "tag", run[s].version \notin Tagged, orderly,
             run' = [run EXCEPT ![s] = [run[s] EXCEPT !.pc = "back-merge"]],
             tags' = [tags EXCEPT ![run[s].version] = main],
             UNCHANGED <<dev, main, since>>
      PROVE  Orderly'
  <2> DEFINE v == run[s].version
             r == [run[s] EXCEPT !.pc = "back-merge"]
  <2>1. run'[s] = r /\ r.pc = "back-merge" /\ v \in Version /\ Cutting(s)
    BY <1>0, <1>9, OneMoves DEF Cutting, Step
  <2> HIDE DEF r
  <2>2. CutAbove(s)'
    BY <2>1 DEF CutAbove
  <2>3. OneCutter' /\ CutsAbove'
    BY <1>0, <1>2, <1>9, <2>1, <2>2, OneCut DEF r
  <2>4. v \in Bumped(main) /\ \A b \in Bumped(main) : b <= v
    BY <1>2, <1>9 DEF CutsAbove, CutAbove
  <2>5. /\ Tagged' = Tagged \cup {v} /\ tags'[v] = main
        /\ \A w \in Tagged : tags'[w] = tags[w]
    <3>1. main # None
      BY <1>0, NoneAssumption DEF RestType
    <3> QED
      BY <1>0, <1>9, <2>1, <3>1 DEF Tagged, RestType
  <2>6. \A w \in Tagged : /\ w \in Bumped(tags[w]) /\ tags[w] \subseteq main
                          /\ \A b \in Bumped(tags[w]) : b <= w
                          /\ \A x \in Tagged : w <= x => tags[w] \subseteq tags[x]
    BY <1>2, <1>9 DEF TagsGrow
  <2>7. \A w \in Tagged : w \in Version /\ w <= v /\ w # v
    <3>1. \A w \in Tagged : w \in Bumped(main)
      BY <2>6, Bumps
    <3> QED
      BY <1>9, <2>4, <3>1 DEF Tagged
  <2>8. TagsGrow'
    <3>1. ASSUME NEW w \in Tagged'
          PROVE  /\ w \in Bumped(tags'[w]) /\ tags'[w] \subseteq main'
                 /\ \A b \in Bumped(tags'[w]) : b <= w
                 /\ \A x \in Tagged' : w <= x => tags'[w] \subseteq tags'[x]
      <4>1. CASE w = v
        <5>1. \A x \in Tagged' : w <= x => x = v
          BY <1>3, <2>1, <2>5, <2>7, <4>1
        <5> QED
          BY <1>9, <2>4, <2>5, <4>1, <5>1
      <4>2. CASE w \in Tagged
        BY <1>9, <2>5, <2>6, <4>2
      <4> QED
        BY <2>5, <4>1, <4>2
    <3> QED
      BY <3>1 DEF TagsGrow, Bumped
  <2> QED
    BY <1>2, <1>9, <2>3, <2>8, BranchesKept DEF Orderly
\* Once main is merged back dev has every version, and no release is being cut.
<1>10. ASSUME \/ \A t \in Session : ~Cutting(t) /\ run'[t] = run[t]
              \/ \E s \in Session : /\ Cutting(s) /\ ~Cutting(s)'
                                    /\ \A t \in Session : t # s => run'[t] = run[t],
              Bumped(dev') = Bumped(dev) \cup Bumped(main),
              UNCHANGED <<main, tags, since>>, orderly
       PROVE  Orderly'
  <2>1. \A t \in Session : ~Cutting(t)'
    BY <1>2, <1>10 DEF OneCutter, Cutting
  <2>2. OneCutter' /\ CutsAbove'
    BY <2>1 DEF OneCutter, CutsAbove, CutAbove, Cutting
  <2>3. Bumped(main)' = Bumped(main) /\ Bumped(dev)' = Bumped(main)
    BY <1>4, <1>10 DEF Bumped
  <2>4. Upward' /\ AtMostOneAhead'
    BY <1>2, <1>10, <2>3 DEF Upward, AtMostOneAhead
  <2> QED
    BY <1>2, <1>5, <1>10, <2>2, <2>4 DEF Orderly
<1>11. ASSUME \A t \in Session : Cutting(t)' => run'[t] = run[t],
              Bumped(dev') = Bumped(dev),
              UNCHANGED <<main, tags, since>>, orderly
       PROVE  Orderly'
  <2>1. \A t \in Session : Cutting(t)' => Cutting(t)
    BY <1>11 DEF Cutting
  <2>2. OneCutter'
    BY <1>2, <1>11, <2>1 DEF OneCutter
  <2>3. Bumped(main)' = Bumped(main) /\ Bumped(dev)' = Bumped(dev)
    BY <1>11 DEF Bumped
  <2>4. ASSUME NEW t \in Session PROVE CutAbove(t)'
    <3>1. CutAbove(t)
      BY <1>2, <1>11 DEF CutsAbove, CutAbove
    <3>2. CASE Cutting(t)'
      BY <1>11, <2>3, <3>1, <3>2 DEF CutAbove
    <3>3. CASE ~Cutting(t)'
      BY <3>3 DEF CutAbove, Cutting
    <3> QED
      BY <3>2, <3>3
  <2>5. CutsAbove'
    BY <2>4 DEF CutsAbove, CutAbove
  <2>6. Upward' /\ AtMostOneAhead'
    BY <1>2, <1>11, <2>3 DEF Upward, AtMostOneAhead
  <2> QED
    BY <1>2, <1>5, <1>11, <2>2, <2>5, <2>6 DEF Orderly
<1> QED
  BY <1>1, <1>6, <1>7, <1>8, <1>9, <1>10, <1>11, ReleaseStep

\* So every state is sound.
LEMMA SoundInvariant == Spec => []Sound
<1>1. Init => Sound
  <2>1. Init => TypeOK
    BY BoundsAssumption DEF Init, TypeOK, History
  <2>2. ASSUME Init PROVE Basic /\ Apart
    BY <2>2 DEF Init, Basic, Apart, Bumped, Commenting, Idle
  <2>3. ASSUME Init PROVE Orderly
    <3>1. Bumped(main) = {} /\ Tagged = {} /\ \A s \in Session : run[s].pc = "idle"
      BY <2>3 DEF Init, Bumped, Idle, Tagged
    <3> QED
      BY <3>1 DEF Orderly, OneCutter, Upward, AtMostOneAhead, CutsAbove, CutAbove, TagsGrow, Cutting
  <2> QED
    BY <2>1, <2>2, <2>3 DEF Sound
<1>2. Sound /\ [Next]_vars => Sound'
  <2>1. TypeOK /\ [Next]_vars => TypeOK'
    BY RunTypeStep, RestTypeStep DEF TypeOK, RunType, RestType
  <2> QED
    BY <2>1, BasicStep, ApartStep, OrderlyStep DEF Sound
<1> QED
  BY <1>1, <1>2, PTL DEF Spec

\* As long as releases are cut one at a time, each above dev's version, the tree a tag
\* names carries that version and a later tag holds all that an earlier one holds,
\* whatever is killed or done by hand.
THEOREM TagsNameTheirTrees == Spec => []TagNamesTree
<1>1. Sound => TagNamesTree
  <2>1. SUFFICES ASSUME Sound, orderly, NEW v \in Tagged
                 PROVE  /\ VersionOf(tags[v]) = v
                        /\ \A w \in Tagged : v <= w => tags[v] \subseteq tags[w]
    BY DEF TagNamesTree
  <2>2. /\ v \in Bumped(tags[v]) /\ tags[v] \subseteq main
        /\ \A b \in Bumped(tags[v]) : b <= v
        /\ \A w \in Tagged : v <= w => tags[v] \subseteq tags[w]
    BY <2>1 DEF Sound, Orderly, TagsGrow
  <2>3. Bumped(tags[v]) \subseteq Bumped(main)
    BY <2>2, Bumps
  <2>4. VersionOf(tags[v]) = v
    BY <2>1, <2>2, <2>3, HighestVersion DEF Sound, Orderly
  <2> QED
    BY <2>2, <2>4
<1> QED
  BY <1>1, SoundInvariant, PTL

\* An issue is told once of a version, whatever is killed or run again, unless two
\* sessions were commenting on that version at the same time.
THEOREM ToldOnce == Spec => [](apart => \A i \in Issue, v \in Version : shipped[i][v] <= 1)
<1>1. Sound => (apart => \A i \in Issue, v \in Version : shipped[i][v] <= 1)
  BY DEF Sound, Apart
<1> QED
  BY <1>1, SoundInvariant, PTL

-------------------------------------------------------------------------------
(* Whom the comments tell *)

\* Among tags that only grow, the previous one is all that came before.
LEMMA RangeIsNew ==
  ASSUME TagsGrow, NEW v \in Tagged
  PROVE  TagRange(v) = NewIn(v)
<1> DEFINE older == {w \in Tagged : w < v}
           last == CHOOSE w \in older : \A x \in older : x <= w
<1>1. CASE older = {}
  BY <1>1 DEF TagRange, NewIn
<1>2. CASE older # {}
  <2>1. older \subseteq Version
    BY DEF Tagged
  <2>2. last \in older /\ \A x \in older : x <= last
    <3> HIDE DEF older
    <3> QED
      BY <1>2, <2>1, Highest
  <2>3. \A x \in older : tags[x] \subseteq tags[last]
    BY <2>2 DEF TagsGrow
  <2>4. UNION {tags[w] : w \in older} = tags[last]
    BY <2>2, <2>3
  <2>5. TagRange(v) = tags[v] \ tags[last]
    BY <1>2 DEF TagRange
  <2> QED
    BY <2>4, <2>5 DEF NewIn
<1> QED
  BY <1>1, <1>2

\* A new tag is above all others, so it takes nothing from their ranges.
LEMMA NewInKept ==
  ASSUME Sound, orderly, [Next]_vars
  PROVE  \A v \in Tagged : /\ v \in Tagged' /\ NewIn(v)' = NewIn(v)
                           /\ {x \in Tagged' : x < v} = {x \in Tagged : x < v}
<1>0. RunType /\ RestType /\ TagsGrow /\ CutsAbove
  BY TypeParts DEF Sound, Orderly
<1>1. ASSUME tags' = tags
      PROVE  \A v \in Tagged : /\ v \in Tagged' /\ NewIn(v)' = NewIn(v)
                               /\ {x \in Tagged' : x < v} = {x \in Tagged : x < v}
  BY <1>1 DEF Tagged, NewIn
<1>2. ASSUME NEW s \in Session, run[s] \in Step, run[s].pc = "tag", run[s].version \notin Tagged,
             tags' = [tags EXCEPT ![run[s].version] = main]
      PROVE  \A v \in Tagged : /\ v \in Tagged' /\ NewIn(v)' = NewIn(v)
                               /\ {x \in Tagged' : x < v} = {x \in Tagged : x < v}
  <2> DEFINE n == run[s].version
  <2>1. n \in Version /\ main # None
    BY <1>0, <1>2, NoneAssumption DEF Step, RestType
  <2>2. Tagged' = Tagged \cup {n} /\ \A v \in Tagged : tags'[v] = tags[v]
    BY <1>0, <1>2, <2>1 DEF Tagged, RestType
  <2>3. \A v \in Tagged : v <= n /\ v \in Int
    <3>1. \A v \in Tagged : v \in Bumped(main)
      BY <1>0, Bumps DEF TagsGrow
    <3>2. \A v \in Tagged : v \in Int
      BY BoundsAssumption DEF Tagged, Version
    <3> QED
      BY <1>0, <1>2, <3>1, <3>2 DEF CutsAbove, CutAbove
  <2>4. ASSUME NEW v \in Tagged
        PROVE  NewIn(v)' = NewIn(v) /\ {x \in Tagged' : x < v} = {x \in Tagged : x < v}
    <3>1. {x \in Tagged' : x < v} = {x \in Tagged : x < v}
      BY <2>1, <2>2, <2>3, BoundsAssumption DEF Version
    <3> QED
      BY <2>2, <3>1 DEF NewIn
  <2> QED
    BY <2>2, <2>4
<1> QED
  BY <1>1, <1>2, ReleaseStep DEF Sound

\* The sources are sets of issues.
LEMMA SourcesTyped ==
  ASSUME NEW v, NEW issues \in Sources(v)
  PROVE  issues \subseteq Issue
<1>1. WorkIn(NewIn(v)) \subseteq Issue
  BY RefsAssumption DEF WorkIn
<1> QED
  BY <1>1 DEF Sources, Completed

\* What was completed since the tag before a tag is settled once the tag is there.
LEMMA CompletedKept ==
  ASSUME Sound, orderly, [Next]_vars, NEW v \in Tagged
  PROVE  Completed(v)' = Completed(v)
<1> DEFINE older == {x \in Tagged : x < v}
<1>1. {x \in Tagged' : x < v} = older
  BY NewInKept
<1>2. ASSUME NEW i \in Issue
      PROVE  (doneAt'[i] # None /\ doneAt'[i] = older) <=> (doneAt[i] # None /\ doneAt[i] = older)
  <2>1. CASE doneAt' = doneAt
    BY <2>1
  <2>2. ASSUME NEW c \in Commit, Develop(c)
        PROVE  (doneAt'[i] # None /\ doneAt'[i] = older) <=> (doneAt[i] # None /\ doneAt[i] = older)
    <3>1. doneAt'[i] = IF i \in Work[c] /\ doneAt[i] = None THEN Tagged ELSE doneAt[i]
      BY <1>2, <2>2 DEF Develop
    <3>2. Tagged # older
      BY BoundsAssumption DEF Tagged, Version
    <3> HIDE DEF older
    <3> QED
      BY <3>1, <3>2
  <2>3. doneAt' = doneAt \/ \E c \in Commit : Develop(c)
    BY DEF Next, MergeBackByHand, CleanUp, Start, Rerun, Cut, MergePr, Tag, BackMerge, ScanRange, GhRelease,
           List, Save, Finish, Stop, linear, vars
  <2> QED
    BY <2>1, <2>2, <2>3
<1> QED
  BY <1>1, <1>2 DEF Completed

\* A tag keeps its sources.
LEMMA SourcesGrow ==
  ASSUME Sound, orderly, [Next]_vars
  PROVE  \A v \in Tagged : v \in Tagged' /\ Sources(v) \subseteq Sources(v)'
<1>1. guessed \subseteq guessed'
  BY DEF Next, MergeBackByHand, Develop, CleanUp, Start, Rerun, Cut, MergePr, Tag, BackMerge, ScanRange, GhRelease,
         List, Save, Finish, Stop, history, vars
<1>2. \A v \in Tagged : /\ v \in Tagged' /\ NewIn(v)' = NewIn(v)
                        /\ {x \in Tagged' : x < v} = {x \in Tagged : x < v}
  BY NewInKept
<1>3. ASSUME NEW v \in Tagged PROVE Sources(v) \subseteq Sources(v)'
  <2>1. Completed(v)' = Completed(v)
    BY CompletedKept
  <2>2. WorkIn(NewIn(v))' = WorkIn(NewIn(v))
    BY <1>2 DEF WorkIn
  <2> QED
    BY <1>1, <2>1, <2>2 DEF Sources
<1> QED
  BY <1>2, <1>3

\* What is told of a version stays its sources' issues, and nothing of the one it has
\* is lost.
LEMMA TellingStep ==
  ASSUME TextTells, Sound, orderly => Telling, [Next]_vars
  PROVE  (orderly => Telling)'
<1>0. RunType /\ RestType /\ Basic
  BY TypeParts DEF Sound
<1>1. SUFFICES ASSUME orderly' PROVE Telling'
  OBVIOUS
<1>2. orderly
  BY <1>1, ReleaseStep DEF Sound
<1>3. \A v \in Version : Told(v) /\ \A s \in Session : Rest(s, v)
  BY <1>2 DEF Telling
<1>4. \A v \in Tagged : v \in Tagged' /\ Sources(v) \subseteq Sources(v)'
  BY <1>2, SourcesGrow
<1>5. \A i \in Issue, v \in Version : shipped[i][v] \in Nat
  BY <1>0 DEF RestType
<1>6. \A v : \A issues \in Sources(v) : issues \subseteq Issue
  BY SourcesTyped
\* A step that neither posts a comment nor finishes leaves what has been told as it is.
<1>7. ASSUME UNCHANGED <<shipped, said>>, NEW v \in Version PROVE Told(v)'
  BY <1>3, <1>4, <1>7 DEF Told
\* It leaves the rest of a session as it is that has the same issues before it.
<1>8. ASSUME NEW s \in Session, NEW v \in Version,
             run'[s].pc \in {"gh", "list", "save"} =>
               /\ run[s].pc \in {"gh", "list", "save"} /\ run'[s].version = run[s].version
               /\ run'[s].targets = run[s].targets,
             \A i \in Issue : shipped[i][v] > 0 => shipped'[i][v] > 0
      PROVE  Rest(s, v)'
  <2>1. SUFFICES ASSUME run'[s].pc \in {"gh", "list", "save"}, run'[s].version = v
                 PROVE  /\ run'[s].targets \subseteq UNION Sources(v)'
                        /\ \E issues \in Sources(v)' : \A i \in issues : i \in run'[s].targets \/ shipped'[i][v] > 0
    BY DEF Rest
  <2>2. v \in Tagged
    BY <1>0, <1>8, <2>1 DEF Basic
  <2>3. Sources(v) \subseteq Sources(v)'
    BY <1>4, <2>2
  <2>4. /\ run[s].targets \subseteq UNION Sources(v)
        /\ \E issues \in Sources(v) : \A i \in issues : i \in run[s].targets \/ shipped[i][v] > 0
    BY <1>3, <1>8, <2>1 DEF Rest
  <2>5. PICK issues \in Sources(v) : \A i \in issues : i \in run[s].targets \/ shipped[i][v] > 0
    BY <2>4
  <2>6. \A i \in issues : i \in run'[s].targets \/ shipped'[i][v] > 0
    BY <1>6, <1>8, <2>1, <2>5
  <2> QED
    BY <1>8, <2>1, <2>3, <2>4, <2>5, <2>6
<1>9. ASSUME UNCHANGED shipped, said' = said, \A s \in Session, v \in Version : Rest(s, v)'
      PROVE  Telling'
  <2>1. \A v \in Version : Told(v)'
    BY <1>7, <1>9
  <2> QED
    BY <1>9, <2>1 DEF Telling
<1>10. ASSUME NEW s \in Session, NEW targets \in SUBSET Nat,
              run[s] \in Step, run[s].pc = "scan",
              run' = [run EXCEPT ![s] = [run[s] EXCEPT !.pc = "gh", !.targets = targets]],
              \/ guessed' = guessed \cup {run[s].version} /\ targets = Completed(run[s].version)
              \/ guessed' = guessed /\ (TextTells => targets = WorkIn(TagRange(run[s].version))),
              UNCHANGED <<tags, shipped, apart, said>>
       PROVE  Telling'
  <2> DEFINE r == [run[s] EXCEPT !.pc = "gh", !.targets = targets]
  <2>1. r.pc = "gh" /\ r.version = run[s].version /\ r.targets = targets
    BY <1>10 DEF Step
  <2>2. run'[s] = r /\ \A t \in Session : t # s => run'[t] = run[t]
    BY <1>0, <1>10, OneMoves
  <2> HIDE DEF r
  <2>3. ASSUME NEW v \in Version PROVE Rest(s, v)'
    <3>1. CASE v # run[s].version
      BY <2>1, <2>2, <3>1 DEF Rest
    <3>2. CASE v = run[s].version
      <4>1. v \in Tagged
        BY <1>0, <1>10, <3>2 DEF Basic
      <4>2. targets \in Sources(v)'
        <5>1. CASE guessed' = guessed \cup {v} /\ targets = Completed(v)
          <6>1. Completed(v)' = Completed(v)
            BY <1>2, <4>1, CompletedKept
          <6>2. Completed(v)' \in Sources(v)'
            BY <5>1 DEF Sources
          <6> QED
            BY <5>1, <6>1, <6>2
        <5>2. CASE targets = WorkIn(TagRange(v))
          <6>1. TagRange(v) = NewIn(v)
            BY <1>2, <4>1, RangeIsNew DEF Sound, Orderly
          <6>2. WorkIn(NewIn(v)) \in Sources(v)
            BY DEF Sources
          <6> QED
            BY <1>4, <4>1, <5>2, <6>1, <6>2
        <5> QED
          BY <1>10, <3>2, <5>1, <5>2
      <4> QED
        BY <2>1, <2>2, <4>2 DEF Rest
    <3> QED
      BY <3>1, <3>2
  <2>4. ASSUME NEW t \in Session, t # s, NEW v \in Version PROVE Rest(t, v)'
    BY <1>8, <1>10, <2>2, <2>4
  <2> QED
    BY <1>9, <1>10, <2>3, <2>4
<1>11. ASSUME NEW s \in Session, run[s] \in Step, run[s].pc = "gh",
              run' = [run EXCEPT ![s] = [run[s] EXCEPT !.pc = "list"]],
              UNCHANGED <<tags, shipped, guessed, said>>
       PROVE  Telling'
  <2> DEFINE r == [run[s] EXCEPT !.pc = "list"]
  <2>1. r.pc = "list" /\ r.version = run[s].version /\ r.targets = run[s].targets
    BY <1>11 DEF Step
  <2>2. run'[s] = r /\ \A t \in Session : t # s => run'[t] = run[t]
    BY <1>0, <1>11, OneMoves
  <2> HIDE DEF r
  <2>3. \A t \in Session, v \in Version : Rest(t, v)'
    BY <1>8, <1>11, <2>1, <2>2
  <2> QED
    BY <1>9, <1>11, <2>3
<1>12. ASSUME NEW s \in Session, NEW i \in Issue, NEW found \in BOOLEAN,
              run[s] \in Step, run[s].pc = "list",
              run' = [run EXCEPT ![s] = [run[s] EXCEPT !.pc = "save", !.issue = i, !.found = found]],
              UNCHANGED <<tags, shipped, apart, guessed, said>>
       PROVE  Telling'
  <2> DEFINE r == [run[s] EXCEPT !.pc = "save", !.issue = i, !.found = found]
  <2>1. r.pc = "save" /\ r.version = run[s].version /\ r.targets = run[s].targets
    BY <1>12 DEF Step
  <2>2. run'[s] = r /\ \A t \in Session : t # s => run'[t] = run[t]
    BY <1>0, <1>12, OneMoves
  <2> HIDE DEF r
  <2>3. \A t \in Session, v \in Version : Rest(t, v)'
    BY <1>8, <1>12, <2>1, <2>2
  <2> QED
    BY <1>9, <1>12, <2>3
\* The issue that is told was one of the session's, and is told now if it was not before.
<1>13. ASSUME NEW s \in Session, run[s] \in Step, run[s].pc = "save",
              run' = [run EXCEPT ![s] = [run[s] EXCEPT !.pc = "list", !.targets = @ \ {run[s].issue}]],
              \A i \in Issue, v \in Version :
                shipped'[i][v] = IF ~run[s].found /\ i = run[s].issue /\ v = run[s].version
                                 THEN shipped[i][v] + 1 ELSE shipped[i][v],
              UNCHANGED <<tags, apart, guessed, said>>
       PROVE  Telling'
  <2> DEFINE r == [run[s] EXCEPT !.pc = "list", !.targets = @ \ {run[s].issue}]
             n == run[s].version
             j == run[s].issue
  <2>1. /\ r.pc = "list" /\ r.version = n /\ r.targets = run[s].targets \ {j}
        /\ n \in Version
    BY <1>13 DEF Step
  <2>2. run'[s] = r /\ \A t \in Session : t # s => run'[t] = run[t]
    BY <1>0, <1>13, OneMoves
  <2> HIDE DEF r
  <2>3. n \in Tagged /\ j \in Issue /\ j \in run[s].targets /\ (run[s].found => shipped[j][n] > 0)
    BY <1>0, <1>13 DEF Basic
  <2>4. \A i \in Issue, v \in Version : shipped[i][v] > 0 => shipped'[i][v] > 0
    BY <1>5, <1>13
  <2>5. shipped'[j][n] > 0
    BY <1>5, <1>13, <2>1, <2>3
  <2>6. \A i \in Issue, v \in Version : shipped'[i][v] > 0 => shipped[i][v] > 0 \/ (i = j /\ v = n)
    BY <1>13
  <2>7. /\ run[s].targets \subseteq UNION Sources(n)
        /\ \E issues \in Sources(n) : \A i \in issues : i \in run[s].targets \/ shipped[i][n] > 0
    BY <1>3, <1>13, <2>1 DEF Rest
  <2>8. ASSUME NEW v \in Version PROVE Told(v)'
    <3>1. ASSUME NEW i \in Issue, shipped'[i][v] > 0 PROVE v \in Tagged /\ i \in UNION Sources(v)
      BY <1>3, <2>3, <2>6, <2>7, <2>8, <3>1 DEF Told
    <3>2. ASSUME v \in said
          PROVE  v \in Tagged /\ \E issues \in Sources(v) : \A i \in issues : shipped'[i][v] > 0
      BY <1>3, <1>6, <2>4, <3>2 DEF Told
    <3> QED
      BY <1>4, <1>13, <3>1, <3>2 DEF Told
  <2>9. ASSUME NEW v \in Version PROVE Rest(s, v)'
    <3>1. CASE v # n
      BY <2>1, <2>2, <3>1 DEF Rest
    <3>2. CASE v = n
      <4>1. Sources(v) \subseteq Sources(v)'
        BY <1>4, <2>3, <3>2
      <4>2. run'[s].targets \subseteq UNION Sources(v)
        BY <2>1, <2>2, <2>7, <3>2
      <4>3. PICK issues \in Sources(v) : \A i \in issues : i \in run[s].targets \/ shipped[i][n] > 0
        BY <2>7, <3>2
      <4>4. \A i \in issues : i \in run'[s].targets \/ shipped'[i][v] > 0
        BY <1>6, <2>1, <2>2, <2>4, <2>5, <3>2, <4>3
      <4> QED
        BY <4>1, <4>2, <4>3, <4>4 DEF Rest
    <3> QED
      BY <3>1, <3>2
  <2>10. ASSUME NEW t \in Session, t # s, NEW v \in Version PROVE Rest(t, v)'
    BY <1>8, <2>2, <2>4, <2>10
  <2> QED
    BY <2>8, <2>9, <2>10 DEF Telling
<1>14. ASSUME NEW s \in Session, run[s] \in Step, run[s].pc = "list", run[s].targets = {},
              run' = [run EXCEPT ![s] = Idle],
              said' = said \cup {run[s].version},
              UNCHANGED <<tags, shipped, apart, guessed>>
       PROVE  Telling'
  <2> DEFINE n == run[s].version
  <2>1. run'[s] = Idle /\ Idle.pc = "idle" /\ \A t \in Session : t # s => run'[t] = run[t]
    BY <1>0, <1>14, OneMoves DEF Idle
  <2>2. n \in Tagged /\ n \in Version
    BY <1>0, <1>14 DEF Basic, Step
  <2>3. \E issues \in Sources(n) : \A i \in issues : shipped[i][n] > 0
    BY <1>3, <1>14, <2>2 DEF Rest
  <2>4. ASSUME NEW v \in Version PROVE Told(v)'
    <3>1. v \in said' => v \in Tagged /\ \E issues \in Sources(v) : \A i \in issues : shipped[i][v] > 0
      BY <1>3, <1>14, <2>2, <2>3 DEF Told
    <3>2. \A i \in Issue : shipped[i][v] > 0 => v \in Tagged /\ i \in UNION Sources(v)
      BY <1>3 DEF Told
    <3> QED
      BY <1>4, <1>14, <3>1, <3>2 DEF Told
  <2>5. \A t \in Session, v \in Version : Rest(t, v)'
    BY <1>8, <1>14, <2>1
  <2> QED
    BY <2>4, <2>5 DEF Telling
<1>15. ASSUME \A t \in Session : run'[t].pc \in {"gh", "list", "save"} => run'[t] = run[t],
              UNCHANGED <<shipped, apart, guessed, said>>
       PROVE  Telling'
  <2>1. \A t \in Session, v \in Version : Rest(t, v)'
    BY <1>8, <1>15
  <2> QED
    BY <1>9, <1>15, <2>1
<1> QED
  BY <1>0, <1>10, <1>11, <1>12, <1>13, <1>14, <1>15, TellStep DEF Sound

\* As long as releases are cut one at a time, each above dev's version, and the texts say
\* whose work a commit is: a version tells exactly the issues whose work it is the first
\* to hold; where a session fell back on Linear's dates, those, or the ones completed
\* since the previous tag; each once, over kills, re-runs and sessions that come after
\* one another.
THEOREM ToldOfTheirRelease == ASSUME TextTells PROVE Spec => []ShippedExactly
<1>1. Init => (orderly => Telling)
  BY DEF Init, Telling, Told, Rest, Idle
<1>2. Sound /\ (orderly => Telling) /\ [Next]_vars => (orderly => Telling)'
  BY TellingStep
<1>3. Sound /\ (orderly => Telling) => ShippedExactly
  <2>1. ASSUME Sound, apart PROVE \A i \in Issue, v \in Version : shipped[i][v] <= 1
    BY <2>1 DEF Sound, Apart
  <2>2. ASSUME Telling, NEW v \in Version
        PROVE  LET told == {i \in Issue : shipped[i][v] > 0}
               IN  /\ told # {} => told \subseteq UNION Sources(v)
                   /\ v \in said => \E issues \in Sources(v) : issues \subseteq told
    <3>1. \A issues \in Sources(v) : issues \subseteq Issue
      BY SourcesTyped
    <3> QED
      BY <2>2, <3>1 DEF Telling, Told
  <2> QED
    BY <2>1, <2>2 DEF ShippedExactly
<1> QED
  BY <1>1, <1>2, <1>3, SoundInvariant, PTL DEF Spec
===============================================================================
