---------------------------- MODULE Standards_proofs ----------------------------
(***************************************************************************)
(* Proofs about Standards: the index of the branch that pull requests go   *)
(* to follows its ADRs, for any files, front matters and pull requests,    *)
(* however they race.                                                      *)
(***************************************************************************)
EXTENDS Standards, NaturalsInduction, WellFoundedInduction, TLAPS

Whole == [adrs : Adrs, index : Index]
Tree == [adrs : Adrs, index : Index \cup {Torn}]
OpenPr == [state : {"open"}, base : Whole, tree : Tree, writing : BOOLEAN,
           check : {"none", "green", "outdated"}]
Landed == [state |-> "merged"]

DevType == dev \in Whole
PrType == pr \in [PR -> {Unopened, Landed} \cup OpenPr]
CountType == edits \in 0 .. MaxEdits /\ tested \in BOOLEAN

\* What holds of a branch while dev is as in d: a check outlives neither an edit nor
\* a rebuild, a green one is of the merge with dev, the branch deletes no ADR, and
\* the dev it was cut from was in sync.
Kept(base, tree) == \A f \in File : base.adrs[f] # None => tree.adrs[f] # None
Sound(b, d, t) ==
  b.state = "open" =>
    /\ b.check # "none" => b.tree.index # Torn /\ ~b.writing
    /\ b.check = "green" => Passes(MergeTrees(b.base, d, b.tree))
    /\ Kept(b.base, b.tree)
    /\ t => Passes(b.base)

Branches == \A p \in PR : Sound(pr[p], dev, tested)

\* The inductive invariant.
IInv == DevType /\ PrType /\ CountType /\ Branches /\ DevInSync

-------------------------------------------------------------------------------
LEMMA BuildIndexType ==
  ASSUME NEW adrs \in Adrs
  PROVE  BuildIndex(adrs) \in Index
<1>1. \A f \in File : adrs[f] # None => adrs[f] \in Draft
  BY DEF Adrs
<1>2. \A f \in File : (IF adrs[f] = None THEN None ELSE Entries[adrs[f]])
                        \in {Entries[d] : d \in Draft} \cup {None}
  BY <1>1
<1> QED
  BY <1>2 DEF BuildIndex, Index

LEMMA IndexIsWhole ==
  ASSUME NEW index \in Index
  PROVE  index # Torn /\ IsIndex(index)
<1>1. index # Torn /\ DOMAIN index = File
  BY TornAssumption DEF Index
<1>2. ASSUME NEW f \in File, index[f] # None
      PROVE  DOMAIN index[f] = {"id", "title", "status", "assertion", "appliesTo"}
  <2>1. PICK d \in Draft : index[f] = Entries[d]
    BY <1>2 DEF Index
  <2>2. index[f] = Entry(d)
    BY <2>1 DEF Entries
  <2> QED
    BY <2>2 DEF Entry
<1> QED
  BY <1>1, <1>2 DEF IsIndex

LEMMA OpenIsTyped ==
  ASSUME PrType, NEW p \in PR, IsOpen(p)
  PROVE  pr[p] \in OpenPr
BY DEF PrType, IsOpen, Unopened, Landed

LEMMA TypesGiveTypeOK ==
  ASSUME DevType, PrType, CountType
  PROVE  TypeOK
<1>1. dev.adrs \in Adrs /\ dev.index # Torn /\ IsIndex(dev.index)
  BY IndexIsWhole DEF DevType, Whole
<1>2. ASSUME NEW p \in PR, IsOpen(p)
      PROVE  /\ {pr[p].base.adrs, pr[p].tree.adrs} \subseteq Adrs
             /\ pr[p].base.index # Torn /\ IsIndex(pr[p].base.index)
             /\ pr[p].tree.index # Torn => IsIndex(pr[p].tree.index)
             /\ pr[p].writing \in BOOLEAN /\ pr[p].check \in {"none", "green", "outdated"}
  BY <1>2, OpenIsTyped, IndexIsWhole DEF OpenPr, Whole, Tree
<1>3. \A p \in PR : pr[p].state \in {"none", "open", "merged"}
  BY DEF PrType, OpenPr, Unopened, Landed
<1> QED
  BY <1>1, <1>2, <1>3 DEF TypeOK, CountType

-------------------------------------------------------------------------------
(* What a three-way merge gives *)

LEMMA MergeIndexType ==
  ASSUME NEW base \in Whole, NEW ours \in Whole, NEW theirs \in Tree, theirs.index # Torn
  PROVE  MergeTrees(base, ours, theirs) \in Whole
<1> DEFINE merged == MergeTrees(base, ours, theirs)
<1>1. /\ base.adrs \in Adrs /\ ours.adrs \in Adrs /\ theirs.adrs \in Adrs
      /\ base.index \in Index /\ ours.index \in Index /\ theirs.index \in Index
  BY DEF Whole, Tree
<1>2. [f \in File |-> Pick(base.adrs[f], ours.adrs[f], theirs.adrs[f])] \in Adrs
  BY <1>1 DEF Adrs, Pick
<1>3. Torn \notin {base.index, ours.index, theirs.index}
  BY <1>1, TornAssumption
<1>4. MergeIndex(base.index, ours.index, theirs.index)
        = [f \in File |-> Pick(base.index[f], ours.index[f], theirs.index[f])]
  BY <1>3 DEF MergeIndex
<1>5. [f \in File |-> Pick(base.index[f], ours.index[f], theirs.index[f])] \in Index
  BY <1>1 DEF Index, Pick
<1> QED
  BY <1>2, <1>4, <1>5 DEF MergeTrees, Whole

\* A torn index is not merged away: it is the index of the merge.
LEMMA TornShows ==
  ASSUME NEW base \in Whole, NEW ours \in Whole, NEW theirs \in Tree,
         Passes(MergeTrees(base, ours, theirs))
  PROVE  theirs.index # Torn
<1> SUFFICES ASSUME theirs.index = Torn PROVE FALSE
  OBVIOUS
<1> DEFINE merged == MergeTrees(base, ours, theirs)
<1>1. base.index # Torn
  BY TornAssumption DEF Whole
<1>2. MergeIndex(base.index, ours.index, theirs.index) = Torn
  BY <1>1 DEF MergeIndex, Pick
<1>3. merged.index = Torn /\ merged.adrs = [f \in File |-> Pick(base.adrs[f], ours.adrs[f], theirs.adrs[f])]
  BY <1>2 DEF MergeTrees
<1>4. merged.adrs \in Adrs
  BY <1>3 DEF Whole, Tree, Adrs, Pick
<1>5. merged.index = BuildIndex(merged.adrs)
  BY DEF Passes, Drifted
<1> QED
  BY <1>3, <1>4, <1>5, BuildIndexType, TornAssumption

\* Three trees that are in sync by themselves and do not clash merge into one that is:
\* an entry follows its ADR, even where a change of the ADR does not show in it.
LEMMA MergeInSync ==
  ASSUME NEW base \in Whole, NEW ours \in Whole, NEW theirs \in Tree,
         Passes(base), Passes(ours), Passes(theirs),
         Mergeable(base, ours, theirs), Kept(base, theirs)
  PROVE  Passes(MergeTrees(base, ours, theirs))
<1> DEFINE merged == MergeTrees(base, ours, theirs)
<1>1. /\ base.adrs \in Adrs /\ ours.adrs \in Adrs /\ theirs.adrs \in Adrs
      /\ base.index = BuildIndex(base.adrs)
      /\ ours.index = BuildIndex(ours.adrs)
      /\ theirs.index = BuildIndex(theirs.adrs)
  BY DEF Whole, Tree, Passes, Drifted
<1>2. Torn \notin {base.index, ours.index, theirs.index}
  BY <1>1, BuildIndexType, TornAssumption
<1>3. /\ merged.adrs = [f \in File |-> Pick(base.adrs[f], ours.adrs[f], theirs.adrs[f])]
      /\ merged.index = [f \in File |-> Pick(base.index[f], ours.index[f], theirs.index[f])]
  BY <1>2 DEF MergeTrees, MergeIndex
<1>4. ASSUME NEW f \in File
      PROVE  merged.index[f] = IF merged.adrs[f] = None THEN None ELSE Entries[merged.adrs[f]]
  <2>1. /\ base.index[f] = (IF base.adrs[f] = None THEN None ELSE Entries[base.adrs[f]])
        /\ ours.index[f] = (IF ours.adrs[f] = None THEN None ELSE Entries[ours.adrs[f]])
        /\ theirs.index[f] = (IF theirs.adrs[f] = None THEN None ELSE Entries[theirs.adrs[f]])
    BY <1>1 DEF BuildIndex
  <2>2. /\ ~Clash(base.adrs[f], ours.adrs[f], theirs.adrs[f])
        /\ ~Clash(base.index[f], ours.index[f], theirs.index[f])
    BY <1>2 DEF Mergeable
  <2>3. /\ merged.adrs[f] = Pick(base.adrs[f], ours.adrs[f], theirs.adrs[f])
        /\ merged.index[f] = Pick(base.index[f], ours.index[f], theirs.index[f])
    BY <1>3
  <2> HIDE DEF merged
  <2> QED
    BY <2>1, <2>2, <2>3 DEF Clash, Pick
<1>5. merged.index = BuildIndex(merged.adrs)
  BY <1>3, <1>4 DEF BuildIndex
<1>6. ASSUME NEW f \in File, merged.adrs[f] # None
      PROVE  merged.adrs[f] \in ValidDrafts /\ Parsed[merged.adrs[f]].ok
  <2>1. merged.adrs[f] = ours.adrs[f] \/ merged.adrs[f] = theirs.adrs[f]
    BY <1>3 DEF Pick
  <2>2. \A g \in File : /\ ours.adrs[g] # None => ours.adrs[g] \in ValidDrafts /\ Parsed[ours.adrs[g]].ok
                        /\ theirs.adrs[g] # None => theirs.adrs[g] \in ValidDrafts /\ Parsed[theirs.adrs[g]].ok
    BY DEF Passes, Validates, Drifted, Buildable, Present
  <2> HIDE DEF merged
  <2> QED
    BY <1>6, <2>1, <2>2
<1>7. \E f \in File : merged.adrs[f] # None
  <2>1. PICK f \in File : ours.adrs[f] # None
    BY DEF Passes, Validates, Present
  <2>2. merged.adrs[f] # None
    BY <1>3, <2>1 DEF Pick, Kept
  <2> QED
    BY <2>2
<1> HIDE DEF merged
<1>8. Passes(merged)
  BY <1>5, <1>6, <1>7 DEF Passes, Validates, Drifted, Buildable, Present
<1> QED
  BY <1>8 DEF merged

-------------------------------------------------------------------------------
LEMMA InitIInv == Init => IInv
<1> SUFFICES ASSUME Init PROVE IInv
  OBVIOUS
<1> DEFINE tree == [adrs |-> First, index |-> BuildIndex(First)]
<1>1. dev = tree /\ pr = [p \in PR |-> Unopened] /\ edits = 0 /\ tested = TRUE
  BY DEF Init
<1>2. First \in Adrs
  BY DraftAssumption DEF Adrs
<1>3. DevType
  BY <1>1, <1>2, BuildIndexType DEF DevType, Whole
<1>4. Buildable(First)
  BY FirstAssumption DEF Validates, Buildable, ValidDrafts, Valid
<1>5. Passes(tree)
  BY <1>4, FirstAssumption DEF Passes, Drifted
<1>6. PrType /\ Branches
  BY <1>1 DEF PrType, Branches, Sound, Unopened
<1>7. CountType
  BY <1>1, BoundsAssumption DEF CountType
<1> QED
  BY <1>1, <1>3, <1>5, <1>6, <1>7 DEF IInv, DevInSync

\* A step on one branch that leaves dev alone.
LEMMA BranchStep ==
  ASSUME IInv, NEW p \in PR, NEW b \in OpenPr, pr' = [pr EXCEPT ![p] = b],
         Sound(b, dev, tested), dev' = dev, tested' = tested, edits' \in 0 .. MaxEdits
  PROVE  IInv'
<1>1. \A q \in PR : pr'[q] = IF q = p THEN b ELSE pr[q]
  BY DEF IInv, PrType
<1>2. PrType'
  BY DEF IInv, PrType
<1>3. Branches'
  BY <1>1 DEF IInv, Branches
<1> QED
  BY <1>2, <1>3 DEF IInv, DevType, CountType, DevInSync

LEMMA OpenStep == ASSUME IInv, NEW p \in PR, Open(p) PROVE IInv'
<1> DEFINE b == [state |-> "open", base |-> dev, tree |-> dev, writing |-> FALSE, check |-> "none"]
<1>1. pr' = [pr EXCEPT ![p] = b] /\ dev' = dev /\ edits' = edits /\ tested' = tested
  BY DEF Open, Branch
<1>2. b \in OpenPr
  BY DEF IInv, DevType, OpenPr, Whole, Tree
<1>3. Sound(b, dev, tested)
  BY DEF Sound, Kept, IInv, DevInSync
<1> HIDE DEF b
<1> QED
  BY <1>1, <1>2, <1>3, BranchStep DEF IInv, CountType

LEMMA EditStep ==
  ASSUME IInv, NEW p \in PR, NEW f \in File, NEW d \in Draft, Edit(p, f, d) PROVE IInv'
<1> DEFINE old == pr[p]
           adrs == [old.tree.adrs EXCEPT ![f] = d]
           b == [old EXCEPT !.tree = [old.tree EXCEPT !.adrs = adrs], !.check = "none"]
<1>1. old \in OpenPr
  BY OpenIsTyped DEF Edit, IInv
<1>2. pr' = [pr EXCEPT ![p] = b] /\ dev' = dev /\ tested' = tested /\ edits' = edits + 1 /\ edits < MaxEdits
  BY DEF Edit
<1>3. adrs \in Adrs
  BY <1>1 DEF OpenPr, Tree, Adrs
<1>4. b \in OpenPr
  BY <1>1, <1>3 DEF OpenPr, Tree
<1>5. /\ b.check = "none" /\ b.base = old.base
      /\ \A g \in File : b.tree.adrs[g] = IF g = f THEN d ELSE old.tree.adrs[g]
  BY <1>1 DEF OpenPr, Tree, Adrs
<1>6. d # None
  BY DraftAssumption
<1>7. Sound(old, dev, tested) /\ old.state = "open"
  BY <1>1 DEF IInv, Branches, OpenPr
<1> HIDE DEF b, old
<1>8. Sound(b, dev, tested)
  BY <1>5, <1>6, <1>7 DEF Sound, Kept
<1>9. edits' \in 0 .. MaxEdits
  BY <1>2, BoundsAssumption DEF IInv, CountType
<1> QED
  BY <1>2, <1>4, <1>8, <1>9, BranchStep

LEMMA RebuildStep ==
  ASSUME IInv, NEW p \in PR, Regenerate(p) \/ Written(p) \/ Killed(p) PROVE IInv'
<1> DEFINE old == pr[p]
<1>1. old \in OpenPr /\ Sound(old, dev, tested) /\ old.state = "open"
  BY OpenIsTyped DEF Regenerate, Written, Killed, IInv, Branches, OpenPr
<1>2. dev' = dev /\ tested' = tested /\ edits' = edits
  BY DEF Regenerate, Written, Killed
<1>3. ASSUME NEW index \in Index \cup {Torn}, NEW writing \in BOOLEAN, NEW check \in {"none"},
             pr' = [pr EXCEPT ![p] = [old EXCEPT !.tree = [old.tree EXCEPT !.index = index],
                                                 !.writing = writing, !.check = check]]
      PROVE  IInv'
  <2> DEFINE b == [old EXCEPT !.tree = [old.tree EXCEPT !.index = index],
                              !.writing = writing, !.check = check]
  <2>1. b \in OpenPr /\ b.check = "none" /\ b.base = old.base /\ b.tree.adrs = old.tree.adrs
    BY <1>1 DEF OpenPr, Tree
  <2>2. Sound(b, dev, tested)
    BY <1>1, <2>1 DEF Sound, Kept
  <2> HIDE DEF b
  <2> QED
    BY <1>2, <1>3, <2>1, <2>2, BranchStep DEF b, IInv, CountType
<1>4. old.writing => old.check = "none"
  BY <1>1 DEF Sound, OpenPr
<1>5. BuildIndex(old.tree.adrs) \in Index
  BY <1>1, BuildIndexType DEF OpenPr, Tree
<1>6. old.tree.index \in Index \cup {Torn}
  BY <1>1 DEF OpenPr, Tree
<1>7. CASE Regenerate(p)
  BY <1>3, <1>7 DEF Regenerate
<1>8. CASE Written(p)
  <2>1. pr' = [pr EXCEPT ![p] = [old EXCEPT !.tree = [old.tree EXCEPT !.index = BuildIndex(old.tree.adrs)],
                                            !.writing = FALSE]]
    BY <1>8 DEF Written
  <2>2. old.check = "none"
    BY <1>4, <1>8 DEF Written
  <2>3. [old EXCEPT !.tree = [old.tree EXCEPT !.index = BuildIndex(old.tree.adrs)], !.writing = FALSE]
          = [old EXCEPT !.tree = [old.tree EXCEPT !.index = BuildIndex(old.tree.adrs)],
                        !.writing = FALSE, !.check = "none"]
    BY <1>1, <2>2 DEF OpenPr
  <2> HIDE DEF old
  <2> QED
    BY <1>3, <1>5, <2>1, <2>3
<1>9. CASE Killed(p)
  <2>1. pr' = [pr EXCEPT ![p] = [old EXCEPT !.writing = FALSE]]
    BY <1>9 DEF Killed
  <2>2. old.check = "none"
    BY <1>4, <1>9 DEF Killed
  <2>3. [old EXCEPT !.writing = FALSE]
          = [old EXCEPT !.tree = [old.tree EXCEPT !.index = old.tree.index],
                        !.writing = FALSE, !.check = "none"]
    BY <1>1, <2>2 DEF OpenPr, Tree
  <2> HIDE DEF old
  <2> QED
    BY <1>3, <1>6, <2>1, <2>3
<1> QED
  BY <1>7, <1>8, <1>9

LEMMA CiStep == ASSUME IInv, NEW p \in PR, Ci(p) PROVE IInv'
<1> DEFINE old == pr[p]
           verdict == IF Passes(MergeTrees(old.base, dev, old.tree)) THEN "green" ELSE "none"
           b == [old EXCEPT !.check = verdict]
<1>1. old \in OpenPr /\ Sound(old, dev, tested) /\ old.state = "open" /\ ~old.writing
  BY OpenIsTyped DEF Ci, CanMerge, IInv, Branches, OpenPr
<1>2. dev' = dev /\ tested' = tested /\ edits' = edits /\ pr' = [pr EXCEPT ![p] = b]
  BY DEF Ci
<1>3. /\ b \in OpenPr /\ b.base = old.base /\ b.tree = old.tree /\ b.writing = old.writing
      /\ b.check = verdict
  BY <1>1 DEF OpenPr
<1>4. old.base \in Whole /\ dev \in Whole /\ old.tree \in Tree
  BY <1>1 DEF OpenPr, IInv, DevType
<1> HIDE DEF b, old
<1>5. Sound(b, dev, tested)
  BY <1>1, <1>3, <1>4, TornShows DEF Sound
<1> QED
  BY <1>2, <1>3, <1>5, BranchStep DEF IInv, CountType

\* A new branch, cut from d.
LEMMA Rebased ==
  ASSUME NEW d, NEW t, NEW w \in BOOLEAN
  PROVE  [[state |-> "open", base |-> t, tree |-> t, writing |-> w, check |-> "none"] EXCEPT !.base = d]
           = [state |-> "open", base |-> d, tree |-> t, writing |-> w, check |-> "none"]
OBVIOUS

LEMMA UpdateStep == ASSUME IInv, NEW p \in PR, Update(p) PROVE IInv'
<1> DEFINE old == pr[p]
           base == old.base
           tree == old.tree
<1>1. old \in OpenPr /\ Sound(old, dev, tested) /\ old.state = "open"
  BY OpenIsTyped DEF Update, IInv, Branches, OpenPr
<1>2. dev' = dev /\ tested' = tested /\ edits' = edits
  BY DEF Update
<1>3. base \in Whole /\ dev \in Whole /\ tree \in Tree
  BY <1>1 DEF OpenPr, IInv, DevType
<1> DEFINE Side(side, ours, theirs) == IF side = "ours" THEN ours ELSE theirs
           Merge1(side, b, ours, theirs) ==
             IF Clash(b, ours, theirs) THEN Side(side, ours, theirs) ELSE Pick(b, ours, theirs)
           Adrs1(side) == [f \in File |-> Merge1(side, base.adrs[f], dev.adrs[f], tree.adrs[f])]
           Index1(side) == IF Torn \in {base.index, dev.index, tree.index}
                           THEN Merge1(side, base.index, dev.index, tree.index)
                           ELSE [f \in File |-> Merge1(side, base.index[f], dev.index[f], tree.index[f])]
           New(side) == [state |-> "open", base |-> dev,
                         tree |-> [adrs |-> Adrs1(side), index |-> Index1(side)],
                         writing |-> FALSE, check |-> "none"]
<1>4. PICK side \in {"ours", "theirs"} : pr' = [pr EXCEPT ![p] = New(side)]
  <2>1. PICK side \in {"ours", "theirs"} :
          pr' = [pr EXCEPT ![p] = [state |-> "open", base |-> [adrs |-> Adrs1(side), index |-> Index1(side)],
                         tree |-> [adrs |-> Adrs1(side), index |-> Index1(side)],
                         writing |-> FALSE, check |-> "none"], ![p].base = dev]
    BY DEF Update, Branch
  <2> DEFINE t == [adrs |-> Adrs1(side), index |-> Index1(side)]
             b == [state |-> "open", base |-> t, tree |-> t, writing |-> FALSE, check |-> "none"]
  <2>2. [b EXCEPT !.base = dev] = New(side)
    <3> HIDE DEF t
    <3>1. [b EXCEPT !.base = dev]
            = [state |-> "open", base |-> dev, tree |-> t, writing |-> FALSE, check |-> "none"]
      BY Rebased
    <3> QED
      BY <3>1 DEF t
  <2>3. pr' = [pr EXCEPT ![p] = b, ![p].base = dev]
    BY <2>1
  <2> HIDE DEF b, New
  <2>4. pr' = [pr EXCEPT ![p] = [b EXCEPT !.base = dev]]
    BY <2>3 DEF IInv, PrType
  <2> QED
    BY <2>2, <2>4
<1>5. Adrs1(side) \in Adrs
  BY <1>3 DEF Whole, Tree, Adrs, Pick
<1>6. Index1(side) \in Index \cup {Torn}
  <2>1. CASE Torn \in {base.index, dev.index, tree.index}
    BY <1>3, <2>1 DEF Whole, Tree, Pick
  <2>2. CASE Torn \notin {base.index, dev.index, tree.index}
    <3>1. base.index \in Index /\ dev.index \in Index /\ tree.index \in Index
      BY <1>3, <2>2 DEF Whole, Tree
    <3> QED
      BY <2>2, <3>1 DEF Index, Pick
  <2> QED
    BY <2>1, <2>2
<1>7. ASSUME NEW f \in File, dev.adrs[f] # None PROVE Adrs1(side)[f] # None
  <2>1. base.adrs[f] # None => tree.adrs[f] # None
    BY <1>1 DEF Sound, Kept
  <2>2. Adrs1(side)[f] = Merge1(side, base.adrs[f], dev.adrs[f], tree.adrs[f])
    OBVIOUS
  <2> HIDE DEF Adrs1, old
  <2> QED
    BY <1>7, <2>1, <2>2 DEF Clash, Pick
<1> HIDE DEF Adrs1, Index1
<1>8. New(side) \in OpenPr
  BY <1>3, <1>5, <1>6 DEF OpenPr, Tree
<1>9. Sound(New(side), dev, tested)
  BY <1>7 DEF Sound, Kept, IInv, DevInSync
<1> HIDE DEF New
<1> QED
  BY <1>2, <1>4, <1>8, <1>9, BranchStep DEF IInv, CountType

\* Landing a branch: its check may be out of date, and then its own index counts.
LEMMA MergeStep == ASSUME IInv, NEW p \in PR, Merge(p) PROVE IInv'
<1> DEFINE old == pr[p]
           merged == MergeTrees(old.base, dev, old.tree)
<1>1. /\ old \in OpenPr /\ Sound(old, dev, tested) /\ old.state = "open" /\ old.check # "none"
      /\ Mergeable(old.base, dev, old.tree)
  BY OpenIsTyped DEF Merge, CanMerge, IInv, Branches, OpenPr
<1>2. /\ dev' = merged /\ edits' = edits
      /\ tested' = (tested /\ (old.check = "green" \/ Passes(old.tree)))
      /\ pr' = [q \in PR |-> IF q = p THEN Landed
                             ELSE IF IsOpen(q) /\ pr[q].check = "green"
                             THEN [pr[q] EXCEPT !.check = "outdated"] ELSE pr[q]]
  BY DEF Merge, Landed
<1>3. old.base \in Whole /\ dev \in Whole /\ old.tree \in Tree /\ old.tree.index # Torn
  BY <1>1 DEF OpenPr, IInv, DevType, Sound
<1>4. DevType'
  BY <1>2, <1>3, MergeIndexType DEF DevType
<1>5. ASSUME tested' PROVE Passes(merged)
  <2>1. CASE old.check = "green"
    BY <1>1, <2>1 DEF Sound
  <2>2. CASE Passes(old.tree)
    BY <1>1, <1>2, <1>3, <1>5, <2>2, MergeInSync DEF Sound, IInv, DevInSync
  <2> QED
    BY <1>2, <1>5, <2>1, <2>2
<1>6. ASSUME NEW q \in PR
      PROVE  /\ pr'[q] \in {Unopened, Landed} \cup OpenPr
             /\ Sound(pr'[q], dev', tested')
  <2>1. tested' => tested
    BY <1>2
  <2>2. CASE q = p
    BY <1>2, <2>2 DEF Landed, Sound
  <2>3. CASE q # p /\ IsOpen(q) /\ pr[q].check = "green"
    <3> DEFINE b == [pr[q] EXCEPT !.check = "outdated"]
    <3>1. pr'[q] = b
      BY <1>2, <2>3
    <3>2. pr[q] \in OpenPr /\ Sound(pr[q], dev, tested)
      BY <2>3, OpenIsTyped DEF IInv, Branches
    <3>3. /\ b \in OpenPr /\ b.check = "outdated" /\ b.base = pr[q].base /\ b.tree = pr[q].tree
          /\ b.writing = pr[q].writing
      BY <3>2 DEF OpenPr
    <3> HIDE DEF b
    <3> QED
      BY <2>1, <2>3, <3>1, <3>2, <3>3 DEF Sound, IsOpen
  <2>4. CASE q # p /\ ~(IsOpen(q) /\ pr[q].check = "green")
    <3>1. pr'[q] = pr[q] /\ Sound(pr[q], dev, tested)
      BY <1>2, <2>4 DEF IInv, Branches
    <3> QED
      BY <2>1, <2>4, <3>1 DEF Sound, IsOpen, IInv, PrType
  <2> QED
    BY <2>2, <2>3, <2>4
<1>7. PrType' /\ Branches'
  <2>1. pr' = [q \in PR |-> pr'[q]]
    BY <1>2
  <2> QED
    BY <1>6, <2>1 DEF PrType, Branches
<1>8. CountType'
  BY <1>2 DEF CountType, IInv
<1> QED
  BY <1>2, <1>4, <1>5, <1>7, <1>8 DEF IInv, DevInSync

LEMMA IInvStep == IInv /\ [Next]_vars => IInv'
<1> SUFFICES ASSUME IInv, [Next]_vars PROVE IInv'
  OBVIOUS
<1>1. CASE UNCHANGED vars
  BY <1>1 DEF vars, IInv, DevType, PrType, CountType, Branches, DevInSync
<1> QED
  BY <1>1, OpenStep, EditStep, RebuildStep, CiStep, UpdateStep, MergeStep DEF Next

THEOREM Invariant == Spec => []IInv
BY InitIInv, IInvStep, PTL DEF Spec

\* The branch pull requests go to, and every branch cut from it, holds a whole index
\* or, on the branch where a rebuild was killed, a torn one that never leaves it.
THEOREM TypeCorrect == Spec => []TypeOK
<1>1. IInv => TypeOK
  BY TypesGiveTypeOK DEF IInv
<1> QED
  BY <1>1, Invariant, PTL

\* dev's index follows its ADRs and dev stays valid, for any corpus, any number of
\* pull requests and any order of edits, rebuilds, kills, checks and merges, as long
\* as a branch lands on the dev it was tested on or with an index of its own ADRs.
THEOREM IndexFollowsAdrs == Spec => []DevInSync
<1>1. IInv => DevInSync
  BY DEF IInv
<1> QED
  BY <1>1, Invariant, PTL

-------------------------------------------------------------------------------
(* What the front-matter reader makes of the lines *)

\* A set of numbers that is not empty has a least member, and a largest if it is bounded.
LEMMA LeastOf ==
  ASSUME NEW N \in SUBSET Nat, N # {}
  PROVE  \E m \in N : \A k \in N : m <= k
<1> DEFINE R == OpToRel(<, Nat)
<1>1. IsWellFoundedOn(R, Nat)
  BY NatLessThanWellFounded
<1>2. \A y, z \in Nat : y < z => <<y, z>> \in R
  BY Zenon DEF OpToRel
<1>3. PICK m \in N : \A y \in N : ~ (<<y, m>> \in R)
  <2> HIDE DEF R
  <2> QED
    BY <1>1, WFMin
<1> HIDE DEF R
<1>4. \A k \in N : ~ (k < m)
  BY <1>2, <1>3
<1> QED
  BY <1>4

LEMMA LastOfIs ==
  ASSUME NEW S \in SUBSET Nat, NEW n \in S, \A m \in S : m <= n
  PROVE  LastOf(S) = n
<1>1. LastOf(S) \in S /\ \A m \in S : m <= LastOf(S)
  BY DEF LastOf
<1>2. LastOf(S) <= n /\ n <= LastOf(S) /\ n \in Nat /\ LastOf(S) \in Nat
  BY <1>1
<1> QED
  BY <1>2

LEMMA HasLast ==
  ASSUME NEW n \in Nat, NEW S \in SUBSET (1 .. n), S # {}
  PROVE  LastOf(S) \in S /\ \A m \in S : m <= LastOf(S)
<1> DEFINE N == {n - m : m \in S}
<1>1. N \in SUBSET Nat /\ N # {}
  <2>1. \A m \in S : n - m \in Nat
    OBVIOUS
  <2> QED
    BY <2>1
<1>2. PICK k \in N : \A j \in N : k <= j
  <2> HIDE DEF N
  <2> QED
    BY <1>1, LeastOf
<1>3. PICK m \in S : k = n - m
  BY <1>2
<1>4. ASSUME NEW j \in S PROVE j <= m
  <2>1. n - m <= n - j
    BY <1>2, <1>3
  <2> QED
    BY <2>1
<1> QED
  BY <1>4 DEF LastOf

\* The reader's recursion over the lines has a solution.
LEMMA ReadLinesIs ==
  ASSUME NEW lines, Len(lines) \in Nat
  PROVE  ReadLines(lines)
           = [n \in 0 .. Len(lines) |-> IF n = 0 THEN Start
                                        ELSE ReadLine(ReadLines(lines)[n - 1], lines[n])]
<1> DEFINE Solves(f, m) == f = [n \in 0 .. m |-> IF n = 0 THEN Start ELSE ReadLine(f[n - 1], lines[n])]
           Bad == {m \in Nat : ~ \E f : Solves(f, m)}
<1>1. ASSUME NEW m \in Nat
      PROVE  \E f : Solves(f, m)
  <2> SUFFICES ASSUME Bad # {}
               PROVE  FALSE
    OBVIOUS
  <2>1. PICK k \in Bad : \A j \in Bad : k <= j
    <3>1. Bad \in SUBSET Nat
      OBVIOUS
    <3> HIDE DEF Bad
    <3> QED
      BY <3>1, LeastOf
  <2>2. k # 0
    <3>1. Solves([n \in 0 .. 0 |-> Start], 0)
      OBVIOUS
    <3> QED
      BY <3>1
  <2>3. k - 1 \in Nat /\ k - 1 \notin Bad /\ k \in Nat
    BY <2>1, <2>2
  <2>4. PICK f : Solves(f, k - 1)
    BY <2>3
  <2> DEFINE g == [n \in 0 .. k |-> IF n = k THEN ReadLine(f[k - 1], lines[k]) ELSE f[n]]
  <2>5. \A n \in 0 .. k : g[n] = IF n = 0 THEN Start ELSE ReadLine(g[n - 1], lines[n])
    <3> SUFFICES ASSUME NEW n \in 0 .. k
                 PROVE  g[n] = IF n = 0 THEN Start ELSE ReadLine(g[n - 1], lines[n])
      OBVIOUS
    <3>1. CASE n = 0
      <4>1. f[0] = Start
        BY <2>3, <2>4
      <4> QED
        BY <2>2, <3>1, <4>1
    <3>2. CASE n = k
      <4>1. g[n - 1] = f[k - 1]
        BY <2>3, <3>2
      <4> QED
        BY <2>2, <3>2, <4>1
    <3>3. CASE n # 0 /\ n # k
      <4>1. n \in 0 .. k - 1 /\ n - 1 \in 0 .. k - 1
        BY <2>3, <3>3
      <4>2. f[n] = ReadLine(f[n - 1], lines[n])
        BY <2>4, <3>3, <4>1
      <4>3. g[n] = f[n] /\ g[n - 1] = f[n - 1]
        BY <2>3, <3>3, <4>1
      <4> QED
        BY <3>3, <4>2, <4>3
    <3> QED
      BY <3>1, <3>2, <3>3
  <2>6. Solves(g, k)
    <3>1. g = [n \in 0 .. k |-> g[n]]
      OBVIOUS
    <3> HIDE DEF g
    <3> QED
      BY <2>5, <3>1
  <2> QED
    BY <2>1, <2>6
<1>2. ReadLines(lines) = CHOOSE f : Solves(f, Len(lines))
  BY DEF ReadLines
<1>3. Solves(ReadLines(lines), Len(lines))
  <2> HIDE DEF Solves
  <2> QED
    BY <1>1, <1>2
<1> QED
  BY <1>3

\* The value of a line, the keys of entries, and what is known in the end if it ends here.
Value(lines, n) == CoerceScalarOrList(lines[n].rest)
Slots == Axis \cup {"other"}
Closed(at) == IF at.open = None THEN at.result ELSE Set(at.result, at.open, Map(at.map))

\* What the reader knows is a record of these shapes.
Shaped(at) == /\ at = [ok |-> at.ok, open |-> at.open, map |-> at.map, result |-> at.result]
              /\ at.ok \in BOOLEAN
              /\ at.map = [a \in Slots |-> at.map[a]]
              /\ at.result = [k \in Required |-> at.result[k]]

LEMMA CloseIs ==
  ASSUME NEW at, Shaped(at)
  PROVE  /\ Close(at) = [ok |-> at.ok, open |-> None, result |-> Closed(at),
                         map |-> IF at.open = None THEN at.map ELSE NoEntries]
         /\ Closed(at) = [k \in Required |-> Closed(at)[k]]
<1>1. CASE at.open = None
  BY <1>1 DEF Close, Closed, Shaped
<1>2. CASE at.open # None
  <2> DEFINE r == Set(at.result, at.open, Map(at.map))
  <2>1. Close(at) = [at EXCEPT !.result = r, !.open = None, !.map = NoEntries]
    BY <1>2 DEF Close
  <2>2. Close(at) = [ok |-> at.ok, open |-> None, map |-> NoEntries, result |-> r]
    <3> HIDE DEF r
    <3> QED
      BY <2>1 DEF Shaped
  <2>3. Closed(at) = r
    BY <1>2 DEF Closed
  <2>4. r = [k \in Required |-> r[k]]
    BY DEF Set
  <2> HIDE DEF r
  <2> QED
    BY <1>2, <2>2, <2>3, <2>4
<1> QED
  BY <1>1, <1>2

\* The three ways a line is read, when it is read at all.
LEMMA LineIsRead ==
  ASSUME NEW at, Shaped(at), NEW line \in Line
  PROVE  LET next == ReadLine(at, line)
         IN  /\ Shaped(next)
             /\ next.ok => at.ok /\ (line.indented => at.open # None)
             /\ next.ok /\ line.indented =>
                  /\ next.open = at.open /\ next.result = at.result
                  /\ next.map = [a \in Slots |-> IF a = Sub(line.key)
                                                 THEN CoerceScalarOrList(line.rest) ELSE at.map[a]]
             /\ next.ok /\ ~line.indented /\ line.rest.kind = "nothing" =>
                  /\ next.open = line.key /\ line.key # None
                  /\ next.map = (IF at.open = None THEN at.map ELSE NoEntries)
                  /\ next.result = Closed(at)
             /\ next.ok /\ ~line.indented /\ line.rest.kind # "nothing" =>
                  /\ next.open = None
                  /\ next.map = (IF at.open = None THEN at.map ELSE NoEntries)
                  /\ next.result = Set(Closed(at), line.key, CoerceScalarOrList(line.rest))
<1> DEFINE next == ReadLine(at, line)
           bad == ~at.ok \/ line.key = None \/ (line.indented /\ at.open = None)
           map == IF at.open = None THEN at.map ELSE NoEntries
           value == CoerceScalarOrList(line.rest)
<1>0. line.indented \in BOOLEAN
  BY DEF Line
<1>1. map = [a \in Slots |-> map[a]]
  BY DEF Shaped, NoEntries, Slots
<1>2. /\ Close(at) = [ok |-> at.ok, open |-> None, result |-> Closed(at), map |-> map]
      /\ Closed(at) = [k \in Required |-> Closed(at)[k]]
  BY CloseIs
<1>3. ASSUME bad
      PROVE  next.ok = FALSE /\ Shaped(next)
  <2>1. next = [at EXCEPT !.ok = FALSE]
    BY <1>3 DEF ReadLine
  <2>2. next = [ok |-> FALSE, open |-> at.open, map |-> at.map, result |-> at.result]
    <3> HIDE DEF next
    <3> QED
      BY <2>1 DEF Shaped
  <2> HIDE DEF next
  <2> QED
    BY <2>2 DEF Shaped
<1>4. ASSUME ~bad, line.indented
      PROVE  /\ next.open = at.open /\ next.result = at.result /\ Shaped(next)
             /\ next.map = [a \in Slots |-> IF a = Sub(line.key) THEN value ELSE at.map[a]]
  <2>1. next = [at EXCEPT !.map[Sub(line.key)] = value]
    BY <1>4 DEF ReadLine
  <2>2. next = [ok |-> at.ok, open |-> at.open, result |-> at.result,
                map |-> [at.map EXCEPT ![Sub(line.key)] = value]]
    <3> HIDE DEF next, value
    <3> QED
      BY <2>1 DEF Shaped
  <2>3. [at.map EXCEPT ![Sub(line.key)] = value]
          = [a \in Slots |-> IF a = Sub(line.key) THEN value ELSE at.map[a]]
    <3>1. at.map = [a \in Slots |-> at.map[a]]
      BY DEF Shaped
    <3> DEFINE m == at.map
    <3> HIDE DEF value, m
    <3>2. [m EXCEPT ![Sub(line.key)] = value]
            = [a \in Slots |-> IF a = Sub(line.key) THEN value ELSE m[a]]
      BY <3>1 DEF m
    <3> QED
      BY <3>2 DEF m
  <2> HIDE DEF next, value
  <2> QED
    BY <2>2, <2>3 DEF Shaped
<1>5. ASSUME ~bad, ~line.indented, line.rest.kind = "nothing"
      PROVE  /\ next.open = line.key /\ next.map = map /\ next.result = Closed(at) /\ Shaped(next)
  <2>1. next = [Close(at) EXCEPT !.open = line.key]
    BY <1>5 DEF ReadLine
  <2>2. next = [ok |-> at.ok, open |-> line.key, result |-> Closed(at), map |-> map]
    <3> HIDE DEF next, map
    <3> QED
      BY <2>1, <1>2
  <2> HIDE DEF next, map
  <2> QED
    BY <2>2, <1>1, <1>2 DEF Shaped
<1>6. ASSUME ~bad, ~line.indented, line.rest.kind # "nothing"
      PROVE  /\ next.open = None /\ next.map = map /\ Shaped(next)
             /\ next.result = Set(Closed(at), line.key, value)
  <2> DEFINE r == Set(Closed(at), line.key, value)
  <2>1. next = [Close(at) EXCEPT !.result = Set(@, line.key, value)]
    BY <1>6 DEF ReadLine
  <2>2. next = [ok |-> at.ok, open |-> None, result |-> r, map |-> map]
    <3> HIDE DEF next, map, value
    <3> QED
      BY <2>1, <1>2
  <2>3. r = [k \in Required |-> r[k]]
    BY DEF Set
  <2> HIDE DEF next, map, r
  <2>4. Shaped(next)
    BY <2>2, <2>3, <1>1 DEF Shaped
  <2> QED
    BY <2>2, <2>4 DEF r
<1>7. ~bad => at.ok /\ line.key # None /\ (line.indented => at.open # None)
  OBVIOUS
<1> HIDE DEF next, bad, map, value
<1>8. Shaped(next)
  BY <1>0, <1>3, <1>4, <1>5, <1>6
<1>9. next.ok => ~bad
  BY <1>3
<1> QED
  BY <1>4, <1>5, <1>6, <1>7, <1>8, <1>9 DEF next, map, value

\* Read off the first n lines: the places of a key at the top, what stands under one of
\* them, the places there of an entry, the entries given last, and the value of a key.
Tops(lines, n, k) == {m \in 1 .. n : ~lines[m].indented /\ lines[m].key = k}
Block(lines, n, t) == {m \in t + 1 .. n : \A j \in t + 1 .. m : lines[j].indented}
Places(lines, n, t, s) == {m \in Block(lines, n, t) : Sub(lines[m].key) = s}
Entered(lines, n, t) ==
  [s \in Slots |-> IF Places(lines, n, t, s) = {} THEN None
                   ELSE Value(lines, LastOf(Places(lines, n, t, s)))]
Wrote(lines, n, k) ==
  IF Tops(lines, n, k) = {} THEN None
  ELSE LET t == LastOf(Tops(lines, n, k))
       IN  IF lines[t].rest.kind # "nothing" THEN Value(lines, t) ELSE Map(Entered(lines, n, t))

\* What the reader knows after n lines, unless it gave up: an open mapping is that of
\* the last line at the top, and every field has the value the lines give it.
Told(lines, n) ==
  LET at == ReadLines(lines)[n]
  IN  /\ Shaped(at)
      /\ at.ok =>
           /\ at.open = None => at.map = NoEntries
           /\ at.open # None => \E t \in 1 .. n : /\ ~lines[t].indented
                                                 /\ lines[t].key = at.open
                                                 /\ lines[t].rest.kind = "nothing"
                                                 /\ \A m \in t + 1 .. n : lines[m].indented
           /\ \A k \in Required : Closed(at)[k] = Wrote(lines, n, k)

LEMMA TopsAreNumbers ==
  ASSUME NEW lines, NEW n \in Nat, NEW k
  PROVE  Tops(lines, n, k) \in SUBSET (1 .. n)
BY DEF Tops

LEMMA PlacesAreNumbers ==
  ASSUME NEW lines, NEW n \in Nat, NEW t \in 1 .. n, NEW s
  PROVE  Places(lines, n, t, s) \in SUBSET (1 .. n)
<1>1. Block(lines, n, t) \subseteq 1 .. n
  BY DEF Block
<1> QED
  BY <1>1 DEF Places

\* A line at the top leaves what was written before it, but for its own key.
LEMMA TopKeeps ==
  ASSUME NEW lines, NEW n \in Nat, ~lines[n + 1].indented, NEW k, lines[n + 1].key # k
  PROVE  Wrote(lines, n + 1, k) = Wrote(lines, n, k)
<1>1. Tops(lines, n + 1, k) = Tops(lines, n, k)
  BY DEF Tops
<1>2. ASSUME NEW t \in 1 .. n
      PROVE  Block(lines, n + 1, t) = Block(lines, n, t)
  <2>1. n + 1 \notin Block(lines, n + 1, t)
    BY DEF Block
  <2> QED
    BY <2>1 DEF Block
<1>3. ASSUME NEW t \in 1 .. n
      PROVE  Entered(lines, n + 1, t) = Entered(lines, n, t)
  <2>1. \A s \in Slots : Places(lines, n + 1, t, s) = Places(lines, n, t, s)
    BY <1>2 DEF Places
  <2> QED
    BY <2>1 DEF Entered
<1>4. Tops(lines, n, k) # {} => LastOf(Tops(lines, n, k)) \in 1 .. n
  BY TopsAreNumbers, HasLast
<1> QED
  BY <1>1, <1>3, <1>4 DEF Wrote

\* A line at the top is the last of its key, with nothing under it yet.
LEMMA TopWrites ==
  ASSUME NEW lines, NEW n \in Nat, lines[n + 1].indented = FALSE
  PROVE  Wrote(lines, n + 1, lines[n + 1].key)
           = IF lines[n + 1].rest.kind # "nothing" THEN Value(lines, n + 1) ELSE Map(NoEntries)
<1> DEFINE S == Tops(lines, n + 1, lines[n + 1].key)
<1>1. n + 1 \in S /\ S \in SUBSET Nat /\ \A m \in S : m <= n + 1
  BY DEF Tops
<1>2. LastOf(S) = n + 1
  <2> HIDE DEF S
  <2> QED
    BY <1>1, LastOfIs
<1>3. Entered(lines, n + 1, n + 1) = NoEntries
  <2>1. Block(lines, n + 1, n + 1) = {}
    BY DEF Block
  <2>2. \A s \in Slots : Places(lines, n + 1, n + 1, s) = {}
    BY <2>1 DEF Places
  <2> QED
    BY <2>2 DEF Entered, NoEntries, Slots
<1> QED
  BY <1>1, <1>2, <1>3 DEF Wrote

\* An indented line leaves what was written elsewhere, and gives one entry of the open mapping.
LEMMA EntryKeeps ==
  ASSUME NEW lines, NEW n \in Nat, lines[n + 1].indented,
         NEW t \in 1 .. n, ~lines[t].indented, \A m \in t + 1 .. n : lines[m].indented,
         NEW k, lines[t].key # k
  PROVE  Wrote(lines, n + 1, k) = Wrote(lines, n, k)
<1>1. Tops(lines, n + 1, k) = Tops(lines, n, k)
  BY DEF Tops
<1>2. ASSUME NEW x \in 1 .. n, ~lines[x].indented, lines[x].key = k
      PROVE  Entered(lines, n + 1, x) = Entered(lines, n, x)
  <2>1. x < t
    <3>1. x # t
      BY <1>2
    <3>2. ~ (t < x)
      BY <1>2
    <3> QED
      BY <3>1, <3>2
  <2>2. t \in x + 1 .. n + 1
    BY <2>1
  <2>3. n + 1 \notin Block(lines, n + 1, x)
    BY <2>2 DEF Block
  <2>4. Block(lines, n + 1, x) = Block(lines, n, x)
    BY <2>3 DEF Block
  <2>5. \A s \in Slots : Places(lines, n + 1, x, s) = Places(lines, n, x, s)
    BY <2>4 DEF Places
  <2> QED
    BY <2>5 DEF Entered
<1>3. Tops(lines, n, k) # {} => LastOf(Tops(lines, n, k)) \in Tops(lines, n, k)
  BY TopsAreNumbers, HasLast
<1> QED
  BY <1>1, <1>2, <1>3 DEF Wrote, Tops

LEMMA EntryWrites ==
  ASSUME NEW lines, NEW n \in Nat, lines[n + 1].indented,
         NEW t \in 1 .. n, ~lines[t].indented, \A m \in t + 1 .. n : lines[m].indented,
         lines[t].rest.kind = "nothing"
  PROVE  /\ Wrote(lines, n, lines[t].key) = Map(Entered(lines, n, t))
         /\ Wrote(lines, n + 1, lines[t].key)
              = Map([s \in Slots |-> IF s = Sub(lines[n + 1].key) THEN Value(lines, n + 1)
                                     ELSE Entered(lines, n, t)[s]])
<1> DEFINE S == Tops(lines, n, lines[t].key)
<1>1. t \in S /\ S \in SUBSET Nat /\ \A m \in S : m <= t
  <2>1. t \in S /\ S \in SUBSET Nat
    BY DEF Tops
  <2>2. ASSUME NEW m \in S PROVE m <= t
    <3>1. m \in 1 .. n /\ ~lines[m].indented
      BY DEF Tops
    <3>2. ~ (m \in t + 1 .. n)
      BY <3>1
    <3> QED
      BY <3>1, <3>2
  <2> QED
    BY <2>1, <2>2
<1>2. LastOf(S) = t /\ S # {}
  <2> HIDE DEF S
  <2> QED
    BY <1>1, LastOfIs
<1>3. Tops(lines, n + 1, lines[t].key) = S
  BY DEF Tops
<1>4. /\ Wrote(lines, n, lines[t].key) = Map(Entered(lines, n, t))
      /\ Wrote(lines, n + 1, lines[t].key) = Map(Entered(lines, n + 1, t))
  BY <1>2, <1>3 DEF Wrote
<1>5. Block(lines, n + 1, t) = Block(lines, n, t) \cup {n + 1}
  <2>1. \A m \in t + 1 .. n + 1 : lines[m].indented
    <3> SUFFICES ASSUME NEW m \in t + 1 .. n + 1
                 PROVE  lines[m].indented
      OBVIOUS
    <3>1. m \in t + 1 .. n \/ m = n + 1
      OBVIOUS
    <3> QED
      BY <3>1
  <2>2. Block(lines, n + 1, t) = t + 1 .. n + 1
    BY <2>1 DEF Block
  <2>3. Block(lines, n, t) = t + 1 .. n
    BY DEF Block
  <2> QED
    BY <2>2, <2>3
<1>6. ASSUME NEW s \in Slots
      PROVE  Entered(lines, n + 1, t)[s] = IF s = Sub(lines[n + 1].key) THEN Value(lines, n + 1)
                                           ELSE Entered(lines, n, t)[s]
  <2>1. CASE s = Sub(lines[n + 1].key)
    <3> DEFINE P == Places(lines, n + 1, t, s)
    <3>1. n + 1 \in P
      BY <1>5, <2>1 DEF Places
    <3>2. P \in SUBSET (1 .. n + 1)
      BY PlacesAreNumbers
    <3>3. P \in SUBSET Nat /\ \A m \in P : m <= n + 1
      BY <3>2
    <3>4. LastOf(P) = n + 1 /\ P # {}
      <4> HIDE DEF P
      <4> QED
        BY <3>1, <3>3, LastOfIs
    <3> QED
      BY <2>1, <3>4 DEF Entered
  <2>2. CASE s # Sub(lines[n + 1].key)
    <3>1. Places(lines, n + 1, t, s) = Places(lines, n, t, s)
      BY <1>5, <2>2 DEF Places
    <3> QED
      BY <2>2, <3>1 DEF Entered
  <2> QED
    BY <2>1, <2>2
<1>7. Entered(lines, n + 1, t)
        = [s \in Slots |-> IF s = Sub(lines[n + 1].key) THEN Value(lines, n + 1)
                           ELSE Entered(lines, n, t)[s]]
  <2>1. Entered(lines, n + 1, t) = [s \in Slots |-> Entered(lines, n + 1, t)[s]]
    BY DEF Entered
  <2> QED
    BY <1>6, <2>1
<1> QED
  BY <1>4, <1>7

LEMMA ToldStep ==
  ASSUME NEW lines \in Seq(Line), NEW n \in Nat, n < Len(lines), Told(lines, n)
  PROVE  Told(lines, n + 1)
<1> DEFINE at == ReadLines(lines)[n]
           next == ReadLines(lines)[n + 1]
           line == lines[n + 1]
<1>1. next = ReadLine(at, line) /\ line \in Line
  <2>1. Len(lines) \in Nat /\ n + 1 \in 0 .. Len(lines) /\ n + 1 # 0 /\ n + 1 \in 1 .. Len(lines)
    OBVIOUS
  <2>2. next = ReadLine(ReadLines(lines)[(n + 1) - 1], lines[n + 1])
    BY <2>1, ReadLinesIs
  <2>3. (n + 1) - 1 = n
    OBVIOUS
  <2> QED
    BY <2>1, <2>2, <2>3
<1>2. /\ Shaped(at)
      /\ at.ok =>
           /\ at.open = None => at.map = NoEntries
           /\ at.open # None => \E t \in 1 .. n : /\ ~lines[t].indented
                                                 /\ lines[t].key = at.open
                                                 /\ lines[t].rest.kind = "nothing"
                                                 /\ \A m \in t + 1 .. n : lines[m].indented
           /\ \A k \in Required : Closed(at)[k] = Wrote(lines, n, k)
  BY DEF Told
<1> HIDE DEF at, next
<1>3. Shaped(next)
  BY <1>1, <1>2, LineIsRead
<1>4. next.ok => at.ok
  BY <1>1, <1>2, LineIsRead
<1>5. line.indented \in BOOLEAN
  BY <1>1 DEF Line
<1>6. ASSUME next.ok, line.indented
      PROVE  /\ next.open # None
             /\ \E t \in 1 .. n + 1 : /\ ~lines[t].indented
                                      /\ lines[t].key = next.open
                                      /\ lines[t].rest.kind = "nothing"
                                      /\ \A m \in t + 1 .. n + 1 : lines[m].indented
             /\ \A k \in Required : Closed(next)[k] = Wrote(lines, n + 1, k)
  <2>1. /\ next.open = at.open /\ at.open # None /\ next.result = at.result /\ at.ok
        /\ next.map = [a \in Slots |-> IF a = Sub(line.key) THEN Value(lines, n + 1) ELSE at.map[a]]
    BY <1>1, <1>2, <1>6, LineIsRead DEF Value
  <2>2. PICK t \in 1 .. n : /\ ~lines[t].indented
                            /\ lines[t].key = at.open
                            /\ lines[t].rest.kind = "nothing"
                            /\ \A m \in t + 1 .. n : lines[m].indented
    BY <1>2, <2>1
  <2>3. t \in 1 .. n + 1 /\ \A m \in t + 1 .. n + 1 : lines[m].indented
    <3> SUFFICES ASSUME NEW m \in t + 1 .. n + 1
                 PROVE  t \in 1 .. n + 1 /\ lines[m].indented
      OBVIOUS
    <3>1. m \in t + 1 .. n \/ m = n + 1
      OBVIOUS
    <3> QED
      BY <1>6, <2>2, <3>1
  <2>4. /\ Closed(at) = Set(at.result, at.open, Map(at.map))
        /\ Closed(next) = Set(at.result, at.open, Map(next.map))
    BY <2>1 DEF Closed
  <2>5. ASSUME NEW k \in Required, k # at.open
        PROVE  Closed(next)[k] = Wrote(lines, n + 1, k)
    <3>1. Closed(next)[k] = Closed(at)[k]
      BY <2>4, <2>5 DEF Set
    <3>2. Wrote(lines, n + 1, k) = Wrote(lines, n, k)
      BY <1>6, <2>2, <2>5, EntryKeeps
    <3> QED
      BY <1>2, <2>1, <3>1, <3>2
  <2>6. ASSUME NEW k \in Required, k = at.open
        PROVE  Closed(next)[k] = Wrote(lines, n + 1, k)
    <3>1. Closed(next)[k] = Map(next.map) /\ Closed(at)[k] = Map(at.map)
      BY <2>4, <2>6 DEF Set
    <3>2. /\ Wrote(lines, n, k) = Map(Entered(lines, n, t))
          /\ Wrote(lines, n + 1, k)
               = Map([s \in Slots |-> IF s = Sub(line.key) THEN Value(lines, n + 1)
                                      ELSE Entered(lines, n, t)[s]])
      <4>1. k = lines[t].key
        BY <2>2, <2>6
      <4>2. /\ Wrote(lines, n, lines[t].key) = Map(Entered(lines, n, t))
            /\ Wrote(lines, n + 1, lines[t].key)
                 = Map([s \in Slots |-> IF s = Sub(lines[n + 1].key) THEN Value(lines, n + 1)
                                        ELSE Entered(lines, n, t)[s]])
        BY <1>6, <2>2, EntryWrites, Zenon
      <4> QED
        BY <4>1, <4>2, Zenon
    <3>3. Map(at.map) = Map(Entered(lines, n, t))
      BY <1>2, <2>1, <3>1, <3>2
    <3>4. at.map = Entered(lines, n, t)
      BY <3>3 DEF Map
    <3> QED
      BY <2>1, <3>1, <3>2, <3>4
  <2> QED
    BY <2>1, <2>2, <2>3, <2>5, <2>6
<1>7. ASSUME next.ok, ~line.indented
      PROVE  /\ next.open = None => next.map = NoEntries
             /\ next.open # None => \E t \in 1 .. n + 1 :
                                       /\ ~lines[t].indented
                                       /\ lines[t].key = next.open
                                       /\ lines[t].rest.kind = "nothing"
                                       /\ \A m \in t + 1 .. n + 1 : lines[m].indented
             /\ \A k \in Required : Closed(next)[k] = Wrote(lines, n + 1, k)
  <2> DEFINE new == IF line.rest.kind = "nothing" THEN Map(NoEntries) ELSE Value(lines, n + 1)
  <2>0. at.ok /\ (IF at.open = None THEN at.map ELSE NoEntries) = NoEntries
    BY <1>2, <1>4, <1>7
  <2>1. /\ next.map = NoEntries
        /\ next.open = IF line.rest.kind = "nothing" THEN line.key ELSE None
        /\ line.rest.kind = "nothing" => next.open # None
        /\ next.result = IF line.rest.kind = "nothing" THEN Closed(at)
                         ELSE Set(Closed(at), line.key, Value(lines, n + 1))
    BY <1>1, <1>2, <1>7, <2>0, LineIsRead DEF Value
  <2>2. Closed(next) = Set(Closed(at), line.key, new)
    BY <2>1 DEF Closed
  <2>3. \A k \in Required : Closed(next)[k] = IF k = line.key THEN new ELSE Closed(at)[k]
    BY <2>2 DEF Set
  <2>4. Wrote(lines, n + 1, line.key) = new
    <3>1. line.indented = FALSE
      BY <1>5, <1>7
    <3> QED
      BY <3>1, TopWrites
  <2>5. \A k \in Required : k # line.key => Wrote(lines, n + 1, k) = Wrote(lines, n, k)
    BY <1>7, TopKeeps
  <2>6. \A k \in Required : Closed(next)[k] = Wrote(lines, n + 1, k)
    BY <1>2, <2>0, <2>3, <2>4, <2>5
  <2>7. ASSUME next.open # None
        PROVE  \E t \in 1 .. n + 1 : /\ ~lines[t].indented
                                     /\ lines[t].key = next.open
                                     /\ lines[t].rest.kind = "nothing"
                                     /\ \A m \in t + 1 .. n + 1 : lines[m].indented
    <3>1. line.rest.kind = "nothing" /\ next.open = line.key
      BY <2>1, <2>7
    <3>2. n + 1 \in 1 .. n + 1 /\ (n + 1) + 1 .. n + 1 = {}
      OBVIOUS
    <3> QED
      BY <1>7, <3>1, <3>2
  <2> QED
    BY <2>1, <2>6, <2>7
<1>8. n + 1 \in Nat
  OBVIOUS
<1> QED
  BY <1>3, <1>5, <1>6, <1>7 DEF Told, next

LEMMA ToldInTheEnd ==
  ASSUME NEW lines \in Seq(Line)
  PROVE  Told(lines, Len(lines))
<1> DEFINE Bad == {n \in 0 .. Len(lines) : ~ Told(lines, n)}
<1> SUFFICES ASSUME Bad # {}
             PROVE  FALSE
  OBVIOUS
<1>1. PICK n \in Bad : \A k \in Bad : n <= k
  <2>1. Bad \in SUBSET Nat
    OBVIOUS
  <2> HIDE DEF Bad
  <2> QED
    BY <2>1, LeastOf
<1>2. CASE n = 0
  <2>1. ReadLines(lines)[0] = Start
    BY ReadLinesIs
  <2>2. Shaped(Start) /\ Start.open = None /\ Start.map = NoEntries /\ Start.result = NoFields
    BY DEF Shaped, Start, NoEntries, NoFields, Slots
  <2>3. \A k \in Required : Closed(Start)[k] = Wrote(lines, 0, k)
    BY <2>2 DEF Closed, NoFields, Wrote, Tops
  <2>4. Told(lines, 0)
    BY <2>1, <2>2, <2>3 DEF Told
  <2> QED
    BY <1>2, <2>4
<1>3. CASE n # 0
  <2>1. n - 1 \in Nat /\ n - 1 < Len(lines) /\ n - 1 \notin Bad /\ n - 1 \in 0 .. Len(lines)
        /\ (n - 1) + 1 = n
    BY <1>1, <1>3
  <2>2. Told(lines, n - 1)
    BY <2>1
  <2>3. Told(lines, (n - 1) + 1)
    BY <2>1, <2>2, ToldStep
  <2> QED
    BY <2>1, <2>3
<1> QED
  BY <1>2, <1>3

\* A front matter that is read has, for each key, the value its lines give it.
LEMMA ParsedAsWritten ==
  ASSUME NEW d \in Draft, Parsed[d].ok, NEW k \in Required
  PROVE  Parsed[d].result[k] = Wrote(Lines[d], Len(Lines[d]), k)
<1> DEFINE at == ReadLines(Lines[d])[Len(Lines[d])]
<1>1. Lines[d] \in Seq(Line)
  BY LinesAssumption
<1>2. Told(Lines[d], Len(Lines[d]))
  BY <1>1, ToldInTheEnd
<1>3. Shaped(at) /\ (at.ok => Closed(at)[k] = Wrote(Lines[d], Len(Lines[d]), k))
  BY <1>2 DEF Told
<1>4. Parsed[d] = Close(at)
  BY DEF Parsed, ParseFrontMatter
<1> HIDE DEF at
<1>5. Parsed[d].ok = at.ok /\ Parsed[d].result = Closed(at)
  <2> DEFINE closed == Closed(at)
             map == IF at.open = None THEN at.map ELSE NoEntries
  <2>1. Close(at) = [ok |-> at.ok, open |-> None, result |-> closed, map |-> map]
    BY <1>3, CloseIs
  <2> HIDE DEF closed, map
  <2>2. Close(at).ok = at.ok /\ Close(at).result = closed
    BY <2>1
  <2> QED
    BY <1>4, <2>2 DEF closed
<1> QED
  BY <1>3, <1>5

\* What a valid ADR's lines say, and what its entry says, are one.
LEMMA EntryAsWritten ==
  ASSUME NEW d \in ValidDrafts
  PROVE  /\ Entries[d].status = Text({"Accepted"}, FALSE)
              <=> WrittenStatus(Lines[d]) = [kind |-> "text", items |-> {"Accepted"}, comment |-> FALSE]
         /\ \A axis \in Axis : Entries[d].appliesTo[axis] = WrittenNames(Lines[d], axis)
         /\ Entries[d].assertion[2].words = Lines[d][LastOf(At(Lines[d], "assertion"))].rest.items
<1> DEFINE adr == Lines[d]
           n == Len(adr)
           result == Parsed[d].result
<1>1. /\ d \in Draft /\ adr \in Seq(Line) /\ n \in Nat
      /\ \A m \in 1 .. n : adr[m] \in Line /\ Value(adr, m) # None
  <2>1. d \in Draft /\ adr \in Seq(Line)
    BY LinesAssumption DEF ValidDrafts
  <2> QED
    BY <2>1, NoneAssumption DEF Value
<1>2. /\ Parsed[d].ok
      /\ \A k \in Required : result[k] # None
      /\ \A k \in Scalar : result[k][1] = "text"
      /\ ValidAppliesTo(result["applies-to"])
  BY DEF ValidDrafts, Valid
<1>3. \A k \in Required : result[k] = Wrote(adr, n, k)
  BY <1>1, <1>2, ParsedAsWritten
<1>4. /\ Entries[d].status = result["status"] /\ Entries[d].assertion = result["assertion"]
      /\ Entries[d].appliesTo = NormaliseAppliesTo(result["applies-to"])
  BY <1>1 DEF Entries, Entry
<1> HIDE DEF adr, n, result
<1>5. \A k : Tops(adr, n, k) = At(adr, k)
  BY DEF Tops, At, n
<1>6. ASSUME NEW k \in Required
      PROVE  LET t == LastOf(At(adr, k))
             IN  /\ t \in 1 .. n
                 /\ result[k] = IF adr[t].rest.kind # "nothing" THEN Value(adr, t)
                                ELSE Map(Entered(adr, n, t))
  <2>1. Tops(adr, n, k) # {}
    BY <1>2, <1>3 DEF Wrote
  <2>2. LastOf(Tops(adr, n, k)) \in 1 .. n
    BY <1>1, <2>1, TopsAreNumbers, HasLast
  <2> QED
    BY <1>3, <1>5, <2>1, <2>2 DEF Wrote
<1>7. ASSUME NEW m \in 1 .. n
      PROVE  /\ adr[m].rest \in Rest
             /\ Value(adr, m)[1] = "text" /\ adr[m].rest.kind # "nothing"
                  => /\ adr[m].rest.kind = "text"
                     /\ Value(adr, m) = Text(adr[m].rest.items, adr[m].rest.comment)
             /\ Value(adr, m)[1] = "list" => Value(adr, m)[2] = adr[m].rest.items
             /\ Value(adr, m)[1] # "map"
  <2>1. adr[m].rest \in Rest
    BY <1>1 DEF Line
  <2>2. adr[m].rest.kind \in {"nothing", "null", "text", "list"}
    BY <2>1 DEF Rest
  <2> QED
    BY <2>1, <2>2 DEF Value, CoerceScalarOrList, Text, List, Null
<1>8. ASSUME NEW k \in Scalar
      PROVE  LET rest == adr[LastOf(At(adr, k))].rest
             IN  rest \in Rest /\ rest.kind = "text" /\ result[k] = Text(rest.items, rest.comment)
  <2> DEFINE t == LastOf(At(adr, k))
  <2>1. k \in Required
    BY DEF Required
  <2>2. /\ t \in 1 .. n
        /\ result[k] = IF adr[t].rest.kind # "nothing" THEN Value(adr, t)
                       ELSE Map(Entered(adr, n, t))
    BY <1>6, <2>1
  <2> HIDE DEF t
  <2>3. result[k][1] = "text"
    BY <1>2
  <2>4. adr[t].rest.kind # "nothing"
    BY <2>2, <2>3 DEF Map
  <2>5. adr[t].rest \in Rest /\ adr[t].rest.kind = "text"
        /\ result[k] = Text(adr[t].rest.items, adr[t].rest.comment)
    BY <1>7, <2>2, <2>3, <2>4
  <2> QED
    BY <2>5 DEF t
<1>9. result["status"] = Text({"Accepted"}, FALSE)
        <=> WrittenStatus(adr) = [kind |-> "text", items |-> {"Accepted"}, comment |-> FALSE]
  <2> DEFINE rest == adr[LastOf(At(adr, "status"))].rest
  <2>1. rest \in Rest /\ rest.kind = "text" /\ result["status"] = Text(rest.items, rest.comment)
    <3>1. "status" \in Scalar
      BY DEF Scalar
    <3> QED
      BY <1>8, <3>1
  <2>2. WrittenStatus(adr) = rest
    BY DEF WrittenStatus
  <2> HIDE DEF rest
  <2>3. rest = [kind |-> rest.kind, items |-> rest.items, comment |-> rest.comment]
    BY <2>1 DEF Rest
  <2>4. rest = [kind |-> "text", items |-> {"Accepted"}, comment |-> FALSE]
          <=> rest.items = {"Accepted"} /\ rest.comment = FALSE
    BY <2>1, <2>3
  <2>5. Text(rest.items, rest.comment) = Text({"Accepted"}, FALSE)
          <=> rest.items = {"Accepted"} /\ rest.comment = FALSE
    BY DEF Text
  <2> QED
    BY <2>1, <2>2, <2>4, <2>5
<1>10. result["assertion"][2].words = adr[LastOf(At(adr, "assertion"))].rest.items
  <2> DEFINE rest == adr[LastOf(At(adr, "assertion"))].rest
  <2>1. result["assertion"] = Text(rest.items, rest.comment)
    <3>1. "assertion" \in Scalar
      BY DEF Scalar
    <3> QED
      BY <1>8, <3>1
  <2> HIDE DEF rest
  <2>2. result["assertion"][2].words = rest.items
    BY <2>1 DEF Text
  <2> QED
    BY <2>2 DEF rest
<1>11. ASSUME NEW axis \in Axis
       PROVE  NormaliseAppliesTo(result["applies-to"])[axis] = WrittenNames(adr, axis)
  <2> DEFINE t == LastOf(At(adr, "applies-to"))
             value == result["applies-to"]
             G == Places(adr, n, t, axis)
  <2>0. "applies-to" \in Required
    BY DEF Required
  <2>1. /\ t \in 1 .. n
        /\ value = IF adr[t].rest.kind # "nothing" THEN Value(adr, t) ELSE Map(Entered(adr, n, t))
    BY <1>6, <2>0
  <2>2. /\ value # None /\ value[1] = "map"
        /\ value[2][axis] # None => value[2][axis][1] = "list"
    BY <1>2, <2>0 DEF ValidAppliesTo
  <2>3. G = {m \in Under(adr, t) : adr[m].key = axis}
    <3>1. Block(adr, n, t) = Under(adr, t)
      BY DEF Block, Under, n
    <3>2. \A key : Sub(key) = axis <=> key = axis
      BY DEF Sub, Axis
    <3> QED
      BY <3>1, <3>2 DEF Places
  <2>4. WrittenNames(adr, axis) = IF G = {} THEN {} ELSE adr[LastOf(G)].rest.items
    BY <2>3 DEF WrittenNames
  <2>5. G \in SUBSET (1 .. n)
    BY <1>1, <2>1, PlacesAreNumbers
  <2> HIDE DEF t, value, G
  <2>6. value = Map(Entered(adr, n, t))
    BY <1>7, <2>1, <2>2
  <2>7. value[2][axis] = IF G = {} THEN None ELSE Value(adr, LastOf(G))
    BY <2>6 DEF Map, Entered, Slots, G
  <2>8. G # {} => LastOf(G) \in 1 .. n
    BY <1>1, <2>5, HasLast
  <2>9. CASE G = {}
    <3>1. value[2][axis] = None
      BY <2>7, <2>9
    <3>2. NormaliseAppliesTo(value)[axis] = {}
      BY <2>2, <3>1 DEF NormaliseAppliesTo
    <3> QED
      BY <2>4, <2>9, <3>2 DEF value
  <2>10. CASE G # {}
    <3>1. value[2][axis] = Value(adr, LastOf(G)) /\ value[2][axis] # None
      BY <1>1, <2>7, <2>8, <2>10
    <3>2. value[2][axis][1] = "list" /\ value[2][axis][2] = adr[LastOf(G)].rest.items
      BY <1>7, <2>2, <2>8, <2>10, <3>1
    <3>3. NormaliseAppliesTo(value)[axis] = value[2][axis][2]
      BY <2>2, <3>1, <3>2 DEF NormaliseAppliesTo
    <3> QED
      BY <2>4, <2>10, <3>2, <3>3 DEF value
  <2> QED
    BY <2>9, <2>10
<1> QED
  BY <1>4, <1>9, <1>10, <1>11 DEF adr

LEMMA EnforcedAsWrittenHolds ==
  ASSUME IInv
  PROVE  EnforcedAsWritten
<1> SUFFICES ASSUME NEW tree \in {dev} \cup {pr[p].tree : p \in {q \in PR : IsOpen(q)}}, Passes(tree),
                    NEW f \in File, NEW axis \in Axis, NEW name \in {"auth", "docs"}
             PROVE  LET written == tree.adrs[f] # None
                        adr == Lines[tree.adrs[f]]
                    IN  /\ f \in Enforced(tree.index, axis, name) <=>
                             /\ written
                             /\ WrittenStatus(adr)
                                  = [kind |-> "text", items |-> {"Accepted"}, comment |-> FALSE]
                             /\ name \in WrittenNames(adr, axis)
                        /\ written => tree.index[f].assertion[2].words
                                           = adr[LastOf(At(adr, "assertion"))].rest.items
  BY Zenon DEF EnforcedAsWritten
<1> DEFINE d == tree.adrs[f]
           item == tree.index[f]
<1>1. item = IF d = None THEN None ELSE Entries[d]
  BY DEF Passes, Drifted, BuildIndex
<1>2. d # None => d \in ValidDrafts
  BY DEF Passes, Validates, Present
<1>3. f \in Enforced(tree.index, axis, name) <=>
        item # None /\ item.status = Text({"Accepted"}, FALSE) /\ name \in item.appliesTo[axis]
  BY DEF Enforced
<1>4. d # None => Entries[d] # None
  BY <1>2, TornAssumption DEF ValidDrafts
<1> QED
  BY <1>1, <1>2, <1>3, <1>4, EntryAsWritten

\* Where the tests pass, the entries a reviewer enforces from the index are those of the
\* ADRs that say Accepted and name what the change touches, each with its assertion, for
\* front matter of any lines (parse_front_matter, build_index).
THEOREM IndexSaysWhatIsWritten == Spec => []EnforcedAsWritten
BY Invariant, EnforcedAsWrittenHolds, PTL
===============================================================================
