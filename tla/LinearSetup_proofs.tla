-------------------------- MODULE LinearSetup_proofs --------------------------
(***************************************************************************)
(* Theorems of LinearSetup: types, what templates apply, what a run leaves *)
(* behind, and what is created.                                            *)
(***************************************************************************)
EXTENDS LinearSetup, FiniteSetTheorems, SequenceTheorems,
        WellFoundedInduction, TLAPS

\* No two labels have one id.
Uniq(ls) == \A i, j \in DOMAIN ls : ls[i].id = ls[j].id => i = j

\* A label of that id and normalized name is among ls; a template may carry the id.
LiveIn(ls, id, n) == \E i \in DOMAIN ls : ls[i].id = id /\ Norm[ls[i].name] = n
Applies(ls, t, id) == IF Applied[t] = NoName THEN id = 0 ELSE LiveIn(ls, id, Applied[t])

\* Only default labels are planned for renaming, and none of them for deletion.
Mild(s) ==
  /\ \A e \in plan[s].recase : Norm[e.name] \in Recased
  /\ \A r \in Reason : \A e \in plan[s].cruft[r] : Norm[e.name] \notin Canonical
  /\ \A v \in todo[s] : /\ v.verb = "recase-label" => Norm[v.on.name] \in Recased
                        /\ v.verb = "delete-label" => Norm[v.on.name] \notin Canonical

\* What a mutation about to be sent may do to the labels and templates by now.
SafeJob(ls, j) ==
  /\ j.verb = "rename label" =>
       \A i \in DOMAIN ls : ls[i].id = j.id => Norm[ls[i].name] = j.name
  /\ j.verb = "delete label" =>
       \A i \in DOMAIN ls : ls[i].id = j.id => Norm[ls[i].name] \notin Canonical
  /\ j.verb = "create template" => Applies(ls, j.name, j.label)
  /\ j.verb = "update template" => Applies(ls, templates[j.index].name, j.label)

Resting(s) == /\ at[s] # "write" => job[s] = NoJob
              /\ at[s] \in {"idle", "confirm", "done"} => todo[s] = {}

Safe ==
  /\ Uniq(labels)
  /\ \A s \in Session : Mild(s) /\ SafeJob(labels, job[s]) /\ Resting(s)
  /\ TemplateLabelsLive

\* What is missing or mis-cased is still planned, still to be run, or about to be
\* sent by each session whose run has gone through so far.
MisCased == {m \in Name : Norm[m] \in Recased /\ m # Norm[m]}
IdsOf(ls, m) == {ls[i].id : i \in {k \in DOMAIN ls : ls[k].name = m}}
Target(j) == IF j.verb = "rename label" THEN {j.id} ELSE {}
Pending(verbs, m) == {v \in verbs : v.verb = "recase-label" /\ v.on.name = m}
Has(ls, n) == \E i \in DOMAIN ls : Norm[ls[i].name] = n
Ready(t) == \E i \in DOMAIN templates : /\ templates[i].name = t
                                        /\ Applies(labels, t, templates[i].label)
Provides(j, t) == \/ j.verb = "create template" /\ j.name = t
                  \/ j.verb = "update template" /\ templates[j.index].name = t

Planned(s) ==
  /\ \A n \in Canonical : Has(labels, n) \/ n \in plan[s].missing
  /\ \A m \in MisCased : \A x \in IdsOf(labels, m) : [id |-> x, name |-> m] \in plan[s].recase
  /\ \A c \in Category : states[c] > 0 \/ c \in plan[s].gaps

Underway(s) ==
  /\ \A n \in Canonical : \/ Has(labels, n)
                          \/ [verb |-> "ensure-label", on |-> n] \in todo[s]
                          \/ job[s] = [verb |-> "create label", name |-> n]
  /\ \A m \in MisCased :
       Cardinality(IdsOf(labels, m) \ Target(job[s])) <= Cardinality(Pending(todo[s], m))
  /\ \A c \in Category : \/ states[c] > 0
                         \/ [verb |-> "ensure-state", on |-> c] \in todo[s]
                         \/ job[s] = [verb |-> "create state", type |-> c]
  /\ \A t \in Template : \/ Ready(t)
                         \/ [verb |-> "ensure-template", on |-> t] \in todo[s]
                         \/ Provides(job[s], t)

Going(s) == ~failed[s] /\ complete =>
  /\ at[s] = "confirm" => Planned(s)
  /\ at[s] \in {"apply", "write", "done"} => Underway(s)

\* As long as the verbs do not overlap, the one about to write has seen what is there.
Seen(j) ==
  /\ j.verb = "create label" => ~Has(labels, j.name)
  /\ j.verb = "create state" => states[j.type] = 0
  /\ j.verb = "create template" => \A i \in DOMAIN templates : templates[i].name # j.name

Alone ==
  /\ orderly => \A p, q \in Session : at[p] = "write" /\ at[q] = "write" => p = q
  /\ orderly /\ complete => \A s \in Session : at[s] = "write" => Seen(job[s])

Converging == \A s \in Session : Going(s)
-------------------------------------------------------------------------------
(* Lists of labels *)

LabelTo(n) == [id : 1 .. n, name : Name, used : BOOLEAN]

\* How a list of labels may change: a label keeps its id and its normalized name,
\* a new one has a new id and a canonical name, and a canonical one is not lost.
Moved(ls, ks, n, m) ==
  /\ \A k \in DOMAIN ks :
       \/ \E i \in DOMAIN ls : /\ ls[i].id = ks[k].id
                               /\ \/ ks[k].name = ls[i].name
                                  \/ ks[k].name = Norm[ls[i].name]
       \/ ks[k].id = n + 1 /\ m = n + 1 /\ ks[k].name \in Canonical
  /\ \A i \in DOMAIN ls : Norm[ls[i].name] \in Canonical =>
       \E k \in DOMAIN ks : ks[k].id = ls[i].id /\ Norm[ks[k].name] = Norm[ls[i].name]

\* A place chosen as the first of some places is one of them.
LEMMA FirstOf ==
  ASSUME NEW S \in SUBSET Nat, S # {}
  PROVE  First(S) \in S /\ \A j \in S : First(S) <= j
<1> DEFINE R == OpToRel(<, Nat)
<1>1. PICK x \in S : \A y \in S : ~(<<y, x>> \in R)
  BY NatLessThanWellFounded, WFMin
<1>2. \A y, z \in Nat : y < z => <<y, z>> \in R
  BY Zenon DEF OpToRel
<1>3. \A y \in S : x <= y
  <2>1. \A y \in S : ~(y < x)
    BY <1>1, <1>2
  <2> QED
    BY <2>1
<1> QED
  BY <1>3, Zenon DEF First

LEMMA ChosenMatches ==
  ASSUME NEW n \in Name, NEW ls \in Seq([id : Nat, name : Name, used : BOOLEAN]),
         Matching(n, ls) # {}
  PROVE  \E i \in DOMAIN ls : /\ Chosen(n, ls) = ls[i] /\ Norm[ls[i].name] = Norm[n]
                              /\ (\E k \in DOMAIN ls : ls[k].name = n) => ls[i].name = n
<1> DEFINE exact == {i \in DOMAIN ls : ls[i].name = n}
           places == IF exact # {} THEN exact ELSE Matching(n, ls)
<1>1. places \in SUBSET Nat /\ places # {} /\ places \subseteq Matching(n, ls)
      /\ (exact # {} => places = exact)
  BY DEF Matching
<1>2. First(places) \in places
  BY <1>1, FirstOf
<1>3. Chosen(n, ls) = ls[First(places)]
  BY DEF Chosen
<1> HIDE DEF places
<1>4. First(places) \in Matching(n, ls) /\ (exact # {} => First(places) \in exact)
  BY <1>1, <1>2
<1>5. First(places) \in DOMAIN ls /\ Norm[ls[First(places)].name] = Norm[n]
  BY <1>4 DEF Matching
<1>6. QED
  BY <1>3, <1>4, <1>5

LEMMA FetchedAll ==
  ASSUME NEW S, labels \in Seq(S), Len(labels) <= Page
  PROVE  Fetched = labels
<1>1. Len(labels) \in Nat
  BY LenProperties
<1>2. (IF Len(labels) < Page THEN Len(labels) ELSE Page) = Len(labels)
  BY <1>1, PageAssumption
<1>3. QED
  BY <1>2, SubSeqFull DEF Fetched

\* What is fetched is some of the labels.
LEMMA FetchedSome ==
  ASSUME NEW S, labels \in Seq(S)
  PROVE  /\ Fetched \in Seq(S) /\ DOMAIN Fetched \subseteq DOMAIN labels
         /\ \A i \in DOMAIN Fetched : Fetched[i] = labels[i]
<1> DEFINE n == IF Len(labels) < Page THEN Len(labels) ELSE Page
<1>1. Len(labels) \in Nat /\ DOMAIN labels = 1 .. Len(labels)
      /\ \A i \in 1 .. Len(labels) : labels[i] \in S
  BY LenProperties, ElementOfSeq
<1>2. n \in Nat /\ n <= Len(labels)
  BY <1>1, PageAssumption
<1>3. Fetched = SubSeq(labels, 1, n)
  BY DEF Fetched
<1> HIDE DEF n
<1>4. QED
  BY <1>1, <1>2, <1>3

LEMMA MovedNot ==
  ASSUME NEW ls, NEW n
  PROVE  Moved(ls, ls, n, n)
BY DEF Moved

\* A new label in front or at the end.
LEMMA MovedByCreating ==
  ASSUME NEW n \in Nat, NEW ls \in Seq(LabelTo(n)), Uniq(ls), NEW l \in LabelTo(n + 1),
         l.id = n + 1, l.name \in Canonical,
         NEW ks, ks \in {<<l>> \o ls, Append(ls, l)}
  PROVE  /\ ks \in Seq(LabelTo(n + 1)) /\ Moved(ls, ks, n, n + 1) /\ Uniq(ks)
         /\ DOMAIN ks = 1 .. Len(ls) + 1
<1> DEFINE L == LabelTo(n + 1)
<1>0. LabelTo(n) \subseteq L
  BY DEF LabelTo
<1>1. /\ ls \in Seq(L) /\ Len(ls) \in Nat /\ DOMAIN ls = 1 .. Len(ls)
      /\ \A i \in 1 .. Len(ls) : ls[i] \in LabelTo(n)
  BY <1>0, SeqMonotonic, LenProperties, ElementOfSeq
<1>2. \A i \in 1 .. Len(ls) : ls[i].id \in 1 .. n
  BY <1>1 DEF LabelTo
<1>3. CASE ks = <<l>> \o ls
  <2>1. <<l>> \in Seq(L) /\ Len(<<l>>) = 1
    OBVIOUS
  <2>2. /\ ks \in Seq(L) /\ Len(ks) = Len(ls) + 1
        /\ \A i \in 1 .. Len(ls) + 1 : ks[i] = IF i <= 1 THEN <<l>>[i] ELSE ls[i - 1]
    BY <1>1, <1>3, <2>1, ConcatProperties
  <2>3. DOMAIN ks = 1 .. Len(ls) + 1 /\ ks[1] = l /\ \A i \in 2 .. Len(ls) + 1 : ks[i] = ls[i - 1]
    BY <1>1, <2>2, LenProperties
  <2>4. \A i \in 1 .. Len(ls) : i + 1 \in DOMAIN ks /\ ks[i + 1] = ls[i]
    BY <1>1, <2>3
  <2>5. \A k \in DOMAIN ks : k = 1 \/ (k - 1 \in DOMAIN ls /\ ks[k] = ls[k - 1])
    BY <1>1, <2>3
  <2>6. Moved(ls, ks, n, n + 1)
    BY <1>1, <2>3, <2>4, <2>5 DEF Moved
  <2>7. Uniq(ks)
    <3> SUFFICES ASSUME NEW j \in DOMAIN ks, NEW k \in DOMAIN ks, ks[j].id = ks[k].id
                 PROVE  j = k
      BY DEF Uniq
    <3>1. j \in Nat /\ k \in Nat
      BY <1>1, <2>3
    <3>2. \A i \in DOMAIN ls : ls[i].id # n + 1
      BY <1>1, <1>2
    <3>3. (j = 1) <=> (k = 1)
      BY <2>3, <2>5, <3>2
    <3>4. j # 1 /\ k # 1 => j - 1 = k - 1
      BY <2>5 DEF Uniq
    <3> QED
      BY <3>1, <3>3, <3>4
  <2> QED
    BY <2>2, <2>3, <2>6, <2>7
<1>4. CASE ks = Append(ls, l)
  <2>2. ks \in Seq(L) /\ Len(ks) = Len(ls) + 1 /\ ks[Len(ls) + 1] = l
        /\ \A i \in 1 .. Len(ls) : ks[i] = ls[i]
    BY <1>1, <1>4, AppendProperties
  <2>3. DOMAIN ks = 1 .. Len(ls) + 1
    BY <2>2, LenProperties
  <2>4. \A k \in DOMAIN ks : k = Len(ls) + 1 \/ (k \in DOMAIN ls /\ ks[k] = ls[k])
    BY <1>1, <2>2, <2>3
  <2>5. \A i \in DOMAIN ls : i \in DOMAIN ks /\ ks[i] = ls[i]
    BY <1>1, <2>2, <2>3
  <2>6. Moved(ls, ks, n, n + 1)
    BY <2>2, <2>3, <2>4, <2>5 DEF Moved
  <2>7. Uniq(ks)
    BY <1>1, <1>2, <2>2, <2>3, <2>4 DEF Uniq
  <2> QED
    BY <2>2, <2>3, <2>6, <2>7
<1> QED
  BY <1>3, <1>4

\* Labels that are changed where they are, their ids and normalized names kept.
LEMMA MovedInPlace ==
  ASSUME NEW n \in Nat, NEW ls \in Seq(LabelTo(n)), Uniq(ls), NEW ks,
         ks = [i \in DOMAIN ls |-> ks[i]],
         \A i \in DOMAIN ls : /\ ks[i] \in LabelTo(n) /\ ks[i].id = ls[i].id
                              /\ ks[i].name = ls[i].name \/ ks[i].name = Norm[ls[i].name]
  PROVE  ks \in Seq(LabelTo(n)) /\ Moved(ls, ks, n, n) /\ Uniq(ks) /\ DOMAIN ks = DOMAIN ls
<1>1. DOMAIN ls = 1 .. Len(ls) /\ Len(ls) \in Nat
  BY LenProperties
<1>2. DOMAIN ks = DOMAIN ls
  OBVIOUS
<1>3. ks \in Seq(LabelTo(n))
  BY <1>1, IsASeq
<1>4. \A i \in DOMAIN ls : Norm[ks[i].name] = Norm[ls[i].name]
  <2> TAKE i \in DOMAIN ls
  <2>1. ls[i] \in LabelTo(n)
    BY <1>1, ElementOfSeq
  <2>2. ls[i].name \in Name
    BY <2>1 DEF LabelTo
  <2> QED
    BY <2>2, NamesAssumption
<1>5. Moved(ls, ks, n, n)
  BY <1>2, <1>4 DEF Moved
<1>6. Uniq(ks)
  BY <1>2 DEF Uniq
<1> QED
  BY <1>2, <1>3, <1>5, <1>6

\* One label taken out of the list, that is not canonical.
LEMMA MovedByDeleting ==
  ASSUME NEW n \in Nat, NEW ls \in Seq(LabelTo(n)), Uniq(ls), NEW d \in DOMAIN ls,
         Norm[ls[d].name] \notin Canonical
  PROVE  /\ RemoveAt(ls, d) \in Seq(LabelTo(n)) /\ Moved(ls, RemoveAt(ls, d), n, n)
         /\ Uniq(RemoveAt(ls, d))
<1> DEFINE L == LabelTo(n)
           ks == RemoveAt(ls, d)
           left == SubSeq(ls, 1, d - 1)
           right == SubSeq(ls, d + 1, Len(ls))
<1>1. Len(ls) \in Nat /\ DOMAIN ls = 1 .. Len(ls) /\ d \in 1 .. Len(ls)
  BY LenProperties
<1>2. /\ left \in Seq(L) /\ Len(left) = d - 1
      /\ \A i \in 1 .. d - 1 : left[i] = ls[i]
  BY <1>1
<1>3. /\ right \in Seq(L) /\ Len(right) = Len(ls) - d
      /\ \A i \in 1 .. Len(ls) - d : right[i] = ls[d + i]
  BY <1>1
<1>4. ks = left \o right
  BY DEF RemoveAt
<1> HIDE DEF left, right, ks
<1>5. ks \in Seq(L) /\ Len(ks) = Len(left) + Len(right)
      /\ \A i \in 1 .. Len(left) + Len(right) : ks[i] = IF i <= Len(left) THEN left[i] ELSE right[i - Len(left)]
  BY <1>2, <1>3, <1>4, ConcatProperties
<1>6. DOMAIN ks = 1 .. Len(ls) - 1
  BY <1>1, <1>2, <1>3, <1>5, LenProperties
<1>7. \A k \in 1 .. Len(ls) - 1 : ks[k] = IF k < d THEN ls[k] ELSE ls[k + 1]
  <2> TAKE k \in 1 .. Len(ls) - 1
  <2>1. CASE k < d
    BY <1>1, <1>2, <1>3, <1>5, <2>1
  <2>2. CASE ~(k < d)
    <3>1. ks[k] = right[k - (d - 1)] /\ k - (d - 1) \in 1 .. Len(ls) - d
      BY <1>1, <1>2, <1>3, <1>5, <2>2
    <3>2. d + (k - (d - 1)) = k + 1
      BY <1>1
    <3> QED
      BY <1>3, <2>2, <3>1, <3>2
  <2> QED
    BY <2>1, <2>2
<1>8. \A k \in DOMAIN ks : \E i \in DOMAIN ls : ks[k] = ls[i] /\ i = IF k < d THEN k ELSE k + 1
  BY <1>1, <1>6, <1>7
<1>9. \A i \in DOMAIN ls \ {d} : \E k \in DOMAIN ks : ks[k] = ls[i]
  <2> TAKE i \in DOMAIN ls \ {d}
  <2>1. CASE i < d
    BY <1>1, <1>6, <1>7, <2>1
  <2>2. CASE i > d
    <3>1. i - 1 \in DOMAIN ks /\ ks[i - 1] = ls[(i - 1) + 1] /\ (i - 1) + 1 = i
      BY <1>1, <1>6, <1>7, <2>2
    <3> QED
      BY <3>1
  <2> QED
    BY <1>1, <2>1, <2>2
<1>10. Moved(ls, ks, n, n)
  BY <1>8, <1>9 DEF Moved
<1>11. Uniq(ks)
  <2> SUFFICES ASSUME NEW j \in DOMAIN ks, NEW k \in DOMAIN ks, ks[j].id = ks[k].id
               PROVE  j = k
    BY DEF Uniq
  <2>1. PICK a \in DOMAIN ls : ks[j] = ls[a] /\ a = IF j < d THEN j ELSE j + 1
    BY <1>8
  <2>2. PICK b \in DOMAIN ls : ks[k] = ls[b] /\ b = IF k < d THEN k ELSE k + 1
    BY <1>8
  <2>3. a = b
    BY <2>1, <2>2 DEF Uniq
  <2>4. j \in Nat /\ k \in Nat
    BY <1>1, <1>6
  <2> QED
    BY <1>1, <2>1, <2>2, <2>3, <2>4
<1> QED
  BY <1>5, <1>10, <1>11 DEF ks

\* What a change of the labels cannot take away, or bring about.
LEMMA MovedKeeps ==
  ASSUME NEW n \in Nat, NEW m \in Nat, NEW ls \in Seq(LabelTo(n)), NEW ks \in Seq(LabelTo(m)),
         Moved(ls, ks, n, m)
  PROVE  /\ \A id, c : c \in Canonical /\ LiveIn(ls, id, c) => LiveIn(ks, id, c)
         /\ \A c \in Canonical : Has(ls, c) => Has(ks, c)
         /\ \A t \in Template : \A id : Applies(ls, t, id) => Applies(ks, t, id)
         /\ \A x \in MisCased : IdsOf(ks, x) \subseteq IdsOf(ls, x)
         /\ \A k \in DOMAIN ks : ks[k].id \in 1 .. n =>
              \E i \in DOMAIN ls : ls[i].id = ks[k].id /\ Norm[ls[i].name] = Norm[ks[k].name]
<1>1. \A i \in DOMAIN ls : ls[i].id \in 1 .. n /\ ls[i].name \in Name
  <2> TAKE i \in DOMAIN ls
  <2>1. ls[i] \in LabelTo(n)
    BY ElementOfSeq, LenProperties
  <2> QED
    BY <2>1 DEF LabelTo
<1>2. \A k \in DOMAIN ks :
        \/ \E i \in DOMAIN ls : /\ ls[i].id = ks[k].id /\ Norm[ls[i].name] = Norm[ks[k].name]
                                /\ \/ ks[k].name = ls[i].name
                                   \/ ks[k].name = Norm[ks[k].name]
        \/ ks[k].id = n + 1 /\ ks[k].name = Norm[ks[k].name]
  BY <1>1, NamesAssumption DEF Moved
<1>3. \A id, c : c \in Canonical /\ LiveIn(ls, id, c) => LiveIn(ks, id, c)
  BY DEF Moved, LiveIn
<1>4. \A c \in Canonical : Has(ls, c) => Has(ks, c)
  BY DEF Moved, Has
<1>5. \A t \in Template : \A id : Applies(ls, t, id) => Applies(ks, t, id)
  BY <1>3, NamesAssumption DEF Applies
<1>6. \A x \in MisCased : IdsOf(ks, x) \subseteq IdsOf(ls, x)
  BY <1>2 DEF MisCased, IdsOf
<1>7. \A k \in DOMAIN ks : ks[k].id \in 1 .. n =>
        \E i \in DOMAIN ls : ls[i].id = ks[k].id /\ Norm[ls[i].name] = Norm[ks[k].name]
  BY <1>2
<1> QED
  BY <1>3, <1>4, <1>5, <1>6, <1>7

-------------------------------------------------------------------------------
(* The workspace *)

WorkType == /\ labels \in Seq(LabelTo(ids))
            /\ states \in [StateType -> Nat]
            /\ templates \in Seq([name : Template, label : 0 .. ids])
            /\ ids \in Nat

\* How one step may change the workspace.
Moves ==
  /\ Moved(labels, labels', ids, ids') /\ Uniq(labels') /\ ids <= ids'
  /\ \A i \in DOMAIN templates : i \in DOMAIN templates' /\ templates'[i].name = templates[i].name
  /\ \A i \in DOMAIN templates' :
       \/ i \in DOMAIN templates /\ templates'[i].label = templates[i].label
       \/ Applies(labels, templates'[i].name, templates'[i].label)
  /\ \A t \in StateType : states[t] <= states'[t]

\* A mutation, by what it is.
LEMMA JobForms ==
  ASSUME NEW j \in Job
  PROVE  /\ j.verb = "create label" => j.name \in Canonical
         /\ j.verb = "rename label" => j.id \in 1 .. ids /\ j.name \in Recased
         /\ j.verb = "delete label" => j.id \in 1 .. ids
         /\ j.verb = "create state" => j.type \in Category
         /\ j.verb = "create template" => j.name \in Template /\ j.label \in 0 .. ids
         /\ j.verb = "update template" => j.index \in DOMAIN templates /\ j.label \in 0 .. ids
<1>0. CASE j = NoJob
  <2>1. j.verb = "none"
    BY <1>0 DEF NoJob
  <2> QED
    BY <2>1
<1>1. CASE j \in [verb : {"create label"}, name : Canonical]
  <2>1. j.verb = "create label" /\ j.name \in Canonical
    BY <1>1
  <2> QED
    BY <2>1
<1>2. CASE j \in [verb : {"rename label"}, id : 1 .. ids, name : Recased]
  <2>1. j.verb = "rename label" /\ j.id \in 1 .. ids /\ j.name \in Recased
    BY <1>2
  <2> QED
    BY <2>1
<1>3. CASE j \in [verb : {"delete label"}, id : 1 .. ids]
  <2>1. j.verb = "delete label" /\ j.id \in 1 .. ids
    BY <1>3
  <2> QED
    BY <2>1
<1>4. CASE j \in [verb : {"create state"}, type : Category]
  <2>1. j.verb = "create state" /\ j.type \in Category
    BY <1>4
  <2> QED
    BY <2>1
<1>5. CASE j \in [verb : {"create template"}, name : Template, label : 0 .. ids]
  <2>1. j.verb = "create template" /\ j.name \in Template /\ j.label \in 0 .. ids
    BY <1>5
  <2> QED
    BY <2>1
<1>6. CASE j \in [verb : {"update template"}, index : DOMAIN templates, label : 0 .. ids]
  <2>1. j.verb = "update template" /\ j.index \in DOMAIN templates /\ j.label \in 0 .. ids
    BY <1>6
  <2> QED
    BY <2>1
<1> QED
  BY <1>0, <1>1, <1>2, <1>3, <1>4, <1>5, <1>6, Zenon DEF Job

LEMMA NotMoved ==
  ASSUME WorkType, Uniq(labels), UNCHANGED workspace
  PROVE  WorkType' /\ Moves
<1>1. UNCHANGED <<labels, states, templates, ids>>
  BY DEF workspace
<1>2. WorkType'
  BY <1>1 DEF WorkType, LabelTo
<1>3. \A t \in StateType : states[t] <= states'[t]
  BY <1>1 DEF WorkType
<1>4. Moved(labels, labels', ids, ids') /\ Uniq(labels') /\ ids <= ids'
  BY <1>1, MovedNot DEF WorkType, Uniq
<1> QED
  BY <1>1, <1>2, <1>3, <1>4 DEF Moves

\* The labels move and nothing else.
LEMMA OnlyLabels ==
  ASSUME WorkType, ids' \in Nat, ids <= ids', labels' \in Seq(LabelTo(ids')),
         Moved(labels, labels', ids, ids'), Uniq(labels'), UNCHANGED <<states, templates>>
  PROVE  WorkType' /\ Moves
<1>1. templates \in Seq([name : Template, label : 0 .. ids'])
  <2>1. [name : Template, label : 0 .. ids] \subseteq [name : Template, label : 0 .. ids']
    BY DEF WorkType
  <2> QED
    BY <2>1, SeqMonotonic DEF WorkType
<1>2. WorkType'
  BY <1>1 DEF WorkType, LabelTo
<1>3. \A t \in StateType : states[t] <= states'[t]
  BY DEF WorkType
<1> QED
  BY <1>2, <1>3 DEF Moves

\* A template is made or changed, and nothing else.
LEMMA OnlyTemplates ==
  ASSUME WorkType, Uniq(labels), UNCHANGED <<labels, states, ids>>,
         templates' \in Seq([name : Template, label : 0 .. ids]),
         \A i \in DOMAIN templates : i \in DOMAIN templates' /\ templates'[i].name = templates[i].name,
         \A i \in DOMAIN templates' :
           \/ i \in DOMAIN templates /\ templates'[i].label = templates[i].label
           \/ Applies(labels, templates'[i].name, templates'[i].label)
  PROVE  WorkType' /\ Moves
<1>1. WorkType'
  BY DEF WorkType, LabelTo
<1>2. \A t \in StateType : states[t] <= states'[t]
  BY DEF WorkType
<1>3. Moved(labels, labels', ids, ids') /\ Uniq(labels') /\ ids <= ids'
  BY MovedNot DEF WorkType, Uniq
<1> QED
  BY <1>1, <1>2, <1>3 DEF Moves

LEMMA PerformMoves ==
  ASSUME WorkType, Uniq(labels), NEW j \in Job, SafeJob(labels, j), Perform(j)
  PROVE  WorkType' /\ Moves
<1>0. \A i \in DOMAIN labels : labels[i] \in LabelTo(ids)
  BY ElementOfSeq, LenProperties DEF WorkType
<1>1. ASSUME j.verb = "create label", CreateLabel(j.name)
      PROVE  WorkType' /\ Moves
  <2> DEFINE l == [id |-> ids + 1, name |-> j.name, used |-> FALSE]
  <2>1. ids' = ids + 1 /\ labels' \in {<<l>> \o labels, Append(labels, l)}
        /\ UNCHANGED <<states, templates>>
    BY <1>1 DEF CreateLabel
  <2>2. j.name \in Canonical /\ ids \in Nat
    BY <1>1, JobForms DEF WorkType
  <2>3. l \in LabelTo(ids + 1) /\ l.id = ids + 1 /\ l.name \in Canonical
    BY <2>2, NamesAssumption DEF LabelTo
  <2> HIDE DEF l
  <2>4. labels' \in Seq(LabelTo(ids + 1)) /\ Moved(labels, labels', ids, ids + 1) /\ Uniq(labels')
    BY <2>1, <2>2, <2>3, MovedByCreating DEF WorkType
  <2>5. ids' \in Nat /\ ids <= ids' /\ labels' \in Seq(LabelTo(ids')) /\ Moved(labels, labels', ids, ids')
    BY <2>1, <2>2, <2>4
  <2> QED
    BY <2>1, <2>4, <2>5, OnlyLabels
<1>2. ASSUME j.verb = "rename label", RenameLabel(j.id, j.name)
      PROVE  WorkType' /\ Moves
  <2>1. labels' = [i \in DOMAIN labels |-> IF labels[i].id = j.id
                     THEN [labels[i] EXCEPT !.name = j.name] ELSE labels[i]]
        /\ ids' = ids /\ UNCHANGED <<states, templates>>
    BY <1>2 DEF RenameLabel
  <2>2. j.name \in Name /\ \A i \in DOMAIN labels : labels[i].id = j.id => Norm[labels[i].name] = j.name
    BY <1>2, JobForms, NamesAssumption DEF SafeJob
  <2>3. \A i \in DOMAIN labels : /\ labels'[i] \in LabelTo(ids) /\ labels'[i].id = labels[i].id
                                 /\ labels'[i].name = labels[i].name \/ labels'[i].name = Norm[labels[i].name]
    BY <1>0, <2>1, <2>2 DEF LabelTo
  <2>4. labels' = [i \in DOMAIN labels |-> labels'[i]]
    BY <2>1
  <2>5. labels' \in Seq(LabelTo(ids)) /\ Moved(labels, labels', ids, ids) /\ Uniq(labels')
    BY <2>3, <2>4, MovedInPlace DEF WorkType
  <2>6. ids' \in Nat /\ ids <= ids' /\ labels' \in Seq(LabelTo(ids')) /\ Moved(labels, labels', ids, ids')
    BY <2>1, <2>5 DEF WorkType
  <2> QED
    BY <2>1, <2>5, <2>6, OnlyLabels
<1>3. ASSUME j.verb = "delete label", DeleteLabel(j.id)
      PROVE  WorkType' /\ Moves
  <2>1. PICK d \in DOMAIN labels : labels[d].id = j.id /\ labels' = RemoveAt(labels, d)
    BY <1>3 DEF DeleteLabel
  <2>2. ids' = ids /\ UNCHANGED <<states, templates>>
    BY <1>3 DEF DeleteLabel
  <2>3. Norm[labels[d].name] \notin Canonical
    BY <1>3, <2>1 DEF SafeJob
  <2>4. labels' \in Seq(LabelTo(ids)) /\ Moved(labels, labels', ids, ids) /\ Uniq(labels')
    BY <2>1, <2>3, MovedByDeleting DEF WorkType
  <2>5. ids' \in Nat /\ ids <= ids' /\ labels' \in Seq(LabelTo(ids')) /\ Moved(labels, labels', ids, ids')
    BY <2>2, <2>4 DEF WorkType
  <2> QED
    BY <2>2, <2>4, <2>5, OnlyLabels
<1>4. ASSUME j.verb = "create state", states' = [states EXCEPT ![j.type] = @ + 1],
             UNCHANGED <<labels, templates, ids>>
      PROVE  WorkType' /\ Moves
  <2>1. j.type \in StateType
    BY <1>4, JobForms, StatesAssumption
  <2> DEFINE c == j.type
  <2>0. states' = [states EXCEPT ![c] = states[c] + 1] /\ states \in [StateType -> Nat]
        /\ labels' = labels /\ templates' = templates /\ ids' = ids
    BY <1>4 DEF WorkType
  <2> HIDE DEF c
  <2>2. states' \in [StateType -> Nat] /\ \A t \in StateType : states[t] <= states'[t]
    BY <2>0, <2>1 DEF c
  <2>3. WorkType'
    BY <2>0, <2>2 DEF WorkType, LabelTo
  <2>4. Moved(labels, labels', ids, ids') /\ Uniq(labels') /\ ids <= ids'
    BY <2>0, MovedNot DEF WorkType, Uniq
  <2> QED
    BY <1>4, <2>2, <2>3, <2>4 DEF Moves
<1>5. ASSUME j.verb = "create template", UNCHANGED <<labels, states, ids>>,
             templates' = Append(templates, [name |-> j.name, label |-> j.label])
      PROVE  WorkType' /\ Moves
  <2> DEFINE T == [name : Template, label : 0 .. ids]
             t == [name |-> j.name, label |-> j.label]
  <2>1. t \in T /\ templates \in Seq(T)
    BY <1>5, JobForms DEF WorkType
  <2>2. t.name = j.name /\ t.label = j.label
    OBVIOUS
  <2> HIDE DEF T, t
  <2>3. /\ templates' \in Seq(T) /\ Len(templates') = Len(templates) + 1
        /\ \A i \in 1 .. Len(templates) : templates'[i] = templates[i]
        /\ templates'[Len(templates) + 1] = t
    BY <1>5, <2>1, AppendProperties DEF t
  <2>4. DOMAIN templates = 1 .. Len(templates) /\ DOMAIN templates' = 1 .. Len(templates) + 1
        /\ Len(templates) \in Nat
    BY <2>1, <2>3, LenProperties
  <2>5. \A i \in DOMAIN templates : i \in DOMAIN templates' /\ templates'[i].name = templates[i].name
    BY <2>3, <2>4
  <2>6. \A i \in DOMAIN templates' : i \in DOMAIN templates \/ i = Len(templates) + 1
    BY <2>4
  <2>7. Applies(labels, t.name, t.label)
    BY <1>5, <2>2 DEF SafeJob
  <2>8. \A i \in DOMAIN templates' :
           \/ i \in DOMAIN templates /\ templates'[i].label = templates[i].label
           \/ Applies(labels, templates'[i].name, templates'[i].label)
    BY <2>3, <2>4, <2>6, <2>7
  <2> QED
    BY <1>5, <2>3, <2>5, <2>8, OnlyTemplates DEF T
<1>6. ASSUME j.verb = "update template", UNCHANGED <<labels, states, ids>>,
             templates' = [templates EXCEPT ![j.index].label = j.label]
      PROVE  WorkType' /\ Moves
  <2> DEFINE T == [name : Template, label : 0 .. ids]
  <2>1. j.index \in DOMAIN templates /\ j.label \in 0 .. ids /\ templates \in Seq(T)
    BY <1>6, JobForms DEF WorkType
  <2>2. DOMAIN templates = 1 .. Len(templates) /\ \A i \in DOMAIN templates : templates[i] \in T
    BY <2>1, LenProperties, ElementOfSeq
  <2>3. DOMAIN templates' = DOMAIN templates
        /\ \A i \in DOMAIN templates : /\ templates'[i] \in T /\ templates'[i].name = templates[i].name
                                       /\ i # j.index => templates'[i] = templates[i]
                                       /\ i = j.index => templates'[i].label = j.label
    BY <1>6, <2>1, <2>2
  <2>4. templates' \in Seq(T)
    <3> DEFINE u == [templates[j.index] EXCEPT !.label = j.label]
    <3>1. u \in T
      BY <2>1, <2>2
    <3>2. templates' = [templates EXCEPT ![j.index] = u]
      BY <1>6
    <3> HIDE DEF u, T
    <3> QED
      BY <2>1, <2>2, <3>1, <3>2, ExceptSeq
  <2>5. Applies(labels, templates[j.index].name, j.label)
    BY <1>6 DEF SafeJob
  <2>6. \A i \in DOMAIN templates' :
           \/ i \in DOMAIN templates /\ templates'[i].label = templates[i].label
           \/ Applies(labels, templates'[i].name, templates'[i].label)
    BY <2>1, <2>3, <2>5
  <2> QED
    BY <1>6, <2>3, <2>4, <2>6, OnlyTemplates
<1> QED
  BY <1>1, <1>2, <1>3, <1>4, <1>5, <1>6 DEF Perform

-------------------------------------------------------------------------------
(* The planners *)

\* A verb, by what it is.
LEMMA VerbForms ==
  ASSUME NEW v \in Verb
  PROVE  /\ v.verb = "ensure-label" => v.on \in Canonical /\ v = [verb |-> "ensure-label", on |-> v.on]
         /\ v.verb = "recase-label" => v.on \in Entries /\ v = [verb |-> "recase-label", on |-> v.on]
         /\ v.verb = "ensure-state" => v.on \in Category /\ v = [verb |-> "ensure-state", on |-> v.on]
         /\ v.verb = "ensure-template" => v.on \in Template /\ v = [verb |-> "ensure-template", on |-> v.on]
         /\ v.verb = "delete-label" => v.on \in Entries
         /\ v.verb \in {"ensure-label", "recase-label", "ensure-state", "ensure-template", "delete-label"}
<1>1. CASE v \in Verbs("ensure-label", Canonical)
  BY <1>1 DEF Verbs
<1>2. CASE v \in Verbs("recase-label", Entries)
  BY <1>2 DEF Verbs
<1>3. CASE v \in Verbs("ensure-state", Category)
  BY <1>3 DEF Verbs
<1>4. CASE v \in Verbs("ensure-template", Template)
  BY <1>4 DEF Verbs
<1>5. CASE v \in Verbs("delete-label", Entries)
  BY <1>5 DEF Verbs
<1> QED
  BY <1>1, <1>2, <1>3, <1>4, <1>5, Zenon DEF Verb

\* A label that is fetched and chosen is a live one, with the normalized name asked for.
LEMMA ChosenLive ==
  ASSUME WorkType, Uniq(labels), NEW n \in Name, Matching(n, Fetched) # {}
  PROVE  \E i \in DOMAIN labels :
           /\ Chosen(n, Fetched) = labels[i] /\ Norm[labels[i].name] = Norm[n]
           /\ labels[i].id \in 1 .. ids /\ labels[i].name \in Name
           /\ (\E k \in DOMAIN Fetched : Fetched[k].name = n) => labels[i].name = n
           /\ \A k \in DOMAIN labels : labels[k].id = labels[i].id => k = i
<1>1. /\ Fetched \in Seq(LabelTo(ids)) /\ DOMAIN Fetched \subseteq DOMAIN labels
      /\ \A i \in DOMAIN Fetched : Fetched[i] = labels[i]
  BY FetchedSome DEF WorkType
<1>2. LabelTo(ids) \subseteq [id : Nat, name : Name, used : BOOLEAN]
  BY DEF LabelTo, WorkType
<1>3. Fetched \in Seq([id : Nat, name : Name, used : BOOLEAN])
  BY <1>1, <1>2, SeqMonotonic
<1>4. PICK i \in DOMAIN Fetched :
        /\ Chosen(n, Fetched) = Fetched[i] /\ Norm[Fetched[i].name] = Norm[n]
        /\ (\E k \in DOMAIN Fetched : Fetched[k].name = n) => Fetched[i].name = n
  BY <1>3, ChosenMatches
<1>5. labels[i] \in LabelTo(ids)
  BY <1>1, <1>4, ElementOfSeq, LenProperties DEF WorkType
<1>6. labels[i].id \in 1 .. ids /\ labels[i].name \in Name
  BY <1>5 DEF LabelTo
<1>7. i \in DOMAIN labels /\ Fetched[i] = labels[i]
  BY <1>1, <1>4
<1>8. \A k \in DOMAIN labels : labels[k].id = labels[i].id => k = i
  BY <1>7 DEF Uniq
<1> QED
  BY <1>4, <1>6, <1>7, <1>8

LEMMA NoJobSafe == NoJob \in Job /\ NoJob.verb = "none" /\ \A ls : SafeJob(ls, NoJob)
BY DEF Job, NoJob, SafeJob

LEMMA EnsureLabelPlanned ==
  ASSUME NEW n \in Canonical, NEW ls
  PROVE  /\ PlanEnsureLabel(n, ls) \in Job /\ SafeJob(labels, PlanEnsureLabel(n, ls))
         /\ PlanEnsureLabel(n, ls).verb \in {"none", "create label"}
         /\ \/ Matching(n, ls) = {} /\ PlanEnsureLabel(n, ls) = [verb |-> "create label", name |-> n]
            \/ Matching(n, ls) # {} /\ PlanEnsureLabel(n, ls) = NoJob
<1> DEFINE j == [verb |-> "create label", name |-> n]
<1>1. j \in Job /\ j.verb = "create label"
  BY DEF Job
<1>2. SafeJob(labels, j)
  BY <1>1 DEF SafeJob
<1> QED
  BY <1>1, <1>2, NoJobSafe DEF PlanEnsureLabel

LEMMA RecaseLabelPlanned ==
  ASSUME WorkType, Uniq(labels), NEW n \in Name, Norm[n] \in Recased
  PROVE  /\ PlanRecaseLabel(n, Fetched) \in Job /\ SafeJob(labels, PlanRecaseLabel(n, Fetched))
         /\ PlanRecaseLabel(n, Fetched).verb \in {"none", "rename label"}
         /\ n # Norm[n] /\ (\E k \in DOMAIN Fetched : Fetched[k].name = n) =>
              \E i \in DOMAIN labels : /\ labels[i].name = n
                                       /\ PlanRecaseLabel(n, Fetched).verb = "rename label"
                                       /\ PlanRecaseLabel(n, Fetched).id = labels[i].id
<1>1. CASE Matching(n, Fetched) = {}
  BY <1>1, NoJobSafe DEF PlanRecaseLabel, Matching
<1>2. CASE Matching(n, Fetched) # {}
  <2>1. PICK i \in DOMAIN labels :
           /\ Chosen(n, Fetched) = labels[i] /\ Norm[labels[i].name] = Norm[n]
           /\ labels[i].id \in 1 .. ids /\ labels[i].name \in Name
           /\ (\E k \in DOMAIN Fetched : Fetched[k].name = n) => labels[i].name = n
           /\ \A k \in DOMAIN labels : labels[k].id = labels[i].id => k = i
    BY <1>2, ChosenLive
  <2> DEFINE j == [verb |-> "rename label", id |-> labels[i].id, name |-> Norm[n]]
  <2>2. j \in Job /\ j.verb = "rename label" /\ j.id = labels[i].id /\ j.name = Norm[n]
    <3>1. j \in [verb : {"rename label"}, id : 1 .. ids, name : Recased]
      BY <2>1
    <3> QED
      BY <3>1, Zenon DEF Job
  <2>3. PlanRecaseLabel(n, Fetched) = IF labels[i].name = Norm[n] THEN NoJob ELSE j
    BY <1>2, <2>1 DEF PlanRecaseLabel
  <2> HIDE DEF j
  <2>4. SafeJob(labels, j)
    BY <2>1, <2>2 DEF SafeJob
  <2> QED
    BY <2>1, <2>2, <2>3, <2>4, NoJobSafe
<1> QED
  BY <1>1, <1>2

LEMMA DeleteLabelPlanned ==
  ASSUME WorkType, Uniq(labels), NEW n \in Name, Norm[n] \notin Canonical
  PROVE  /\ PlanDeleteLabel(n, Fetched) \in Job /\ SafeJob(labels, PlanDeleteLabel(n, Fetched))
         /\ PlanDeleteLabel(n, Fetched).verb \in {"none", "delete label"}
<1>1. CASE Matching(n, Fetched) = {}
  BY <1>1, NoJobSafe DEF PlanDeleteLabel
<1>2. CASE Matching(n, Fetched) # {}
  <2>1. PICK i \in DOMAIN labels :
           /\ Chosen(n, Fetched) = labels[i] /\ Norm[labels[i].name] = Norm[n]
           /\ labels[i].id \in 1 .. ids /\ labels[i].name \in Name
           /\ (\E k \in DOMAIN Fetched : Fetched[k].name = n) => labels[i].name = n
           /\ \A k \in DOMAIN labels : labels[k].id = labels[i].id => k = i
    BY <1>2, ChosenLive
  <2> DEFINE j == [verb |-> "delete label", id |-> labels[i].id]
  <2>2. j \in Job /\ j.verb = "delete label" /\ j.id = labels[i].id
    <3>1. j \in [verb : {"delete label"}, id : 1 .. ids]
      BY <2>1
    <3> QED
      BY <3>1, Zenon DEF Job
  <2>3. PlanDeleteLabel(n, Fetched) = j
    BY <1>2, <2>1 DEF PlanDeleteLabel
  <2> HIDE DEF j
  <2>4. SafeJob(labels, j)
    BY <2>1, <2>2 DEF SafeJob
  <2> QED
    BY <2>2, <2>3, <2>4
<1> QED
  BY <1>1, <1>2

LEMMA EnsureStatePlanned ==
  ASSUME NEW c \in Category
  PROVE  /\ PlanEnsureState(c) \in Job /\ SafeJob(labels, PlanEnsureState(c))
         /\ PlanEnsureState(c).verb \in {"none", "create state"}
         /\ \/ c \in Present /\ PlanEnsureState(c) = NoJob
            \/ c \notin Present /\ PlanEnsureState(c) = [verb |-> "create state", type |-> c]
<1> DEFINE j == [verb |-> "create state", type |-> c]
<1>1. j \in Job /\ j.verb = "create state"
  BY DEF Job
<1>2. SafeJob(labels, j)
  BY <1>1 DEF SafeJob
<1> QED
  BY <1>1, <1>2, NoJobSafe DEF PlanEnsureState

LEMMA EnsureTemplatePlanned ==
  ASSUME WorkType, Uniq(labels), NEW t \in Template, ~Unresolved(t, Fetched)
  PROVE  LET j == PlanEnsureTemplate(t, Fetched)
         IN  /\ j \in Job /\ SafeJob(labels, j) /\ Provides(j, t)
             /\ j.verb \in {"create template", "update template"}
             /\ j.verb = "create template" => \A i \in DOMAIN templates : templates[i].name # j.name
<1> DEFINE applied == IF Applied[t] = NoName THEN 0 ELSE Chosen(Applied[t], Fetched).id
           same == {i \in DOMAIN templates : templates[i].name = t}
           j == PlanEnsureTemplate(t, Fetched)
<1>1. applied \in 0 .. ids /\ Applies(labels, t, applied)
  <2>1. CASE Applied[t] = NoName
    BY <2>1 DEF Applies, WorkType
  <2>2. CASE Applied[t] # NoName
    <3>1. Applied[t] \in Canonical /\ Applied[t] \in Name /\ Norm[Applied[t]] = Applied[t]
      BY <2>2, NamesAssumption
    <3>2. Matching(Applied[t], Fetched) # {}
      BY <2>2 DEF Unresolved
    <3>3. PICK i \in DOMAIN labels :
             /\ Chosen(Applied[t], Fetched) = labels[i] /\ Norm[labels[i].name] = Norm[Applied[t]]
             /\ labels[i].id \in 1 .. ids
      BY <3>1, <3>2, ChosenLive
    <3>4. applied = labels[i].id
      BY <2>2, <3>3
    <3>5. Norm[labels[i].name] = Applied[t]
      BY <3>1, <3>3
    <3>6. LiveIn(labels, labels[i].id, Applied[t])
      BY <3>5 DEF LiveIn
    <3>7. Applies(labels, t, labels[i].id)
      BY <2>2, <3>6 DEF Applies
    <3>8. labels[i].id \in 0 .. ids
      BY <3>3
    <3> HIDE DEF applied
    <3> QED
      BY <3>4, <3>7, <3>8
  <2> QED
    BY <2>1, <2>2
<1> HIDE DEF applied
<1>2. j = IF same = {} THEN [verb |-> "create template", name |-> t, label |-> applied]
          ELSE [verb |-> "update template", index |-> First(same), label |-> applied]
  BY DEF PlanEnsureTemplate, applied
<1>3. CASE same = {}
  <2> DEFINE k == [verb |-> "create template", name |-> t, label |-> applied]
  <2>1. k.verb = "create template" /\ k.name = t /\ k.label = applied
    OBVIOUS
  <2>2. k \in [verb : {"create template"}, name : Template, label : 0 .. ids]
    BY <1>1
  <2>3. j = k
    BY <1>2, <1>3
  <2> HIDE DEF k, j
  <2>4. k \in Job
    BY <2>2, Zenon DEF Job
  <2>5. SafeJob(labels, k)
    BY <1>1, <2>1 DEF SafeJob
  <2>6. Provides(k, t) /\ \A i \in DOMAIN templates : templates[i].name # k.name
    BY <1>3, <2>1 DEF Provides
  <2> QED
    BY <2>1, <2>3, <2>4, <2>5, <2>6 DEF j
<1>4. CASE same # {}
  <2> DEFINE k == [verb |-> "update template", index |-> First(same), label |-> applied]
  <2>0. DOMAIN templates \subseteq Nat
    BY LenProperties DEF WorkType
  <2>1. First(same) \in same
    BY <1>4, <2>0, FirstOf
  <2>2. k.verb = "update template" /\ k.index = First(same) /\ k.label = applied
    OBVIOUS
  <2>3. k.index \in DOMAIN templates /\ templates[k.index].name = t
    BY <2>1, <2>2
  <2>4. k \in [verb : {"update template"}, index : DOMAIN templates, label : 0 .. ids]
    BY <1>1, <2>1
  <2>5. j = k
    BY <1>2, <1>4
  <2> HIDE DEF k, j
  <2>6. k \in Job
    BY <2>4, Zenon DEF Job
  <2>7. SafeJob(labels, k)
    BY <1>1, <2>2, <2>3 DEF SafeJob
  <2>8. Provides(k, t)
    BY <2>2, <2>3 DEF Provides
  <2> QED
    BY <2>2, <2>5, <2>6, <2>7, <2>8 DEF j
<1> QED
  BY <1>3, <1>4

\* Whatever a verb plans, it may send.
LEMMA VerbPlanned ==
  ASSUME WorkType, Uniq(labels), NEW v \in Verb,
         v.verb = "recase-label" => Norm[v.on.name] \in Recased,
         v.verb = "delete-label" => Norm[v.on.name] \notin Canonical,
         v.verb = "ensure-template" => ~Unresolved(v.on, Fetched)
  PROVE  PlanVerb(v, Fetched) \in Job /\ SafeJob(labels, PlanVerb(v, Fetched))
<1>1. CASE v.verb = "ensure-label"
  <2>1. v.on \in Canonical /\ PlanVerb(v, Fetched) = PlanEnsureLabel(v.on, Fetched)
    BY <1>1, VerbForms DEF PlanVerb
  <2> QED
    BY <2>1, EnsureLabelPlanned
<1>2. CASE v.verb = "recase-label"
  <2>1. v.on.name \in Name /\ PlanVerb(v, Fetched) = PlanRecaseLabel(v.on.name, Fetched)
    BY <1>2, VerbForms DEF PlanVerb, Entries
  <2> QED
    BY <1>2, <2>1, RecaseLabelPlanned
<1>3. CASE v.verb = "ensure-state"
  <2>1. v.on \in Category /\ PlanVerb(v, Fetched) = PlanEnsureState(v.on)
    BY <1>3, VerbForms DEF PlanVerb
  <2> QED
    BY <2>1, EnsureStatePlanned
<1>4. CASE v.verb = "ensure-template"
  <2>1. v.on \in Template /\ PlanVerb(v, Fetched) = PlanEnsureTemplate(v.on, Fetched)
    BY <1>4, VerbForms DEF PlanVerb
  <2> QED
    BY <1>4, <2>1, EnsureTemplatePlanned
<1>5. CASE v.verb = "delete-label"
  <2>1. v.on.name \in Name /\ PlanVerb(v, Fetched) = PlanDeleteLabel(v.on.name, Fetched)
    BY <1>5, VerbForms DEF PlanVerb, Entries
  <2> QED
    BY <1>5, <2>1, DeleteLabelPlanned
<1> QED
  BY <1>1, <1>2, <1>3, <1>4, <1>5, VerbForms

\* Whatever the audit finds, its plan is one of default labels to rename and of others
\* to delete.
LEMMA AuditPlanned ==
  ASSUME WorkType
  PROVE  /\ PlanAudit(Fetched) \in Plan
         /\ \A e \in PlanAudit(Fetched).recase : Norm[e.name] \in Recased
         /\ \A r \in Reason : \A e \in PlanAudit(Fetched).cruft[r] : Norm[e.name] \notin Canonical
<1> DEFINE ls == Fetched
           live == ToSet(ls)
           other == {l \in live : Norm[l.name] \notin Canonical}
           prio == {l \in other : Norm[l.name] \in Priority}
           unused == {l \in other \ prio : l.name \in Deletable /\ ~l.used}
           missing == {n \in Canonical : Matching(n, ls) = {}}
           recase == {Entry(l) : l \in {k \in live : /\ Norm[k.name] \in Recased
                                                     /\ k.name # Norm[k.name]}}
           prioE == {Entry(l) : l \in prio}
           unusedE == {Entry(l) : l \in unused}
           cruft == [priority |-> prioE, unused |-> unusedE]
           review == {l.id : l \in other \ (prio \cup unused)}
           gaps == Gaps(Present)
           a == [missing |-> missing, recase |-> recase, cruft |-> cruft, review |-> review,
                 gaps |-> gaps]
<1>1. PlanAudit(Fetched) = a
  BY DEF PlanAudit
<1>2. \A l \in live : l.id \in 1 .. ids /\ l.name \in Name
  <2>1. ls \in Seq(LabelTo(ids))
    BY FetchedSome DEF WorkType
  <2>2. \A i \in DOMAIN ls : ls[i] \in LabelTo(ids)
    BY <2>1, ElementOfSeq, LenProperties
  <2> QED
    BY <2>2 DEF LabelTo, ToSet
<1>3. \A l \in live : Entry(l) \in Entries /\ Entry(l).name = l.name
  BY <1>2 DEF Entry, Entries
<1> HIDE DEF live
<1>4. prioE \subseteq Entries /\ unusedE \subseteq Entries /\ recase \subseteq Entries
  BY <1>3
<1>5. /\ \A e \in prioE \cup unusedE : Norm[e.name] \notin Canonical
      /\ \A e \in recase : Norm[e.name] \in Recased
  BY <1>3
<1>6. review \subseteq 1 .. ids
  BY <1>2
<1>7. missing \subseteq Canonical /\ gaps \subseteq Category
  BY DEF Gaps
<1> HIDE DEF prioE, unusedE, recase, review, missing, gaps
<1>8. cruft \in [Reason -> SUBSET Entries]
      /\ cruft["priority"] = prioE /\ cruft["unused"] = unusedE
  BY <1>4 DEF Reason
<1> HIDE DEF cruft
<1>9. /\ a.missing = missing /\ a.recase = recase /\ a.cruft = cruft
      /\ a \in Plan
  BY <1>4, <1>6, <1>7, <1>8 DEF Plan
<1>10. \A r \in Reason : \A e \in cruft[r] : Norm[e.name] \notin Canonical
  BY <1>5, <1>8 DEF Reason
<1> HIDE DEF a
<1> QED
  BY <1>1, <1>5, <1>9, <1>10

-------------------------------------------------------------------------------
(* Types and safety *)

\* A teammate's use of a label changes neither ids nor names.
LEMMA UseMoves ==
  ASSUME WorkType, Uniq(labels), NEW id, Use(id)
  PROVE  WorkType' /\ Moves
<1>0. \A i \in DOMAIN labels : labels[i] \in LabelTo(ids)
  BY ElementOfSeq, LenProperties DEF WorkType
<1>1. labels' = [i \in DOMAIN labels |-> IF labels[i].id = id
                   THEN [labels[i] EXCEPT !.used = TRUE] ELSE labels[i]]
      /\ ids' = ids /\ UNCHANGED <<states, templates>>
  BY DEF Use
<1>3. \A i \in DOMAIN labels : /\ labels'[i] \in LabelTo(ids) /\ labels'[i].id = labels[i].id
                               /\ labels'[i].name = labels[i].name \/ labels'[i].name = Norm[labels[i].name]
  BY <1>0, <1>1 DEF LabelTo
<1>4. labels' = [i \in DOMAIN labels |-> labels'[i]]
  BY <1>1
<1>5. labels' \in Seq(LabelTo(ids)) /\ Moved(labels, labels', ids, ids) /\ Uniq(labels')
  BY <1>3, <1>4, MovedInPlace DEF WorkType
<1>6. ids' \in Nat /\ ids <= ids' /\ labels' \in Seq(LabelTo(ids')) /\ Moved(labels, labels', ids, ids')
  BY <1>1, <1>5 DEF WorkType
<1> QED
  BY <1>1, <1>5, <1>6, OnlyLabels

RestType ==
  /\ at \in [Session -> {"idle", "confirm", "apply", "write", "done"}]
  /\ plan \in [Session -> Plan]
  /\ todo \in [Session -> SUBSET Verb]
  /\ job \in [Session -> Job]
  /\ failed \in [Session -> BOOLEAN]
  /\ runs \in 0 .. MaxRuns
  /\ faults \in 0 .. MaxFaults
  /\ orderly \in BOOLEAN /\ complete \in BOOLEAN

LEMMA TypeParts == TypeOK <=> WorkType /\ RestType
BY DEF TypeOK, WorkType, RestType, LabelTo

\* What was of a type is of it still once there are more labels and templates.
LEMMA TypesGrow ==
  ASSUME WorkType, WorkType', Moves
  PROVE  Plan \subseteq Plan' /\ Verb \subseteq Verb' /\ Job \subseteq Job'
<1>1. 1 .. ids \subseteq 1 .. ids' /\ 0 .. ids \subseteq 0 .. ids'
  BY DEF WorkType, Moves
<1>2. Entries \subseteq Entries'
  BY <1>1 DEF Entries
<1>3. DOMAIN templates \subseteq DOMAIN templates'
  BY DEF Moves
<1>4. Plan \subseteq Plan'
  <2> DEFINE E == Entries
             F == Entries'
             I == 1 .. ids
             K == 1 .. ids'
             X(e, i) == [missing : SUBSET Canonical, recase : SUBSET e,
                         cruft : [Reason -> SUBSET e], review : SUBSET i, gaps : SUBSET Category]
  <2>1. Plan = X(E, I) /\ Plan' = X(F, K)
    BY DEF Plan
  <2>2. E \subseteq F /\ I \subseteq K
    BY <1>1, <1>2
  <2> HIDE DEF E, F, I, K
  <2>3. [Reason -> SUBSET E] \subseteq [Reason -> SUBSET F]
    BY <2>2
  <2>4. X(E, I) \subseteq X(F, K)
    BY <2>2, <2>3
  <2> HIDE DEF X
  <2> QED
    BY <2>1, <2>4
<1>5. Verb \subseteq Verb'
  BY <1>2 DEF Verb, Verbs
<1>6. Job \subseteq Job'
  <2>1. [verb : {"rename label"}, id : 1 .. ids, name : Recased]
          \subseteq [verb : {"rename label"}, id : 1 .. ids', name : Recased]
    BY <1>1
  <2>2. [verb : {"delete label"}, id : 1 .. ids] \subseteq [verb : {"delete label"}, id : 1 .. ids']
    BY <1>1
  <2>3. [verb : {"create template"}, name : Template, label : 0 .. ids]
          \subseteq [verb : {"create template"}, name : Template, label : 0 .. ids']
    BY <1>1
  <2>4. [verb : {"update template"}, index : DOMAIN templates, label : 0 .. ids]
          \subseteq [verb : {"update template"}, index : DOMAIN templates', label : 0 .. ids']
    BY <1>1, <1>3
  <2> QED
    BY <2>1, <2>2, <2>3, <2>4, Zenon DEF Job
<1> QED
  BY <1>4, <1>5, <1>6

SafeIn(p) == Mild(p) /\ SafeJob(labels, job[p]) /\ Resting(p)

LEMMA TemplateNamed ==
  ASSUME NEW n, NEW ts \in Seq([name : Template, label : 0 .. n]), NEW i \in DOMAIN ts
  PROVE  ts[i].name \in Template
<1>1. ts[i] \in [name : Template, label : 0 .. n]
  BY ElementOfSeq, LenProperties
<1> QED
  BY <1>1

LEMMA TemplatesStayLive ==
  ASSUME WorkType, WorkType', Moves, TemplateLabelsLive
  PROVE  TemplateLabelsLive'
<1> SUFFICES ASSUME NEW i \in DOMAIN templates', templates'[i].label # 0
             PROVE  LiveIn(labels', templates'[i].label, Applied[templates'[i].name])
  BY DEF TemplateLabelsLive, Carries, LiveIn, ToSet
<1>1. templates'[i].name \in Template
  BY TemplateNamed DEF WorkType
<1>2. \A id, c : c \in Canonical /\ LiveIn(labels, id, c) => LiveIn(labels', id, c)
  BY MovedKeeps DEF WorkType, Moves
<1>3. CASE i \in DOMAIN templates /\ templates'[i].label = templates[i].label
  <2>1. templates'[i].name = templates[i].name
    BY <1>3 DEF Moves
  <2>2. LiveIn(labels, templates'[i].label, Applied[templates'[i].name])
    BY <1>3, <2>1 DEF TemplateLabelsLive, Carries, LiveIn, ToSet
  <2>3. Applied[templates'[i].name] \in Canonical
    <3>1. PICK k \in DOMAIN labels : Norm[labels[k].name] = Applied[templates'[i].name]
      BY <2>2 DEF LiveIn
    <3>2. labels[k] \in LabelTo(ids)
      BY ElementOfSeq, LenProperties DEF WorkType
    <3>3. Norm[labels[k].name] \in Name
      BY <3>2, NamesAssumption DEF LabelTo
    <3> QED
      BY <1>1, <3>1, <3>3, NamesAssumption
  <2> QED
    BY <1>2, <2>2, <2>3
<1>4. CASE Applies(labels, templates'[i].name, templates'[i].label)
  <2>1. Applied[templates'[i].name] # NoName
        /\ LiveIn(labels, templates'[i].label, Applied[templates'[i].name])
    BY <1>4 DEF Applies
  <2>2. Applied[templates'[i].name] \in Canonical
    BY <1>1, <2>1, NamesAssumption
  <2> QED
    BY <1>2, <2>1, <2>2
<1> QED
  BY <1>3, <1>4 DEF Moves

\* What a session is about to send stays safe while others change the workspace.
LEMMA JobStaysSafe ==
  ASSUME WorkType, WorkType', Moves, NEW j \in Job, SafeJob(labels, j)
  PROVE  SafeJob(labels, j)'
<1>0. /\ ids \in Nat /\ ids' \in Nat /\ labels \in Seq(LabelTo(ids)) /\ labels' \in Seq(LabelTo(ids'))
      /\ Moved(labels, labels', ids, ids')
  BY DEF WorkType, Moves
<1>a. \A t \in Template : \A id : Applies(labels, t, id) => Applies(labels', t, id)
  BY <1>0, MovedKeeps
<1>b. \A k \in DOMAIN labels' : labels'[k].id \in 1 .. ids =>
        \E i \in DOMAIN labels : labels[i].id = labels'[k].id /\ Norm[labels[i].name] = Norm[labels'[k].name]
  BY <1>0, MovedKeeps
<1>2. ASSUME j.verb = "rename label", NEW k \in DOMAIN labels', labels'[k].id = j.id
      PROVE  Norm[labels'[k].name] = j.name
  <2>1. j.id \in 1 .. ids
    BY <1>2, JobForms
  <2>2. PICK i \in DOMAIN labels : labels[i].id = j.id /\ Norm[labels[i].name] = Norm[labels'[k].name]
    BY <1>b, <1>2, <2>1
  <2>3. Norm[labels[i].name] = j.name
    BY <1>2, <2>2 DEF SafeJob
  <2> QED
    BY <2>2, <2>3
<1>3. ASSUME j.verb = "delete label", NEW k \in DOMAIN labels', labels'[k].id = j.id
      PROVE  Norm[labels'[k].name] \notin Canonical
  <2>1. j.id \in 1 .. ids
    BY <1>3, JobForms
  <2>2. PICK i \in DOMAIN labels : labels[i].id = j.id /\ Norm[labels[i].name] = Norm[labels'[k].name]
    BY <1>b, <1>3, <2>1
  <2>3. Norm[labels[i].name] \notin Canonical
    BY <1>3, <2>2 DEF SafeJob
  <2> QED
    BY <2>2, <2>3
<1>4. j.verb = "create template" => Applies(labels', j.name, j.label)
  BY <1>a, JobForms DEF SafeJob
<1>5. j.verb = "update template" => Applies(labels', templates'[j.index].name, j.label)
  <2> SUFFICES ASSUME j.verb = "update template"
               PROVE  Applies(labels', templates'[j.index].name, j.label)
    OBVIOUS
  <2>1. j.index \in DOMAIN templates /\ Applies(labels, templates[j.index].name, j.label)
    BY JobForms DEF SafeJob
  <2>2. templates[j.index].name \in Template
    BY <2>1, TemplateNamed DEF WorkType
  <2>3. templates'[j.index].name = templates[j.index].name
    BY <2>1 DEF Moves
  <2> QED
    BY <1>a, <2>1, <2>2, <2>3
<1> QED
  BY <1>2, <1>3, <1>4, <1>5 DEF SafeJob

LEMMA SafeBy ==
  ASSUME TypeOK, Safe, WorkType', Moves, NEW s \in Session, SafeIn(s)',
         \A p \in Session \ {s} : UNCHANGED <<at[p], plan[p], todo[p], job[p]>>
  PROVE  Safe'
<1>1. \A p \in Session \ {s} : SafeIn(p)'
  <2> TAKE p \in Session \ {s}
  <2>1. UNCHANGED <<at[p], plan[p], todo[p], job[p]>> /\ job[p] \in Job
    BY TypeParts DEF RestType
  <2>2. Mild(p) /\ SafeJob(labels, job[p]) /\ Resting(p)
    BY DEF Safe
  <2>3. Mild(p)' /\ Resting(p)'
    BY <2>1, <2>2 DEF Mild, Resting
  <2> DEFINE j == job[p]
  <2>4. PICK k \in Job : k = job[p]
    BY <2>1
  <2>5. SafeJob(labels, k)'
    BY <2>2, <2>4, TypeParts, JobStaysSafe
  <2>6. SafeJob(labels, job[p])'
    BY <2>1, <2>4, <2>5
  <2> QED
    BY <2>3, <2>6 DEF SafeIn
<1>2. \A p \in Session : SafeIn(p)'
  BY <1>1
<1>3. TemplateLabelsLive'
  BY TypeParts, TemplatesStayLive DEF Safe
<1> QED
  BY <1>2, <1>3 DEF Safe, SafeIn, Moves

LEMMA TypesBy ==
  ASSUME TypeOK, WorkType', Moves,
         at' \in [Session -> {"idle", "confirm", "apply", "write", "done"}],
         plan' \in [Session -> Plan], todo' \in [Session -> SUBSET Verb], job' \in [Session -> Job],
         failed' \in [Session -> BOOLEAN], runs' \in 0 .. MaxRuns, faults' \in 0 .. MaxFaults,
         orderly' \in BOOLEAN, complete' \in BOOLEAN
  PROVE  TypeOK'
<1>1. Plan \subseteq Plan' /\ Verb \subseteq Verb' /\ Job \subseteq Job'
  BY TypeParts, TypesGrow
<1>2. plan' \in [Session -> Plan'] /\ todo' \in [Session -> SUBSET Verb'] /\ job' \in [Session -> Job']
  <2>1. SUBSET Verb \subseteq SUBSET Verb'
    BY <1>1
  <2> QED
    BY <1>1, <2>1
<1>3. RestType'
  BY <1>2 DEF RestType
<1>4. TypeOK' <=> WorkType' /\ RestType'
  BY DEF TypeOK, WorkType, RestType, LabelTo
<1> QED
  BY <1>3, <1>4

LEMMA AuditSafe ==
  ASSUME TypeOK, Safe, NEW s \in Session, Audit(s)
  PROVE  TypeOK' /\ Safe' /\ Moves
<1>1. WorkType /\ RestType
  BY TypeParts
<1>2. WorkType' /\ Moves
  BY <1>1, NotMoved DEF Audit, Safe
<1> DEFINE a == PlanAudit(Fetched)
<1>3. /\ a \in Plan
      /\ \A e \in a.recase : Norm[e.name] \in Recased
      /\ \A r \in Reason : \A e \in a.cruft[r] : Norm[e.name] \notin Canonical
  BY <1>1, AuditPlanned
<1>4. /\ at[s] \in {"idle", "done"} /\ at' = [at EXCEPT ![s] = "confirm"]
      /\ plan' = [plan EXCEPT ![s] = a] /\ failed' = [failed EXCEPT ![s] = FALSE]
      /\ todo' = todo /\ job' = job /\ faults' = faults /\ runs < MaxRuns /\ runs' = runs + 1
      /\ orderly' \in BOOLEAN /\ complete' \in BOOLEAN
  BY DEF Audit, Observed
<1> HIDE DEF a
<1>5. TypeOK'
  <2>1. runs' \in 0 .. MaxRuns
    BY <1>1, <1>4, BoundsAssumption DEF RestType
  <2>2. /\ at' \in [Session -> {"idle", "confirm", "apply", "write", "done"}]
        /\ plan' \in [Session -> Plan] /\ failed' \in [Session -> BOOLEAN]
        /\ todo' \in [Session -> SUBSET Verb] /\ job' \in [Session -> Job]
        /\ faults' \in 0 .. MaxFaults
    BY <1>1, <1>3, <1>4 DEF RestType
  <2> QED
    BY <1>2, <1>4, <2>1, <2>2, TypesBy
<1>6. plan'[s] = a /\ at'[s] = "confirm" /\ todo'[s] = todo[s] /\ job'[s] = job[s]
  BY <1>1, <1>4 DEF RestType
<1>7. todo[s] = {} /\ job[s] = NoJob
  BY <1>4 DEF Safe, Resting
<1>8. SafeIn(s)'
  <2>1. Mild(s)'
    BY <1>3, <1>6, <1>7 DEF Mild
  <2>2. SafeJob(labels, job[s])'
    BY <1>6, <1>7 DEF SafeJob, NoJob
  <2>3. Resting(s)'
    BY <1>6, <1>7 DEF Resting
  <2> QED
    BY <2>1, <2>2, <2>3 DEF SafeIn
<1>9. \A p \in Session \ {s} : UNCHANGED <<at[p], plan[p], todo[p], job[p]>>
  BY <1>1, <1>4 DEF RestType
<1> QED
  BY <1>2, <1>5, <1>8, <1>9, SafeBy

\* The verbs a session has to run once its deletions were approved.
Approved(s, yes) ==
  Verbs("ensure-label", plan[s].missing) \cup Verbs("recase-label", plan[s].recase)
    \cup Verbs("ensure-state", plan[s].gaps) \cup Verbs("ensure-template", Template)
    \cup Verbs("delete-label", UNION {plan[s].cruft[r] : r \in yes})

LEMMA ApprovedMild ==
  ASSUME NEW s \in Session, NEW yes \in SUBSET Reason, plan[s] \in Plan, Mild(s)
  PROVE  /\ Approved(s, yes) \subseteq Verb
         /\ \A v \in Approved(s, yes) :
              /\ v.verb = "recase-label" => Norm[v.on.name] \in Recased
              /\ v.verb = "delete-label" => Norm[v.on.name] \notin Canonical
<1> DEFINE gone == UNION {plan[s].cruft[r] : r \in yes}
<1>1. /\ plan[s].missing \subseteq Canonical /\ plan[s].recase \subseteq Entries
      /\ plan[s].gaps \subseteq Category /\ \A r \in Reason : plan[s].cruft[r] \subseteq Entries
  BY DEF Plan
<1>2. gone \subseteq Entries /\ \A e \in gone : Norm[e.name] \notin Canonical
  BY <1>1 DEF Mild
<1>3. \A e \in plan[s].recase : Norm[e.name] \in Recased
  BY DEF Mild
<1> HIDE DEF gone
<1>4. \A x \in plan[s].missing : [verb |-> "ensure-label", on |-> x] \in Verb
  BY <1>1 DEF Verb, Verbs
<1>5. \A x \in plan[s].recase : [verb |-> "recase-label", on |-> x] \in Verb
  BY <1>1 DEF Verb, Verbs
<1>6. \A x \in plan[s].gaps : [verb |-> "ensure-state", on |-> x] \in Verb
  BY <1>1 DEF Verb, Verbs
<1>7. \A x \in Template : [verb |-> "ensure-template", on |-> x] \in Verb
  BY DEF Verb, Verbs
<1>8. \A x \in gone : [verb |-> "delete-label", on |-> x] \in Verb
  BY <1>2 DEF Verb, Verbs
<1>9. \A v \in Approved(s, yes) :
        \/ \E x \in plan[s].missing : v = [verb |-> "ensure-label", on |-> x]
        \/ \E x \in plan[s].recase : v = [verb |-> "recase-label", on |-> x]
        \/ \E x \in plan[s].gaps : v = [verb |-> "ensure-state", on |-> x]
        \/ \E x \in Template : v = [verb |-> "ensure-template", on |-> x]
        \/ \E x \in gone : v = [verb |-> "delete-label", on |-> x]
  BY DEF Approved, Verbs, gone
<1> SUFFICES ASSUME NEW v \in Approved(s, yes)
             PROVE  /\ v \in Verb
                    /\ v.verb = "recase-label" => Norm[v.on.name] \in Recased
                    /\ v.verb = "delete-label" => Norm[v.on.name] \notin Canonical
  OBVIOUS
<1>10. CASE \E x \in plan[s].missing : v = [verb |-> "ensure-label", on |-> x]
  BY <1>4, <1>10
<1>11. CASE \E x \in plan[s].recase : v = [verb |-> "recase-label", on |-> x]
  BY <1>3, <1>5, <1>11
<1>12. CASE \E x \in plan[s].gaps : v = [verb |-> "ensure-state", on |-> x]
  BY <1>6, <1>12
<1>13. CASE \E x \in Template : v = [verb |-> "ensure-template", on |-> x]
  BY <1>7, <1>13
<1>14. CASE \E x \in gone : v = [verb |-> "delete-label", on |-> x]
  BY <1>2, <1>8, <1>14
<1> QED
  BY <1>9, <1>10, <1>11, <1>12, <1>13, <1>14

LEMMA ConfirmSafe ==
  ASSUME TypeOK, Safe, NEW s \in Session, Confirm(s)
  PROVE  TypeOK' /\ Safe' /\ Moves
<1>1. WorkType /\ RestType
  BY TypeParts
<1>2. WorkType' /\ Moves
  BY <1>1, NotMoved DEF Confirm, Safe
<1>3. PICK yes \in SUBSET Reason : todo' = [todo EXCEPT ![s] = Approved(s, yes)]
  BY DEF Confirm, Approved
<1>4. /\ at[s] = "confirm" /\ at' = [at EXCEPT ![s] = "apply"]
      /\ plan' = plan /\ job' = job /\ failed' = failed /\ runs' = runs /\ faults' = faults
      /\ orderly' = orderly /\ complete' = complete
  BY DEF Confirm, terms
<1>5. plan[s] \in Plan /\ Mild(s) /\ job[s] = NoJob
  BY <1>1, <1>4 DEF RestType, Safe, Resting
<1>6. /\ Approved(s, yes) \subseteq Verb
      /\ \A v \in Approved(s, yes) :
           /\ v.verb = "recase-label" => Norm[v.on.name] \in Recased
           /\ v.verb = "delete-label" => Norm[v.on.name] \notin Canonical
  BY <1>5, ApprovedMild
<1>7. TypeOK'
  <2>1. /\ at' \in [Session -> {"idle", "confirm", "apply", "write", "done"}]
        /\ plan' \in [Session -> Plan] /\ failed' \in [Session -> BOOLEAN]
        /\ todo' \in [Session -> SUBSET Verb] /\ job' \in [Session -> Job]
        /\ runs' \in 0 .. MaxRuns /\ faults' \in 0 .. MaxFaults
        /\ orderly' \in BOOLEAN /\ complete' \in BOOLEAN
    BY <1>1, <1>3, <1>4, <1>6 DEF RestType
  <2> QED
    BY <1>2, <2>1, TypesBy
<1>8. plan'[s] = plan[s] /\ at'[s] = "apply" /\ todo'[s] = Approved(s, yes) /\ job'[s] = NoJob
  BY <1>1, <1>3, <1>4, <1>5 DEF RestType
<1>9. SafeIn(s)'
  <2>1. Mild(s)'
    BY <1>5, <1>6, <1>8 DEF Mild
  <2>2. SafeJob(labels, job[s])'
    BY <1>8 DEF SafeJob, NoJob
  <2>3. Resting(s)'
    BY <1>8 DEF Resting
  <2> QED
    BY <2>1, <2>2, <2>3 DEF SafeIn
<1>10. \A p \in Session \ {s} : UNCHANGED <<at[p], plan[p], todo[p], job[p]>>
  BY <1>1, <1>3, <1>4 DEF RestType
<1> QED
  BY <1>2, <1>7, <1>9, <1>10, SafeBy

\* A verb that is run: it fails, has nothing to send, or is about to send its mutation.
LEMMA FetchCases ==
  ASSUME TypeOK, NEW s \in Session, Fetch(s)
  PROVE  \E v \in todo[s] :
           /\ todo' = [todo EXCEPT ![s] = @ \ {v}]
           /\ \/ /\ v.verb = "ensure-template" /\ Unresolved(v.on, Fetched)
                 /\ failed' = [failed EXCEPT ![s] = TRUE] /\ at' = at /\ job' = job
              \/ /\ v.verb = "ensure-template" => ~Unresolved(v.on, Fetched)
                 /\ failed' = failed
                 /\ job' = [job EXCEPT ![s] = PlanVerb(v, Fetched)]
                 /\ at' = [at EXCEPT ![s] = IF PlanVerb(v, Fetched) = NoJob THEN "apply" ELSE "write"]
           /\ \A w \in todo[s] : Rank(v) <= Rank(w)
BY DEF Fetch

LEMMA FetchSafe ==
  ASSUME TypeOK, Safe, NEW s \in Session, Fetch(s)
  PROVE  TypeOK' /\ Safe' /\ Moves
<1>1. WorkType /\ RestType
  BY TypeParts
<1>2. WorkType' /\ Moves
  BY <1>1, NotMoved DEF Fetch, Safe
<1>3. /\ at[s] = "apply" /\ plan' = plan /\ runs' = runs /\ faults' = faults
      /\ orderly' \in BOOLEAN /\ complete' \in BOOLEAN
  BY DEF Fetch, Observed
<1>4. PICK v \in todo[s] :
        /\ todo' = [todo EXCEPT ![s] = @ \ {v}]
        /\ \/ /\ v.verb = "ensure-template" /\ Unresolved(v.on, Fetched)
              /\ failed' = [failed EXCEPT ![s] = TRUE] /\ at' = at /\ job' = job
           \/ /\ v.verb = "ensure-template" => ~Unresolved(v.on, Fetched)
              /\ failed' = failed
              /\ job' = [job EXCEPT ![s] = PlanVerb(v, Fetched)]
              /\ at' = [at EXCEPT ![s] = IF PlanVerb(v, Fetched) = NoJob THEN "apply" ELSE "write"]
  BY FetchCases
<1>5. /\ v \in Verb /\ Mild(s) /\ job[s] = NoJob
      /\ v.verb = "recase-label" => Norm[v.on.name] \in Recased
      /\ v.verb = "delete-label" => Norm[v.on.name] \notin Canonical
  <2>1. v \in Verb
    BY <1>1 DEF RestType
  <2>2. Mild(s) /\ job[s] = NoJob
    BY <1>3 DEF Safe, Resting
  <2> QED
    BY <2>1, <2>2 DEF Mild
<1>6. plan'[s] = plan[s] /\ todo'[s] = todo[s] \ {v} /\ Mild(s)'
  <2>1. plan'[s] = plan[s] /\ todo'[s] = todo[s] \ {v}
    BY <1>1, <1>3, <1>4 DEF RestType
  <2> QED
    BY <1>5, <2>1 DEF Mild
<1>7. todo' \in [Session -> SUBSET Verb] /\ plan' \in [Session -> Plan]
  BY <1>1, <1>3, <1>4 DEF RestType
<1>8. labels' = labels /\ templates' = templates
  BY DEF Fetch, workspace
<1>9. CASE failed' = [failed EXCEPT ![s] = TRUE] /\ at' = at /\ job' = job
  <2>1. TypeOK'
    BY <1>1, <1>2, <1>3, <1>7, <1>9, TypesBy DEF RestType
  <2>2. SafeIn(s)'
    <3>1. job'[s] = NoJob /\ at'[s] = "apply"
      BY <1>3, <1>5, <1>9
    <3>2. SafeJob(labels, job[s])'
      BY <3>1 DEF SafeJob, NoJob
    <3>3. Resting(s)'
      BY <3>1 DEF Resting
    <3> QED
      BY <1>6, <3>2, <3>3 DEF SafeIn
  <2>3. \A p \in Session \ {s} : UNCHANGED <<at[p], plan[p], todo[p], job[p]>>
    BY <1>1, <1>3, <1>4, <1>9 DEF RestType
  <2> QED
    BY <1>2, <2>1, <2>2, <2>3, SafeBy
<1>10. CASE /\ v.verb = "ensure-template" => ~Unresolved(v.on, Fetched)
            /\ failed' = failed
            /\ job' = [job EXCEPT ![s] = PlanVerb(v, Fetched)]
            /\ at' = [at EXCEPT ![s] = IF PlanVerb(v, Fetched) = NoJob THEN "apply" ELSE "write"]
  <2> DEFINE j == PlanVerb(v, Fetched)
  <2>1. j \in Job /\ SafeJob(labels, j)
    BY <1>1, <1>5, <1>10, VerbPlanned DEF Safe
  <2>2. /\ job' = [job EXCEPT ![s] = j]
        /\ at' = [at EXCEPT ![s] = IF j = NoJob THEN "apply" ELSE "write"]
    BY <1>10
  <2> HIDE DEF j
  <2>3. /\ job'[s] = j /\ at'[s] = IF j = NoJob THEN "apply" ELSE "write"
        /\ job' \in [Session -> Job]
        /\ at' \in [Session -> {"idle", "confirm", "apply", "write", "done"}]
    BY <1>1, <2>1, <2>2 DEF RestType
  <2>4. TypeOK'
    BY <1>1, <1>2, <1>3, <1>7, <1>10, <2>3, TypesBy DEF RestType
  <2>5. SafeIn(s)'
    <3>2. SafeJob(labels, job[s])'
      BY <1>8, <2>1, <2>3 DEF SafeJob, Applies, LiveIn
    <3>3. Resting(s)'
      BY <2>3 DEF Resting
    <3> QED
      BY <1>6, <3>2, <3>3 DEF SafeIn
  <2>6. \A p \in Session \ {s} : UNCHANGED <<at[p], plan[p], todo[p], job[p]>>
    BY <1>1, <1>3, <1>4, <2>2 DEF RestType
  <2> QED
    BY <1>2, <2>4, <2>5, <2>6, SafeBy
<1> QED
  BY <1>4, <1>9, <1>10

\* A session that has sent its mutation, or given it up, has nothing about to be sent.
LEMMA WriteSafe ==
  ASSUME TypeOK, Safe, NEW s \in Session, Write(s) \/ AnswerLost(s) \/ Refused(s)
  PROVE  TypeOK' /\ Safe' /\ Moves
<1>1. WorkType /\ RestType /\ Uniq(labels) /\ job[s] \in Job /\ SafeJob(labels, job[s])
  BY TypeParts DEF RestType, Safe
<1>2. WorkType' /\ Moves
  <2>1. PICK j \in Job : j = job[s]
    BY <1>1
  <2>2. CASE Perform(job[s])
    BY <1>1, <2>1, <2>2, PerformMoves
  <2>3. CASE UNCHANGED workspace
    BY <1>1, <2>3, NotMoved
  <2> QED
    BY <2>2, <2>3 DEF Write, AnswerLost, Refused
<1>3. /\ at[s] = "write" /\ plan' = plan /\ todo' = todo /\ runs' = runs
      /\ job' = [job EXCEPT ![s] = NoJob] /\ at' = [at EXCEPT ![s] = "apply"]
      /\ failed' = failed \/ failed' = [failed EXCEPT ![s] = TRUE]
      /\ faults' = faults \/ (faults < MaxFaults /\ faults' = faults + 1)
      /\ orderly' = orderly /\ complete' = complete
  BY DEF Write, AnswerLost, Refused, terms
<1>4. faults' \in 0 .. MaxFaults
  BY <1>1, <1>3, BoundsAssumption DEF RestType
<1>5. /\ at' \in [Session -> {"idle", "confirm", "apply", "write", "done"}]
      /\ failed' \in [Session -> BOOLEAN] /\ job' \in [Session -> Job]
  BY <1>1, <1>3, NoJobSafe DEF RestType
<1>6. TypeOK'
  BY <1>1, <1>2, <1>3, <1>4, <1>5, TypesBy DEF RestType
<1>7. job'[s] = NoJob /\ at'[s] = "apply" /\ plan'[s] = plan[s] /\ todo'[s] = todo[s]
  BY <1>1, <1>3 DEF RestType
<1>8. SafeIn(s)'
  <2>1. Mild(s)'
    BY <1>7 DEF Safe, Mild
  <2>2. SafeJob(labels, job[s])'
    BY <1>7 DEF SafeJob, NoJob
  <2>3. Resting(s)'
    BY <1>7 DEF Resting
  <2> QED
    BY <2>1, <2>2, <2>3 DEF SafeIn
<1>9. \A p \in Session \ {s} : UNCHANGED <<at[p], plan[p], todo[p], job[p]>>
  BY <1>1, <1>3 DEF RestType
<1> QED
  BY <1>2, <1>6, <1>8, <1>9, SafeBy

LEMMA FinishSafe ==
  ASSUME TypeOK, Safe, NEW s \in Session, Finish(s)
  PROVE  TypeOK' /\ Safe' /\ Moves
<1>1. WorkType /\ RestType
  BY TypeParts
<1>2. WorkType' /\ Moves
  BY <1>1, NotMoved DEF Finish, Safe
<1>3. /\ at[s] = "apply" /\ todo[s] = {} /\ at' = [at EXCEPT ![s] = "done"]
      /\ plan' = plan /\ todo' = todo /\ job' = job /\ failed' = failed /\ runs' = runs
      /\ faults' = faults /\ orderly' = orderly /\ complete' = complete
  BY DEF Finish, terms
<1>4. TypeOK'
  <2>1. at' \in [Session -> {"idle", "confirm", "apply", "write", "done"}]
    BY <1>1, <1>3 DEF RestType
  <2> QED
    BY <1>1, <1>2, <1>3, <2>1, TypesBy DEF RestType
<1>5. at'[s] = "done" /\ plan'[s] = plan[s] /\ todo'[s] = {} /\ job'[s] = NoJob
  BY <1>1, <1>3 DEF RestType, Safe, Resting
<1>6. SafeIn(s)'
  <2>1. Mild(s)'
    BY <1>5 DEF Safe, Mild
  <2>2. SafeJob(labels, job[s])'
    BY <1>5 DEF SafeJob, NoJob
  <2>3. Resting(s)'
    BY <1>5 DEF Resting
  <2> QED
    BY <2>1, <2>2, <2>3 DEF SafeIn
<1>7. \A p \in Session \ {s} : UNCHANGED <<at[p], plan[p], todo[p], job[p]>>
  BY <1>1, <1>3 DEF RestType
<1> QED
  BY <1>2, <1>4, <1>6, <1>7, SafeBy

LEMMA KilledSafe ==
  ASSUME TypeOK, Safe, NEW s \in Session, Killed(s)
  PROVE  TypeOK' /\ Safe' /\ Moves
<1>1. WorkType /\ RestType
  BY TypeParts
<1>2. WorkType' /\ Moves
  BY <1>1, NotMoved DEF Killed, Safe
<1>3. /\ faults < MaxFaults /\ faults' = faults + 1 /\ at' = [at EXCEPT ![s] = "idle"]
      /\ plan' = plan /\ todo' = [todo EXCEPT ![s] = {}] /\ job' = [job EXCEPT ![s] = NoJob]
      /\ failed' = failed /\ runs' = runs /\ orderly' = orderly /\ complete' = complete
  BY DEF Killed, terms
<1>4. TypeOK'
  <2>1. faults' \in 0 .. MaxFaults
    BY <1>1, <1>3, BoundsAssumption DEF RestType
  <2>2. /\ at' \in [Session -> {"idle", "confirm", "apply", "write", "done"}]
        /\ todo' \in [Session -> SUBSET Verb] /\ job' \in [Session -> Job]
    BY <1>1, <1>3, NoJobSafe DEF RestType
  <2> QED
    BY <1>1, <1>2, <1>3, <2>1, <2>2, TypesBy DEF RestType
<1>5. at'[s] = "idle" /\ plan'[s] = plan[s] /\ todo'[s] = {} /\ job'[s] = NoJob
  BY <1>1, <1>3 DEF RestType
<1>6. SafeIn(s)'
  <2>1. Mild(s)'
    BY <1>5 DEF Safe, Mild
  <2>2. SafeJob(labels, job[s])'
    BY <1>5 DEF SafeJob, NoJob
  <2>3. Resting(s)'
    BY <1>5 DEF Resting
  <2> QED
    BY <2>1, <2>2, <2>3 DEF SafeIn
<1>7. \A p \in Session \ {s} : UNCHANGED <<at[p], plan[p], todo[p], job[p]>>
  BY <1>1, <1>3 DEF RestType
<1> QED
  BY <1>2, <1>4, <1>6, <1>7, SafeBy

\* A step that no session takes.
LEMMA UseSafe ==
  ASSUME TypeOK, Safe, UNCHANGED vars \/ \E id \in 1 .. ids : Use(id)
  PROVE  TypeOK' /\ Safe' /\ Moves
<1>1. WorkType /\ RestType /\ Uniq(labels)
  BY TypeParts DEF Safe
<1>2. WorkType' /\ Moves
  <2>1. CASE UNCHANGED vars
    BY <1>1, <2>1, NotMoved DEF vars
  <2>2. CASE \E id \in 1 .. ids : Use(id)
    BY <1>1, <2>2, UseMoves
  <2> QED
    BY <2>1, <2>2
<1>3. /\ at' = at /\ plan' = plan /\ todo' = todo /\ job' = job /\ failed' = failed /\ runs' = runs
      /\ faults' = faults /\ orderly' = orderly /\ complete' = complete
  BY DEF Use, vars, progress, terms
<1>4. TypeOK'
  BY <1>1, <1>2, <1>3, TypesBy DEF RestType
<1>5. \A p \in Session : SafeIn(p)'
  <2> TAKE p \in Session
  <2>1. PICK j \in Job : j = job[p]
    BY <1>1 DEF RestType
  <2>2. SafeJob(labels, j)'
    BY <1>1, <1>2, <2>1, JobStaysSafe DEF Safe
  <2>3. SafeJob(labels, job[p])'
    BY <1>3, <2>1, <2>2
  <2>4. Mild(p)' /\ Resting(p)'
    BY <1>3 DEF Safe, Mild, Resting
  <2> QED
    BY <2>3, <2>4 DEF SafeIn
<1>6. TemplateLabelsLive'
  BY <1>1, <1>2, TemplatesStayLive DEF Safe
<1> QED
  BY <1>2, <1>4, <1>5, <1>6 DEF Safe, SafeIn, Moves

LEMMA SafeStep ==
  ASSUME TypeOK, Safe, [Next]_vars
  PROVE  TypeOK' /\ Safe' /\ Moves
<1>1. CASE \E s \in Session : Audit(s)
  BY <1>1, AuditSafe
<1>2. CASE \E s \in Session : Confirm(s)
  BY <1>2, ConfirmSafe
<1>3. CASE \E s \in Session : Fetch(s)
  BY <1>3, FetchSafe
<1>4. CASE \E s \in Session : Write(s) \/ AnswerLost(s) \/ Refused(s)
  BY <1>4, WriteSafe
<1>5. CASE \E s \in Session : Finish(s)
  BY <1>5, FinishSafe
<1>6. CASE \E s \in Session : Killed(s)
  BY <1>6, KilledSafe
<1>7. CASE UNCHANGED vars \/ \E id \in 1 .. ids : Use(id)
  BY <1>7, UseSafe
<1> QED
  BY <1>1, <1>2, <1>3, <1>4, <1>5, <1>6, <1>7, Zenon DEF Next

LEMMA SafeInit ==
  ASSUME Init
  PROVE  TypeOK /\ Safe
<1>1. PICK w \in Workspace :
       /\ labels = [i \in DOMAIN w.labels |-> [id |-> i, name |-> w.labels[i], used |-> FALSE]]
       /\ states = [t \in StateType |-> IF t \in w.states THEN 1 ELSE 0]
       /\ templates = [i \in DOMAIN w.templates |-> [name |-> w.templates[i], label |-> 0]]
       /\ ids = Len(w.labels)
  BY DEF Init
<1>2. /\ w.labels \in Seq(Name) /\ w.templates \in Seq(Template)
      /\ DOMAIN w.labels = 1 .. Len(w.labels) /\ DOMAIN w.templates = 1 .. Len(w.templates)
      /\ Len(w.labels) \in Nat /\ Len(w.templates) \in Nat
  BY WorkspaceAssumption, LenProperties
<1>3. labels \in Seq(LabelTo(ids)) /\ DOMAIN labels = 1 .. ids /\ \A i \in 1 .. ids : labels[i].id = i
  <2>1. \A i \in 1 .. Len(w.labels) : w.labels[i] \in Name
    BY <1>2, ElementOfSeq
  <2>2. labels = [i \in 1 .. ids |-> labels[i]] /\ \A i \in 1 .. ids : labels[i] \in LabelTo(ids)
    BY <1>1, <1>2, <2>1 DEF LabelTo
  <2>0. ids \in Nat
    BY <1>1, <1>2
  <2> DEFINE L == LabelTo(ids)
             n == ids
  <2>4. labels = [i \in 1 .. n |-> labels[i]] /\ \A i \in 1 .. n : labels[i] \in L
    BY <2>2
  <2> HIDE DEF L, n
  <2>5. [i \in 1 .. n |-> labels[i]] \in Seq(L)
    BY <2>0, <2>4, IsASeq DEF n
  <2>3. labels \in Seq(LabelTo(ids))
    BY <2>4, <2>5 DEF L
  <2> QED
    BY <1>1, <1>2, <2>3
<1>4. templates \in Seq([name : Template, label : 0 .. ids]) /\ \A i \in DOMAIN templates : templates[i].label = 0
  <2> DEFINE T == [name : Template, label : 0 .. ids]
             n == Len(w.templates)
  <2>1. \A i \in 1 .. n : w.templates[i] \in Template
    BY <1>2, ElementOfSeq
  <2>2. templates = [i \in 1 .. n |-> templates[i]] /\ \A i \in 1 .. n : templates[i] \in T
    BY <1>1, <1>2, <2>1
  <2> HIDE DEF T, n
  <2>3. templates \in Seq(T)
    BY <1>2, <2>2, IsASeq DEF n
  <2> QED
    BY <1>1, <2>3 DEF T
<1>5. WorkType
  BY <1>1, <1>2, <1>3, <1>4 DEF WorkType
<1>6. /\ at = [s \in Session |-> "idle"] /\ plan = [s \in Session |-> NoPlan]
      /\ todo = [s \in Session |-> {}] /\ job = [s \in Session |-> NoJob]
      /\ failed = [s \in Session |-> FALSE]
      /\ runs = 0 /\ faults = 0 /\ orderly = TRUE /\ complete = TRUE
  BY DEF Init
<1>7. NoPlan \in Plan /\ NoPlan.recase = {} /\ \A r \in Reason : NoPlan.cruft[r] = {}
  BY DEF NoPlan, Plan
<1>8. RestType
  <2>1. /\ runs \in 0 .. MaxRuns /\ faults \in 0 .. MaxFaults
    BY <1>6, BoundsAssumption
  <2> QED
    BY <1>6, <1>7, <2>1, NoJobSafe DEF RestType
<1>9. Uniq(labels)
  BY <1>3 DEF Uniq
<1>10. \A s \in Session : Mild(s) /\ SafeJob(labels, job[s]) /\ Resting(s)
  BY <1>6, <1>7 DEF Mild, SafeJob, Resting, NoJob
<1>11. TemplateLabelsLive
  BY <1>4 DEF TemplateLabelsLive, ToSet
<1> QED
  BY <1>5, <1>8, <1>9, <1>10, <1>11, TypeParts DEF Safe

LEMMA AlwaysSafe == Spec => [](TypeOK /\ Safe)
<1>1. Init => TypeOK /\ Safe
  BY SafeInit
<1>2. TypeOK /\ Safe /\ [Next]_vars => (TypeOK /\ Safe)'
  BY SafeStep
<1> QED
  BY <1>1, <1>2, PTL DEF Spec

\* Labels, states, templates and the sessions' plans, verbs and mutations keep their
\* types, over any workspace, page size, sessions, faults and bounds.
THEOREM TypeCorrect == Spec => []TypeOK
<1> QED
  BY AlwaysSafe, PTL

\* plan_delete_label, plan_recase_label and resolve_template_label_ids, each run on its
\* own copy of the workspace, never leave a template with a label that is gone or is no
\* longer the canonical one: a mutation planned for a label stays harmless however long
\* it is delayed, because no verb takes a label's id or normalized name from it, and none
\* that is canonical is ever planned for deletion.
THEOREM TemplatesKeepLabels == Spec => []TemplateLabelsLive
<1>1. Safe => TemplateLabelsLive
  BY DEF Safe
<1> QED
  BY <1>1, AlwaysSafe, PTL

-------------------------------------------------------------------------------
(* What is created *)

\* What is planned from the whole list of labels creates only what is not there.
LEMMA PlannedSeen ==
  ASSUME WorkType, Uniq(labels), NEW v \in Verb, Len(labels) <= Page,
         v.verb = "recase-label" => Norm[v.on.name] \in Recased,
         v.verb = "delete-label" => Norm[v.on.name] \notin Canonical,
         v.verb = "ensure-template" => ~Unresolved(v.on, Fetched)
  PROVE  Seen(PlanVerb(v, Fetched))
<1>0. Fetched = labels
  BY FetchedAll DEF WorkType
<1>1. CASE v.verb = "ensure-label"
  <2> DEFINE j == PlanEnsureLabel(v.on, Fetched)
  <2>1. v.on \in Canonical /\ PlanVerb(v, Fetched) = j
    BY <1>1, VerbForms DEF PlanVerb
  <2>2. \/ Matching(v.on, labels) = {} /\ j = [verb |-> "create label", name |-> v.on]
        \/ j = NoJob
    BY <1>0, <2>1, EnsureLabelPlanned
  <2>3. Norm[v.on] = v.on
    BY <2>1, NamesAssumption
  <2> HIDE DEF j
  <2>4. CASE Matching(v.on, labels) = {} /\ j = [verb |-> "create label", name |-> v.on]
    <3>1. j.verb = "create label" /\ j.name = v.on
      BY <2>4
    <3>2. ~Has(labels, v.on)
      BY <2>3, <2>4 DEF Matching, Has
    <3> QED
      BY <2>1, <3>1, <3>2 DEF Seen
  <2>5. CASE j = NoJob
    BY <2>1, <2>5, NoJobSafe DEF Seen
  <2> QED
    BY <2>2, <2>4, <2>5
<1>2. CASE v.verb = "recase-label"
  <2>1. v.on.name \in Name /\ PlanVerb(v, Fetched) = PlanRecaseLabel(v.on.name, Fetched)
    BY <1>2, VerbForms DEF PlanVerb, Entries
  <2>2. PlanVerb(v, Fetched).verb \in {"none", "rename label"}
    BY <1>2, <2>1, RecaseLabelPlanned
  <2> QED
    BY <2>2 DEF Seen
<1>3. CASE v.verb = "ensure-state"
  <2> DEFINE j == PlanEnsureState(v.on)
  <2>1. v.on \in Category /\ v.on \in StateType /\ PlanVerb(v, Fetched) = j
    BY <1>3, VerbForms, StatesAssumption DEF PlanVerb
  <2>2. \/ v.on \in Present /\ j = NoJob
        \/ v.on \notin Present /\ j = [verb |-> "create state", type |-> v.on]
    BY <2>1, EnsureStatePlanned
  <2>3. states[v.on] \in Nat
    BY <2>1 DEF WorkType
  <2> HIDE DEF j
  <2>4. CASE v.on \notin Present /\ j = [verb |-> "create state", type |-> v.on]
    <3>1. j.verb = "create state" /\ j.type = v.on
      BY <2>4
    <3>3. ~(states[v.on] > 0)
      BY <2>1, <2>4 DEF Present
    <3>2. states[v.on] = 0
      BY <2>3, <3>3
    <3> QED
      BY <2>1, <3>1, <3>2 DEF Seen
  <2>5. CASE j = NoJob
    BY <2>1, <2>5, NoJobSafe DEF Seen
  <2> QED
    BY <2>2, <2>4, <2>5
<1>4. CASE v.verb = "ensure-template"
  <2> DEFINE j == PlanEnsureTemplate(v.on, Fetched)
  <2>1. v.on \in Template /\ PlanVerb(v, Fetched) = j
    BY <1>4, VerbForms DEF PlanVerb
  <2>2. j.verb \in {"create template", "update template"}
        /\ (j.verb = "create template" => \A i \in DOMAIN templates : templates[i].name # j.name)
    BY <1>4, <2>1, EnsureTemplatePlanned
  <2> QED
    BY <2>1, <2>2 DEF Seen
<1>5. CASE v.verb = "delete-label"
  <2>1. v.on.name \in Name /\ PlanVerb(v, Fetched) = PlanDeleteLabel(v.on.name, Fetched)
    BY <1>5, VerbForms DEF PlanVerb, Entries
  <2>2. PlanVerb(v, Fetched).verb \in {"none", "delete label"}
    BY <1>5, <2>1, DeleteLabelPlanned
  <2> QED
    BY <2>2 DEF Seen
<1> QED
  BY <1>1, <1>2, <1>3, <1>4, <1>5, VerbForms

\* Nobody moves the workspace between the fetch of an orderly verb and its mutation.
LEMMA AloneStep ==
  ASSUME TypeOK, Safe, Alone, [Next]_vars
  PROVE  Alone'
<1>1. WorkType /\ RestType /\ Uniq(labels) /\ \A s \in Session : Mild(s)
  BY TypeParts DEF Safe
<1>2. ASSUME NEW s \in Session, Audit(s)
      PROVE  Alone'
  <2>1. orderly' => \A p \in Session \ {s} : at[p] # "write"
    BY <1>2 DEF Audit, Observed
  <2>2. at'[s] = "confirm" /\ \A p \in Session \ {s} : at'[p] = at[p]
    BY <1>1, <1>2 DEF Audit, RestType
  <2>3. orderly' => \A p \in Session : at'[p] # "write"
    BY <2>1, <2>2
  <2> QED
    BY <2>3 DEF Alone
<1>3. ASSUME NEW s \in Session, Fetch(s)
      PROVE  Alone'
  <2>1. /\ orderly' => \A p \in Session \ {s} : at[p] # "write"
        /\ complete' => Len(labels) <= Page
        /\ at[s] = "apply" /\ UNCHANGED workspace
    BY <1>3 DEF Fetch, Observed
  <2>2. PICK v \in todo[s] :
        \/ /\ v.verb = "ensure-template" /\ Unresolved(v.on, Fetched)
           /\ failed' = [failed EXCEPT ![s] = TRUE] /\ at' = at /\ job' = job
        \/ /\ v.verb = "ensure-template" => ~Unresolved(v.on, Fetched)
           /\ failed' = failed
           /\ job' = [job EXCEPT ![s] = PlanVerb(v, Fetched)]
           /\ at' = [at EXCEPT ![s] = IF PlanVerb(v, Fetched) = NoJob THEN "apply" ELSE "write"]
    BY <1>3, FetchCases
  <2>3. /\ \A p \in Session \ {s} : at'[p] = at[p]
        /\ at'[s] = "write" => /\ v.verb = "ensure-template" => ~Unresolved(v.on, Fetched)
                               /\ job'[s] = PlanVerb(v, Fetched)
    BY <1>1, <2>1, <2>2 DEF RestType
  <2>4. orderly' => \A p \in Session : at'[p] = "write" => p = s
    BY <2>1, <2>3
  <2>5. complete' /\ at'[s] = "write" => Seen(job'[s])
    <3> SUFFICES ASSUME complete', at'[s] = "write"
                 PROVE  Seen(job'[s])
      OBVIOUS
    <3>1. v \in Verb /\ (v.verb = "recase-label" => Norm[v.on.name] \in Recased)
          /\ (v.verb = "delete-label" => Norm[v.on.name] \notin Canonical)
      BY <1>1 DEF RestType, Mild
    <3>2. Seen(PlanVerb(v, Fetched))
      BY <1>1, <2>1, <2>3, <3>1, PlannedSeen
    <3> QED
      BY <2>3, <3>2
  <2>6. complete' /\ at'[s] = "write" => Seen(job[s])'
    BY <2>1, <2>5 DEF Seen, workspace
  <2> QED
    BY <2>4, <2>6 DEF Alone
<1>4. ASSUME NEW s \in Session, Confirm(s) \/ Finish(s) \/ Killed(s)
      PROVE  Alone'
  <2>1. /\ orderly' = orderly /\ complete' = complete /\ UNCHANGED workspace
        /\ at'[s] # "write" /\ \A p \in Session \ {s} : at'[p] = at[p] /\ job'[p] = job[p]
    BY <1>1, <1>4 DEF Confirm, Finish, Killed, RestType, terms
  <2>2. \A p \in Session : at'[p] = "write" => p # s /\ at[p] = "write" /\ job'[p] = job[p]
    BY <2>1
  <2>3. labels' = labels /\ states' = states /\ templates' = templates
    BY <2>1 DEF workspace
  <2>4. \A p \in Session : at'[p] = "write" /\ Seen(job[p]) => Seen(job[p])'
    BY <2>2, <2>3 DEF Seen
  <2> QED
    BY <2>1, <2>2, <2>4 DEF Alone
<1>5. ASSUME NEW s \in Session, Write(s) \/ AnswerLost(s) \/ Refused(s)
      PROVE  Alone'
  <2>1. /\ orderly' = orderly /\ at[s] = "write"
        /\ at'[s] # "write" /\ \A p \in Session \ {s} : at'[p] = at[p]
    BY <1>1, <1>5 DEF Write, AnswerLost, Refused, RestType, terms
  <2>2. orderly' => \A p \in Session : at'[p] # "write"
    BY <2>1 DEF Alone
  <2> QED
    BY <2>2 DEF Alone
<1>6. CASE UNCHANGED vars \/ \E id \in 1 .. ids : Use(id)
  <2>1. /\ orderly' = orderly /\ complete' = complete /\ at' = at /\ job' = job
        /\ states' = states /\ templates' = templates
    BY <1>6 DEF vars, workspace, Use, progress, terms
  <2>2. \A n : Has(labels', n) => Has(labels, n)
    <3>1. CASE UNCHANGED vars
      BY <3>1 DEF vars, workspace
    <3>2. CASE \E id \in 1 .. ids : Use(id)
      <4>1. PICK id \in 1 .. ids : labels' = [i \in DOMAIN labels |-> IF labels[i].id = id
                                               THEN [labels[i] EXCEPT !.used = TRUE] ELSE labels[i]]
        BY <3>2 DEF Use
      <4>2. \A i \in DOMAIN labels : labels[i] \in LabelTo(ids)
        BY <1>1, ElementOfSeq, LenProperties DEF WorkType
      <4>3. DOMAIN labels' = DOMAIN labels /\ \A i \in DOMAIN labels : labels'[i].name = labels[i].name
        BY <4>1, <4>2 DEF LabelTo
      <4> QED
        BY <4>3 DEF Has
    <3> QED
      BY <1>6, <3>1, <3>2
  <2>3. \A p \in Session : Seen(job[p]) => Seen(job[p])'
    BY <2>1, <2>2 DEF Seen
  <2> QED
    BY <2>1, <2>3 DEF Alone
<1> QED
  BY <1>2, <1>3, <1>4, <1>5, <1>6, Zenon DEF Next

\* The workspace changes by a mutation, or a label is marked as used.
LEMMA Mutated ==
  ASSUME [Next]_vars
  PROVE  \/ ids' = ids /\ states' = states /\ templates' = templates
         \/ \E s \in Session : at[s] = "write" /\ Perform(job[s])
<1>1. CASE \E s \in Session : Write(s) \/ AnswerLost(s)
  BY <1>1 DEF Write, AnswerLost
<1>2. CASE \E s \in Session : Audit(s) \/ Confirm(s) \/ Fetch(s) \/ Refused(s) \/ Finish(s) \/ Killed(s)
  BY <1>2 DEF Audit, Confirm, Fetch, Refused, Finish, Killed, workspace
<1>3. CASE UNCHANGED vars \/ \E id \in 1 .. ids : Use(id)
  BY <1>3 DEF vars, workspace, Use
<1> QED
  BY <1>1, <1>2, <1>3, Zenon DEF Next

LEMMA NamedBy ==
  ASSUME NEW n
  PROVE  Named(n) = {labels[i].id : i \in {k \in DOMAIN labels : Norm[labels[k].name] = n}}
BY DEF Named, ToSet

\* A normalized name gets another label only where a label is created.
LEMMA NamedShrinks ==
  ASSUME WorkType, WorkType', Moves, ids' = ids, NEW n
  PROVE  Named(n)' \subseteq Named(n)
<1> SUFFICES ASSUME NEW k \in DOMAIN labels', Norm[labels'[k].name] = n
             PROVE  \E i \in DOMAIN labels : labels[i].id = labels'[k].id /\ Norm[labels[i].name] = n
  BY NamedBy DEF Named, ToSet
<1>1. labels'[k].id \in 1 .. ids
  <2>1. labels'[k] \in LabelTo(ids')
    BY ElementOfSeq, LenProperties DEF WorkType
  <2> QED
    BY <2>1 DEF LabelTo
<1>2. \E i \in DOMAIN labels : labels[i].id = labels'[k].id /\ Norm[labels[i].name] = Norm[labels'[k].name]
  <2>1. /\ ids \in Nat /\ labels \in Seq(LabelTo(ids)) /\ labels' \in Seq(LabelTo(ids'))
        /\ Moved(labels, labels', ids, ids') /\ ids' \in Nat
    BY DEF WorkType, Moves
  <2>2. \A i \in DOMAIN labels' : labels'[i].id \in 1 .. ids =>
           \E h \in DOMAIN labels : labels[h].id = labels'[i].id /\ Norm[labels[h].name] = Norm[labels'[i].name]
    BY <2>1, MovedKeeps
  <2> QED
    BY <1>1, <2>2
<1> QED
  BY <1>2

LEMMA NamedGrows ==
  ASSUME WorkType, NEW n \in Canonical, NEW m \in Canonical, CreateLabel(m), n # m
  PROVE  Named(n)' \subseteq Named(n)
<1> SUFFICES ASSUME NEW k \in DOMAIN labels', Norm[labels'[k].name] = n
             PROVE  \E i \in DOMAIN labels : labels[i].id = labels'[k].id /\ Norm[labels[i].name] = n
  BY DEF Named, ToSet
<1> DEFINE l == [id |-> ids + 1, name |-> m, used |-> FALSE]
<1>1. labels' \in {<<l>> \o labels, Append(labels, l)}
  BY DEF CreateLabel
<1>2. labels'[k] = l \/ \E i \in DOMAIN labels : labels'[k] = labels[i]
  <2> DEFINE L == LabelTo(ids)
  <2>0. labels \in Seq(L) /\ DOMAIN labels = 1 .. Len(labels) /\ Len(labels) \in Nat
    BY LenProperties DEF WorkType
  <2> HIDE DEF l, L
  <2>1. CASE labels' = <<l>> \o labels
    BY <2>0, <2>1
  <2>2. CASE labels' = Append(labels, l)
    BY <2>0, <2>2
  <2> QED
    BY <1>1, <2>1, <2>2
<1>3. labels'[k] # l
  BY NamesAssumption
<1> QED
  BY <1>2, <1>3

LEMMA CreatedStep ==
  ASSUME TypeOK, Safe, Alone, [Next]_vars, orderly, complete
  PROVE  /\ \A n \in Canonical : Named(n)' \subseteq Named(n) \/ Named(n) = {}
         /\ \A t \in StateType : states'[t] > states[t] => states[t] = 0
         /\ Len(templates') > Len(templates) =>
              \A k \in ToSet(templates) : k.name # Last(templates').name
<1>0. TypeOK' /\ Moves
  BY SafeStep
<1>1. WorkType /\ RestType /\ WorkType' /\ Moves
  <2>1. WorkType'
    BY <1>0 DEF TypeOK, WorkType, LabelTo
  <2> QED
    BY <1>0, <2>1, TypeParts
<1>2. CASE ids' = ids /\ states' = states /\ templates' = templates
  <2>1. /\ \A n \in Canonical : Named(n)' \subseteq Named(n)
        /\ \A t \in StateType : states[t] \in Nat
        /\ Len(templates) \in Nat
    BY <1>1, <1>2, NamedShrinks, LenProperties DEF WorkType
  <2> QED
    BY <1>2, <2>1
<1>3. CASE \E s \in Session : at[s] = "write" /\ Perform(job[s])
  <2>1. PICK s \in Session : at[s] = "write" /\ Perform(job[s])
    BY <1>3
  <2>2. PICK j : j = job[s]
    OBVIOUS
  <2>3. Seen(j) /\ Perform(j) /\ j \in Job
    BY <1>1, <2>1, <2>2 DEF Alone, RestType
  <2>4. CASE j.verb = "create label" /\ CreateLabel(j.name)
    <3>1. j.name \in Canonical
      BY <2>3, <2>4, JobForms
    <3>2. Named(j.name) = {}
      BY <2>3, <2>4, <3>1, NamedBy DEF Seen, Has
    <3>3. \A n \in Canonical : n # j.name => Named(n)' \subseteq Named(n)
      BY <1>1, <2>4, <3>1, NamedGrows
    <3>4. /\ \A t \in StateType : states'[t] = states[t] /\ states[t] \in Nat
          /\ Len(templates') = Len(templates) /\ Len(templates) \in Nat
      BY <1>1, <2>4, LenProperties DEF CreateLabel, WorkType
    <3> QED
      BY <3>2, <3>3, <3>4
  <2>5. CASE \/ j.verb = "rename label" /\ RenameLabel(j.id, j.name)
             \/ j.verb = "delete label" /\ DeleteLabel(j.id)
    <3>1. ids' = ids /\ states' = states /\ templates' = templates
      BY <2>5 DEF RenameLabel, DeleteLabel
    <3>2. /\ \A n \in Canonical : Named(n)' \subseteq Named(n)
          /\ \A t \in StateType : states[t] \in Nat
          /\ Len(templates) \in Nat
      BY <1>1, <3>1, NamedShrinks, LenProperties DEF WorkType
    <3> QED
      BY <3>1, <3>2
  <2>6. CASE /\ j.verb = "create state"
             /\ states' = [states EXCEPT ![j.type] = @ + 1]
             /\ UNCHANGED <<labels, templates, ids>>
    <3>1. /\ \A n \in Canonical : Named(n)' \subseteq Named(n)
          /\ Len(templates') = Len(templates) /\ Len(templates) \in Nat
      BY <1>1, <2>6, NamedShrinks, LenProperties DEF WorkType
    <3>2. states[j.type] = 0
      BY <2>3, <2>6 DEF Seen
    <3>3. \A t \in StateType : t # j.type => states'[t] = states[t] /\ states[t] \in Nat
      BY <1>1, <2>6 DEF WorkType
    <3> QED
      BY <3>1, <3>2, <3>3
  <2>7. CASE /\ j.verb = "create template"
             /\ templates' = Append(templates, [name |-> j.name, label |-> j.label])
             /\ UNCHANGED <<labels, states, ids>>
    <3>1. /\ \A n \in Canonical : Named(n)' \subseteq Named(n)
          /\ \A t \in StateType : states'[t] = states[t] /\ states[t] \in Nat
      BY <1>1, <2>7, NamedShrinks DEF WorkType
    <3> DEFINE k == [name |-> j.name, label |-> j.label]
               T == [name : Template, label : 0 .. ids]
    <3>2. Last(templates').name = j.name
      <4>1. k \in T /\ k.name = j.name
        BY <2>3, <2>7, JobForms
      <4>2. templates \in Seq(T) /\ Len(templates) \in Nat
        BY <1>1, LenProperties DEF WorkType
      <4> HIDE DEF k
      <4>3. templates' = Append(templates, k)
        BY <2>7 DEF k
      <4> HIDE DEF T
      <4>4. Len(templates') = Len(templates) + 1 /\ templates'[Len(templates) + 1] = k
        BY <4>1, <4>2, <4>3
      <4> QED
        BY <4>1, <4>4 DEF Last
    <3>3. \A i \in DOMAIN templates : templates[i].name # j.name
      BY <2>3, <2>7 DEF Seen
    <3> QED
      BY <3>1, <3>2, <3>3 DEF ToSet
  <2>8. CASE /\ j.verb = "update template"
             /\ templates' = [templates EXCEPT ![j.index].label = j.label]
             /\ UNCHANGED <<labels, states, ids>>
    <3>1. /\ \A n \in Canonical : Named(n)' \subseteq Named(n)
          /\ \A t \in StateType : states'[t] = states[t] /\ states[t] \in Nat
      BY <1>1, <2>8, NamedShrinks DEF WorkType
    <3>2. DOMAIN templates' = DOMAIN templates
      BY <2>8
    <3>3. Len(templates') = Len(templates) /\ Len(templates) \in Nat
      BY <1>1, <3>2, LenProperties DEF WorkType
    <3> QED
      BY <3>1, <3>3
  <2> QED
    BY <2>3, <2>4, <2>5, <2>6, <2>7, <2>8, Zenon DEF Perform
<1> QED
  BY <1>2, <1>3, Mutated

\* linear_setup.py's ensure verbs, each run on its own fetch of the workspace: as long as
\* no two of them overlap and every fetch returns the whole list, none creates a label, a
\* state or a template that is there already, whatever else renames, deletes and uses labels.
THEOREM NothingTwice == Spec => CreatedOnce
<1>1. Init => Alone
  BY DEF Init, Alone
<1>2. TypeOK /\ Safe /\ Alone /\ [Next]_vars => Alone'
  BY AloneStep
<1>3. TypeOK /\ Safe /\ Alone /\ [Next]_vars =>
        [orderly /\ complete =>
           /\ \A n \in Canonical : Named(n)' \subseteq Named(n) \/ Named(n) = {}
           /\ \A t \in StateType : states'[t] > states[t] => states[t] = 0
           /\ Len(templates') > Len(templates) =>
                \A k \in ToSet(templates) : k.name # Last(templates').name]_vars
  BY CreatedStep
<1> QED
  BY <1>1, <1>2, <1>3, AlwaysSafe, PTL DEF Spec, CreatedOnce

-------------------------------------------------------------------------------
(* What a run leaves behind *)

LEMMA IdsFinite ==
  ASSUME WorkType, NEW m
  PROVE  /\ IsFiniteSet(IdsOf(labels, m)) /\ Cardinality(IdsOf(labels, m)) \in Nat
         /\ \A T \in SUBSET IdsOf(labels, m) :
              /\ IsFiniteSet(T) /\ Cardinality(T) \in Nat
              /\ Cardinality(T) <= Cardinality(IdsOf(labels, m))
<1>1. IdsOf(labels, m) \subseteq 1 .. ids
  <2> SUFFICES ASSUME NEW i \in DOMAIN labels
               PROVE  labels[i].id \in 1 .. ids
    BY DEF IdsOf
  <2>1. labels[i] \in LabelTo(ids)
    BY ElementOfSeq, LenProperties DEF WorkType
  <2> QED
    BY <2>1 DEF LabelTo
<1>2. IsFiniteSet(1 .. ids)
  BY FS_Interval DEF WorkType
<1>3. IsFiniteSet(IdsOf(labels, m))
  BY <1>1, <1>2, FS_Subset
<1> QED
  BY <1>3, FS_Subset, FS_CardinalityType

\* As many labels are planned for renaming as there are verbs for it.
LEMMA PendingFinite ==
  ASSUME WorkType, NEW verbs \in SUBSET Verb, NEW m
  PROVE  IsFiniteSet(Pending(verbs, m)) /\ Cardinality(Pending(verbs, m)) \in Nat
<1> DEFINE S == Pending(verbs, m)
           f == [v \in S |-> v.on.id]
<1>1. \A v \in S : v.on \in Entries /\ v = [verb |-> "recase-label", on |-> v.on] /\ v.on.name = m
  BY VerbForms DEF Pending
<1>2. \A v \in S : v.on.id \in 1 .. ids /\ v.on = [id |-> v.on.id, name |-> m]
  BY <1>1 DEF Entries
<1>3. \A v, w \in S : v.on.id = w.on.id => v = w
  BY <1>1, <1>2
<1> HIDE DEF S
<1>4. f \in [S -> 1 .. ids] /\ \A v, w \in S : f[v] = f[w] => v = w
  BY <1>2, <1>3
<1> HIDE DEF f
<1>5. f \in Injection(S, 1 .. ids)
  BY <1>4 DEF Injection, IsInjective
<1>6. IsFiniteSet(1 .. ids)
  BY FS_Interval DEF WorkType
<1>7. IsFiniteSet(S)
  BY <1>5, <1>6, FS_Injection
<1> QED
  BY <1>7, FS_CardinalityType DEF S

\* What is there already is not taken away by whatever anybody does.
LEMMA WorkKept ==
  ASSUME WorkType, WorkType', Moves
  PROVE  /\ \A n \in Canonical : Has(labels, n) => Has(labels', n)
         /\ \A m \in MisCased : IdsOf(labels', m) \subseteq IdsOf(labels, m)
         /\ \A c \in Category : states[c] > 0 => states'[c] > 0
         /\ \A t \in Template : Ready(t) => Ready(t)'
         /\ \A t, i : i \in DOMAIN templates /\ templates[i].name = t => templates'[i].name = t
<1>1. /\ ids \in Nat /\ labels \in Seq(LabelTo(ids)) /\ labels' \in Seq(LabelTo(ids'))
      /\ Moved(labels, labels', ids, ids') /\ ids' \in Nat
  BY DEF WorkType, Moves
<1>2. \A n \in Canonical : Has(labels, n) => Has(labels', n)
  BY <1>1, MovedKeeps
<1>3. \A m \in MisCased : IdsOf(labels', m) \subseteq IdsOf(labels, m)
  BY <1>1, MovedKeeps
<1>4. \A c \in Category : states[c] > 0 => states'[c] > 0
  <2> TAKE c \in Category
  <2>1. c \in StateType /\ states[c] \in Nat /\ states'[c] \in Nat /\ states[c] <= states'[c]
    BY StatesAssumption DEF WorkType, Moves
  <2> QED
    BY <2>1
<1>5. ASSUME NEW t \in Template, Ready(t)
      PROVE  Ready(t)'
  <2>1. PICK i \in DOMAIN templates : templates[i].name = t /\ Applies(labels, t, templates[i].label)
    BY <1>5 DEF Ready
  <2>2. i \in DOMAIN templates' /\ templates'[i].name = t
    BY <2>1 DEF Moves
  <2>3. Applies(labels, t, templates'[i].label)
    BY <2>1, <2>2 DEF Moves
  <2>4. \A id : Applies(labels, t, id) => Applies(labels', t, id)
    BY <1>1, MovedKeeps
  <2>5. Applies(labels', t, templates'[i].label)
    BY <2>3, <2>4
  <2> QED
    BY <2>2, <2>5 DEF Ready
<1>6. \A t, i : i \in DOMAIN templates /\ templates[i].name = t => templates'[i].name = t
  BY DEF Moves
<1> QED
  BY <1>2, <1>3, <1>4, <1>5, <1>6

\* The count of labels to rename does not grow.
LEMMA FewerLeft ==
  ASSUME WorkType, NEW m, NEW A, NEW B, A \subseteq B, B \subseteq IdsOf(labels, m)
  PROVE  Cardinality(A) <= Cardinality(B) /\ Cardinality(A) \in Nat /\ Cardinality(B) \in Nat
<1>1. IsFiniteSet(B) /\ IsFiniteSet(A) /\ Cardinality(A) \in Nat /\ Cardinality(B) \in Nat
  BY IdsFinite
<1> QED
  BY <1>1, FS_Subset

\* Other steps leave a session's promise as it is.
LEMMA GoingBy ==
  ASSUME TypeOK, WorkType', Moves, NEW p \in Session, Going(p),
         UNCHANGED <<at[p], plan[p], todo[p], job[p], failed[p]>>, complete' => complete
  PROVE  Going(p)'
<1>0. WorkType /\ RestType
  BY TypeParts
<1>1. ASSUME Planned(p)
      PROVE  Planned(p)'
  <2>1. \A n \in Canonical : Has(labels', n) \/ n \in plan'[p].missing
    BY <1>0, <1>1, WorkKept DEF Planned
  <2>2. \A m \in MisCased : \A x \in IdsOf(labels', m) : [id |-> x, name |-> m] \in plan'[p].recase
    BY <1>0, <1>1, WorkKept DEF Planned
  <2>3. \A c \in Category : states'[c] > 0 \/ c \in plan'[p].gaps
    BY <1>0, <1>1, WorkKept DEF Planned
  <2> QED
    BY <2>1, <2>2, <2>3 DEF Planned
<1>2. ASSUME Underway(p)
      PROVE  Underway(p)'
  <2>0. job'[p] = job[p] /\ todo'[p] = todo[p] /\ job[p] \in Job /\ todo[p] \in SUBSET Verb
    BY <1>0 DEF RestType
  <2>1. \A n \in Canonical : \/ Has(labels', n)
                             \/ [verb |-> "ensure-label", on |-> n] \in todo'[p]
                             \/ job'[p] = [verb |-> "create label", name |-> n]
    BY <1>0, <1>2, <2>0, WorkKept DEF Underway
  <2>2. ASSUME NEW m \in MisCased
        PROVE  Cardinality(IdsOf(labels', m) \ Target(job'[p])) <= Cardinality(Pending(todo'[p], m))
    <3>1. IdsOf(labels', m) \subseteq IdsOf(labels, m)
      BY <1>0, WorkKept
    <3> DEFINE A == IdsOf(labels', m) \ Target(job[p])
               B == IdsOf(labels, m) \ Target(job[p])
               C == Cardinality(Pending(todo[p], m))
    <3>2. A \subseteq B /\ B \subseteq IdsOf(labels, m)
      BY <3>1
    <3>3. C \in Nat
      BY <1>0, <2>0, PendingFinite
    <3>4. Cardinality(B) <= C
      BY <1>2 DEF Underway
    <3> HIDE DEF A, B, C
    <3>5. Cardinality(A) <= Cardinality(B) /\ Cardinality(A) \in Nat /\ Cardinality(B) \in Nat
      BY <1>0, <3>2, FewerLeft
    <3>6. Cardinality(A) <= C
      BY <3>3, <3>4, <3>5
    <3> QED
      BY <2>0, <3>6 DEF A, C
  <2>3. \A c \in Category : \/ states'[c] > 0
                            \/ [verb |-> "ensure-state", on |-> c] \in todo'[p]
                            \/ job'[p] = [verb |-> "create state", type |-> c]
    BY <1>0, <1>2, <2>0, WorkKept DEF Underway
  <2>4. ASSUME NEW t \in Template
        PROVE  \/ Ready(t)'
               \/ [verb |-> "ensure-template", on |-> t] \in todo'[p]
               \/ Provides(job[p], t)'
    <3>1. PICK j : j = job[p]
      OBVIOUS
    <3>2. Provides(j, t) => Provides(j, t)'
      <4>1. j.verb = "update template" => j.index \in DOMAIN templates
        BY <2>0, <3>1, JobForms
      <4> QED
        BY <1>0, <4>1, WorkKept DEF Provides
    <3>3. Provides(j, t)' => Provides(job[p], t)'
      BY <2>0, <3>1
    <3> QED
      BY <1>0, <1>2, <2>0, <3>1, <3>2, <3>3, WorkKept DEF Underway
  <2> QED
    BY <2>1, <2>2, <2>3, <2>4 DEF Underway
<1> QED
  BY <1>1, <1>2 DEF Going

LEMMA ConvergingBy ==
  ASSUME TypeOK, TypeOK', Moves, Converging, complete' => complete, NEW s \in Session, Going(s)',
         \A p \in Session \ {s} : UNCHANGED <<at[p], plan[p], todo[p], job[p], failed[p]>>
  PROVE  Converging'
<1>1. WorkType'
  BY DEF TypeOK, WorkType, LabelTo
<1>2. ASSUME NEW p \in Session \ {s}
      PROVE  Going(p)'
  BY <1>1, <1>2, GoingBy DEF Converging
<1> QED
  BY <1>2 DEF Converging

LEMMA AuditGoing ==
  ASSUME TypeOK, Safe, NEW s \in Session, Audit(s)
  PROVE  Going(s)'
<1>1. WorkType /\ RestType
  BY TypeParts
<1> SUFFICES ASSUME complete'
             PROVE  at'[s] = "confirm" /\ Planned(s)'
  BY DEF Going
<1>2. Len(labels) <= Page /\ UNCHANGED workspace
  BY DEF Audit, Observed
<1>3. Fetched = labels
  BY <1>1, <1>2, FetchedAll DEF WorkType
<1>4. at'[s] = "confirm" /\ plan'[s] = PlanAudit(labels)
  BY <1>1, <1>3 DEF Audit, RestType
<1>5. \A n \in Canonical : Has(labels, n) \/ n \in PlanAudit(labels).missing
  <2> TAKE n \in Canonical
  <2>1. Norm[n] = n
    BY NamesAssumption
  <2>2. Has(labels, n) \/ Matching(n, labels) = {}
    BY <2>1 DEF Has, Matching
  <2> QED
    BY <2>2 DEF PlanAudit
<1>6. \A m \in MisCased : \A x \in IdsOf(labels, m) : [id |-> x, name |-> m] \in PlanAudit(labels).recase
  <2> TAKE m \in MisCased
  <2> TAKE x \in IdsOf(labels, m)
  <2>1. PICK i \in DOMAIN labels : labels[i].name = m /\ labels[i].id = x
    BY DEF IdsOf
  <2>2. /\ labels[i] \in ToSet(labels) /\ Norm[labels[i].name] \in Recased
        /\ labels[i].name # Norm[labels[i].name]
    BY <2>1 DEF ToSet, MisCased
  <2>3. Entry(labels[i]) = [id |-> x, name |-> m]
    BY <2>1 DEF Entry
  <2> QED
    BY <2>2, <2>3 DEF PlanAudit
<1>7. \A c \in Category : states[c] > 0 \/ c \in PlanAudit(labels).gaps
  BY DEF PlanAudit, Gaps, Present
<1>8. labels' = labels /\ states' = states
  BY <1>2 DEF workspace
<1>9. Planned(s)'
  BY <1>4, <1>5, <1>6, <1>7, <1>8 DEF Planned
<1> QED
  BY <1>4, <1>9

\* Each thing the plan names gets a verb of its own.
LEMMA ConfirmGoing ==
  ASSUME TypeOK, Safe, TypeOK', NEW s \in Session, Going(s), Confirm(s)
  PROVE  Going(s)'
<1>1. WorkType /\ RestType
  BY TypeParts
<1> SUFFICES ASSUME complete', ~failed'[s]
             PROVE  at'[s] = "apply" /\ Underway(s)'
  BY DEF Going
<1>2. /\ at[s] = "confirm" /\ UNCHANGED <<workspace, plan, job, failed, runs, faults, terms>>
      /\ \E yes : todo' = [todo EXCEPT ![s] = Approved(s, yes)]
      /\ at' = [at EXCEPT ![s] = "apply"]
  BY DEF Confirm, Approved
<1>3. PICK yes : todo'[s] = Approved(s, yes)
  BY <1>1, <1>2 DEF RestType
<1>4. at'[s] = "apply" /\ Planned(s) /\ job'[s] = NoJob
  BY <1>1, <1>2 DEF RestType, Going, Safe, Resting, terms
<1>5. labels' = labels /\ states' = states
  BY <1>2 DEF workspace
<1>6. /\ \A n \in plan[s].missing : [verb |-> "ensure-label", on |-> n] \in todo'[s]
      /\ \A e \in plan[s].recase : [verb |-> "recase-label", on |-> e] \in todo'[s]
      /\ \A c \in plan[s].gaps : [verb |-> "ensure-state", on |-> c] \in todo'[s]
      /\ \A t \in Template : [verb |-> "ensure-template", on |-> t] \in todo'[s]
  BY <1>3 DEF Approved, Verbs
<1>7. ASSUME NEW m \in MisCased
      PROVE  Cardinality(IdsOf(labels, m) \ Target(NoJob)) <= Cardinality(Pending(todo'[s], m))
  <2> DEFINE S == IdsOf(labels, m)
             P == Pending(todo'[s], m)
             f == [x \in S |-> [verb |-> "recase-label", on |-> [id |-> x, name |-> m]]]
  <2>1. \A x \in S : [verb |-> "recase-label", on |-> [id |-> x, name |-> m]] \in P
    BY <1>4, <1>6 DEF Planned, Pending
  <2>2. IsFiniteSet(P)
    <3>1. /\ ids' = ids /\ labels' = labels /\ states' = states /\ templates' = templates
          /\ todo'[s] \in SUBSET Verb'
      BY <1>2 DEF TypeOK, workspace
    <3>2. Verb' = Verb
      BY <3>1 DEF Verb, Entries
    <3> QED
      BY <1>1, <3>1, <3>2, PendingFinite
  <2> HIDE DEF S, P
  <2>3. f \in [S -> P] /\ \A x, y \in S : f[x] = f[y] => x = y
    <3>1. \A x \in S : f[x] \in P
      BY <2>1
    <3>2. \A x \in S : f[x].on.id = x
      OBVIOUS
    <3> QED
      BY <3>1, <3>2
  <2> HIDE DEF f
  <2>4. f \in Injection(S, P)
    BY <2>3 DEF Injection, IsInjective
  <2>5. Cardinality(S) <= Cardinality(P)
    BY <2>2, <2>4, FS_Injection
  <2>6. S \ Target(NoJob) = S
    BY NoJobSafe DEF Target
  <2> QED
    BY <2>5, <2>6 DEF S, P
<1>8. \A n \in Canonical : Has(labels, n) \/ [verb |-> "ensure-label", on |-> n] \in todo'[s]
  BY <1>4, <1>6 DEF Planned
<1>9. \A c \in Category : states[c] > 0 \/ [verb |-> "ensure-state", on |-> c] \in todo'[s]
  BY <1>4, <1>6 DEF Planned
<1>10. Underway(s)'
  BY <1>4, <1>5, <1>6, <1>7, <1>8, <1>9 DEF Underway
<1> QED
  BY <1>4, <1>10

\* A verb that is run plans what it was planned for, unless that is there by now.
LEMMA PlannedServes ==
  ASSUME WorkType, Uniq(labels), Fetched = labels, NEW v \in Verb,
         v.verb = "recase-label" => Norm[v.on.name] \in Recased,
         v.verb = "ensure-template" => ~Unresolved(v.on, Fetched)
  PROVE  /\ \A n \in Canonical : v = [verb |-> "ensure-label", on |-> n] =>
              Has(labels, n) \/ PlanVerb(v, Fetched) = [verb |-> "create label", name |-> n]
         /\ \A m \in MisCased : v.verb = "recase-label" /\ v.on.name = m
              /\ IdsOf(labels, m) # {} => \E x \in IdsOf(labels, m) : Target(PlanVerb(v, Fetched)) = {x}
         /\ \A c \in Category : v = [verb |-> "ensure-state", on |-> c] =>
              states[c] > 0 \/ PlanVerb(v, Fetched) = [verb |-> "create state", type |-> c]
         /\ \A t \in Template : v = [verb |-> "ensure-template", on |-> t] =>
              Provides(PlanVerb(v, Fetched), t)
<1>1. ASSUME NEW n \in Canonical, v = [verb |-> "ensure-label", on |-> n]
      PROVE  Has(labels, n) \/ PlanVerb(v, Fetched) = [verb |-> "create label", name |-> n]
  <2>1. PlanVerb(v, Fetched) = PlanEnsureLabel(n, labels)
    BY <1>1 DEF PlanVerb
  <2>2. Norm[n] = n
    BY NamesAssumption
  <2>3. Matching(n, labels) # {} => Has(labels, n)
    BY <2>2 DEF Matching, Has
  <2> QED
    BY <2>1, <2>3, EnsureLabelPlanned
<1>2. ASSUME NEW m \in MisCased, v.verb = "recase-label", v.on.name = m, IdsOf(labels, m) # {}
      PROVE  \E x \in IdsOf(labels, m) : Target(PlanVerb(v, Fetched)) = {x}
  <2>1. PlanVerb(v, Fetched) = PlanRecaseLabel(m, Fetched)
    BY <1>2 DEF PlanVerb
  <2>2. m \in Name /\ Norm[m] \in Recased /\ m # Norm[m]
    BY DEF MisCased
  <2>3. \E k \in DOMAIN Fetched : Fetched[k].name = m
    BY <1>2 DEF IdsOf
  <2>4. PICK i \in DOMAIN labels : /\ labels[i].name = m
                                   /\ PlanRecaseLabel(m, Fetched).verb = "rename label"
                                   /\ PlanRecaseLabel(m, Fetched).id = labels[i].id
    BY <2>2, <2>3, RecaseLabelPlanned
  <2>5. labels[i].id \in IdsOf(labels, m)
    BY <2>4 DEF IdsOf
  <2>6. Target(PlanVerb(v, Fetched)) = {labels[i].id}
    BY <2>1, <2>4 DEF Target
  <2> QED
    BY <2>5, <2>6
<1>3. ASSUME NEW c \in Category, v = [verb |-> "ensure-state", on |-> c]
      PROVE  states[c] > 0 \/ PlanVerb(v, Fetched) = [verb |-> "create state", type |-> c]
  <2>1. PlanVerb(v, Fetched) = PlanEnsureState(c)
    BY <1>3 DEF PlanVerb
  <2>2. c \in Present => states[c] > 0
    BY DEF Present
  <2> QED
    BY <2>1, <2>2, EnsureStatePlanned
<1>4. ASSUME NEW t \in Template, v = [verb |-> "ensure-template", on |-> t]
      PROVE  Provides(PlanVerb(v, Fetched), t)
  <2>1. PlanVerb(v, Fetched) = PlanEnsureTemplate(t, Fetched)
    BY <1>4 DEF PlanVerb
  <2>2. ~Unresolved(t, Fetched)
    BY <1>4
  <2>3. Provides(PlanEnsureTemplate(t, Fetched), t)
    BY <2>2, EnsureTemplatePlanned
  <2> QED
    BY <2>1, <2>3
<1> QED
  BY <1>1, <1>2, <1>3, <1>4

\* One verb fewer, and one label fewer to rename.
LEMMA OneFewer ==
  ASSUME WorkType, NEW m, NEW verbs \in SUBSET Verb, NEW v \in verbs, NEW target,
         Cardinality(IdsOf(labels, m)) <= Cardinality(Pending(verbs, m)),
         v.verb = "recase-label" /\ v.on.name = m /\ IdsOf(labels, m) # {} =>
           \E x \in IdsOf(labels, m) : target = {x}
  PROVE  Cardinality(IdsOf(labels, m) \ target) <= Cardinality(Pending(verbs \ {v}, m))
<1> DEFINE S == IdsOf(labels, m)
           P == Pending(verbs, m)
           R == Pending(verbs \ {v}, m)
<1>1. /\ IsFiniteSet(S) /\ Cardinality(S) \in Nat /\ IsFiniteSet(P) /\ Cardinality(P) \in Nat
      /\ Cardinality(S) <= Cardinality(P)
  BY IdsFinite, PendingFinite
<1>2. R = P \ {v} /\ (v \in P <=> v.verb = "recase-label" /\ v.on.name = m)
  BY DEF Pending
<1>3. v \in P /\ S # {} => \E x \in S : target = {x}
  BY <1>2
<1> HIDE DEF S, P, R
<1>4. /\ Cardinality(R) \in Nat
      /\ Cardinality(R) = IF v \in P THEN Cardinality(P) - 1 ELSE Cardinality(P)
  BY <1>1, <1>2, FS_RemoveElement, FS_CardinalityType
<1>5. Cardinality(S \ target) \in Nat /\ Cardinality(S \ target) <= Cardinality(S)
  <2>1. S \ target \in SUBSET S
    OBVIOUS
  <2> QED
    BY <1>1, <2>1, FS_Subset, FS_CardinalityType
<1>6. ASSUME v \notin P
      PROVE  Cardinality(S \ target) <= Cardinality(R)
  BY <1>1, <1>4, <1>5, <1>6
<1>7. ASSUME v \in P /\ S = {}
      PROVE  Cardinality(S \ target) <= Cardinality(R)
  <2>1. S \ target = {}
    BY <1>7
  <2>2. Cardinality(S \ target) = 0
    BY <2>1, FS_EmptySet
  <2> QED
    BY <1>4, <2>2
<1>8. ASSUME v \in P /\ S # {}
      PROVE  Cardinality(S \ target) <= Cardinality(R)
  <2>1. PICK x \in S : target = {x}
    BY <1>3, <1>8
  <2>2. Cardinality(S \ target) = Cardinality(S) - 1
    BY <1>1, <2>1, FS_RemoveElement
  <2> QED
    BY <1>1, <1>4, <1>8, <2>2
<1>9. Cardinality(S \ target) <= Cardinality(R)
  BY <1>6, <1>7, <1>8
<1> QED
  BY <1>9 DEF S, R

LEMMA FetchGoing ==
  ASSUME TypeOK, Safe, NEW s \in Session, Going(s), Fetch(s)
  PROVE  Going(s)'
<1>1. WorkType /\ RestType /\ Uniq(labels) /\ Mild(s) /\ Resting(s)
  BY TypeParts DEF Safe
<1> SUFFICES ASSUME complete', ~failed'[s]
             PROVE  at'[s] # "confirm" /\ Underway(s)'
  BY DEF Going
<1>2. /\ at[s] = "apply" /\ Len(labels) <= Page /\ complete
      /\ labels' = labels /\ states' = states /\ templates' = templates
  BY DEF Fetch, Observed, workspace
<1>3. Fetched = labels
  BY <1>1, <1>2, FetchedAll DEF WorkType
<1>4. PICK v \in todo[s] :
        /\ todo' = [todo EXCEPT ![s] = @ \ {v}]
        /\ \/ /\ v.verb = "ensure-template" /\ Unresolved(v.on, Fetched)
              /\ failed' = [failed EXCEPT ![s] = TRUE] /\ at' = at /\ job' = job
           \/ /\ v.verb = "ensure-template" => ~Unresolved(v.on, Fetched)
              /\ failed' = failed
              /\ job' = [job EXCEPT ![s] = PlanVerb(v, Fetched)]
              /\ at' = [at EXCEPT ![s] = IF PlanVerb(v, Fetched) = NoJob THEN "apply" ELSE "write"]
  BY FetchCases
<1>5. /\ v.verb = "ensure-template" => ~Unresolved(v.on, Fetched)
      /\ ~failed[s] /\ job'[s] = PlanVerb(v, Fetched) /\ at'[s] \in {"apply", "write"}
      /\ todo'[s] = todo[s] \ {v}
  BY <1>1, <1>4 DEF RestType
<1>6. Underway(s) /\ job[s] = NoJob
  BY <1>1, <1>2, <1>5 DEF Going, Resting
<1>7. v \in Verb /\ todo[s] \in SUBSET Verb /\ (v.verb = "recase-label" => Norm[v.on.name] \in Recased)
  BY <1>1 DEF RestType, Mild
<1> DEFINE j == PlanVerb(v, Fetched)
<1>8. /\ \A n \in Canonical : v = [verb |-> "ensure-label", on |-> n] =>
           Has(labels, n) \/ j = [verb |-> "create label", name |-> n]
      /\ \A m \in MisCased : v.verb = "recase-label" /\ v.on.name = m
           /\ IdsOf(labels, m) # {} => \E x \in IdsOf(labels, m) : Target(j) = {x}
      /\ \A c \in Category : v = [verb |-> "ensure-state", on |-> c] =>
           states[c] > 0 \/ j = [verb |-> "create state", type |-> c]
      /\ \A t \in Template : v = [verb |-> "ensure-template", on |-> t] => Provides(j, t)
  BY <1>1, <1>3, <1>5, <1>7, PlannedServes
<1>9. job'[s] = j
  BY <1>5
<1> HIDE DEF j
<1>10. \A n \in Canonical : \/ Has(labels, n)
                            \/ [verb |-> "ensure-label", on |-> n] \in todo'[s]
                            \/ j = [verb |-> "create label", name |-> n]
  <2> TAKE n \in Canonical
  <2>1. job[s] # [verb |-> "create label", name |-> n]
    <3>1. [verb |-> "create label", name |-> n].verb = "create label"
      OBVIOUS
    <3>2. job[s].verb = "none"
      BY <1>6, NoJobSafe
    <3> QED
      BY <3>1, <3>2
  <2>2. Has(labels, n) \/ [verb |-> "ensure-label", on |-> n] \in todo[s]
    BY <1>6, <2>1 DEF Underway
  <2> QED
    BY <1>5, <1>8, <2>2
<1>11. ASSUME NEW m \in MisCased
       PROVE  Cardinality(IdsOf(labels, m) \ Target(j)) <= Cardinality(Pending(todo'[s], m))
  <2>1. IdsOf(labels, m) \ Target(NoJob) = IdsOf(labels, m)
    BY NoJobSafe DEF Target
  <2>2. Cardinality(IdsOf(labels, m)) <= Cardinality(Pending(todo[s], m))
    BY <1>6, <2>1 DEF Underway
  <2> QED
    BY <1>1, <1>5, <1>7, <1>8, <2>2, OneFewer
<1>12. \A c \in Category : \/ states[c] > 0
                           \/ [verb |-> "ensure-state", on |-> c] \in todo'[s]
                           \/ j = [verb |-> "create state", type |-> c]
  <2> TAKE c \in Category
  <2>1. job[s] # [verb |-> "create state", type |-> c]
    <3>1. [verb |-> "create state", type |-> c].verb = "create state"
      OBVIOUS
    <3>2. job[s].verb = "none"
      BY <1>6, NoJobSafe
    <3> QED
      BY <3>1, <3>2
  <2>2. states[c] > 0 \/ [verb |-> "ensure-state", on |-> c] \in todo[s]
    BY <1>6, <2>1 DEF Underway
  <2> QED
    BY <1>5, <1>8, <2>2
<1>13. \A t \in Template : \/ Ready(t)
                           \/ [verb |-> "ensure-template", on |-> t] \in todo'[s]
                           \/ Provides(j, t)
  BY <1>5, <1>6, <1>8, NoJobSafe DEF Underway, Provides
<1>14. /\ \A t \in Template : Ready(t) => Ready(t)'
       /\ \A t \in Template : Provides(j, t) => Provides(job[s], t)'
  BY <1>2, <1>9 DEF Ready, Provides
<1>15. Underway(s)'
  BY <1>2, <1>9, <1>10, <1>11, <1>12, <1>13, <1>14 DEF Underway
<1> QED
  BY <1>5, <1>15

\* A mutation that is carried out does what its verb was for.
LEMMA PerformServes ==
  ASSUME WorkType, NEW j \in Job, SafeJob(labels, j), Perform(j)
  PROVE  /\ \A n \in Canonical : j = [verb |-> "create label", name |-> n] => Has(labels', n)
         /\ \A m \in MisCased : IdsOf(labels', m) \cap Target(j) = {}
         /\ \A c \in Category : j = [verb |-> "create state", type |-> c] => states'[c] > 0
         /\ \A t \in Template : Provides(j, t) => Ready(t)'
<1>1. ASSUME NEW n \in Canonical, j = [verb |-> "create label", name |-> n]
      PROVE  Has(labels', n)
  <2> DEFINE l == [id |-> ids + 1, name |-> n, used |-> FALSE]
             L == LabelTo(ids)
  <2>1. labels' \in {<<l>> \o labels, Append(labels, l)}
    BY <1>1 DEF Perform, CreateLabel
  <2>2. labels \in Seq(L) /\ Len(labels) \in Nat
    BY LenProperties DEF WorkType
  <2>3. Norm[l.name] = n
    BY NamesAssumption
  <2> HIDE DEF l, L
  <2>4. \E k \in DOMAIN labels' : labels'[k] = l
    <3>1. CASE labels' = <<l>> \o labels
      <4>1. 1 \in DOMAIN labels' /\ labels'[1] = l
        BY <2>2, <3>1
      <4> QED
        BY <4>1
    <3>2. CASE labels' = Append(labels, l)
      <4>1. Len(labels) + 1 \in DOMAIN labels' /\ labels'[Len(labels) + 1] = l
        BY <2>2, <3>2
      <4> QED
        BY <4>1
    <3> QED
      BY <2>1, <3>1, <3>2
  <2> QED
    BY <2>3, <2>4 DEF Has
<1>2. ASSUME NEW m \in MisCased, NEW k \in DOMAIN labels', labels'[k].name = m,
             j.verb = "rename label"
      PROVE  labels'[k].id # j.id
  <2>1. labels' = [i \in DOMAIN labels |-> IF labels[i].id = j.id
                     THEN [labels[i] EXCEPT !.name = j.name] ELSE labels[i]]
    BY <1>2 DEF Perform, RenameLabel
  <2>2. j.name \in Canonical /\ j.name = Norm[j.name]
    BY <1>2, JobForms, NamesAssumption
  <2>3. labels'[k].name # j.name
    BY <1>2, <2>2 DEF MisCased
  <2>4. k \in DOMAIN labels /\ labels[k] \in LabelTo(ids)
    <3>1. k \in DOMAIN labels
      BY <2>1
    <3> QED
      BY <3>1, ElementOfSeq, LenProperties DEF WorkType
  <2>5. CASE labels[k].id = j.id
    <3>1. labels'[k].name = j.name
      BY <2>1, <2>4, <2>5 DEF LabelTo
    <3> QED
      BY <2>3, <3>1
  <2> QED
    BY <2>1, <2>4, <2>5
<1>3. \A m \in MisCased : IdsOf(labels', m) \cap Target(j) = {}
  BY <1>2 DEF IdsOf, Target
<1>4. ASSUME NEW c \in Category, j = [verb |-> "create state", type |-> c]
      PROVE  states'[c] > 0
  <2>1. states' = [states EXCEPT ![c] = @ + 1]
    BY <1>4 DEF Perform
  <2>2. c \in DOMAIN states /\ states[c] \in Nat
    BY StatesAssumption DEF WorkType
  <2> QED
    BY <2>1, <2>2
<1>5. ASSUME NEW t \in Template, Provides(j, t)
      PROVE  Ready(t)'
  <2> DEFINE T == [name : Template, label : 0 .. ids]
  <2>1. templates \in Seq(T) /\ Len(templates) \in Nat
    BY LenProperties DEF WorkType
  <2>2. CASE j.verb = "create template" /\ j.name = t
    <3> DEFINE k == [name |-> j.name, label |-> j.label]
    <3>1. templates' = Append(templates, k) /\ labels' = labels
      BY <2>2 DEF Perform
    <3>2. k.name = t /\ k.label = j.label /\ k \in T
      BY <2>2, JobForms
    <3> HIDE DEF k, T
    <3>3. Len(templates) + 1 \in DOMAIN templates' /\ templates'[Len(templates) + 1] = k
      BY <2>1, <3>1, <3>2
    <3>4. Applies(labels', t, j.label)
      BY <2>2, <3>1 DEF SafeJob
    <3> QED
      BY <3>2, <3>3, <3>4 DEF Ready
  <2>3. CASE j.verb = "update template" /\ templates[j.index].name = t
    <3>1. templates' = [templates EXCEPT ![j.index].label = j.label] /\ labels' = labels
      BY <2>3 DEF Perform
    <3>2. j.index \in DOMAIN templates
      BY <2>3, JobForms
    <3>3. templates[j.index] \in T
      BY <2>1, <3>2, ElementOfSeq, LenProperties
    <3>4. j.index \in DOMAIN templates' /\ templates'[j.index].name = t /\ templates'[j.index].label = j.label
      BY <2>3, <3>1, <3>2, <3>3
    <3>5. Applies(labels', t, j.label)
      BY <2>3, <3>1 DEF SafeJob
    <3> QED
      BY <3>4, <3>5 DEF Ready
  <2> QED
    BY <1>5, <2>2, <2>3 DEF Provides
<1> QED
  BY <1>1, <1>3, <1>4, <1>5

LEMMA WriteGoing ==
  ASSUME TypeOK, Safe, TypeOK', Moves, NEW s \in Session, Going(s),
         Write(s) \/ AnswerLost(s) \/ Refused(s)
  PROVE  Going(s)'
<1>1. WorkType /\ RestType /\ SafeJob(labels, job[s]) /\ WorkType'
  <2>1. WorkType'
    BY DEF TypeOK, WorkType, LabelTo
  <2> QED
    BY <2>1, TypeParts DEF Safe
<1> SUFFICES ASSUME complete', ~failed'[s]
             PROVE  at'[s] # "confirm" /\ Underway(s)'
  BY DEF Going
<1>2. Write(s)
  BY <1>1 DEF AnswerLost, Refused, RestType
<1>3. /\ at[s] = "write" /\ at'[s] = "apply" /\ job'[s] = NoJob
      /\ complete /\ ~failed[s] /\ todo'[s] = todo[s]
  BY <1>1, <1>2 DEF Write, RestType, terms
<1>4. Underway(s)
  BY <1>3 DEF Going
<1>5. PICK j : j = job[s]
  OBVIOUS
<1>6. Perform(j) /\ j \in Job /\ SafeJob(labels, j) /\ todo[s] \in SUBSET Verb
  BY <1>1, <1>2, <1>5 DEF Write, RestType
<1>7. /\ \A n \in Canonical : j = [verb |-> "create label", name |-> n] => Has(labels', n)
      /\ \A m \in MisCased : IdsOf(labels', m) \cap Target(j) = {}
      /\ \A c \in Category : j = [verb |-> "create state", type |-> c] => states'[c] > 0
      /\ \A t \in Template : Provides(j, t) => Ready(t)'
  BY <1>1, <1>6, PerformServes
<1>8. /\ \A n \in Canonical : Has(labels, n) => Has(labels', n)
      /\ \A m \in MisCased : IdsOf(labels', m) \subseteq IdsOf(labels, m)
      /\ \A c \in Category : states[c] > 0 => states'[c] > 0
      /\ \A t \in Template : Ready(t) => Ready(t)'
  BY <1>1, WorkKept
<1>9. \A n \in Canonical : Has(labels', n) \/ [verb |-> "ensure-label", on |-> n] \in todo[s]
  BY <1>4, <1>5, <1>7, <1>8 DEF Underway
<1>10. ASSUME NEW m \in MisCased
       PROVE  Cardinality(IdsOf(labels', m) \ Target(NoJob)) <= Cardinality(Pending(todo[s], m))
  <2> DEFINE A == IdsOf(labels', m) \ Target(NoJob)
             B == IdsOf(labels, m) \ Target(j)
             C == Cardinality(Pending(todo[s], m))
  <2>1. A \subseteq B /\ B \subseteq IdsOf(labels, m)
    BY <1>7, <1>8
  <2>2. C \in Nat
    BY <1>1, <1>6, PendingFinite
  <2>3. Cardinality(B) <= C
    BY <1>4, <1>5 DEF Underway
  <2> HIDE DEF A, B, C
  <2>4. Cardinality(A) <= Cardinality(B) /\ Cardinality(A) \in Nat /\ Cardinality(B) \in Nat
    BY <1>1, <2>1, FewerLeft
  <2>5. Cardinality(A) <= C
    BY <2>2, <2>3, <2>4
  <2> QED
    BY <2>5 DEF A, C
<1>11. \A c \in Category : states'[c] > 0 \/ [verb |-> "ensure-state", on |-> c] \in todo[s]
  BY <1>4, <1>5, <1>7, <1>8 DEF Underway
<1>12. \A t \in Template : Ready(t)' \/ [verb |-> "ensure-template", on |-> t] \in todo[s]
  BY <1>4, <1>5, <1>7, <1>8 DEF Underway
<1>13. Underway(s)'
  BY <1>3, <1>9, <1>10, <1>11, <1>12 DEF Underway
<1> QED
  BY <1>3, <1>13

LEMMA EndGoing ==
  ASSUME TypeOK, Safe, NEW s \in Session, Going(s), Finish(s) \/ Killed(s)
  PROVE  Going(s)'
<1>1. RestType
  BY TypeParts
<1>2. /\ complete' = complete /\ failed' = failed
      /\ labels' = labels /\ states' = states /\ templates' = templates
  BY DEF Finish, Killed, workspace, terms
<1>3. CASE Killed(s)
  <2>1. at'[s] = "idle"
    BY <1>1, <1>3 DEF Killed, RestType
  <2> QED
    BY <2>1 DEF Going
<1>4. CASE Finish(s)
  <2>1. /\ at[s] = "apply" /\ at'[s] = "done" /\ todo' = todo /\ job' = job
    BY <1>1, <1>4 DEF Finish, RestType
  <2>2. Underway(s) => Underway(s)'
    BY <1>2, <2>1 DEF Underway, Ready, Provides
  <2> QED
    BY <1>2, <2>1, <2>2 DEF Going
<1> QED
  BY <1>3, <1>4

LEMMA ConvergingStep ==
  ASSUME TypeOK, Safe, Converging, [Next]_vars
  PROVE  Converging'
<1>0. TypeOK' /\ Moves
  BY SafeStep
<1>1. RestType /\ WorkType'
  <2>1. WorkType'
    BY <1>0 DEF TypeOK, WorkType, LabelTo
  <2> QED
    BY <2>1, TypeParts
<1>2. ASSUME NEW s \in Session, Audit(s) \/ Confirm(s) \/ Fetch(s) \/ Write(s) \/ AnswerLost(s)
                                \/ Refused(s) \/ Finish(s) \/ Killed(s)
      PROVE  Converging'
  <2>1. Going(s)'
    BY <1>0, <1>2, AuditGoing, ConfirmGoing, FetchGoing, WriteGoing, EndGoing DEF Converging
  <2>2. complete' => complete
    BY <1>2 DEF Audit, Confirm, Fetch, Write, AnswerLost, Refused, Finish, Killed, Observed, terms
  <2>3. \A p \in Session \ {s} : UNCHANGED <<at[p], plan[p], todo[p], job[p], failed[p]>>
    BY <1>1, <1>2 DEF RestType, Audit, Confirm, Fetch, Write, AnswerLost, Refused, Finish, Killed
  <2> QED
    BY <1>0, <2>1, <2>2, <2>3, ConvergingBy
<1>3. CASE UNCHANGED vars \/ \E id \in 1 .. ids : Use(id)
  <2>1. /\ at' = at /\ plan' = plan /\ todo' = todo /\ job' = job /\ failed' = failed
        /\ complete' = complete
    BY <1>3 DEF vars, Use, progress, terms
  <2>2. \A p \in Session : Going(p)'
    BY <1>0, <1>1, <2>1, GoingBy DEF Converging
  <2> QED
    BY <2>2 DEF Converging
<1> QED
  BY <1>2, <1>3, Zenon DEF Next

\* A run that is done and failed nowhere has left nothing to do.
LEMMA NothingLeft ==
  ASSUME TypeOK, Safe, Converging
  PROVE  Converges
<1>1. WorkType /\ RestType /\ \A s \in Session : Resting(s)
  BY TypeParts DEF Safe
<1> SUFFICES ASSUME NEW s \in Session, at[s] = "done", ~failed[s], complete
             PROVE  /\ PlanAudit(labels).missing = {}
                    /\ PlanAudit(labels).recase = {}
                    /\ PlanAudit(labels).gaps = {}
                    /\ \A t \in Template : \E k \in ToSet(templates) :
                         k.name = t /\ (Applied[t] # NoName => Carries(k, Applied[t]))
  BY DEF Converges
<1>2. todo[s] = {} /\ job[s] = NoJob /\ Underway(s)
  BY <1>1 DEF Resting, Converging, Going
<1>3. NoJob.verb = "none" /\ Target(NoJob) = {}
  BY NoJobSafe DEF Target
<1>4. PlanAudit(labels).missing = {}
  <2> SUFFICES ASSUME NEW n \in Canonical
               PROVE  Matching(n, labels) # {}
    BY DEF PlanAudit
  <2>1. job[s] # [verb |-> "create label", name |-> n]
    <3>1. [verb |-> "create label", name |-> n].verb = "create label"
      OBVIOUS
    <3> QED
      BY <1>2, <1>3, <3>1
  <2>2. Has(labels, n) /\ Norm[n] = n
    BY <1>2, <2>1, NamesAssumption DEF Underway
  <2> QED
    BY <2>2 DEF Has, Matching
<1>5. PlanAudit(labels).recase = {}
  <2> SUFFICES ASSUME NEW i \in DOMAIN labels, Norm[labels[i].name] \in Recased,
                      labels[i].name # Norm[labels[i].name]
               PROVE  FALSE
    BY DEF PlanAudit, ToSet
  <2> DEFINE m == labels[i].name
             S == IdsOf(labels, m)
  <2>1. labels[i] \in LabelTo(ids)
    BY <1>1, ElementOfSeq, LenProperties DEF WorkType
  <2>2. m \in MisCased
    BY <2>1 DEF MisCased, LabelTo
  <2>3. labels[i].id \in S
    BY DEF IdsOf
  <2>4. S \ Target(job[s]) = S /\ Pending(todo[s], m) = {}
    BY <1>2, <1>3 DEF Pending
  <2>5. Cardinality(S) <= Cardinality({})
    BY <1>2, <2>2, <2>4 DEF Underway
  <2>6. IsFiniteSet(S) /\ Cardinality(S) \in Nat
    BY <1>1, IdsFinite
  <2> HIDE DEF S, m
  <2>7. Cardinality(S) = 0
    BY <2>5, <2>6, FS_EmptySet
  <2> QED
    BY <2>3, <2>6, <2>7, FS_EmptySet
<1>6. PlanAudit(labels).gaps = {}
  <2> SUFFICES ASSUME NEW c \in Category
               PROVE  c \in Present
    BY DEF PlanAudit, Gaps
  <2>1. job[s] # [verb |-> "create state", type |-> c]
    <3>1. [verb |-> "create state", type |-> c].verb = "create state"
      OBVIOUS
    <3> QED
      BY <1>2, <1>3, <3>1
  <2>2. states[c] > 0
    BY <1>2, <2>1 DEF Underway
  <2> QED
    BY <2>2, StatesAssumption DEF Present
<1>7. ASSUME NEW t \in Template
      PROVE  \E k \in ToSet(templates) : k.name = t /\ (Applied[t] # NoName => Carries(k, Applied[t]))
  <2>1. ~Provides(job[s], t)
    BY <1>2, <1>3 DEF Provides
  <2>2. Ready(t)
    BY <1>2, <2>1 DEF Underway
  <2>3. PICK i \in DOMAIN templates : templates[i].name = t /\ Applies(labels, t, templates[i].label)
    BY <2>2 DEF Ready
  <2>4. templates[i] \in ToSet(templates)
    BY DEF ToSet
  <2>5. Applied[t] # NoName => Carries(templates[i], Applied[t])
    BY <2>3 DEF Applies, LiveIn, Carries, ToSet
  <2> QED
    BY <2>3, <2>4, <2>5
<1> QED
  BY <1>4, <1>5, <1>6, <1>7

\* init.md's audit, confirm and apply: a run whose verbs all went through leaves no label
\* missing or mis-cased, no state category empty and every template in place with its
\* label, whatever other sessions and teammates do in between and afterwards, as long as
\* the fetches return the whole list of labels.
THEOREM RunsConverge == Spec => []Converges
<1>1. Init => Converging
  BY DEF Init, Converging, Going
<1>2. TypeOK /\ Safe /\ Converging /\ [Next]_vars => Converging'
  BY ConvergingStep
<1>3. TypeOK /\ Safe /\ Converging => Converges
  BY NothingLeft
<1> QED
  BY <1>1, <1>2, <1>3, AlwaysSafe, PTL DEF Spec
===============================================================================
