----------------------------- MODULE Status_proofs -----------------------------
(***************************************************************************)
(* Proofs about Status: the types, what the labels tell, whom the sessions *)
(* keep out of each other's way, what the forecast counts, and what a      *)
(* refresh leaves of the description.                                      *)
(***************************************************************************)
EXTENDS Status, FiniteSetTheorems, WellFoundedInduction, SequenceTheorems, TLAPS

RunType == run \in [Session -> Session_ \cup {Idle}]

\* A session that works on an issue has read it.
Holding == \A s \in Session : run[s].pc \in {"blocked", "manual", "accept", "clear"} =>
                                run[s].issue \in IssueRecord

-------------------------------------------------------------------------------
(* The label helpers *)

\* A helper changes no label but its own, and that one as wanted on an active problem.
LEMMA DeltaTells ==
  ASSUME NEW i \in IssueRecord, NEW l \in Signal, NEW wanted \in BOOLEAN
  PROVE  /\ Delta(i, l, wanted) \in IssueRecord
         /\ Delta(i, l, wanted) = [i EXCEPT !.labels = Delta(i, l, wanted).labels]
         /\ ~Guarded(i) => Delta(i, l, wanted) = i
         /\ Guarded(i) => (l \in Delta(i, l, wanted).labels <=> wanted)
         /\ \A m \in Label \ {l} : m \in Delta(i, l, wanted).labels <=> m \in i.labels
         /\ Guarded(Delta(i, l, wanted)) <=> Guarded(i)
<1> DEFINE d == Delta(i, l, wanted)
           L == IF ~Guarded(i) THEN i.labels ELSE IF wanted THEN i.labels \cup {l} ELSE i.labels \ {l}
<1>1. d = [i EXCEPT !.labels = L]
  BY DEF Delta
<1>2. L \in SUBSET Label /\ l \in Label /\ l # "problem"
  BY DEF IssueRecord, Signal, Label
<1> HIDE DEF L
<1>3. d \in IssueRecord /\ d.labels = L /\ d.type = i.type
  BY <1>1, <1>2 DEF IssueRecord
<1>4. ~Guarded(i) => L = i.labels
  BY DEF L
<1>5. ~Guarded(i) => d = i
  BY <1>1, <1>4 DEF IssueRecord
<1>6. Guarded(i) => (l \in L <=> wanted)
  BY DEF L
<1>7. \A m \in Label \ {l} : m \in L <=> m \in i.labels
  BY DEF L
<1>8. Guarded(d) <=> Guarded(i)
  BY <1>2, <1>3, <1>7 DEF Guarded, Label
<1>9. d = [i EXCEPT !.labels = d.labels]
  BY <1>1, <1>3
<1> QED
  BY <1>3, <1>5, <1>6, <1>7, <1>8, <1>9

\* Both helpers work on the copy they are given, and change its labels only.
LEMMA HelpersTell ==
  ASSUME NEW i \in IssueRecord
  PROVE  /\ WithBlocked(i) \in IssueRecord /\ WithBlocked(i) = [i EXCEPT !.labels = WithBlocked(i).labels]
         /\ WithManual(i) \in IssueRecord /\ WithManual(i) = [i EXCEPT !.labels = WithManual(i).labels]
         /\ ~Guarded(i) => WithBlocked(i) = i /\ WithManual(i) = i
         /\ Guarded(i) => /\ "blocked" \in WithBlocked(i).labels <=> i.open
                          /\ "manual-pending" \in WithManual(i).labels <=> HasManual(i)
         /\ \A m \in Label \ {"blocked"} : m \in WithBlocked(i).labels <=> m \in i.labels
         /\ \A m \in Label \ {"manual-pending"} : m \in WithManual(i).labels <=> m \in i.labels
         /\ Guarded(WithBlocked(i)) <=> Guarded(i)
         /\ Guarded(WithManual(i)) <=> Guarded(i)
<1>1. /\ i.open \in BOOLEAN /\ HasManual(i) \in BOOLEAN
      /\ "blocked" \in Signal /\ "manual-pending" \in Signal
  BY DEF IssueRecord, HasManual, Signal
<1>2. /\ WithBlocked(i) \in IssueRecord /\ WithBlocked(i) = [i EXCEPT !.labels = WithBlocked(i).labels]
      /\ ~Guarded(i) => WithBlocked(i) = i
      /\ Guarded(i) => ("blocked" \in WithBlocked(i).labels <=> i.open)
      /\ \A m \in Label \ {"blocked"} : m \in WithBlocked(i).labels <=> m \in i.labels
      /\ Guarded(WithBlocked(i)) <=> Guarded(i)
  BY <1>1, DeltaTells DEF WithBlocked
<1>3. /\ WithManual(i) \in IssueRecord /\ WithManual(i) = [i EXCEPT !.labels = WithManual(i).labels]
      /\ ~Guarded(i) => WithManual(i) = i
      /\ Guarded(i) => ("manual-pending" \in WithManual(i).labels <=> HasManual(i))
      /\ \A m \in Label \ {"manual-pending"} : m \in WithManual(i).labels <=> m \in i.labels
      /\ Guarded(WithManual(i)) <=> Guarded(i)
  BY <1>1, DeltaTells DEF WithManual
<1> QED
  BY <1>2, <1>3

\* What a session reads of a unit is a well-formed issue.
LEMMA IssueIsTyped ==
  ASSUME labels \in [Unit -> SUBSET Label], type \in [Unit -> Category], ac \in [Unit -> Criteria], NEW u \in Unit
  PROVE  Issue(u) \in IssueRecord
<1> DEFINE w == \E b \in BlockedBy[u] : type[b] \notin {"completed", "canceled"}
<1>1. w \in BOOLEAN
  OBVIOUS
<1>2. Issue(u) = [unit |-> u, labels |-> labels[u], type |-> type[u], ac |-> ac[u], open |-> w]
  BY DEF Issue
<1> HIDE DEF w
<1> QED
  BY <1>1, <1>2 DEF IssueRecord

-------------------------------------------------------------------------------
(* The sessions *)

Spoils(t) == run[t] \in Session_ /\ run'[t] = [run[t] EXCEPT !.quiet = FALSE]

\* A session's step: the others stay, or lose their quiet.
Takes(s, r) == run'[s] = r /\ \A t \in Session \ {s} : run'[t] = run[t] \/ Spoils(t)

\* Where Linear changes, the others that are at work lose it.
Stirs(s) == \A t \in Session \ {s} : run'[t] = Idle \/ Spoils(t)

\* A session that is not idle has a whole record.
LEMMA Works ==
  ASSUME RunType, NEW s \in Session, run[s].pc # "idle" \/ run[s] # Idle
  PROVE  run[s] \in Session_ /\ run[s] # Idle /\ run[s].pc # "idle"
BY DEF RunType, Idle, Session_, Query

\* Losing its quiet changes nothing else of a session.
LEMMA Spoiled ==
  ASSUME NEW q \in Session_
  PROVE  /\ [q EXCEPT !.quiet = FALSE] \in Session_
         /\ [q EXCEPT !.quiet = FALSE].quiet = FALSE
         /\ \A f \in {"pc", "issue", "todo", "undone", "counts", "text"} : [q EXCEPT !.quiet = FALSE][f] = q[f]
BY DEF Session_

\* One session moves; the others stay, or lose their quiet with it.
LEMMA OneMoves ==
  ASSUME RunType, NEW s \in Session, NEW r
  PROVE  /\ run' = [run EXCEPT ![s] = r] => Takes(s, r) /\ \A t \in Session \ {s} : run'[t] = run[t]
         /\ run' = Disturb([run EXCEPT ![s] = r], s) => Takes(s, r) /\ Stirs(s)
<1>1. \A t \in Session : run[t] # Idle => run[t] \in Session_
  BY Works
<1>2. ASSUME run' = Disturb([run EXCEPT ![s] = r], s) PROVE Takes(s, r) /\ Stirs(s)
  BY <1>1, <1>2 DEF Disturb, Takes, Stirs, Spoils, RunType
<1> QED
  BY <1>2 DEF Takes, RunType

\* A person's change takes the quiet of every session at work.
LEMMA AllStirred ==
  ASSUME RunType, run' = Disturb(run, None)
  PROVE  \A t \in Session : (run'[t] = Idle /\ run[t] = Idle) \/ Spoils(t)
<1>1. \A t \in Session : run[t] # Idle => run[t] \in Session_
  BY Works
<1> QED
  BY <1>1, NoneAssumption DEF Disturb, Spoils

\* The sessions stay well-formed if the one that moves does.
LEMMA RunTyped ==
  ASSUME RunType
  PROVE  /\ \A s \in Session : \A r \in Session_ \cup {Idle} :
              run' = [run EXCEPT ![s] = r] \/ run' = Disturb([run EXCEPT ![s] = r], s) => RunType'
         /\ run' = Disturb(run, None) => RunType'
<1>1. \A t \in Session : run[t] # Idle => run[t] \in Session_ /\ [run[t] EXCEPT !.quiet = FALSE] \in Session_
  BY Works, Spoiled
<1>2. ASSUME NEW s \in Session, NEW r \in Session_ \cup {Idle}, run' = Disturb([run EXCEPT ![s] = r], s)
      PROVE  RunType'
  BY <1>1, <1>2 DEF Disturb, RunType
<1>3. ASSUME run' = Disturb(run, None) PROVE RunType'
  BY <1>1, <1>3 DEF Disturb, RunType
<1> QED
  BY <1>2, <1>3 DEF RunType

-------------------------------------------------------------------------------
(* The description *)

\* The lines and blocks the forecast makes are lines of a description.
LEMMA LineTyped ==
  /\ \A k \in LineKind : Plain(k) \in Line
  /\ \A n \in Counts : [kind |-> "row", val |-> n] \in Line
  /\ \A n \in Counts : Block(n) \in Seq(Line)
<1>1. \A k \in LineKind : Plain(k) \in Line
  BY DEF Plain, Line
<1>2. \A n \in Counts : [kind |-> "row", val |-> n] \in Line
  BY DEF Line, LineKind
<1>3. ASSUME NEW n \in Counts PROVE Block(n) \in Seq(Line)
  <2>1. Plain("forecast") \in Line /\ Plain("blank") \in Line
    BY <1>1 DEF LineKind
  <2> QED
    BY <1>2, <2>1 DEF Block
<1> QED
  BY <1>1, <1>2, <1>3

\* A part of a description, from any line on, is one.
LEMMA PartTyped ==
  ASSUME NEW lines \in Seq(Line), NEW m \in Nat \ {0}, NEW n \in Int, n <= Len(lines)
  PROVE  SubSeq(lines, m, n) \in Seq(Line)
<1>1. Len(lines) \in Nat /\ \A i \in 1 .. Len(lines) : lines[i] \in Line
  BY LenProperties, ElementOfSeq
<1>2. \A i \in m .. n : lines[i] \in Line
  BY <1>1
<1> QED
  BY <1>2, SubSeqProperties

\* Two parts of a description make one.
LEMMA JoinTyped ==
  ASSUME NEW x \in Seq(Line), NEW y \in Seq(Line)
  PROVE  x \o y \in Seq(Line)
BY ConcatProperties

\* The least of a set of numbers.
LEMMA Least ==
  ASSUME NEW S, S \subseteq Nat, S # {}
  PROVE  LeastOf(S) \in S /\ \A y \in S : LeastOf(S) <= y
<1> DEFINE R == OpToRel(<, Nat)
<1>1. PICK m \in S : \A y \in S : ~ (<<y, m>> \in R)
  BY NatLessThanWellFounded, WFMin
<1>2. \A y, x \in Nat : y < x => <<y, x>> \in R
  BY Zenon DEF OpToRel
<1>3. \A y \in S : ~ (y < m)
  BY <1>1, <1>2
<1>4. \A y \in S : m <= y
  BY <1>3
<1> QED
  BY <1>4 DEF LeastOf

\* The heading of the first block is a line of the description.
LEMMA StartIsLine ==
  ASSUME NEW lines \in Seq(Line), Headings(lines) # {}
  PROVE  LeastOf(Headings(lines)) \in 1 .. Len(lines) /\ LeastOf(Headings(lines)) \in Headings(lines)
<1>1. Headings(lines) \subseteq 1 .. Len(lines) /\ Len(lines) \in Nat
  BY LenProperties DEF Headings
<1>2. LeastOf(Headings(lines)) \in Headings(lines)
  BY <1>1, Least
<1> QED
  BY <1>1, <1>2

\* Which parts of a description are blank.
LEMMA BlankParts ==
  ASSUME NEW lines \in Seq(Line), NEW m \in Nat \ {0}, NEW n \in 0 .. Len(lines)
  PROVE  Blank(SubSeq(lines, m, n)) <=> \A i \in m .. n : lines[i].kind = "blank"
<1>1. Len(lines) \in Nat
  BY LenProperties
<1> DEFINE p == SubSeq(lines, m, n)
<1>2. p \in Seq(Line)
  BY <1>1, PartTyped
<1>3. /\ Len(p) = IF m <= n THEN n - m + 1 ELSE 0
      /\ \A i \in 1 .. n - m + 1 : p[i] = lines[m + i - 1]
  <2>1. \A i \in m .. n : lines[i] \in Line
    BY <1>1, ElementOfSeq
  <2> QED
    BY <2>1, SubSeqProperties
<1>4. DOMAIN p = 1 .. Len(p)
  BY <1>2, LenProperties
<1> HIDE DEF p
<1>5. ASSUME \A i \in m .. n : lines[i].kind = "blank" PROVE \A i \in DOMAIN p : p[i].kind = "blank"
  BY <1>1, <1>3, <1>4, <1>5
<1>6. ASSUME \A i \in DOMAIN p : p[i].kind = "blank", NEW i \in m .. n PROVE lines[i].kind = "blank"
  <2>1. i - m + 1 \in DOMAIN p /\ p[i - m + 1] = lines[i]
    BY <1>1, <1>3, <1>4
  <2> QED
    BY <1>6, <2>1
<1> QED
  BY <1>5, <1>6 DEF Blank, p

\* The block ends at a line of the description, at or after its heading.
LEMMA EndIsLine ==
  ASSUME NEW lines \in Seq(Line), NEW start \in Headings(lines)
  PROVE  BlockEnd(lines, start) \in start .. Len(lines) /\ start \in 1 .. Len(lines)
<1> DEFINE next == {j \in start + 1 .. Len(lines) : lines[j].kind \in {"h2", "forecast"}}
           stop == IF next = {} THEN Len(lines) ELSE LeastOf(next) - 1
           shown == {e \in start .. stop : lines[e].kind # "blank"}
<1>1. Len(lines) \in Nat /\ start \in 1 .. Len(lines) /\ lines[start].kind = "forecast"
  BY LenProperties DEF Headings
<1>2. stop \in start .. Len(lines)
  <2>1. CASE next = {}
    BY <1>1, <2>1
  <2>2. CASE next # {}
    <3>1. LeastOf(next) \in next
      BY <1>1, <2>2, Least
    <3> QED
      BY <1>1, <2>2, <3>1
  <2> QED
    BY <2>1, <2>2
<1> HIDE DEF stop
<1>3. start \in shown
  BY <1>1, <1>2
<1>4. PICK e \in shown : \A y \in shown : y <= e
  <2> DEFINE U == {stop - x : x \in shown}
  <2>1. U \subseteq Nat /\ U # {}
    BY <1>1, <1>2, <1>3
  <2>2. LeastOf(U) \in U /\ \A y \in U : LeastOf(U) <= y
    BY <2>1, Least
  <2>3. PICK x \in shown : LeastOf(U) = stop - x
    BY <2>2
  <2>4. \A y \in shown : stop - x <= stop - y
    BY <2>2, <2>3
  <2> QED
    BY <1>1, <1>2, <2>4
<1>5. e \in start .. stop /\ lines[e].kind # "blank" /\ Blank(SubSeq(lines, e + 1, stop))
  <2>1. \A i \in e + 1 .. stop : lines[i].kind = "blank"
    BY <1>1, <1>2, <1>4
  <2> QED
    BY <1>1, <1>2, <1>4, <2>1, BlankParts
<1>6. BlockEnd(lines, start) \in start .. stop
  BY <1>5 DEF BlockEnd, stop
<1> QED
  BY <1>1, <1>2, <1>6

\* A spliced description is one.
LEMMA SpliceTyped ==
  ASSUME NEW lines \in Seq(Line), NEW block \in Seq(Line)
  PROVE  Splice(lines, block) \in Seq(Line)
<1> DEFINE start == LeastOf(Headings(lines))
           suffix == SubSeq(lines, BlockEnd(lines, start) + 1, Len(lines))
<1>1. <<Plain("blank")>> \in Seq(Line) /\ <<>> \in Seq(Line)
  BY LineTyped DEF LineKind
<1>2. Len(lines) \in Nat
  BY LenProperties
<1>3. CASE Headings(lines) # {}
  <2>1. /\ start \in 1 .. Len(lines)
        /\ BlockEnd(lines, start) \in start .. Len(lines)
    BY <1>3, StartIsLine, EndIsLine
  <2>2. SubSeq(lines, 1, start - 1) \in Seq(Line) /\ suffix \in Seq(Line)
    BY <1>2, <2>1, PartTyped
  <2> HIDE DEF suffix, start
  <2>3. LStrip(suffix) \in Seq(Line)
    <3> DEFINE n == Cardinality({i \in DOMAIN suffix : Blank(SubSeq(suffix, 1, i))})
    <3>1. IsFiniteSet({i \in DOMAIN suffix : Blank(SubSeq(suffix, 1, i))})
      BY <2>2, LenProperties, FS_Interval, FS_Subset
    <3>2. n \in Nat
      BY <3>1, FS_CardinalityType
    <3> HIDE DEF n
    <3>3. Len(suffix) \in Nat
      BY <2>2, LenProperties
    <3>4. SubSeq(suffix, n + 1, Len(suffix)) \in Seq(Line)
      BY <2>2, <3>2, <3>3, PartTyped
    <3> QED
      BY <3>4 DEF LStrip, n
  <2>4. <<Plain("blank")>> \o LStrip(suffix) \in Seq(Line)
    BY <1>1, <2>3, JoinTyped
  <2>5. SubSeq(lines, 1, start - 1) \o block \in Seq(Line)
    BY <2>2, JoinTyped
  <2>6. \A x \in Seq(Line) : (SubSeq(lines, 1, start - 1) \o block) \o x \in Seq(Line)
    BY <2>5, JoinTyped
  <2>7. (SubSeq(lines, 1, start - 1) \o block)
          \o (IF Blank(suffix) THEN <<>> ELSE <<Plain("blank")>> \o LStrip(suffix)) \in Seq(Line)
    BY <1>1, <2>4, <2>6
  <2> QED
    BY <1>3, <2>7 DEF Splice, suffix, start
<1>4. CASE Headings(lines) = {}
  <2>1. (lines \o <<Plain("blank")>>) \o block \in Seq(Line)
    BY <1>1, JoinTyped
  <2> QED
    BY <1>4, <2>1 DEF Splice
<1> QED
  BY <1>3, <1>4

\* Whatever the product owner writes is a description.
LEMMA DraftsTyped ==
  ASSUME description \in Seq(Line)
  PROVE  Drafts \subseteq Seq(Line)
<1>1. Len(description) \in Nat /\ DOMAIN description = 1 .. Len(description)
  BY LenProperties
<1>2. <<Plain("text")>> \in Seq(Line) /\ <<Plain("h2"), Plain("text")>> \in Seq(Line)
  BY LineTyped DEF LineKind
<1>3. description \o <<Plain("h2"), Plain("text")>> \in Seq(Line) /\ <<Plain("text")>> \o description \in Seq(Line)
  BY <1>2, JoinTyped
<1>4. ASSUME NEW k \in DOMAIN description
      PROVE  SubSeq(description, 1, k - 1) \o SubSeq(description, k + 1, Len(description)) \in Seq(Line)
  <2>1. SubSeq(description, 1, k - 1) \in Seq(Line) /\ SubSeq(description, k + 1, Len(description)) \in Seq(Line)
    BY <1>1, PartTyped
  <2> QED
    BY <2>1, JoinTyped
<1> QED
  BY <1>3, <1>4 DEF Drafts

-------------------------------------------------------------------------------
(* What each action makes of its session *)

\* One count is replaced, the others stay.
LEMMA CountsTyped ==
  /\ NoCounts \in Counts
  /\ \A n \in Counts, q \in Query, k \in Nat : [n EXCEPT ![q] = k] \in Counts
  /\ \A n \in Counts, q \in Query, k \in Nat :
       [n EXCEPT ![q] = k][q] = k /\ \A p \in Query \ {q} : [n EXCEPT ![q] = k][p] = n[p]
  /\ \A n \in Counts, q \in Query : n[q] \in Nat
BY DEF NoCounts, Counts, Query

\* The answers are counts of units.
LEMMA AnswerTyped ==
  ASSUME NEW q \in Query
  PROVE  Answer(q) \in Nat
<1>1. \A S \in SUBSET Unit : Cardinality(S) \in Nat
  BY UnitAssumption, FS_Subset, FS_CardinalityType
<1>2. /\ Cardinality({u \in Unit : Problem(u) /\ type[u] = "completed"}) \in Nat
      /\ Cardinality({u \in Unit : Problem(u) /\ type[u] = "started"}) \in Nat
      /\ Cardinality({u \in Unit : Problem(u) /\ type[u] = "unstarted"}) \in Nat
      /\ Cardinality({u \in Unit : Problem(u) /\ type[u] \in Active /\ "blocked" \in labels[u]}) \in Nat
  BY <1>1
<1> QED
  BY <1>2, BoundsAssumption DEF Answer, Query

\* Where each action leaves the session that takes it.
LEMMA After ==
  ASSUME TypeOK, Holding, NEW s \in Session
  PROVE  /\ Begin(s) => \E r \in Session_ : /\ run' = [run EXCEPT ![s] = r] /\ run[s] = Idle
                                            /\ r.pc = "survey" /\ r.todo = {u \in Unit : Guarded(Issue(u))}
                                            /\ r.undone = {}
         /\ \A u \in Unit : Review(s, u) =>
              \E r \in Session_ : /\ run' = [run EXCEPT ![s] = r]
                                  /\ r.pc = "accept" /\ r.issue = Issue(u)
         /\ \A u \in Unit : Inspect(s, u) =>
              /\ run[s] \in Session_ /\ run[s].pc = "survey" /\ u \in run[s].todo
              /\ \E r \in Session_ : /\ run' = [run EXCEPT ![s] = r]
                                     /\ r.pc = "blocked" /\ r.quiet = run[s].quiet
                                     /\ r.issue = Issue(u) /\ r.todo = run[s].todo \ {u}
                                     /\ r.undone = run[s].undone
         /\ HelpBlocked(s) =>
              LET i == run[s].issue
              IN  /\ run[s] \in Session_ /\ run[s].pc = "blocked" /\ i \in IssueRecord
                  /\ \E r \in Session_ : /\ SaveLabels(s, i, WithBlocked(i), i, r)
                                         /\ r.pc = "manual" /\ r.quiet = run[s].quiet
                                         /\ r.issue = i /\ r.todo = run[s].todo /\ r.undone = run[s].undone
         /\ HelpManual(s) =>
              LET i == run[s].issue
              IN  /\ run[s] \in Session_ /\ run[s].pc = "manual" /\ i \in IssueRecord
                  /\ judged' = [judged EXCEPT ![i.unit] = [left |-> Left(i), undone |-> Undone(i)]]
                  /\ \E r \in Session_ : /\ SaveLabels(s, i, WithManual(i), WithBlocked(i), r)
                                         /\ r.pc = "survey" /\ r.quiet = run[s].quiet /\ r.todo = run[s].todo
                                         /\ r.undone = IF Undone(i) THEN run[s].undone \cup {i.unit}
                                                                    ELSE run[s].undone
         /\ Surveyed(s) =>
              /\ run[s] \in Session_ /\ run[s].pc = "survey" /\ run[s].todo = {}
              /\ \E r \in Session_ : /\ run' = [run EXCEPT ![s] = r]
                                     /\ r.pc = "closed" /\ r.quiet = run[s].quiet
                                     /\ r.undone = run[s].undone
         /\ Count(s) =>
              /\ run[s] \in Session_ /\ run[s].pc \in Query
              /\ \E r \in Session_ : /\ run' = [run EXCEPT ![s] = r]
                                     /\ r.pc = NextQuery[run[s].pc] /\ r.quiet = run[s].quiet
                                     /\ r.counts = [run[s].counts EXCEPT ![run[s].pc] = Answer(run[s].pc)]
                                     /\ r.undone = run[s].undone
         /\ ReadProject(s) =>
              /\ run[s] \in Session_ /\ run[s].pc = "read"
              /\ \E r \in Session_ : /\ run' = [run EXCEPT ![s] = r]
                                     /\ r.pc = "save" /\ r.quiet = run[s].quiet
                                     /\ r.counts = run[s].counts /\ r.undone = run[s].undone
         /\ SaveProject(s) =>
              /\ run[s] \in Session_ /\ run[s].pc = "save"
              /\ run' = Disturb([run EXCEPT ![s] = Idle], s)
         /\ Accept(s) =>
              /\ run[s] \in Session_ /\ run[s].pc = "accept" /\ run[s].issue \in IssueRecord
              /\ \E r \in Session_ : /\ run' = Disturb([run EXCEPT ![s] = r], s)
                                     /\ r.pc = "clear" /\ r.issue = run[s].issue
         /\ Clear(s) =>
              /\ run[s] \in Session_ /\ run[s].pc = "clear" /\ run[s].issue \in IssueRecord
              /\ run' = Disturb([run EXCEPT ![s] = Idle], s)
<1>0. /\ RunType /\ labels \in [Unit -> SUBSET Label] /\ type \in [Unit -> Category]
      /\ ac \in [Unit -> Criteria] /\ description \in Seq(Line)
  BY DEF TypeOK, RunType
<1>1. \A q \in Session_ :
        /\ \A u \in Unit : [q EXCEPT !.pc = "blocked", !.issue = Issue(u), !.todo = @ \ {u}] \in Session_
        /\ [q EXCEPT !.pc = "manual"] \in Session_
        /\ \A U \in SUBSET Unit : [q EXCEPT !.pc = "survey", !.issue = None, !.undone = U] \in Session_
        /\ [q EXCEPT !.pc = "closed"] \in Session_ /\ [q EXCEPT !.pc = "clear"] \in Session_
  <2>1. \A u \in Unit : Issue(u) \in IssueRecord
    BY <1>0, IssueIsTyped
  <2> QED
    BY <2>1 DEF Session_, Query
<1>2. ASSUME Begin(s)
      PROVE  \E r \in Session_ : /\ run' = [run EXCEPT ![s] = r] /\ run[s] = Idle
                                 /\ r.pc = "survey" /\ r.todo = {u \in Unit : Guarded(Issue(u))}
                                 /\ r.undone = {}
  <2> DEFINE r == [pc |-> "survey", quiet |-> TRUE, issue |-> None,
                   todo |-> {u \in Unit : Guarded(Issue(u))}, undone |-> {},
                   counts |-> NoCounts, text |-> <<>>]
  <2>1. <<>> \in Seq(Line)
    BY EmptySeq
  <2>2. r \in Session_
    BY <2>1, CountsTyped DEF Session_
  <2>3. r.pc = "survey" /\ r.todo = {u \in Unit : Guarded(Issue(u))} /\ r.undone = {}
    OBVIOUS
  <2>4. run' = [run EXCEPT ![s] = r] /\ run[s] = Idle
    BY <1>2 DEF Begin
  <2> HIDE DEF r
  <2> QED
    BY <2>2, <2>3, <2>4
<1>3. ASSUME NEW u \in Unit, Review(s, u)
      PROVE  \E r \in Session_ : run' = [run EXCEPT ![s] = r] /\ r.pc = "accept" /\ r.issue = Issue(u)
  <2> DEFINE r == [pc |-> "accept", quiet |-> TRUE, issue |-> Issue(u),
                   todo |-> {}, undone |-> {}, counts |-> NoCounts, text |-> <<>>]
  <2>1. <<>> \in Seq(Line) /\ Issue(u) \in IssueRecord
    BY <1>0, EmptySeq, IssueIsTyped
  <2>2. r \in Session_
    BY <2>1, CountsTyped DEF Session_
  <2>3. r.pc = "accept" /\ r.issue = Issue(u)
    OBVIOUS
  <2>4. run' = [run EXCEPT ![s] = r]
    BY <1>3 DEF Review
  <2> HIDE DEF r
  <2> QED
    BY <2>2, <2>3, <2>4
<1>4. ASSUME NEW u \in Unit, Inspect(s, u)
      PROVE  /\ run[s] \in Session_ /\ run[s].pc = "survey" /\ u \in run[s].todo
             /\ \E r \in Session_ : /\ run' = [run EXCEPT ![s] = r]
                                    /\ r.pc = "blocked" /\ r.quiet = run[s].quiet
                                    /\ r.issue = Issue(u) /\ r.todo = run[s].todo \ {u}
                                    /\ r.undone = run[s].undone
  <2> DEFINE r == [run[s] EXCEPT !.pc = "blocked", !.issue = Issue(u), !.todo = @ \ {u}]
  <2>1. run[s] \in Session_ /\ run[s].pc = "survey" /\ u \in run[s].todo
    BY <1>0, <1>4, Works DEF Inspect
  <2>2. run' = [run EXCEPT ![s] = r]
    BY <1>0, <1>4, <2>1 DEF Inspect, RunType, Session_
  <2>3. /\ r.pc = "blocked" /\ r.quiet = run[s].quiet
        /\ r.issue = Issue(u) /\ r.todo = run[s].todo \ {u} /\ r.undone = run[s].undone
    BY <2>1 DEF Session_
  <2>4. r \in Session_
    BY <1>1, <2>1
  <2> HIDE DEF r
  <2> QED
    BY <2>1, <2>2, <2>3, <2>4
<1>5. ASSUME HelpBlocked(s)
      PROVE  LET i == run[s].issue
             IN  /\ run[s] \in Session_ /\ run[s].pc = "blocked" /\ i \in IssueRecord
                 /\ \E r \in Session_ : /\ SaveLabels(s, i, WithBlocked(i), i, r)
                                        /\ r.pc = "manual" /\ r.quiet = run[s].quiet
                                        /\ r.issue = i /\ r.todo = run[s].todo /\ r.undone = run[s].undone
  <2> DEFINE i == run[s].issue
             r == [run[s] EXCEPT !.pc = "manual"]
  <2>1. run[s] \in Session_ /\ run[s].pc = "blocked" /\ i \in IssueRecord
    BY <1>0, <1>5, Works DEF HelpBlocked, Holding
  <2>2. SaveLabels(s, i, WithBlocked(i), i, r)
    BY <1>5 DEF HelpBlocked
  <2>3. r \in Session_
    BY <1>1, <2>1
  <2>4. /\ r.pc = "manual" /\ r.quiet = run[s].quiet
        /\ r.issue = i /\ r.todo = run[s].todo /\ r.undone = run[s].undone
    BY <2>1 DEF Session_
  <2> HIDE DEF r
  <2> QED
    BY <2>1, <2>2, <2>3, <2>4
<1>7. ASSUME HelpManual(s)
      PROVE  LET i == run[s].issue
             IN  /\ run[s] \in Session_ /\ run[s].pc = "manual" /\ i \in IssueRecord
                 /\ judged' = [judged EXCEPT ![i.unit] = [left |-> Left(i), undone |-> Undone(i)]]
                 /\ \E r \in Session_ : /\ SaveLabels(s, i, WithManual(i), WithBlocked(i), r)
                                        /\ r.pc = "survey" /\ r.quiet = run[s].quiet /\ r.todo = run[s].todo
                                        /\ r.undone = IF Undone(i) THEN run[s].undone \cup {i.unit}
                                                                   ELSE run[s].undone
  <2> DEFINE i == run[s].issue
             U == IF Undone(i) THEN run[s].undone \cup {i.unit} ELSE run[s].undone
             r == [run[s] EXCEPT !.pc = "survey", !.issue = None, !.undone = U]
  <2>1. run[s] \in Session_ /\ run[s].pc = "manual" /\ i \in IssueRecord
    BY <1>0, <1>7, Works DEF HelpManual, Holding
  <2>2. U \in SUBSET Unit
    BY <2>1 DEF Session_, IssueRecord
  <2>3. r = [run[s] EXCEPT !.pc = "survey", !.issue = None,
                           !.undone = IF Undone(i) THEN @ \cup {i.unit} ELSE @]
    BY <2>1 DEF Session_
  <2>4. SaveLabels(s, i, WithManual(i), WithBlocked(i), r)
    BY <1>7, <2>3 DEF HelpManual
  <2>5. judged' = [judged EXCEPT ![i.unit] = [left |-> Left(i), undone |-> Undone(i)]]
    BY <1>7 DEF HelpManual
  <2> HIDE DEF U
  <2>6. r \in Session_
    BY <1>1, <2>1, <2>2
  <2>7. r.pc = "survey" /\ r.quiet = run[s].quiet /\ r.todo = run[s].todo /\ r.undone = U
    BY <2>1 DEF Session_
  <2> HIDE DEF r
  <2> QED
    BY <2>1, <2>4, <2>5, <2>6, <2>7 DEF U
<1>8. ASSUME Surveyed(s)
      PROVE  /\ run[s] \in Session_ /\ run[s].pc = "survey" /\ run[s].todo = {}
             /\ \E r \in Session_ : /\ run' = [run EXCEPT ![s] = r]
                                    /\ r.pc = "closed" /\ r.quiet = run[s].quiet
                                    /\ r.undone = run[s].undone
  <2> DEFINE r == [run[s] EXCEPT !.pc = "closed"]
  <2>1. run[s] \in Session_ /\ run[s].pc = "survey" /\ run[s].todo = {}
    BY <1>0, <1>8, Works DEF Surveyed
  <2>2. run' = [run EXCEPT ![s] = r] /\ r.pc = "closed" /\ r.quiet = run[s].quiet /\ r.undone = run[s].undone
    BY <1>0, <1>8, <2>1 DEF Surveyed, RunType, Session_
  <2>3. r \in Session_
    BY <1>1, <2>1
  <2> HIDE DEF r
  <2> QED
    BY <2>1, <2>2, <2>3
<1>9. ASSUME Count(s)
      PROVE  /\ run[s] \in Session_ /\ run[s].pc \in Query
             /\ \E r \in Session_ : /\ run' = [run EXCEPT ![s] = r]
                                    /\ r.pc = NextQuery[run[s].pc] /\ r.quiet = run[s].quiet
                                    /\ r.counts = [run[s].counts EXCEPT ![run[s].pc] = Answer(run[s].pc)]
                                    /\ r.undone = run[s].undone
  <2> DEFINE n == [run[s].counts EXCEPT ![run[s].pc] = Answer(run[s].pc)]
             r == [run[s] EXCEPT !.counts = n, !.pc = NextQuery[run[s].pc]]
  <2>1. run[s] \in Session_ /\ run[s].pc \in Query
    BY <1>0, <1>9, Works DEF Count, Query, Idle
  <2>2. run[s].counts \in Counts
    BY <2>1 DEF Session_
  <2>3. n \in Counts
    BY <2>1, <2>2, CountsTyped, AnswerTyped
  <2>4. NextQuery[run[s].pc] \in Query \cup {"read"}
    BY <2>1 DEF NextQuery, Query
  <2>5. run' = [run EXCEPT ![s] = r]
    BY <1>0, <1>9, <2>1, <2>2 DEF Count, RunType, Session_
  <2> HIDE DEF n
  <2>6. /\ r \in Session_ /\ r.pc = NextQuery[run[s].pc] /\ r.quiet = run[s].quiet /\ r.counts = n
        /\ r.undone = run[s].undone
    BY <2>1, <2>3, <2>4 DEF Session_
  <2> HIDE DEF r
  <2> QED
    BY <2>1, <2>5, <2>6 DEF n
<1>10. ASSUME ReadProject(s)
       PROVE  /\ run[s] \in Session_ /\ run[s].pc = "read"
              /\ \E r \in Session_ : /\ run' = [run EXCEPT ![s] = r]
                                     /\ r.pc = "save" /\ r.quiet = run[s].quiet
                                     /\ r.counts = run[s].counts /\ r.undone = run[s].undone
  <2> DEFINE r == [run[s] EXCEPT !.pc = "save", !.text = description]
  <2>1. run[s] \in Session_ /\ run[s].pc = "read"
    BY <1>0, <1>10, Works DEF ReadProject
  <2>2. run' = [run EXCEPT ![s] = r]
    BY <1>0, <1>10, <2>1 DEF ReadProject, RunType, Session_
  <2>3. /\ r \in Session_ /\ r.pc = "save" /\ r.quiet = run[s].quiet /\ r.counts = run[s].counts
        /\ r.undone = run[s].undone
    BY <1>0, <2>1 DEF Session_
  <2> HIDE DEF r
  <2> QED
    BY <2>1, <2>2, <2>3
<1>11. SaveProject(s) =>
         run[s] \in Session_ /\ run[s].pc = "save" /\ run' = Disturb([run EXCEPT ![s] = Idle], s)
  BY <1>0, Works DEF SaveProject
<1>12. ASSUME Accept(s)
       PROVE  /\ run[s] \in Session_ /\ run[s].pc = "accept" /\ run[s].issue \in IssueRecord
              /\ \E r \in Session_ : /\ run' = Disturb([run EXCEPT ![s] = r], s)
                                     /\ r.pc = "clear" /\ r.issue = run[s].issue
  <2> DEFINE r == [run[s] EXCEPT !.pc = "clear"]
  <2>1. run[s] \in Session_ /\ run[s].pc = "accept" /\ run[s].issue \in IssueRecord
    BY <1>0, <1>12, Works DEF Accept, Holding
  <2>2. [run EXCEPT ![s].pc = "clear"] = [run EXCEPT ![s] = r]
    BY <1>0, <2>1 DEF RunType, Session_
  <2>3. r \in Session_ /\ r.pc = "clear" /\ r.issue = run[s].issue
    BY <2>1 DEF Session_
  <2> HIDE DEF r
  <2>4. run' = Disturb([run EXCEPT ![s] = r], s)
    BY <1>12, <2>2 DEF Accept
  <2> QED
    BY <2>1, <2>3, <2>4
<1>13. Clear(s) => /\ run[s] \in Session_ /\ run[s].pc = "clear" /\ run[s].issue \in IssueRecord
                   /\ run' = Disturb([run EXCEPT ![s] = Idle], s)
  BY <1>0, Works DEF Clear, Holding
<1> QED
  BY <1>2, <1>3, <1>4, <1>5, <1>7, <1>8, <1>9, <1>10, <1>11, <1>12, <1>13

-------------------------------------------------------------------------------
(* The types *)

\* A session that moves keeps what it has read, if it still needs it.
LEMMA HoldingKept ==
  ASSUME RunType, Holding
  PROVE  /\ \A s \in Session : \A r \in Session_ \cup {Idle} :
              /\ r.pc \in {"blocked", "manual", "accept", "clear"} => r.issue \in IssueRecord
              /\ run' = [run EXCEPT ![s] = r] \/ run' = Disturb([run EXCEPT ![s] = r], s)
              => RunType' /\ Holding'
         /\ run' = Disturb(run, None) => RunType' /\ Holding'
<1>1. \A t \in Session :
        /\ run'[t] = run[t] \/ Spoils(t)
        /\ run[t].pc \in {"blocked", "manual", "accept", "clear"} => run[t].issue \in IssueRecord
        => (run'[t].pc \in {"blocked", "manual", "accept", "clear"} => run'[t].issue \in IssueRecord)
  BY Spoiled DEF Spoils
<1>2. \A t \in Session : run[t].pc \in {"blocked", "manual", "accept", "clear"} => run[t].issue \in IssueRecord
  BY DEF Holding
<1>3. ASSUME NEW s \in Session, NEW r \in Session_ \cup {Idle},
             r.pc \in {"blocked", "manual", "accept", "clear"} => r.issue \in IssueRecord,
             run' = [run EXCEPT ![s] = r] \/ run' = Disturb([run EXCEPT ![s] = r], s)
      PROVE  RunType' /\ Holding'
  <2>1. RunType'
    BY <1>3, RunTyped
  <2>2. run'[s] = r /\ \A t \in Session \ {s} : run'[t] = run[t] \/ Spoils(t)
    BY <1>3, OneMoves DEF Takes
  <2>3. Holding'
    BY <1>1, <1>2, <1>3, <2>2 DEF Holding
  <2> QED
    BY <2>1, <2>3
<1>4. ASSUME run' = Disturb(run, None) PROVE RunType' /\ Holding'
  <2>1. RunType'
    BY <1>4, RunTyped
  <2>2. \A t \in Session : run'[t] = run[t] \/ Spoils(t)
    BY <1>4, AllStirred
  <2>3. Holding'
    BY <1>1, <1>2, <2>2 DEF Holding
  <2> QED
    BY <2>1, <2>3
<1> QED
  BY <1>3, <1>4

\* Every step leaves the sessions well-formed.
LEMMA RunStep ==
  ASSUME TypeOK, Holding, [Next]_vars
  PROVE  RunType' /\ Holding'
<1>0. /\ RunType /\ labels \in [Unit -> SUBSET Label] /\ type \in [Unit -> Category]
      /\ ac \in [Unit -> Criteria]
  BY DEF TypeOK, RunType
<1>1. \A u \in Unit : Issue(u) \in IssueRecord
  BY <1>0, IssueIsTyped
<1>2. ASSUME NEW s \in Session, NEW r \in Session_ \cup {Idle},
             r.pc \in {"blocked", "manual", "accept", "clear"} => r.issue \in IssueRecord,
             run' = [run EXCEPT ![s] = r] \/ run' = Disturb([run EXCEPT ![s] = r], s)
      PROVE  RunType' /\ Holding'
  BY <1>0, <1>2, HoldingKept
<1>3. Idle.pc = "idle" /\ \A q \in Query : NextQuery[q] \in Query \cup {"read"}
  BY DEF Idle, NextQuery, Query
<1>4. ASSUME NEW s \in Session, Begin(s) \/ Surveyed(s) \/ ReadProject(s) PROVE RunType' /\ Holding'
  BY <1>2, <1>4, After
<1>5. ASSUME NEW s \in Session, Count(s) PROVE RunType' /\ Holding'
  BY <1>2, <1>3, <1>5, After DEF Query
<1>6. ASSUME NEW s \in Session, NEW u \in Unit, Inspect(s, u) \/ Review(s, u) PROVE RunType' /\ Holding'
  <2>1. \A v \in Unit : Inspect(s, v) =>
          /\ run[s] \in Session_ /\ run[s].pc = "survey" /\ v \in run[s].todo
          /\ \E r \in Session_ : /\ run' = [run EXCEPT ![s] = r]
                                 /\ r.pc = "blocked" /\ r.quiet = run[s].quiet
                                 /\ r.issue = Issue(v) /\ r.todo = run[s].todo \ {v}
                                 /\ r.undone = run[s].undone
    BY After
  <2>2. \A v \in Unit : Review(s, v) =>
          \E r \in Session_ : /\ run' = [run EXCEPT ![s] = r]
                              /\ r.pc = "accept" /\ r.issue = Issue(v)
    BY After
  <2>3. PICK r \in Session_ : run' = [run EXCEPT ![s] = r] /\ r.issue = Issue(u)
    BY <1>6, <2>1, <2>2
  <2>4. r.issue \in IssueRecord
    BY <1>1, <2>3
  <2> QED
    BY <1>2, <2>3, <2>4
<1>7. ASSUME NEW s \in Session, NEW copy, NEW after, NEW reads, NEW r \in Session_,
             SaveLabels(s, copy, after, reads, r), r.pc = "survey" \/ r.issue \in IssueRecord
      PROVE  RunType' /\ Holding'
  BY <1>2, <1>7 DEF SaveLabels
<1>8. ASSUME NEW s \in Session, HelpBlocked(s) PROVE RunType' /\ Holding'
  <2> DEFINE i == run[s].issue
  <2>1. i \in IssueRecord /\ \E r \in Session_ : SaveLabels(s, i, WithBlocked(i), i, r) /\ r.issue = i
    BY <1>8, After
  <2> HIDE DEF i
  <2>2. PICK r \in Session_ : SaveLabels(s, i, WithBlocked(i), i, r) /\ r.issue = i
    BY <2>1
  <2> QED
    BY <1>7, <2>1, <2>2
<1>9. ASSUME NEW s \in Session, HelpManual(s) PROVE RunType' /\ Holding'
  <2> DEFINE i == run[s].issue
  <2>1. \E r \in Session_ : SaveLabels(s, i, WithManual(i), WithBlocked(i), r) /\ r.pc = "survey"
    BY <1>9, After
  <2> HIDE DEF i
  <2>2. PICK r \in Session_ : SaveLabels(s, i, WithManual(i), WithBlocked(i), r) /\ r.pc = "survey"
    BY <2>1
  <2> QED
    BY <1>7, <2>2
<1>10. ASSUME NEW s \in Session, SaveProject(s) \/ Accept(s) \/ Clear(s) PROVE RunType' /\ Holding'
  BY <1>2, <1>3, <1>10, After
<1>11. ASSUME NEW s \in Session, Stop(s) PROVE RunType' /\ Holding'
  BY <1>2, <1>3, <1>11 DEF Stop
<1>12. ASSUME People \/ \E d \in Drafts : WriteProse(d) PROVE RunType' /\ Holding'
  BY <1>0, <1>12, HoldingKept DEF People, Move, Reword, Relabel, WriteProse
<1>13. CASE UNCHANGED vars
  BY <1>0, <1>13 DEF vars, RunType, Holding
<1> QED
  BY <1>4, <1>5, <1>6, <1>8, <1>9, <1>10, <1>11, <1>12, <1>13 DEF Next, Step

\* The types but for that of run.
RestType ==
  /\ labels \in [Unit -> SUBSET Label] /\ type \in [Unit -> Category] /\ ac \in [Unit -> Criteria]
  /\ description \in Seq(Line) /\ edits \in 0 .. MaxEdits
  /\ judged \in [Unit -> [left : IssueRecord, undone : BOOLEAN] \cup {None}]

\* Every step leaves Linear and the histories well-formed.
LEMMA RestTypeStep ==
  ASSUME TypeOK, Holding, [Next]_vars
  PROVE  RestType'
<1>0. RunType /\ RestType
  BY DEF TypeOK, RunType, RestType
<1>1. Edited => edits' \in 0 .. MaxEdits
  BY <1>0, BoundsAssumption DEF Edited, RestType
<1>2. ASSUME UNCHANGED <<labels, type, ac, description, judged>>, edits' \in 0 .. MaxEdits PROVE RestType'
  BY <1>0, <1>2 DEF RestType
<1>3. edits \in 0 .. MaxEdits
  BY <1>0 DEF RestType
<1>4. ASSUME NEW s \in Session,
             \/ Begin(s) \/ Surveyed(s) \/ Count(s) \/ ReadProject(s) \/ Stop(s)
             \/ \E u \in Unit : Inspect(s, u) \/ Review(s, u)
      PROVE  RestType'
  <2>1. UNCHANGED <<labels, type, ac, description, judged>> /\ (edits' = edits \/ Edited)
    BY <1>4 DEF Begin, Surveyed, Count, ReadProject, Stop, Inspect, Review, linear, history
  <2> QED
    BY <1>1, <1>2, <1>3, <2>1
<1>5. ASSUME NEW s, NEW copy \in IssueRecord, NEW after \in IssueRecord, NEW reads, NEW r,
             SaveLabels(s, copy, after, reads, r)
      PROVE  labels' \in [Unit -> SUBSET Label]
  <2>1. copy.unit \in Unit /\ after.labels \in SUBSET Label
    BY DEF IssueRecord
  <2> QED
    BY <1>0, <1>5, <2>1 DEF SaveLabels, RestType
<1>6. ASSUME NEW s \in Session, HelpBlocked(s) PROVE RestType'
  <2>1. labels' \in [Unit -> SUBSET Label]
    BY <1>5, <1>6, After, HelpersTell
  <2> QED
    BY <1>0, <1>6, <2>1 DEF HelpBlocked, RestType
<1>7. ASSUME NEW s \in Session, HelpManual(s) PROVE RestType'
  <2> DEFINE i == run[s].issue
  <2>1. i \in IssueRecord /\ judged' = [judged EXCEPT ![i.unit] = [left |-> Left(i), undone |-> Undone(i)]]
    BY <1>7, After
  <2>2. labels' \in [Unit -> SUBSET Label]
    BY <1>5, <1>7, After, HelpersTell
  <2>3. i.unit \in Unit
    BY <2>1 DEF IssueRecord
  <2> DEFINE j == [left |-> Left(i), undone |-> Undone(i)]
  <2>4. j \in [left : IssueRecord, undone : BOOLEAN]
    <3>1. Left(i) \in IssueRecord /\ Undone(i) \in BOOLEAN
      BY <2>1, HelpersTell DEF Left, Undone
    <3> QED
      BY <3>1
  <2>5. judged' = [judged EXCEPT ![i.unit] = j]
    BY <2>1
  <2>6. UNCHANGED <<type, ac, description, edits>>
    BY <1>7 DEF HelpManual
  <2> HIDE DEF i, j
  <2>7. judged' \in [Unit -> [left : IssueRecord, undone : BOOLEAN] \cup {None}]
    BY <1>0, <2>3, <2>4, <2>5 DEF RestType
  <2> QED
    BY <1>0, <2>2, <2>6, <2>7 DEF RestType
<1>8. ASSUME NEW s \in Session, SaveProject(s) PROVE RestType'
  <2>1. run[s] \in Session_
    BY <1>8, After
  <2>2. Splice(run[s].text, Block(run[s].counts)) \in Seq(Line)
    BY <2>1, SpliceTyped, LineTyped DEF Session_
  <2> QED
    BY <1>0, <1>8, <2>2 DEF SaveProject, RestType
<1>9. ASSUME NEW s \in Session, Accept(s) PROVE RestType'
  <2>1. run[s].issue.unit \in Unit
    BY <1>9, After DEF IssueRecord
  <2> QED
    BY <1>0, <1>9, <2>1 DEF Accept, RestType, Category, history
<1>10. ASSUME NEW s \in Session, Clear(s) PROVE RestType'
  <2>1. run[s].issue.unit \in Unit /\ run[s].issue.labels \in SUBSET Label
    BY <1>10, After DEF IssueRecord
  <2> QED
    BY <1>0, <1>10, <2>1 DEF Clear, RestType
<1>11. ASSUME NEW u \in Unit, NEW t \in Category, Move(u, t) PROVE RestType'
  BY <1>0, <1>1, <1>11 DEF Move, RestType
<1>12. ASSUME NEW u \in Unit, NEW c \in Criteria, Reword(u, c) PROVE RestType'
  BY <1>0, <1>1, <1>12 DEF Reword, RestType, history
<1>13. ASSUME NEW u \in Unit, NEW l \in Label, Relabel(u, l) PROVE RestType'
  BY <1>0, <1>1, <1>13 DEF Relabel, RestType
<1>14. ASSUME NEW d \in Drafts, WriteProse(d) PROVE RestType'
  <2>1. d \in Seq(Line)
    BY <1>0, DraftsTyped DEF RestType
  <2> QED
    BY <1>0, <1>1, <1>14, <2>1 DEF WriteProse, RestType
<1>15. CASE UNCHANGED vars
  BY <1>2, <1>3, <1>15 DEF vars, linear, history
<1> QED
  BY <1>4, <1>6, <1>7, <1>8, <1>9, <1>10, <1>11, <1>12, <1>13, <1>14, <1>15 DEF Next, Step, People

\* The types are inductive together with what the sessions hold.
LEMMA TypeStep ==
  ASSUME TypeOK, Holding, [Next]_vars
  PROVE  TypeOK' /\ Holding'
BY RunStep, RestTypeStep DEF TypeOK, RunType, RestType

\* The types hold at the start.
LEMMA TypeInit == Init => TypeOK /\ Holding
<1>1. SUFFICES ASSUME Init PROVE TypeOK /\ Holding
  OBVIOUS
<1>2. /\ labels \in [Unit -> SUBSET Label] /\ type \in [Unit -> Category] /\ ac \in [Unit -> Criteria]
      /\ description \in Seq(Line)
  BY <1>1, WorkspacesAssumption DEF Init
<1>3. Holding
  BY <1>1 DEF Init, Holding, Idle
<1> QED
  BY <1>1, <1>2, <1>3, BoundsAssumption DEF Init, TypeOK

\* Every variable keeps its type: what is spliced into the description, in particular,
\* stays a description.
THEOREM TypeCorrect == Spec => []TypeOK
<1>1. Spec => Init /\ [][Next]_vars
  BY DEF Spec
<1> QED
  BY <1>1, TypeInit, TypeStep, PTL

-------------------------------------------------------------------------------
(* The labels people put on a unit *)

HistoryType == owed \in [Unit -> SUBSET Label] /\ orderly \in [Unit -> BOOLEAN] /\ accepted \subseteq Unit

\* An accepted unit is still completed: who moves it takes it out of accepted.
Kept(u) == orderly[u] => /\ labels[u] \ Signal = owed[u] \ Signal
                         /\ u \in accepted => type[u] = "completed" /\ "manual-pending" \notin labels[u]

\* The state of one unit that Kept looks at.
Stays(u) == /\ labels'[u] = labels[u] /\ owed'[u] = owed[u] /\ type'[u] = type[u]
            /\ orderly'[u] => orderly[u]
            /\ u \in accepted' => u \in accepted

\* A helper that writes its labels keeps everybody else's.
LEMMA KeptByWrite ==
  ASSUME TypeOK, HistoryType, \A u \in Unit : Kept(u),
         NEW i \in IssueRecord, NEW after \in IssueRecord, NEW reads, NEW s, NEW r,
         ~Guarded(i) => after = i, after.labels \ Signal = i.labels \ Signal,
         reads.labels \ Signal = i.labels \ Signal, reads.type = i.type,
         SaveLabels(s, i, after, reads, r), UNCHANGED <<owed, accepted, type>>
  PROVE  HistoryType' /\ \A u \in Unit : Kept(u)'
<1>1. i.unit \in Unit /\ i.labels \in SUBSET Label /\ after.labels \in SUBSET Label
  BY DEF IssueRecord
<1>2. HistoryType'
  BY <1>1 DEF SaveLabels, HistoryType
<1>3. ASSUME NEW u \in Unit, u # i.unit PROVE Kept(u)'
  BY <1>1, <1>3 DEF SaveLabels, Kept, HistoryType, TypeOK
<1>4. ASSUME after = i PROVE Kept(i.unit)'
  BY <1>1, <1>4 DEF SaveLabels, Kept, HistoryType, TypeOK
<1>5. ASSUME after # i PROVE Kept(i.unit)'
  <2>1. Guarded(i)
    BY <1>5
  <2>2. /\ labels'[i.unit] = after.labels
        /\ orderly'[i.unit] => orderly[i.unit] /\ Issue(i.unit) = reads
    BY <1>1, <1>5 DEF SaveLabels, HistoryType, TypeOK
  <2>3. Issue(i.unit) = reads => labels[i.unit] = reads.labels /\ type[i.unit] = reads.type
    BY DEF Issue
  <2>4. i.type # "completed"
    BY <2>1 DEF Guarded, Active
  <2> QED
    BY <1>1, <2>2, <2>3, <2>4 DEF Kept
<1> QED
  BY <1>2, <1>3, <1>4, <1>5

\* Every step keeps the labels of a unit nobody wrote from an old copy of.
LEMMA KeptStep ==
  ASSUME TypeOK, Holding, HistoryType, \A u \in Unit : Kept(u), [Next]_vars
  PROVE  HistoryType' /\ \A u \in Unit : Kept(u)'
<1>0. /\ labels \in [Unit -> SUBSET Label] /\ type \in [Unit -> Category] /\ owed \in [Unit -> SUBSET Label]
      /\ orderly \in [Unit -> BOOLEAN] /\ accepted \subseteq Unit
  BY DEF TypeOK, HistoryType
<1>1. \A u \in Unit : Stays(u) => Kept(u)'
  BY DEF Stays, Kept
<1>2. ASSUME UNCHANGED <<labels, type, owed, orderly, accepted>> PROVE HistoryType' /\ \A u \in Unit : Kept(u)'
  BY <1>2 DEF Kept, HistoryType
<1>3. ASSUME NEW s \in Session,
             \/ Begin(s) \/ Surveyed(s) \/ Count(s) \/ ReadProject(s) \/ SaveProject(s) \/ Stop(s)
             \/ \E u \in Unit : Inspect(s, u) \/ Review(s, u)
      PROVE  HistoryType' /\ \A u \in Unit : Kept(u)'
  <2>1. UNCHANGED <<labels, type, owed, orderly, accepted>>
    BY <1>3 DEF Begin, Surveyed, Count, ReadProject, SaveProject, Stop, Inspect, Review, linear, history
  <2> QED
    BY <1>2, <2>1
\* A helper leaves alone the labels that are no signal.
<1>. DEFINE Plainly(x, i) == x.labels \ Signal = i.labels \ Signal /\ x.type = i.type
<1>a. ASSUME NEW i \in IssueRecord
      PROVE  /\ WithBlocked(i) \in IssueRecord /\ WithManual(i) \in IssueRecord
             /\ ~Guarded(i) => WithBlocked(i) = i /\ WithManual(i) = i
             /\ Plainly(WithBlocked(i), i) /\ Plainly(WithManual(i), i)
  <2>1. /\ WithBlocked(i) \in IssueRecord /\ WithManual(i) \in IssueRecord
        /\ ~Guarded(i) => WithBlocked(i) = i /\ WithManual(i) = i
    BY HelpersTell
  <2>2. /\ i.labels \subseteq Label /\ WithBlocked(i).labels \subseteq Label
        /\ WithManual(i).labels \subseteq Label
    BY <2>1 DEF IssueRecord
  <2>3. /\ \A m \in Label \ {"blocked"} : m \in WithBlocked(i).labels <=> m \in i.labels
        /\ \A m \in Label \ {"manual-pending"} : m \in WithManual(i).labels <=> m \in i.labels
    BY HelpersTell
  <2>4. /\ WithBlocked(i).labels \ Signal = i.labels \ Signal
        /\ WithManual(i).labels \ Signal = i.labels \ Signal
    BY <2>2, <2>3 DEF Signal
  <2>5. WithBlocked(i).type = i.type /\ WithManual(i).type = i.type
    <3>1. \A x : x = [i EXCEPT !.labels = x.labels] => x.type = i.type
      BY DEF IssueRecord
    <3>2. WithBlocked(i) = [i EXCEPT !.labels = WithBlocked(i).labels]
      BY HelpersTell
    <3>3. WithManual(i) = [i EXCEPT !.labels = WithManual(i).labels]
      BY HelpersTell
    <3> QED
      BY <3>1, <3>2, <3>3
  <2> QED
    BY <2>1, <2>4, <2>5
<1>4. ASSUME NEW s \in Session, HelpBlocked(s) PROVE HistoryType' /\ \A u \in Unit : Kept(u)'
  <2>1. PICK i \in IssueRecord : i = run[s].issue
    BY <1>4, After
  <2>2. \E r \in Session_ : SaveLabels(s, i, WithBlocked(i), i, r)
    BY <1>4, <2>1, After
  <2>3. UNCHANGED <<owed, accepted, type>>
    BY <1>4 DEF HelpBlocked
  <2> QED
    BY <1>a, <2>2, <2>3, KeptByWrite
<1>5. ASSUME NEW s \in Session, HelpManual(s) PROVE HistoryType' /\ \A u \in Unit : Kept(u)'
  <2>1. PICK i \in IssueRecord : i = run[s].issue
    BY <1>5, After
  <2>2. \E r \in Session_ : SaveLabels(s, i, WithManual(i), WithBlocked(i), r)
    BY <1>5, <2>1, After
  <2>3. UNCHANGED <<owed, accepted, type>>
    BY <1>5 DEF HelpManual
  <2> QED
    BY <1>a, <2>2, <2>3, KeptByWrite
<1>6. ASSUME NEW s \in Session, Accept(s) PROVE HistoryType' /\ \A u \in Unit : Kept(u)'
  BY <1>0, <1>6 DEF Accept, history, Kept, HistoryType
<1>7. ASSUME NEW s \in Session, Clear(s) PROVE HistoryType' /\ \A u \in Unit : Kept(u)'
  <2>1. PICK i \in IssueRecord : i = run[s].issue
    BY <1>7, After
  <2>2. i.unit \in Unit /\ i.labels \in SUBSET Label
    BY DEF IssueRecord
  <2>3. /\ labels' = IF "manual-pending" \in i.labels
                     THEN [labels EXCEPT ![i.unit] = i.labels \ {"manual-pending"}] ELSE labels
        /\ orderly' = [orderly EXCEPT ![i.unit] = @ /\ labels[i.unit] = i.labels]
        /\ accepted' = IF type[i.unit] = "completed" THEN accepted \cup {i.unit} ELSE accepted
        /\ UNCHANGED <<owed, type>>
    BY <1>7, <2>1 DEF Clear
  <2>4. HistoryType'
    BY <1>0, <2>2, <2>3 DEF HistoryType
  <2>5. \A u \in Unit \ {i.unit} : Stays(u)
    BY <1>0, <2>2, <2>3 DEF Stays
  <2>6. /\ orderly'[i.unit] => orderly[i.unit] /\ labels[i.unit] = i.labels
        /\ labels'[i.unit] = IF "manual-pending" \in i.labels THEN i.labels \ {"manual-pending"}
                                                              ELSE labels[i.unit]
        /\ i.unit \in accepted' => i.unit \in accepted \/ type[i.unit] = "completed"
    BY <1>0, <2>2, <2>3
  <2>7. Kept(i.unit)'
    BY <2>2, <2>3, <2>6 DEF Kept, Signal
  <2> QED
    BY <1>1, <2>2, <2>4, <2>5, <2>7
<1>8. ASSUME NEW u \in Unit, NEW t \in Category, Move(u, t) PROVE HistoryType' /\ \A v \in Unit : Kept(v)'
  BY <1>0, <1>8 DEF Move, Kept, HistoryType
<1>9. ASSUME NEW u \in Unit, NEW c \in Criteria, Reword(u, c) PROVE HistoryType' /\ \A v \in Unit : Kept(v)'
  BY <1>2, <1>9 DEF Reword, history
<1>10. ASSUME NEW u \in Unit, NEW l \in Label, Relabel(u, l) PROVE HistoryType' /\ \A v \in Unit : Kept(v)'
  <2> DEFINE flip(S) == IF l \in labels[u] THEN S \ {l} ELSE S \cup {l}
  <2>1. /\ labels' = [labels EXCEPT ![u] = flip(@)] /\ owed' = [owed EXCEPT ![u] = flip(@)]
        /\ accepted' = accepted \ {u} /\ UNCHANGED <<type, orderly>>
    BY <1>10 DEF Relabel
  <2>2. \A S \in SUBSET Label : flip(S) \in SUBSET Label
    OBVIOUS
  <2>3. \A S, T \in SUBSET Label : S \ Signal = T \ Signal => flip(S) \ Signal = flip(T) \ Signal
    OBVIOUS
  <2> HIDE DEF flip
  <2>4. HistoryType'
    BY <1>0, <2>1, <2>2 DEF HistoryType
  <2>5. labels'[u] = flip(labels[u]) /\ owed'[u] = flip(owed[u])
    BY <1>0, <2>1
  <2>6. Kept(u)'
    BY <1>0, <2>1, <2>3, <2>5 DEF Kept
  <2>7. \A v \in Unit \ {u} : Stays(v)
    BY <1>0, <2>1 DEF Stays
  <2> QED
    BY <1>1, <2>4, <2>6, <2>7
<1>11. ASSUME NEW d \in Drafts, WriteProse(d) PROVE HistoryType' /\ \A v \in Unit : Kept(v)'
  BY <1>2, <1>11 DEF WriteProse
<1>12. CASE UNCHANGED vars
  BY <1>2, <1>12 DEF vars, linear, history
<1> QED
  BY <1>3, <1>4, <1>5, <1>6, <1>7, <1>8, <1>9, <1>10, <1>11, <1>12 DEF Next, Step, People

\* However many sessions evaluate, review and clear, and whatever people do meanwhile: a
\* unit no session wrote from an old copy keeps the labels people gave it, and waits on
\* nobody once it is accepted.
THEOREM LabelsAreKept == Spec => []UnrelatedKept
<1> DEFINE Inv == TypeOK /\ Holding /\ HistoryType /\ \A u \in Unit : Kept(u)
<1>1. Init => Inv
  <2>1. SUFFICES ASSUME Init PROVE HistoryType /\ \A u \in Unit : Kept(u)
    BY TypeInit
  <2> QED
    BY <2>1, TypeInit DEF Init, HistoryType, Kept, TypeOK
<1>2. Inv /\ [Next]_vars => Inv'
  BY TypeStep, KeptStep
<1>3. Inv => UnrelatedKept
  BY DEF Kept, UnrelatedKept
<1> HIDE DEF Inv
<1>4. Spec => Init /\ [][Next]_vars
  BY DEF Spec
<1> QED
  BY <1>1, <1>2, <1>3, <1>4, PTL

-------------------------------------------------------------------------------
(* The tag of a bullet *)

\* The elements of two sequences put together.
LEMMA Join ==
  ASSUME NEW S
  PROVE  \A x, y \in Seq(S) :
           /\ x \o y \in Seq(S) /\ Len(x \o y) = Len(x) + Len(y)
           /\ \A i \in 1 .. Len(x) : (x \o y)[i] = x[i]
           /\ \A i \in 1 .. Len(y) : (x \o y)[Len(x) + i] = y[i]
<1>1. SUFFICES ASSUME NEW x \in Seq(S), NEW y \in Seq(S)
               PROVE  /\ x \o y \in Seq(S) /\ Len(x \o y) = Len(x) + Len(y)
                      /\ \A i \in 1 .. Len(x) : (x \o y)[i] = x[i]
                      /\ \A i \in 1 .. Len(y) : (x \o y)[Len(x) + i] = y[i]
  OBVIOUS
<1> DEFINE t == x \o y
<1>2. /\ t \in Seq(S) /\ Len(t) = Len(x) + Len(y)
      /\ \A i \in 1 .. Len(x) + Len(y) : t[i] = IF i <= Len(x) THEN x[i] ELSE y[i - Len(x)]
  BY ConcatProperties
<1>3. Len(x) \in Nat /\ Len(y) \in Nat
  BY LenProperties
<1> HIDE DEF t
<1>4. \A i \in 1 .. Len(x) : t[i] = x[i]
  BY <1>2, <1>3
<1>5. \A i \in 1 .. Len(y) : t[Len(x) + i] = y[i]
  BY <1>2, <1>3
<1> QED
  BY <1>2, <1>4, <1>5 DEF t

\* What is left of a sequence when its first a elements and those from b + 1 to c go.
LEMMA Cut ==
  ASSUME NEW S, NEW t \in Seq(S), NEW a \in Nat, NEW b \in Nat, NEW c \in Nat, a <= b, b <= c, c <= Len(t)
  PROVE  LET r == SubSeq(t, a + 1, b) \o SubSeq(t, c + 1, Len(t))
         IN  /\ r \in Seq(S) /\ Len(r) = b - a + (Len(t) - c)
             /\ \A i \in 1 .. b - a : r[i] = t[a + i]
             /\ \A i \in 1 .. Len(t) - c : r[b - a + i] = t[c + i]
<1> DEFINE x == SubSeq(t, a + 1, b)
           y == SubSeq(t, c + 1, Len(t))
           r == x \o y
<1>1. Len(t) \in Nat /\ \A i \in 1 .. Len(t) : t[i] \in S
  BY LenProperties, ElementOfSeq
<1>2. /\ x \in Seq(S) /\ Len(x) = b - a
      /\ \A i \in 1 .. b - a : x[i] = t[a + i]
  <2>1. \A i \in a + 1 .. b : t[i] \in S
    BY <1>1
  <2>2. /\ x \in Seq(S) /\ Len(x) = IF a + 1 <= b THEN b - (a + 1) + 1 ELSE 0
        /\ \A i \in 1 .. b - (a + 1) + 1 : x[i] = t[a + 1 + i - 1]
    BY <2>1, SubSeqProperties
  <2> HIDE DEF x
  <2> QED
    BY <2>2
<1>3. /\ y \in Seq(S) /\ Len(y) = Len(t) - c
      /\ \A i \in 1 .. Len(t) - c : y[i] = t[c + i]
  <2>1. \A i \in c + 1 .. Len(t) : t[i] \in S
    BY <1>1
  <2>2. /\ y \in Seq(S) /\ Len(y) = IF c + 1 <= Len(t) THEN Len(t) - (c + 1) + 1 ELSE 0
        /\ \A i \in 1 .. Len(t) - (c + 1) + 1 : y[i] = t[c + 1 + i - 1]
    BY <1>1, <2>1, SubSeqProperties
  <2> HIDE DEF y
  <2> QED
    BY <1>1, <2>2
<1> HIDE DEF x, y
<1>4. /\ r \in Seq(S) /\ Len(r) = Len(x) + Len(y)
      /\ \A i \in 1 .. Len(x) : r[i] = x[i]
      /\ \A i \in 1 .. Len(y) : r[Len(x) + i] = y[i]
  <2>1. x \in Seq(S) /\ y \in Seq(S)
    BY <1>2, <1>3
  <2>2. \A v, w \in Seq(S) :
           /\ v \o w \in Seq(S) /\ Len(v \o w) = Len(v) + Len(w)
           /\ \A i \in 1 .. Len(v) : (v \o w)[i] = v[i]
           /\ \A i \in 1 .. Len(w) : (v \o w)[Len(v) + i] = w[i]
    BY Join
  <2> QED
    BY <2>1, <2>2, Zenon
<1> HIDE DEF r
<1>5. \A i \in 1 .. b - a : r[i] = t[a + i]
  BY <1>2, <1>4
<1>6. \A i \in 1 .. Len(t) - c : r[b - a + i] = t[c + i]
  BY <1>2, <1>3, <1>4
<1>7. Len(r) = b - a + (Len(t) - c)
  BY <1>2, <1>3, <1>4
<1> QED
  BY <1>4, <1>5, <1>6, <1>7 DEF r, x, y

\* A stored bullet starts with its tag, and with a space after it if one was written.
LEMMA StartsWith ==
  ASSUME NEW S, "body" \in S, NEW w \in Seq(S), NEW sp \in Seq(S), NEW m \in Seq(S), NEW first,
         \/ Len(sp) = 0 /\ first = "body"
         \/ Len(sp) = 1 /\ first = sp[1]
  PROVE  LET t == w \o sp \o <<"body">> \o m
         IN  /\ t \in Seq(S) /\ Len(t) \in Nat /\ Len(t) >= Len(w) + 1
             /\ \A i \in 1 .. Len(w) : t[i] = w[i]
             /\ t[Len(w) + 1] = first
<1> DEFINE body == <<"body">>
           a == w \o sp
           c == a \o body
           t == c \o m
<1>1. \/ Len(sp) = 0 /\ first = "body"
      \/ Len(sp) = 1 /\ first = sp[1]
  OBVIOUS
<1>2. body \in Seq(S) /\ Len(body) = 1 /\ body[1] = "body"
  OBVIOUS
<1>3. Len(w) \in Nat /\ Len(m) \in Nat
  BY LenProperties
<1>4. \A u, v \in Seq(S) :
        /\ u \o v \in Seq(S) /\ Len(u \o v) = Len(u) + Len(v)
        /\ \A i \in 1 .. Len(u) : (u \o v)[i] = u[i]
        /\ \A i \in 1 .. Len(v) : (u \o v)[Len(u) + i] = v[i]
  BY Join
<1> HIDE DEF body
<1>5. /\ a \in Seq(S) /\ Len(a) = Len(w) + Len(sp)
      /\ \A i \in 1 .. Len(w) : a[i] = w[i]
      /\ \A i \in 1 .. Len(sp) : a[Len(w) + i] = sp[i]
  BY <1>1, <1>4, Zenon
<1> HIDE DEF a
<1>6. /\ c \in Seq(S) /\ Len(c) = Len(a) + Len(body)
      /\ \A i \in 1 .. Len(a) : c[i] = a[i]
      /\ \A i \in 1 .. Len(body) : c[Len(a) + i] = body[i]
  BY <1>2, <1>4, <1>5, Zenon
<1> HIDE DEF c
<1>7. /\ t \in Seq(S) /\ Len(t) = Len(c) + Len(m)
      /\ \A i \in 1 .. Len(c) : t[i] = c[i]
  BY <1>4, <1>6, Zenon
<1> HIDE DEF t
<1>8. \A i \in 1 .. Len(w) : t[i] = w[i]
  BY <1>1, <1>2, <1>3, <1>5, <1>6, <1>7
<1>9. t[Len(w) + 1] = first
  BY <1>1, <1>2, <1>3, <1>5, <1>6, <1>7
<1>10. Len(t) \in Nat /\ Len(t) >= Len(w) + 1
  BY <1>1, <1>2, <1>3, <1>5, <1>6, <1>7
<1> QED
  BY <1>7, <1>8, <1>9, <1>10 DEF t, c, a, body

\* A member below all others is the least.
LEMMA LeastIs ==
  ASSUME NEW S, S \subseteq Nat, NEW k \in S, \A y \in S : k <= y
  PROVE  LeastOf(S) = k
<1>1. LeastOf(S) \in S /\ LeastOf(S) <= k
  BY Least
<1>2. k <= LeastOf(S) /\ LeastOf(S) \in Nat /\ k \in Nat
  BY <1>1
<1> QED
  BY <1>1, <1>2

\* A text that does not begin with a backtick begins with no code span.
LEMMA NoSpan ==
  ASSUME NEW S, NEW t \in Seq(S), Len(t) >= 1, t[1] # "tick"
  PROVE  StripSpan(t) = t
<1>1. {i \in DOMAIN t : \A j \in 1 .. i : t[j] = "tick"} = {}
  <2>1. DOMAIN t = 1 .. Len(t) /\ Len(t) \in Nat
    BY LenProperties
  <2> QED
    BY <2>1
<1>2. Cardinality({i \in DOMAIN t : \A j \in 1 .. i : t[j] = "tick"}) = 0
  BY <1>1, FS_EmptySet
<1> QED
  BY <1>2 DEF StripSpan

\* A token between one or two backticks on either side is taken out of them.
LEMMA SpanStripped ==
  ASSUME NEW S, NEW t \in Seq(S), NEW n \in {1, 2}, Len(t) >= 2 * n + 4,
         \A i \in 1 .. n : t[i] = "tick" /\ t[n + 3 + i] = "tick",
         t[n + 1] = "[", t[n + 2] # "]", t[n + 3] = "]"
  PROVE  /\ StripSpan(t) \in Seq(S) /\ Len(StripSpan(t)) = Len(t) - 2 * n
         /\ \A i \in 1 .. 3 : StripSpan(t)[i] = t[n + i]
         /\ StripSpan(t)[4] = t[2 * n + 4]
<1>1. Len(t) \in Nat /\ DOMAIN t = 1 .. Len(t)
  BY LenProperties
<1> DEFINE ticks == {i \in DOMAIN t : \A j \in 1 .. i : t[j] = "tick"}
           closes == {k \in n + 2 .. Len(t) - n : t[k] = "]" /\ \A j \in 1 .. n : t[k + j] = "tick"}
           k == LeastOf(closes)
<1>2. Cardinality(ticks) = n
  <2>1. \A i \in ticks : i <= n
    BY <1>1
  <2>2. ticks = 1 .. n
    BY <1>1, <2>1
  <2>3. Cardinality(1 .. n) = IF 1 > n THEN 0 ELSE n - 1 + 1
    BY FS_Interval
  <2> HIDE DEF ticks
  <2> QED
    BY <2>2, <2>3
<1>3. closes # {} /\ k = n + 3
  <2>1. n + 3 \in closes /\ closes \subseteq Nat
    BY <1>1
  <2>2. \A y \in closes : n + 3 <= y
    BY <1>1
  <2> HIDE DEF closes
  <2> QED
    BY <2>1, <2>2, LeastIs
<1>4. StripSpan(t) = SubSeq(t, n + 1, n + 3) \o SubSeq(t, 2 * n + 3 + 1, Len(t))
  <2>1. StripSpan(t) = IF n > 0 /\ n < Len(t) /\ t[n + 1] = "[" /\ closes # {}
                       THEN SubSeq(t, n + 1, k) \o SubSeq(t, k + n + 1, Len(t))
                       ELSE t
    <3> HIDE DEF ticks
    <3> QED
      BY <1>2 DEF StripSpan, ticks
  <2> HIDE DEF closes, k
  <2>2. k + n + 1 = 2 * n + 3 + 1 /\ n > 0 /\ n < Len(t)
    BY <1>1, <1>3
  <2> QED
    BY <1>3, <2>1, <2>2
<1> DEFINE r == SubSeq(t, n + 1, n + 3) \o SubSeq(t, 2 * n + 3 + 1, Len(t))
<1>5. /\ n \in Nat /\ n + 3 \in Nat /\ 2 * n + 3 \in Nat
      /\ n <= n + 3 /\ n + 3 <= 2 * n + 3 /\ 2 * n + 3 <= Len(t)
  BY <1>1
<1>6. /\ r \in Seq(S) /\ Len(r) = n + 3 - n + (Len(t) - (2 * n + 3))
      /\ \A i \in 1 .. n + 3 - n : r[i] = t[n + i]
      /\ \A i \in 1 .. Len(t) - (2 * n + 3) : r[n + 3 - n + i] = t[2 * n + 3 + i]
  BY <1>5, Cut
<1> HIDE DEF r
<1>7. Len(r) = Len(t) - 2 * n /\ \A i \in 1 .. 3 : r[i] = t[n + i]
  BY <1>1, <1>6
<1>8. r[4] = t[2 * n + 4]
  BY <1>1, <1>6
<1>9. StripSpan(t) = r
  BY <1>4 DEF r
<1> QED
  BY <1>6, <1>7, <1>8, <1>9

\* A text that begins with no escaped bracket is left as it is.
LEMMA NotEscaped ==
  ASSUME NEW S, NEW t \in Seq(S), Len(t) >= 1, t[1] # "esc"
  PROVE  Unescape(t) = t
<1>1. Len(t) \in Nat
  BY LenProperties
<1>2. CASE Len(t) < 2
  BY <1>2 DEF Unescape
<1>3. CASE ~ (Len(t) < 2)
  <2>1. \A i \in 1 .. 2 : t[i] \in S
    BY <1>1, <1>3, ElementOfSeq
  <2>2. SubSeq(t, 1, 2)[1] = t[1]
    <3>1. \A i \in 1 .. 2 - 1 + 1 : SubSeq(t, 1, 2)[i] = t[1 + i - 1]
      BY <2>1, SubSeqProperties
    <3> QED
      BY <3>1
  <2>3. SubSeq(t, 1, 2) # <<"esc", "[">>
    <3>1. \A x : x[1] # "esc" => x # <<"esc", "[">>
      OBVIOUS
    <3> QED
      BY <2>2, <3>1, Zenon
  <2> QED
    BY <2>3 DEF Unescape
<1> QED
  BY <1>2, <1>3

\* An escaped token loses its backslashes.
LEMMA EscapedStripped ==
  ASSUME NEW S, NEW t \in Seq(S), Len(t) >= 6,
         t[1] = "esc", t[2] = "[", t[3] # "esc", t[4] = "esc", t[5] = "]"
  PROVE  /\ Unescape(t) \in Seq(S) /\ Len(Unescape(t)) = Len(t) - 2
         /\ Unescape(t)[1] = "[" /\ Unescape(t)[2] = t[3] /\ Unescape(t)[3] = "]"
         /\ Unescape(t)[4] = t[6]
<1>1. Len(t) \in Nat /\ DOMAIN t = 1 .. Len(t) /\ \A i \in 1 .. Len(t) : t[i] \in S
  BY LenProperties, ElementOfSeq
<1> DEFINE head == SubSeq(t, 1, 2)
           rest == Tail(t)
           closes == {k \in 1 .. Len(rest) - 1 : rest[k] = "esc" /\ rest[k + 1] = "]"}
           k == LeastOf(closes)
           r == SubSeq(rest, 0 + 1, 2) \o SubSeq(rest, 3 + 1, Len(rest))
<1>2. head = <<"esc", "[">>
  <2>1. \A i \in 1 .. 2 : t[i] \in S
    BY <1>1
  <2>2. head \in Seq(S) /\ Len(head) = 2 - 1 + 1 /\ \A i \in 1 .. 2 - 1 + 1 : head[i] = t[1 + i - 1]
    BY <2>1, SubSeqProperties
  <2> HIDE DEF head
  <2>3. head[1] = "esc" /\ head[2] = "["
    BY <2>2
  <2> QED
    BY <2>2, <2>3
<1>3. /\ rest \in Seq(S) /\ Len(rest) = Len(t) - 1 /\ \A i \in 1 .. Len(t) - 1 : rest[i] = t[i + 1]
  <2>1. t # <<>>
    BY <1>1
  <2>2. rest \in Seq(S) /\ Len(rest) = Len(t) - 1 /\ \A i \in 1 .. Len(rest) : rest[i] = t[i + 1]
    BY <2>1, HeadTailProperties
  <2> HIDE DEF rest
  <2> QED
    BY <2>2
<1>4. Unescape(t) = IF Len(t) < 2 \/ head # <<"esc", "[">> THEN t
                    ELSE IF closes = {} THEN rest
                    ELSE SubSeq(rest, 1, k - 1) \o SubSeq(rest, k + 1, Len(rest))
  BY DEF Unescape
<1> HIDE DEF head, rest
<1>5. closes # {} /\ k = 3
  <2>1. 3 \in closes /\ closes \subseteq Nat
    BY <1>1, <1>3
  <2>2. \A y \in closes : 3 <= y
    BY <1>1, <1>3
  <2> HIDE DEF closes
  <2> QED
    BY <2>1, <2>2, LeastIs
<1> HIDE DEF closes, k
<1>6. Unescape(t) = r
  <2>1. k - 1 = 2 /\ k + 1 = 3 + 1 /\ 1 = 0 + 1 /\ ~ (Len(t) < 2)
    BY <1>1, <1>5
  <2> QED
    BY <1>2, <1>4, <1>5, <2>1
<1>7. 0 <= 2 /\ 2 <= 3 /\ 3 <= Len(rest)
  BY <1>1, <1>3
<1>8. /\ r \in Seq(S) /\ Len(r) = 2 - 0 + (Len(rest) - 3)
      /\ \A i \in 1 .. 2 - 0 : r[i] = rest[0 + i]
      /\ \A i \in 1 .. Len(rest) - 3 : r[2 - 0 + i] = rest[3 + i]
  BY <1>3, <1>7, Cut
<1> HIDE DEF r
<1>9. Len(r) = Len(t) - 2 /\ r[1] = t[2] /\ r[2] = t[3] /\ r[3] = t[5] /\ r[4] = t[6]
  <2>1. r[1] = rest[1] /\ r[2] = rest[2] /\ r[3] = rest[4] /\ r[4] = rest[5]
    <3>1. r[1] = rest[0 + 1] /\ r[2] = rest[0 + 2]
      BY <1>8
    <3>2. 1 \in 1 .. Len(rest) - 3 /\ 2 \in 1 .. Len(rest) - 3
      BY <1>1, <1>3
    <3>3. r[2 - 0 + 1] = rest[3 + 1] /\ r[2 - 0 + 2] = rest[3 + 2]
      BY <1>8, <3>2, Zenon
    <3> QED
      BY <3>1, <3>3
  <2>2. rest[1] = t[2] /\ rest[2] = t[3] /\ rest[4] = t[5] /\ rest[5] = t[6]
    BY <1>1, <1>3
  <2>3. Len(r) = Len(t) - 2
    BY <1>1, <1>3, <1>8
  <2> QED
    BY <2>1, <2>2, <2>3
<1> QED
  BY <1>6, <1>8, <1>9

\* What a stored bullet is made of.
Symbol == Kind \cup {"wip", "esc", "[", "]", "tick", "space", "body"}

\* A text whose tag has been laid bare is read by its tag.
LEMMA BareTag ==
  ASSUME NEW t, NEW n, n = Unescape(StripSpan(t)), Len(n) \in Nat, Len(n) >= 4, n[1] = "[", n[3] = "]"
  PROVE  ExtractKind(t) = "manual" <=> n[2] = "manual" /\ n[4] = "space"
BY DEF ExtractKind, Kind

\* What Linear makes of a bracketed word.
LEMMA BracketsTyped ==
  ASSUME NEW x \in Symbol
  PROVE  /\ Brackets(x) \in Seq(Symbol) /\ Len(Brackets(x)) = 5
         /\ Brackets(x)[1] = "esc" /\ Brackets(x)[2] = "[" /\ Brackets(x)[3] = x
         /\ Brackets(x)[4] = "esc" /\ Brackets(x)[5] = "]"
<1>1. "esc" \in Symbol /\ "[" \in Symbol /\ "]" \in Symbol
  BY DEF Symbol
<1> HIDE DEF Symbol
<1> QED
  BY <1>1 DEF Brackets

\* In whatever form Linear stored it, a bullet is read as manual exactly if that is what
\* its author tagged it with.
LEMMA TagsAreRead ==
  ASSUME NEW b \in Bullet
  PROVE  ExtractKind(Stored(b)) = "manual" <=> TaggedManual(b)
<1> DEFINE w == b.word
           m == IF b.mention THEN Brackets("manual") \o <<"space">> ELSE <<>>
           Tagged(x) == x \o (IF b.spaced THEN <<"space">> ELSE <<>>) \o <<"body">> \o m
<1>1. /\ b.word \in Symbol /\ b.word # "esc" /\ b.word # "[" /\ b.word # "]" /\ b.word # "tick"
      /\ b.wrap \in {"none", "bare", "span", "double"} /\ b.spaced \in BOOLEAN
  BY DEF Bullet, Symbol, Kind
<1>2. /\ "space" \in Symbol /\ "body" \in Symbol /\ "manual" \in Symbol
      /\ "tick" \in Symbol /\ "[" \in Symbol /\ "]" \in Symbol
  BY DEF Symbol, Kind
<1>3. m \in Seq(Symbol)
  <2>1. Brackets("manual") \in Seq(Symbol) /\ <<"space">> \in Seq(Symbol) /\ <<>> \in Seq(Symbol)
    BY <1>2, BracketsTyped
  <2>2. \A u, v \in Seq(Symbol) : u \o v \in Seq(Symbol)
    BY ConcatProperties
  <2> QED
    BY <2>1, <2>2, Zenon
<1> HIDE DEF m
<1>4. ASSUME NEW x \in Seq(Symbol)
      PROVE  /\ Tagged(x) \in Seq(Symbol) /\ Len(Tagged(x)) \in Nat /\ Len(Tagged(x)) >= Len(x) + 1
             /\ \A i \in 1 .. Len(x) : Tagged(x)[i] = x[i]
             /\ Tagged(x)[Len(x) + 1] = IF b.spaced THEN "space" ELSE "body"
  <2> DEFINE sp == IF b.spaced THEN <<"space">> ELSE <<>>
             first == IF b.spaced THEN "space" ELSE "body"
  <2>1. /\ sp \in Seq(Symbol)
        /\ \/ Len(sp) = 0 /\ first = "body"
           \/ Len(sp) = 1 /\ first = sp[1]
    BY <1>2
  <2> HIDE DEF sp, first
  <2>2. LET t == x \o sp \o <<"body">> \o m
        IN  /\ t \in Seq(Symbol) /\ Len(t) \in Nat /\ Len(t) >= Len(x) + 1
            /\ \A i \in 1 .. Len(x) : t[i] = x[i]
            /\ t[Len(x) + 1] = first
    BY <1>2, <1>3, <2>1, StartsWith
  <2> QED
    BY <2>2 DEF sp, first
<1>5. /\ b.wrap = "none" => Stored(b) = <<>> \o <<>> \o <<"body">> \o m
      /\ b.wrap = "bare" => Stored(b) = Tagged(Brackets(w))
      /\ b.wrap = "span" => Stored(b) = Tagged(<<"tick", "[", w, "]", "tick">>)
      /\ b.wrap = "double" => Stored(b) = Tagged(<<"tick", "tick", "[", w, "]", "tick", "tick">>)
  BY DEF Stored, m
<1> HIDE DEF Tagged
<1>6. CASE b.wrap = "none"
  <2> DEFINE t == <<>> \o <<>> \o <<"body">> \o m
  <2>1. t \in Seq(Symbol) /\ Len(t) \in Nat /\ Len(t) >= Len(<<>>) + 1 /\ t[Len(<<>>) + 1] = "body"
    <3>1. <<>> \in Seq(Symbol)
      BY EmptySeq
    <3>2. LET u == <<>> \o <<>> \o <<"body">> \o m
          IN  /\ u \in Seq(Symbol) /\ Len(u) \in Nat /\ Len(u) >= Len(<<>>) + 1
              /\ \A i \in 1 .. Len(<<>>) : u[i] = <<>>[i]
              /\ u[Len(<<>>) + 1] = "body"
      <4>1. Len(<<>>) = 0
        BY EmptySeq
      <4> QED
        BY <1>2, <1>3, <3>1, <4>1, StartsWith
    <3> QED
      BY <3>2
  <2> HIDE DEF t
  <2>2. Len(t) >= 1 /\ t[1] = "body"
    BY <2>1
  <2>3. StripSpan(t) = t
    BY <2>1, <2>2, NoSpan
  <2>4. Unescape(t) = t
    BY <2>1, <2>2, NotEscaped
  <2>5. ExtractKind(t) = "review"
    BY <2>2, <2>3, <2>4 DEF ExtractKind
  <2> QED
    BY <1>5, <1>6, <2>5 DEF TaggedManual, t
<1>7. CASE b.wrap = "bare"
  <2> DEFINE t == Tagged(Brackets(w))
             n == Unescape(t)
  <2>1. /\ t \in Seq(Symbol) /\ Len(t) \in Nat /\ Len(t) >= 6
        /\ \A i \in 1 .. 5 : t[i] = Brackets(w)[i]
        /\ t[6] = IF b.spaced THEN "space" ELSE "body"
    <3>1. Brackets(w) \in Seq(Symbol) /\ Len(Brackets(w)) = 5
      BY <1>1, BracketsTyped
    <3>2. /\ t \in Seq(Symbol) /\ Len(t) \in Nat /\ Len(t) >= Len(Brackets(w)) + 1
          /\ \A i \in 1 .. Len(Brackets(w)) : t[i] = Brackets(w)[i]
          /\ t[Len(Brackets(w)) + 1] = IF b.spaced THEN "space" ELSE "body"
      BY <1>4, <3>1
    <3> HIDE DEF t
    <3> QED
      BY <3>1, <3>2
  <2> HIDE DEF t
  <2>2. t[1] = "esc" /\ t[2] = "[" /\ t[3] = w /\ t[4] = "esc" /\ t[5] = "]"
    BY <1>1, <2>1, BracketsTyped
  <2>3. StripSpan(t) = t
    BY <2>1, <2>2, NoSpan
  <2>4. Len(n) = Len(t) - 2 /\ n[1] = "[" /\ n[2] = w /\ n[3] = "]" /\ n[4] = t[6]
    BY <1>1, <2>1, <2>2, EscapedStripped
  <2> HIDE DEF n
  <2>5. ExtractKind(t) = "manual" <=> n[2] = "manual" /\ n[4] = "space"
    <3>1. Len(n) \in Nat /\ Len(n) >= 4 /\ n = Unescape(StripSpan(t))
      BY <2>1, <2>3, <2>4 DEF n
    <3> QED
      BY <2>4, <3>1, BareTag
  <2> QED
    BY <1>5, <1>7, <2>1, <2>4, <2>5 DEF TaggedManual, t
<1>8. ASSUME NEW k \in {1, 2}, NEW t \in Seq(Symbol), Len(t) \in Nat, Len(t) >= 2 * k + 4,
             \A i \in 1 .. k : t[i] = "tick" /\ t[k + 3 + i] = "tick",
             t[k + 1] = "[", t[k + 2] = w, t[k + 3] = "]",
             t[2 * k + 4] = IF b.spaced THEN "space" ELSE "body"
      PROVE  ExtractKind(t) = "manual" <=> w = "manual" /\ b.spaced
  <2> DEFINE n == StripSpan(t)
  <2>1. /\ n \in Seq(Symbol) /\ Len(n) = Len(t) - 2 * k
        /\ \A i \in 1 .. 3 : n[i] = t[k + i]
        /\ n[4] = t[2 * k + 4]
    BY <1>1, <1>8, SpanStripped
  <2> HIDE DEF n
  <2>2. Len(n) \in Nat /\ Len(n) >= 4 /\ n[1] = "[" /\ n[2] = w /\ n[3] = "]"
    BY <1>8, <2>1
  <2>3. Unescape(n) = n
    BY <2>1, <2>2, NotEscaped
  <2>4. ExtractKind(t) = "manual" <=> n[2] = "manual" /\ n[4] = "space"
    BY <2>2, <2>3, BareTag DEF n
  <2> QED
    BY <1>8, <2>1, <2>2, <2>4
<1>9. CASE b.wrap = "span"
  <2> DEFINE x == <<"tick", "[", w, "]", "tick">>
             t == Tagged(x)
  <2>1. /\ x \in Seq(Symbol) /\ Len(x) = 5
        /\ x[1] = "tick" /\ x[2] = "[" /\ x[3] = w /\ x[4] = "]" /\ x[5] = "tick"
    BY <1>1, <1>2
  <2> HIDE DEF x
  <2>2. /\ t \in Seq(Symbol) /\ Len(t) \in Nat /\ Len(t) >= 6
        /\ \A i \in 1 .. 5 : t[i] = x[i]
        /\ t[6] = IF b.spaced THEN "space" ELSE "body"
    <3>1. /\ t \in Seq(Symbol) /\ Len(t) \in Nat /\ Len(t) >= Len(x) + 1
          /\ \A i \in 1 .. Len(x) : t[i] = x[i]
          /\ t[Len(x) + 1] = IF b.spaced THEN "space" ELSE "body"
      BY <1>4, <2>1
    <3> HIDE DEF t
    <3> QED
      BY <2>1, <3>1
  <2> HIDE DEF t
  <2>3. ExtractKind(t) = "manual" <=> w = "manual" /\ b.spaced
    BY <1>8, <2>1, <2>2
  <2> QED
    BY <1>5, <1>9, <2>3 DEF TaggedManual, t, x
<1>10. CASE b.wrap = "double"
  <2> DEFINE x == <<"tick", "tick", "[", w, "]", "tick", "tick">>
             t == Tagged(x)
  <2>1. /\ x \in Seq(Symbol) /\ Len(x) = 7
        /\ x[1] = "tick" /\ x[2] = "tick" /\ x[3] = "[" /\ x[4] = w /\ x[5] = "]" /\ x[6] = "tick" /\ x[7] = "tick"
    BY <1>1, <1>2
  <2> HIDE DEF x
  <2>2. /\ t \in Seq(Symbol) /\ Len(t) \in Nat /\ Len(t) >= 8
        /\ \A i \in 1 .. 7 : t[i] = x[i]
        /\ t[8] = IF b.spaced THEN "space" ELSE "body"
    <3>1. /\ t \in Seq(Symbol) /\ Len(t) \in Nat /\ Len(t) >= Len(x) + 1
          /\ \A i \in 1 .. Len(x) : t[i] = x[i]
          /\ t[Len(x) + 1] = IF b.spaced THEN "space" ELSE "body"
      BY <1>4, <2>1
    <3> HIDE DEF t
    <3> QED
      BY <2>1, <3>1
  <2> HIDE DEF t
  <2>3. ExtractKind(t) = "manual" <=> w = "manual" /\ b.spaced
    BY <1>8, <2>1, <2>2
  <2> QED
    BY <1>5, <1>10, <2>3 DEF TaggedManual, t, x
<1> QED
  BY <1>1, <1>6, <1>7, <1>9, <1>10

-------------------------------------------------------------------------------
(* What an evaluation leaves *)

\* manual-pending is as the copy of the issue wants it; and blocked, unless it was undone.
ManualAsRead(i) == Guarded(i) => ("manual-pending" \in i.labels <=> HasManual(i))
BlockedAsRead(i, undone) == Guarded(i) => ("blocked" \in i.labels <=> (i.open <=> ~undone))

Evaluated == \A u \in Unit : judged[u] # None => /\ ManualAsRead(judged[u].left)
                                                 /\ BlockedAsRead(judged[u].left, judged[u].undone)

\* What the two helpers leave, when each of them works on the copy the command read.
LEMMA HelpersLeave ==
  ASSUME NEW i \in IssueRecord
  PROVE  /\ Left(i) \in IssueRecord /\ Undone(i) \in BOOLEAN
         /\ Left(i) = [i EXCEPT !.labels = Left(i).labels]
         /\ Guarded(Left(i)) <=> Guarded(i)
         /\ ManualAsRead(Left(i))
         /\ BlockedAsRead(Left(i), Undone(i))
<1> DEFINE b == WithBlocked(i)
           m == WithManual(i)
<1>1. /\ b \in IssueRecord /\ b = [i EXCEPT !.labels = b.labels]
      /\ m \in IssueRecord /\ m = [i EXCEPT !.labels = m.labels]
      /\ ~Guarded(i) => b = i /\ m = i
      /\ Guarded(i) => ("blocked" \in b.labels <=> i.open) /\ ("manual-pending" \in m.labels <=> HasManual(i))
      /\ Guarded(b) <=> Guarded(i)
      /\ Guarded(m) <=> Guarded(i)
  BY HelpersTell
<1>2. /\ \A l \in Label \ {"blocked"} : l \in b.labels <=> l \in i.labels
      /\ \A l \in Label \ {"manual-pending"} : l \in m.labels <=> l \in i.labels
  BY HelpersTell
<1>3. (Undone(i) <=> b # i /\ m # i) /\ Undone(i) \in BOOLEAN
  BY DEF Undone
<1>4. Left(i) = IF m # i THEN m ELSE b
  BY DEF Left
<1> HIDE DEF b, m
<1>5. /\ b.open = i.open /\ m.open = i.open /\ b.ac = i.ac /\ m.ac = i.ac
      /\ b.labels \subseteq Label /\ i.labels \subseteq Label
  BY <1>1 DEF IssueRecord
<1>6. ASSUME Guarded(i), "blocked" \in i.labels <=> i.open PROVE b = i
  <2>1. b.labels = i.labels
    BY <1>1, <1>2, <1>5, <1>6
  <2> QED
    BY <1>1, <2>1 DEF IssueRecord
<1>7. "blocked" \in m.labels <=> "blocked" \in i.labels
  BY <1>2 DEF Label
<1>8. (HasManual(m) <=> HasManual(i)) /\ (HasManual(b) <=> HasManual(i))
  BY <1>5 DEF HasManual
<1>9. i.open \in BOOLEAN
  BY DEF IssueRecord
<1>10. CASE m # i
  <2>1. Left(i) = m /\ Guarded(i) /\ (Undone(i) <=> b # i)
    BY <1>1, <1>3, <1>4, <1>10
  <2>2. ManualAsRead(m)
    BY <1>1, <1>8 DEF ManualAsRead
  <2>3. BlockedAsRead(m, Undone(i))
    BY <1>1, <1>5, <1>6, <1>7, <1>9, <2>1 DEF BlockedAsRead
  <2> QED
    BY <1>1, <1>3, <2>1, <2>2, <2>3
<1>11. CASE m = i
  <2>1. Left(i) = b /\ ~Undone(i)
    BY <1>3, <1>4, <1>11
  <2>2. ManualAsRead(b)
    <3>1. "manual-pending" \in b.labels <=> "manual-pending" \in i.labels
      BY <1>2 DEF Label
    <3> QED
      BY <1>1, <1>8, <1>11, <3>1 DEF ManualAsRead
  <2>3. BlockedAsRead(b, Undone(i))
    BY <1>1, <1>5, <1>9, <2>1 DEF BlockedAsRead
  <2> QED
    BY <1>1, <1>3, <2>1, <2>2, <2>3
<1> QED
  BY <1>10, <1>11

\* Every step keeps what the evaluations said.
LEMMA EvaluatedStep ==
  ASSUME TypeOK, Holding, Evaluated, [Next]_vars
  PROVE  Evaluated'
<1>0. judged \in [Unit -> [left : IssueRecord, undone : BOOLEAN] \cup {None}]
  BY DEF TypeOK
<1>1. judged' = judged => Evaluated'
  BY DEF Evaluated, BlockedAsRead, ManualAsRead, Guarded, HasManual
<1>2. ASSUME NEW s \in Session,
             \/ Begin(s) \/ Surveyed(s) \/ Count(s) \/ ReadProject(s) \/ SaveProject(s) \/ Accept(s) \/ Clear(s)
             \/ Stop(s) \/ HelpBlocked(s) \/ \E u \in Unit : Inspect(s, u) \/ Review(s, u)
      PROVE  judged' = judged
  BY <1>2 DEF Begin, Surveyed, Count, ReadProject, SaveProject, Accept, Clear, Stop, HelpBlocked, Inspect,
              Review, history
<1>3. ASSUME NEW s \in Session, HelpManual(s) PROVE Evaluated'
  <2>1. PICK i \in IssueRecord : i = run[s].issue
    BY <1>3, After
  <2>2. judged' = [judged EXCEPT ![i.unit] = [left |-> Left(i), undone |-> Undone(i)]]
    BY <1>3, <2>1 DEF HelpManual
  <2>3. /\ ManualAsRead(Left(i)) /\ BlockedAsRead(Left(i), Undone(i))
        /\ Undone(i) \in BOOLEAN /\ Left(i) \in IssueRecord /\ i.unit \in Unit
    BY HelpersLeave DEF IssueRecord
  <2> DEFINE j == [left |-> Left(i), undone |-> Undone(i)]
  <2>4. j.left = Left(i) /\ j.undone = Undone(i)
    OBVIOUS
  <2>5. judged' = [judged EXCEPT ![i.unit] = j]
    BY <2>2
  <2> HIDE DEF j
  <2>6. \A u \in Unit : judged'[u] # None => /\ ManualAsRead(judged'[u].left)
                                             /\ BlockedAsRead(judged'[u].left, judged'[u].undone)
    BY <1>0, <2>3, <2>4, <2>5 DEF Evaluated
  <2> QED
    BY <2>6 DEF Evaluated, BlockedAsRead, ManualAsRead, Guarded, HasManual
<1>4. ASSUME People \/ \E d \in Drafts : WriteProse(d) PROVE judged' = judged
  BY <1>4 DEF People, Move, Reword, Relabel, WriteProse, history
<1>5. CASE UNCHANGED vars
  BY <1>1, <1>5 DEF vars, history
<1> QED
  BY <1>1, <1>2, <1>3, <1>4, <1>5 DEF Next, Step

\* Whatever people and other sessions do meanwhile, an active problem that stands as its
\* last evaluation left it shows manual-pending exactly if a criterion was tagged
\* [manual], and blocked exactly if a blocker is open; only where both labels had to
\* change at once, blocked is left as it was before, which is wrong.
THEOREM LabelsAreRight == Spec => []LabelsTell
<1> DEFINE Inv == TypeOK /\ Holding /\ Evaluated
<1>1. Init => Inv
  <2>1. SUFFICES ASSUME Init PROVE Evaluated
    BY TypeInit
  <2> QED
    BY <2>1 DEF Init, Evaluated
<1>2. Inv /\ [Next]_vars => Inv'
  BY TypeStep, EvaluatedStep
<1>3. ASSUME TypeOK, Evaluated PROVE LabelsTell
  <2>1. SUFFICES ASSUME NEW u \in Unit, Guarded(Issue(u)), judged[u] # None, judged[u].left = Issue(u)
                 PROVE  /\ "manual-pending" \in labels[u] <=> \E b \in ac[u] : TaggedManual(b)
                        /\ "blocked" \in labels[u] <=> (OpenBlocker(u) <=> ~judged[u].undone)
    BY DEF LabelsTell
  <2> DEFINE w == \E b \in BlockedBy[u] : type[b] \notin {"completed", "canceled"}
             gone == judged[u].undone
  <2>2. Issue(u) \in IssueRecord
    BY <1>3, IssueIsTyped DEF TypeOK
  <2>3. ManualAsRead(Issue(u)) /\ BlockedAsRead(Issue(u), gone)
    BY <1>3, <2>1 DEF Evaluated
  <2>4. w <=> OpenBlocker(u)
    BY <1>3, UnitAssumption DEF OpenBlocker, Category, Active, TypeOK
  <2>5. w \in BOOLEAN
    OBVIOUS
  <2>6. Issue(u) = [unit |-> u, labels |-> labels[u], type |-> type[u], ac |-> ac[u], open |-> w]
    BY DEF Issue
  <2> HIDE DEF w
  <2>7. Issue(u).labels = labels[u] /\ Issue(u).ac = ac[u] /\ Issue(u).open = w
    BY <2>6
  <2>8. HasManual(Issue(u)) <=> \E b \in ac[u] : TaggedManual(b)
    <3>1. ac[u] \subseteq Bullet
      BY <1>3, CriteriaAssumption DEF TypeOK
    <3>2. HasManual(Issue(u)) <=> \E b \in ac[u] : ExtractKind(Stored(b)) = "manual"
      BY <2>7 DEF HasManual
    <3> QED
      BY <3>1, <3>2, TagsAreRead
  <2>9. "blocked" \in labels[u] <=> (w <=> ~gone)
    BY <2>1, <2>3, <2>7 DEF BlockedAsRead
  <2>10. "manual-pending" \in labels[u] <=> HasManual(Issue(u))
    BY <2>1, <2>3, <2>7 DEF ManualAsRead
  <2> QED
    BY <2>4, <2>8, <2>9, <2>10
<1>4. Inv => LabelsTell
  BY <1>3
<1> HIDE DEF Inv
<1>5. Spec => Init /\ [][Next]_vars
  BY DEF Spec
<1> QED
  BY <1>1, <1>2, <1>4, <1>5, PTL

-------------------------------------------------------------------------------
(* What a survey nobody disturbs has seen *)

\* The unit's blocked label is right, or exactly wrong if the session has undone it.
Fine(u, undone) == Guarded(Issue(u)) => ("blocked" \in labels[u] <=> (OpenBlocker(u) <=> u \notin undone))

\* What holds of Linear while the session is where r says: the labels of the problems it
\* has inspected are as it left them, its copy is current but for what its first helper
\* saved, and the counts it has gathered are.
Sees(r) ==
  /\ r.pc = "survey" => /\ \A u \in Unit : u \in r.todo \/ Fine(u, r.undone)
                        /\ r.todo \cap r.undone = {}
  /\ r.pc \in {"blocked", "manual"} =>
       /\ \A u \in Unit : u \in r.todo \/ u = r.issue.unit \/ Fine(u, r.undone)
       /\ r.todo \cap r.undone = {} /\ r.issue.unit \notin r.todo \cup r.undone
  /\ r.pc = "blocked" => r.issue = Issue(r.issue.unit)
  /\ r.pc = "manual" => WithBlocked(r.issue) = Issue(r.issue.unit)
  /\ r.pc \in Query \cup {"read", "save"} => \A u \in Unit : Fine(u, r.undone)
  /\ r.pc \in {"unstarted", "stalled", "read", "save"} => r.counts.started = Answer("started")
  /\ r.pc \in {"stalled", "read", "save"} => r.counts.unstarted = Answer("unstarted")
  /\ r.pc \in {"read", "save"} => r.counts.stalled = Answer("stalled")

Undisturbed == \A s \in Session : run[s] # Idle /\ run[s].quiet => Sees(run[s])

\* Nothing a survey looks at has changed.
Still == UNCHANGED <<labels, type, ac>>

\* What a session has seen stands as long as Linear does.
LEMMA SeesStill ==
  ASSUME Still, NEW r
  PROVE  Sees(r) => Sees(r)'
<1>1. \A u : Issue(u)' = Issue(u)
  BY DEF Still, Issue
<1>2. \A u, U : Fine(u, U)' <=> Fine(u, U)
  BY <1>1 DEF Still, Fine, OpenBlocker, Guarded
<1>3. \A q : Answer(q)' = Answer(q)
  BY DEF Still, Answer, Problem
<1> QED
  BY <1>1, <1>2, <1>3 DEF Sees

\* The others of a step: either nothing they look at changes, or they lose their quiet.
LEMMA OthersSee ==
  ASSUME RunType, Undisturbed, NEW s \in Session, NEW r,
         \/ Still /\ (run' = [run EXCEPT ![s] = r] \/ run' = Disturb([run EXCEPT ![s] = r], s))
         \/ run' = Disturb([run EXCEPT ![s] = r], s),
         r # Idle /\ r.quiet => Sees(r)'
  PROVE  Undisturbed'
<1>1. Takes(s, r)
  BY OneMoves
<1>2. \A t \in Session : Spoils(t) => run'[t].quiet = FALSE
  BY Spoiled DEF Spoils
<1>3. ASSUME NEW t \in Session, t # s, run'[t] # Idle, run'[t].quiet PROVE Sees(run[t])'
  <2>1. run'[t] = run[t]
    BY <1>1, <1>2, <1>3 DEF Takes
  <2>2. Still
    BY <1>2, <1>3, OneMoves DEF Stirs
  <2>3. PICK q : q = run[t]
    OBVIOUS
  <2>4. Sees(q)
    BY <1>3, <2>1, <2>3 DEF Undisturbed
  <2>5. Sees(q)'
    BY <2>2, <2>4, SeesStill
  <2>6. run'[t] = q
    BY <2>1, <2>3
  <2> QED
    BY <2>5, <2>6 DEF Sees
<1>4. ASSUME run'[s] # Idle, run'[s].quiet PROVE Sees(run[s])'
  <2>1. run'[s] = r /\ Sees(r)'
    BY <1>1, <1>4 DEF Takes
  <2> QED
    BY <2>1 DEF Sees
<1>5. \A t \in Session : run'[t] # Idle /\ run'[t].quiet => Sees(run[t])'
  BY <1>3, <1>4
<1> QED
  BY <1>5 DEF Undisturbed

\* When the labels of one unit are written, its issue changes in them alone.
LEMMA Written ==
  ASSUME TypeOK, NEW x \in Unit, NEW i, i = Issue(x), NEW L \in SUBSET Label,
         labels' = [labels EXCEPT ![x] = L], type' = type, ac' = ac
  PROVE  /\ Issue(x)' = [i EXCEPT !.labels = L]
         /\ \A u \in Unit : u # x => Issue(u)' = Issue(u) /\ labels'[u] = labels[u]
         /\ \A u \in Unit : OpenBlocker(u)' <=> OpenBlocker(u)
         /\ i \in IssueRecord /\ i.labels = labels[x]
         /\ i.open <=> OpenBlocker(x)
<1> DEFINE w(u) == \E b \in BlockedBy[u] : type[b] \notin {"completed", "canceled"}
<1>1. labels \in [Unit -> SUBSET Label] /\ labels'[x] = L /\ \A u \in Unit : u # x => labels'[u] = labels[u]
  BY DEF TypeOK
<1>2. \A u : OpenBlocker(u)' <=> OpenBlocker(u)
  BY DEF OpenBlocker
<1>3. w(x) <=> OpenBlocker(x)
  BY UnitAssumption DEF OpenBlocker, Category, Active, TypeOK
<1>4. \A u : /\ Issue(u) = [unit |-> u, labels |-> labels[u], type |-> type[u], ac |-> ac[u], open |-> w(u)]
             /\ Issue(u)' = [unit |-> u, labels |-> labels'[u], type |-> type[u], ac |-> ac[u], open |-> w(u)]
  BY DEF Issue
<1>5. i \in IssueRecord
  BY IssueIsTyped DEF TypeOK
<1> DEFINE o == w(x)
<1>6. o \in BOOLEAN
  OBVIOUS
<1>7. /\ i = [unit |-> x, labels |-> labels[x], type |-> type[x], ac |-> ac[x], open |-> o]
      /\ Issue(x)' = [unit |-> x, labels |-> L, type |-> type[x], ac |-> ac[x], open |-> o]
  BY <1>1, <1>4
<1>8. \A u \in Unit : u # x => Issue(u)' = Issue(u)
  BY <1>1, <1>4
<1> HIDE DEF o
<1>9. Issue(x)' = [i EXCEPT !.labels = L]
  BY <1>7
<1>10. i.labels = labels[x] /\ i.open = o
  BY <1>7
<1> QED
  BY <1>1, <1>2, <1>3, <1>5, <1>8, <1>9, <1>10 DEF o

\* A helper's save, over an issue that differs from its copy in the labels alone, leaves
\* the issue as the helper made it, or as it was; and every other unit alone.
LEMMA HelperWrites ==
  ASSUME TypeOK, NEW i \in IssueRecord, NEW now \in IssueRecord, NEW after \in IssueRecord,
         now = Issue(i.unit), now = [i EXCEPT !.labels = now.labels],
         after = [i EXCEPT !.labels = after.labels],
         NEW s, NEW reads, NEW r, SaveLabels(s, i, after, reads, r), type' = type, ac' = ac
  PROVE  /\ Issue(i.unit)' = IF after # i THEN after ELSE now
         /\ \A u \in Unit : \A U : u # i.unit => (Fine(u, U) => Fine(u, U)')
         /\ i.open <=> OpenBlocker(i.unit)'
<1> DEFINE x == i.unit
           L == IF after # i THEN after.labels ELSE now.labels
<1>1. x \in Unit /\ L \in SUBSET Label /\ labels \in [Unit -> SUBSET Label]
  BY DEF IssueRecord, TypeOK
<1>2. now.labels = labels[x]
  <2>1. Issue(x).labels = labels[x]
    BY DEF Issue
  <2> QED
    BY <2>1
<1>3. labels' = [labels EXCEPT ![x] = L]
  BY <1>1, <1>2 DEF SaveLabels
<1>4. now = Issue(x)
  OBVIOUS
<1>5. (after # i => L = after.labels) /\ (after = i => L = now.labels)
  OBVIOUS
<1> HIDE DEF x, L
<1>6. /\ Issue(x)' = [now EXCEPT !.labels = L]
      /\ \A u \in Unit : u # x => Issue(u)' = Issue(u) /\ labels'[u] = labels[u]
      /\ \A u \in Unit : OpenBlocker(u)' <=> OpenBlocker(u)
      /\ now.open <=> OpenBlocker(x)
  BY <1>1, <1>3, <1>4, Written
<1>7. now.open = i.open /\ [now EXCEPT !.labels = L] = [i EXCEPT !.labels = L]
  BY DEF IssueRecord
<1>8. Issue(x)' = IF after # i THEN after ELSE now
  BY <1>5, <1>6, <1>7
<1>9. \A u \in Unit : \A U : u # x => (Fine(u, U) => Fine(u, U)')
  BY <1>6 DEF Fine, Guarded
<1>10. i.open <=> OpenBlocker(x)'
  BY <1>1, <1>6, <1>7
<1> QED
  BY <1>8, <1>9, <1>10 DEF x

\* A survey that reads on sees what is there.
LEMMA OwnSees ==
  ASSUME TypeOK, Holding, NEW s \in Session, run[s].quiet => Sees(run[s])
  PROVE  /\ \A u \in Unit : Inspect(s, u) => \E r \in Session_ :
              run' = [run EXCEPT ![s] = r] /\ (r.quiet => Sees(r)')
         /\ Surveyed(s) \/ Count(s) \/ ReadProject(s) => \E r \in Session_ :
              run' = [run EXCEPT ![s] = r] /\ (r.quiet => Sees(r)')
<1>1. ASSUME NEW u \in Unit, Inspect(s, u)
      PROVE  \E r \in Session_ : run' = [run EXCEPT ![s] = r] /\ (r.quiet => Sees(r)')
  <2>1. /\ run[s] \in Session_ /\ run[s].pc = "survey" /\ u \in run[s].todo
        /\ \E r \in Session_ : /\ run' = [run EXCEPT ![s] = r]
                               /\ r.pc = "blocked" /\ r.quiet = run[s].quiet
                               /\ r.issue = Issue(u) /\ r.todo = run[s].todo \ {u}
                               /\ r.undone = run[s].undone
    BY <1>1, After
  <2>2. PICK r \in Session_ : /\ run' = [run EXCEPT ![s] = r]
                              /\ r.pc = "blocked" /\ r.quiet = run[s].quiet
                              /\ r.issue = Issue(u) /\ r.todo = run[s].todo \ {u}
                              /\ r.undone = run[s].undone
    BY <2>1
  <2>3. Issue(u).unit = u
    BY DEF Issue
  <2>4. run[s].quiet => /\ \A v \in Unit : v \in run[s].todo \/ Fine(v, run[s].undone)
                        /\ run[s].todo \cap run[s].undone = {}
    BY <2>1 DEF Sees
  <2>5. r.quiet => Sees(r)
    BY <2>1, <2>2, <2>3, <2>4 DEF Sees, Query
  <2>6. Still
    BY <1>1 DEF Inspect, linear, Still
  <2>7. r.quiet => Sees(r)'
    BY <2>5, <2>6, SeesStill
  <2> QED
    BY <2>2, <2>7
<1>2. ASSUME Surveyed(s)
      PROVE  \E r \in Session_ : run' = [run EXCEPT ![s] = r] /\ (r.quiet => Sees(r)')
  <2>1. /\ run[s] \in Session_ /\ run[s].pc = "survey" /\ run[s].todo = {}
        /\ \E r \in Session_ : /\ run' = [run EXCEPT ![s] = r]
                               /\ r.pc = "closed" /\ r.quiet = run[s].quiet
                               /\ r.undone = run[s].undone
    BY <1>2, After
  <2>2. PICK r \in Session_ : /\ run' = [run EXCEPT ![s] = r]
                              /\ r.pc = "closed" /\ r.quiet = run[s].quiet
                              /\ r.undone = run[s].undone
    BY <2>1
  <2>3. r.quiet => \A v \in Unit : Fine(v, r.undone)
    BY <2>1, <2>2 DEF Sees
  <2>4. r.quiet => Sees(r)
    BY <2>2, <2>3 DEF Sees
  <2>5. Still
    BY <1>2 DEF Surveyed, linear, Still
  <2>6. r.quiet => Sees(r)'
    BY <2>4, <2>5, SeesStill
  <2> QED
    BY <2>2, <2>6
<1>3. ASSUME Count(s)
      PROVE  \E r \in Session_ : run' = [run EXCEPT ![s] = r] /\ (r.quiet => Sees(r)')
  <2>1. /\ run[s] \in Session_ /\ run[s].pc \in Query
        /\ \E r \in Session_ : /\ run' = [run EXCEPT ![s] = r]
                               /\ r.pc = NextQuery[run[s].pc] /\ r.quiet = run[s].quiet
                               /\ r.counts = [run[s].counts EXCEPT ![run[s].pc] = Answer(run[s].pc)]
                               /\ r.undone = run[s].undone
    BY <1>3, After
  <2>2. PICK r \in Session_ : /\ run' = [run EXCEPT ![s] = r]
                              /\ r.pc = NextQuery[run[s].pc] /\ r.quiet = run[s].quiet
                              /\ r.counts = [run[s].counts EXCEPT ![run[s].pc] = Answer(run[s].pc)]
                              /\ r.undone = run[s].undone
    BY <2>1
  <2>3. PICK q \in Query : q = run[s].pc
    BY <2>1
  <2>4. PICK n \in Counts : n = run[s].counts
    BY <2>1 DEF Session_
  <2>5. Answer(q) \in Nat
    BY AnswerTyped
  <2>6. r.counts[q] = Answer(q) /\ \A p \in Query \ {q} : r.counts[p] = n[p]
    BY <2>2, <2>3, <2>4, <2>5, CountsTyped
  <2>7. r.quiet => Sees(run[s])
    BY <2>2
  <2>8. r.quiet => \A v \in Unit : Fine(v, r.undone)
    BY <2>2, <2>3, <2>7 DEF Sees
  <2>9. ASSUME q = "closed" PROVE r.quiet => Sees(r)
    <3>1. r.pc = "started"
      BY <2>2, <2>3, <2>9 DEF NextQuery
    <3> QED
      BY <2>8, <3>1 DEF Sees
  <2>10. ASSUME q = "started" PROVE r.quiet => Sees(r)
    <3>1. r.pc = "unstarted" /\ r.counts.started = Answer("started")
      BY <2>2, <2>3, <2>6, <2>10 DEF NextQuery, Query
    <3> QED
      BY <2>8, <3>1 DEF Sees
  <2>11. ASSUME q = "unstarted" PROVE r.quiet => Sees(r)
    <3>1. r.pc = "stalled" /\ r.counts.started = n.started /\ r.counts.unstarted = Answer("unstarted")
      BY <2>2, <2>3, <2>6, <2>11 DEF NextQuery, Query
    <3>2. r.quiet => n.started = Answer("started")
      BY <2>3, <2>4, <2>7, <2>11 DEF Sees
    <3> QED
      BY <2>8, <3>1, <3>2 DEF Sees
  <2>12. ASSUME q = "stalled" PROVE r.quiet => Sees(r)
    <3>1. /\ r.pc = "read" /\ r.counts.started = n.started /\ r.counts.unstarted = n.unstarted
          /\ r.counts.stalled = Answer("stalled")
      BY <2>2, <2>3, <2>6, <2>12 DEF NextQuery, Query
    <3>2. r.quiet => n.started = Answer("started") /\ n.unstarted = Answer("unstarted")
      BY <2>3, <2>4, <2>7, <2>12 DEF Sees
    <3> QED
      BY <2>8, <3>1, <3>2 DEF Sees
  <2>13. r.quiet => Sees(r)
    BY <2>9, <2>10, <2>11, <2>12 DEF Query
  <2>14. Still
    BY <1>3 DEF Count, linear, Still
  <2>15. r.quiet => Sees(r)'
    BY <2>13, <2>14, SeesStill
  <2> QED
    BY <2>2, <2>15
<1>4. ASSUME ReadProject(s)
      PROVE  \E r \in Session_ : run' = [run EXCEPT ![s] = r] /\ (r.quiet => Sees(r)')
  <2>1. /\ run[s] \in Session_ /\ run[s].pc = "read"
        /\ \E r \in Session_ : /\ run' = [run EXCEPT ![s] = r]
                               /\ r.pc = "save" /\ r.quiet = run[s].quiet
                               /\ r.counts = run[s].counts /\ r.undone = run[s].undone
    BY <1>4, After
  <2>2. PICK r \in Session_ : /\ run' = [run EXCEPT ![s] = r]
                              /\ r.pc = "save" /\ r.quiet = run[s].quiet
                              /\ r.counts = run[s].counts /\ r.undone = run[s].undone
    BY <2>1
  <2>3. r.quiet => Sees(r)
    BY <2>1, <2>2 DEF Sees
  <2>4. Still
    BY <1>4 DEF ReadProject, linear, Still
  <2>5. r.quiet => Sees(r)'
    BY <2>3, <2>4, SeesStill
  <2> QED
    BY <2>2, <2>5
<1> QED
  BY <1>1, <1>2, <1>3, <1>4

\* The two label helpers, on a copy that nobody else has written over.
LEMMA HelpersSee ==
  ASSUME TypeOK, Holding, NEW s \in Session, run[s].quiet => Sees(run[s]), HelpBlocked(s) \/ HelpManual(s)
  PROVE  \E r \in Session_ : /\ \/ run' = Disturb([run EXCEPT ![s] = r], s)
                                \/ Still /\ run' = [run EXCEPT ![s] = r]
                             /\ r.quiet => Sees(r)'
<1>1. ASSUME NEW i, NEW after, NEW now, NEW r, SaveLabels(s, i, after, now, r), type' = type, ac' = ac
      PROVE  run' = Disturb([run EXCEPT ![s] = r], s) \/ (Still /\ run' = [run EXCEPT ![s] = r])
  BY <1>1 DEF SaveLabels, Still
<1>2. CASE HelpBlocked(s)
  <2>1. PICK i \in IssueRecord : i = run[s].issue
    BY <1>2, After
  <2>2. PICK after \in IssueRecord : after = WithBlocked(i) /\ after = [i EXCEPT !.labels = after.labels]
    BY HelpersTell
  <2>3. /\ run[s].pc = "blocked"
        /\ \E r \in Session_ : /\ SaveLabels(s, i, WithBlocked(i), i, r)
                               /\ r.pc = "manual" /\ r.quiet = run[s].quiet
                               /\ r.issue = i /\ r.todo = run[s].todo /\ r.undone = run[s].undone
    BY <1>2, <2>1, After
  <2>4. type' = type /\ ac' = ac /\ i.unit \in Unit /\ i = [i EXCEPT !.labels = i.labels]
    BY <1>2 DEF HelpBlocked, IssueRecord
  <2>5. PICK r \in Session_ : /\ SaveLabels(s, i, after, i, r)
                              /\ r.pc = "manual" /\ r.quiet = run[s].quiet
                              /\ r.issue = i /\ r.todo = run[s].todo /\ r.undone = run[s].undone
    BY <2>2, <2>3
  <2>6. ASSUME r.quiet PROVE Sees(r)'
    <3>1. i = Issue(i.unit) /\ \A u \in Unit : u \in r.todo \/ u = i.unit \/ Fine(u, r.undone)
      BY <2>1, <2>3, <2>5, <2>6 DEF Sees
    <3>2. r.todo \cap r.undone = {} /\ i.unit \notin r.todo \cup r.undone
      BY <2>1, <2>3, <2>5, <2>6 DEF Sees
    <3>3. /\ Issue(i.unit)' = IF after # i THEN after ELSE i
          /\ \A u \in Unit : \A U : u # i.unit => (Fine(u, U) => Fine(u, U)')
      BY <2>2, <2>4, <2>5, <3>1, HelperWrites
    <3>4. \A u \in Unit : u \in r.todo \/ u = i.unit \/ Fine(u, r.undone)'
      BY <3>1, <3>3
    <3>5. WithBlocked(i) = Issue(i.unit)'
      BY <2>2, <3>3
    <3> QED
      BY <2>5, <3>2, <3>4, <3>5 DEF Sees, Query
  <2> QED
    BY <1>1, <2>4, <2>5, <2>6
<1>3. CASE HelpManual(s)
  <2>1. PICK i \in IssueRecord : i = run[s].issue
    BY <1>3, After
  <2>2. PICK after \in IssueRecord : after = WithManual(i) /\ after = [i EXCEPT !.labels = after.labels]
    BY HelpersTell
  <2>3. PICK now \in IssueRecord : now = WithBlocked(i) /\ now = [i EXCEPT !.labels = now.labels]
    BY HelpersTell
  <2>4. /\ run[s].pc = "manual"
        /\ \E r \in Session_ : /\ SaveLabels(s, i, WithManual(i), WithBlocked(i), r)
                               /\ r.pc = "survey" /\ r.quiet = run[s].quiet /\ r.todo = run[s].todo
                               /\ r.undone = IF Undone(i) THEN run[s].undone \cup {i.unit}
                                                          ELSE run[s].undone
    BY <1>3, <2>1, After
  <2>5. type' = type /\ ac' = ac /\ i.unit \in Unit
    BY <1>3 DEF HelpManual, IssueRecord
  <2>6. PICK r \in Session_ : /\ SaveLabels(s, i, after, now, r)
                              /\ r.pc = "survey" /\ r.quiet = run[s].quiet /\ r.todo = run[s].todo
                              /\ r.undone = IF Undone(i) THEN run[s].undone \cup {i.unit}
                                                         ELSE run[s].undone
    BY <2>2, <2>3, <2>4
  <2>7. ASSUME r.quiet PROVE Sees(r)'
    <3>1. now = Issue(i.unit) /\ \A u \in Unit : u \in r.todo \/ u = i.unit \/ Fine(u, run[s].undone)
      BY <2>1, <2>3, <2>4, <2>6, <2>7 DEF Sees
    <3>2. r.todo \cap run[s].undone = {} /\ i.unit \notin r.todo \cup run[s].undone
      BY <2>1, <2>4, <2>6, <2>7 DEF Sees
    <3>3. /\ Issue(i.unit)' = IF after # i THEN after ELSE now
          /\ \A u \in Unit : \A U : u # i.unit => (Fine(u, U) => Fine(u, U)')
          /\ i.open <=> OpenBlocker(i.unit)'
      BY <2>2, <2>3, <2>5, <2>6, <3>1, HelperWrites
    <3>4. r.todo \cap r.undone = {} /\ (i.unit \in r.undone <=> Undone(i))
      BY <2>6, <3>2
    <3>5. ASSUME NEW u \in Unit, u \notin r.todo, u # i.unit PROVE Fine(u, r.undone)'
      <4>1. Fine(u, run[s].undone)
        BY <3>1, <3>5
      <4>2. Fine(u, r.undone)
        BY <2>6, <3>5, <4>1 DEF Fine
      <4> QED
        BY <3>3, <3>5, <4>2
    <3>6. Fine(i.unit, r.undone)'
      <4>1. Issue(i.unit)' = Left(i)
        BY <2>2, <2>3, <3>3 DEF Left
      <4>2. /\ Guarded(Left(i)) => ("blocked" \in Left(i).labels <=> (Left(i).open <=> ~Undone(i)))
            /\ Left(i) = [i EXCEPT !.labels = Left(i).labels]
        BY HelpersLeave DEF BlockedAsRead
      <4>3. Left(i).open = i.open
        BY <4>2 DEF IssueRecord
      <4>4. labels'[i.unit] = Left(i).labels
        <5>1. Issue(i.unit)'.labels = labels'[i.unit]
          BY DEF Issue
        <5> QED
          BY <4>1, <5>1
      <4>5. Guarded(Issue(i.unit))' => Guarded(Left(i))
        BY <4>1 DEF Guarded
      <4>6. Undone(i) \in BOOLEAN /\ i.open \in BOOLEAN
        BY HelpersLeave DEF IssueRecord
      <4>7. Guarded(Issue(i.unit))' =>
              ("blocked" \in labels'[i.unit] <=> (OpenBlocker(i.unit)' <=> i.unit \notin r.undone))
        BY <3>3, <3>4, <4>2, <4>3, <4>4, <4>5, <4>6
      <4> QED
        BY <4>7 DEF Fine
    <3>7. \A u \in Unit : u \in r.todo \/ Fine(u, r.undone)'
      BY <3>5, <3>6
    <3> QED
      BY <2>6, <3>4, <3>7 DEF Sees, Query
  <2> QED
    BY <1>1, <2>5, <2>6, <2>7
<1> QED
  BY <1>2, <1>3

\* No step makes the picture of an undisturbed session wrong.
LEMMA UndisturbedStep ==
  ASSUME TypeOK, Holding, Undisturbed, [Next]_vars
  PROVE  Undisturbed'
<1>0. RunType
  BY DEF TypeOK, RunType
<1>1. ASSUME NEW s \in Session, NEW r,
             \/ Still /\ (run' = [run EXCEPT ![s] = r] \/ run' = Disturb([run EXCEPT ![s] = r], s))
             \/ run' = Disturb([run EXCEPT ![s] = r], s),
             r # Idle /\ r.quiet => Sees(r)'
      PROVE  Undisturbed'
  BY <1>0, <1>1, OthersSee
<1>2. \A s \in Session : run[s] \in Session_ /\ run[s].quiet => Sees(run[s])
  BY DEF Undisturbed, Idle, Session_, Query
<1>3. ASSUME NEW s \in Session, Begin(s) PROVE Undisturbed'
  <2>1. PICK r \in Session_ : /\ run' = [run EXCEPT ![s] = r] /\ run[s] = Idle
                              /\ r.pc = "survey" /\ r.todo = {u \in Unit : Guarded(Issue(u))}
                              /\ r.undone = {}
    BY <1>3, After
  <2>2. \A u \in Unit : u \in r.todo \/ Fine(u, r.undone)
    BY <2>1 DEF Fine
  <2>3. Sees(r)
    BY <2>1, <2>2 DEF Sees, Query
  <2>4. Still
    BY <1>3 DEF Begin, linear, Still
  <2>5. Sees(r)'
    BY <2>3, <2>4, SeesStill
  <2> QED
    BY <1>1, <2>1, <2>4, <2>5
<1>4. ASSUME NEW s \in Session, NEW u \in Unit, Inspect(s, u) PROVE Undisturbed'
  <2>1. run[s] \in Session_
    BY <1>0, <1>4, Works DEF Inspect
  <2>2. PICK r \in Session_ : run' = [run EXCEPT ![s] = r] /\ (r.quiet => Sees(r)')
    BY <1>2, <1>4, <2>1, OwnSees
  <2>3. Still
    BY <1>4 DEF Inspect, linear, Still
  <2> QED
    BY <1>1, <2>2, <2>3
<1>5. ASSUME NEW s \in Session, Surveyed(s) \/ Count(s) \/ ReadProject(s) PROVE Undisturbed'
  <2>1. run[s] \in Session_
    BY <1>0, <1>5, Works DEF Surveyed, Count, ReadProject, Query, Idle
  <2>2. PICK r \in Session_ : run' = [run EXCEPT ![s] = r] /\ (r.quiet => Sees(r)')
    BY <1>2, <1>5, <2>1, OwnSees
  <2>3. Still
    BY <1>5 DEF Surveyed, Count, ReadProject, linear, Still
  <2> QED
    BY <1>1, <2>2, <2>3
<1>6. ASSUME NEW s \in Session, HelpBlocked(s) \/ HelpManual(s) PROVE Undisturbed'
  <2>1. run[s] \in Session_
    BY <1>0, <1>6, Works DEF HelpBlocked, HelpManual
  <2>2. PICK r \in Session_ : /\ \/ run' = Disturb([run EXCEPT ![s] = r], s)
                                 \/ Still /\ run' = [run EXCEPT ![s] = r]
                              /\ r.quiet => Sees(r)'
    BY <1>2, <1>6, <2>1, HelpersSee
  <2> QED
    BY <1>1, <2>2
<1>7. ASSUME NEW s \in Session, SaveProject(s) \/ Clear(s) PROVE Undisturbed'
  <2>1. run' = Disturb([run EXCEPT ![s] = Idle], s)
    BY <1>7 DEF SaveProject, Clear
  <2> QED
    BY <1>1, <2>1
\* A review looks at no more than its unit.
<1>8. \A r : r.pc \in {"accept", "clear"} => Sees(r)'
  BY DEF Sees, Query
<1>9. ASSUME NEW s \in Session, Accept(s) PROVE Undisturbed'
  <2>1. \E r \in Session_ : /\ run' = Disturb([run EXCEPT ![s] = r], s)
                            /\ r.pc = "clear" /\ r.issue = run[s].issue
    BY <1>9, After
  <2> QED
    BY <1>1, <1>8, <2>1
<1>10. ASSUME NEW s \in Session, NEW u \in Unit, Review(s, u) PROVE Undisturbed'
  <2>1. \A v \in Unit : Review(s, v) => \E r \in Session_ : /\ run' = [run EXCEPT ![s] = r]
                                                            /\ r.pc = "accept" /\ r.issue = Issue(v)
    BY After
  <2>2. Still
    BY <1>10 DEF Review, linear, Still
  <2> QED
    BY <1>1, <1>8, <1>10, <2>1, <2>2
<1>11. ASSUME NEW s \in Session, Stop(s) PROVE Undisturbed'
  <2>1. run' = [run EXCEPT ![s] = Idle] /\ Still
    BY <1>11 DEF Stop, linear, Still
  <2> QED
    BY <1>1, <2>1
<1>12. ASSUME People \/ \E d \in Drafts : WriteProse(d) PROVE Undisturbed'
  <2>1. run' = Disturb(run, None)
    BY <1>12 DEF People, Move, Reword, Relabel, WriteProse
  <2>2. \A t \in Session : run'[t] = Idle \/ Spoils(t)
    BY <1>0, <2>1, AllStirred
  <2>3. \A t \in Session : Spoils(t) => run'[t].quiet = FALSE
    BY Spoiled DEF Spoils
  <2> QED
    BY <2>2, <2>3 DEF Undisturbed
<1>13. CASE UNCHANGED vars
  <2>1. Still /\ run' = run
    BY <1>13 DEF vars, linear, Still
  <2>2. ASSUME NEW t \in Session, run[t] # Idle, run[t].quiet PROVE Sees(run[t])'
    <3>1. PICK q : q = run[t]
      OBVIOUS
    <3>2. Sees(q)'
      BY <2>1, <2>2, <3>1, SeesStill DEF Undisturbed
    <3>3. run'[t] = q
      BY <2>1, <3>1
    <3> QED
      BY <3>2, <3>3 DEF Sees
  <2> QED
    BY <2>1, <2>2 DEF Undisturbed
<1> QED
  BY <1>3, <1>4, <1>5, <1>6, <1>7, <1>9, <1>10, <1>11, <1>12, <1>13 DEF Next, Step, People

\* The ETA is the nearest half day.
LEMMA NearestHalf ==
  ASSUME NEW queue \in Nat, NEW closed \in Nat, closed > 0
  PROVE  LET off == 2 * HalfDays(queue, closed) * closed - 28 * queue
         IN  off <= closed /\ -off <= closed
<1> DEFINE a == 28 * queue + closed
           b == 2 * closed
           e == a \div b
<1>1. a \in Nat /\ b \in Nat /\ b > 0
  OBVIOUS
<1> HIDE DEF a, b
<1>2. e \in Int /\ b * e <= a /\ a < b * e + b
  BY <1>1
<1> HIDE DEF e
<1>3. HalfDays(queue, closed) = e
  BY DEF HalfDays, e, a, b
<1>4. b * e = 2 * e * closed
  BY <1>2 DEF b
<1> DEFINE p == 2 * e * closed
<1>5. p \in Int
  BY <1>2
<1>6. p <= 28 * queue + closed /\ 28 * queue + closed < p + 2 * closed
  BY <1>2, <1>4 DEF a, b
<1> HIDE DEF p
<1>7. p - 28 * queue <= closed /\ -(p - 28 * queue) <= closed
  BY <1>5, <1>6
<1> QED
  BY <1>3, <1>7 DEF p

\* A forecast nobody disturbed counts what is there.
LEMMA CountsTell ==
  ASSUME TypeOK, NEW r \in Session_, r.pc \in {"read", "save"}, Sees(r)
  PROVE  /\ r.counts.stalled = Cardinality({u \in Unit : Guarded(Issue(u)) /\ (OpenBlocker(u) <=> u \notin r.undone)})
         /\ r.counts.started + r.counts.unstarted = OtherQueued + Cardinality({u \in Unit : Guarded(Issue(u))})
<1>1. \A u : Guarded(Issue(u)) <=> Problem(u) /\ type[u] \in Active
  BY DEF Guarded, Issue, Problem
<1>2. \A u \in Unit : Fine(u, r.undone)
  BY DEF Sees
<1>3. /\ r.counts.started = Answer("started") /\ r.counts.unstarted = Answer("unstarted")
      /\ r.counts.stalled = Answer("stalled")
  BY DEF Sees
<1> DEFINE S == {u \in Unit : Problem(u) /\ type[u] = "started"}
           U == {u \in Unit : Problem(u) /\ type[u] = "unstarted"}
           B == {u \in Unit : Problem(u) /\ type[u] \in Active /\ "blocked" \in labels[u]}
           G == {u \in Unit : Guarded(Issue(u))}
<1>4. Answer("started") = Cardinality(S) /\ Answer("unstarted") = OtherQueued + Cardinality(U)
      /\ Answer("stalled") = Cardinality(B)
  BY DEF Answer
<1>5. B = {u \in Unit : Guarded(Issue(u)) /\ (OpenBlocker(u) <=> u \notin r.undone)}
  BY <1>1, <1>2 DEF Fine
<1>6. S \cup U = G /\ S \cap U = {}
  BY <1>1 DEF Active
<1>7. IsFiniteSet(S) /\ IsFiniteSet(U)
  BY UnitAssumption, FS_Subset
<1>8. Cardinality(S) \in Nat /\ Cardinality(U) \in Nat
  BY <1>7, FS_CardinalityType
<1> HIDE DEF S, U, B, G
<1>9. Cardinality(G) = Cardinality(S) + Cardinality(U)
  <2>1. Cardinality(S \cup U) = Cardinality(S) + Cardinality(U) - Cardinality(S \cap U)
    BY <1>7, FS_Union
  <2>2. Cardinality(S \cap U) = 0
    BY <1>6, FS_EmptySet
  <2>3. Cardinality(S \cup U) = Cardinality(G)
    BY <1>6
  <2> HIDE DEF S, U, G
  <2> QED
    BY <1>8, <2>1, <2>2, <2>3
<1>10. r.counts.started + r.counts.unstarted = OtherQueued + Cardinality(G)
  BY <1>3, <1>4, <1>8, <1>9, BoundsAssumption
<1>11. r.counts.stalled = Cardinality({u \in Unit : Guarded(Issue(u)) /\ (OpenBlocker(u) <=> u \notin r.undone)})
  BY <1>3, <1>4, <1>5
<1> QED
  BY <1>10, <1>11 DEF G

\* A forecast block is written from counts of what is there, unless somebody changed a
\* problem while it was put together: stalled are the active problems with an open
\* blocker, save that those whose two labels the session changed at once are counted the
\* other way round; the queue is the active problems, and the ETA is the nearest half day.
THEOREM ForecastIsTrue == Spec => []ForecastTells
<1> DEFINE Inv == TypeOK /\ Holding /\ Undisturbed
<1>1. Init => Inv
  <2>1. Init => Undisturbed
    BY DEF Init, Undisturbed
  <2> QED
    BY <2>1, TypeInit
<1>2. Inv /\ [Next]_vars => Inv'
  BY TypeStep, UndisturbedStep
<1>3. ASSUME TypeOK, Undisturbed PROVE ForecastTells
  <2>1. SUFFICES ASSUME NEW s \in Session, run[s] # Idle, run[s].pc \in {"read", "save"}, run[s].quiet
                 PROVE  LET n == run[s].counts
                            queue == n.started + n.unstarted
                        IN  /\ n.stalled = Cardinality({u \in Unit : Guarded(Issue(u))
                                                                 /\ (OpenBlocker(u) <=> u \notin run[s].undone)})
                            /\ queue = OtherQueued + Cardinality({u \in Unit : Guarded(Issue(u))})
                            /\ n.closed > 0 => LET off == 2 * Eta(n) * n.closed - 28 * queue
                                               IN  off <= n.closed /\ -off <= n.closed
    BY DEF ForecastTells
  <2>2. run[s] \in Session_ /\ Sees(run[s])
    BY <1>3, <2>1, Works DEF Undisturbed, TypeOK, RunType
  <2> DEFINE n == run[s].counts
             queue == n.started + n.unstarted
  <2>3. /\ n.stalled = Cardinality({u \in Unit : Guarded(Issue(u)) /\ (OpenBlocker(u) <=> u \notin run[s].undone)})
        /\ queue = OtherQueued + Cardinality({u \in Unit : Guarded(Issue(u))})
    BY <1>3, <2>1, <2>2, CountsTell
  <2>4. n \in Counts
    BY <2>2 DEF Session_
  <2> HIDE DEF n
  <2>5. n.closed \in Nat /\ queue \in Nat
    BY <2>4 DEF Counts
  <2>6. ASSUME n.closed > 0
        PROVE  LET off == 2 * Eta(n) * n.closed - 28 * queue IN off <= n.closed /\ -off <= n.closed
    <3>1. Eta(n) = HalfDays(queue, n.closed)
      BY <2>5, <2>6 DEF Eta
    <3> HIDE DEF queue
    <3>2. LET off == 2 * HalfDays(queue, n.closed) * n.closed - 28 * queue
          IN  off <= n.closed /\ -off <= n.closed
      BY <2>5, <2>6, NearestHalf
    <3> QED
      BY <3>1, <3>2
  <2> QED
    BY <2>3, <2>6 DEF n
<1>4. Inv => ForecastTells
  BY <1>3
<1> HIDE DEF Inv
<1>5. Spec => Init /\ [][Next]_vars
  BY DEF Spec
<1> QED
  BY <1>1, <1>2, <1>4, <1>5, PTL

-------------------------------------------------------------------------------
(* The block in the description *)

\* What is before each place of a set of numbers, itself included.
Rank(S, i) == Cardinality({j \in S : j <= i})

LEMMA RankGrows ==
  ASSUME NEW S \in SUBSET Nat, IsFiniteSet(S), NEW i \in S, NEW j \in S, i < j
  PROVE  /\ Rank(S, i) \in Nat /\ Rank(S, j) \in Nat
         /\ Rank(S, i) < Rank(S, j)
<1> DEFINE below == {x \in S : x <= i}
           upTo == {x \in S : x <= j}
<1>0. i \in Nat /\ j \in Nat /\ S \subseteq Nat
  OBVIOUS
<1>1. IsFiniteSet(upTo)
  <2>1. upTo \in SUBSET S
    OBVIOUS
  <2> QED
    BY <2>1, FS_Subset
<1>2. below \in SUBSET upTo /\ j \in upTo /\ j \notin below
  <2>1. \A x \in below : x \in upTo
    BY <1>0
  <2>2. j \in upTo /\ j \notin below
    BY <1>0
  <2> QED
    BY <2>1, <2>2
<1>3. IsFiniteSet(below) /\ Cardinality(below) <= Cardinality(upTo)
      /\ (Cardinality(upTo) = Cardinality(below) => upTo = below)
  <2> HIDE DEF below, upTo
  <2> QED
    BY <1>1, <1>2, FS_Subset
<1>4. Cardinality(below) \in Nat /\ Cardinality(upTo) \in Nat
  BY <1>1, <1>3, FS_CardinalityType
<1>5. upTo # below
  BY <1>2
<1>6. Cardinality(below) < Cardinality(upTo)
  <2> HIDE DEF below, upTo
  <2> QED
    BY <1>3, <1>4, <1>5
<1> QED
  BY <1>4, <1>6 DEF Rank

\* Each place has a rank of its own, up to the number of them, and each rank is one's.
LEMMA RanksAreHit ==
  ASSUME NEW S \in SUBSET Nat, IsFiniteSet(S)
  PROVE  /\ Cardinality(S) \in Nat
         /\ \A i, j \in S : Rank(S, i) = Rank(S, j) => i = j
         /\ \A k \in 1 .. Cardinality(S) : \E i \in S : Rank(S, i) = k
<1> DEFINE n == Cardinality(S)
           rank == [i \in S |-> Rank(S, i)]
<1>0. n \in Nat
  BY FS_CardinalityType
<1>1. ASSUME NEW i \in S PROVE Rank(S, i) \in 1 .. n
  <2> DEFINE upTo == {x \in S : x <= i}
  <2>1. upTo \in SUBSET S /\ i \in upTo
    OBVIOUS
  <2>2. IsFiniteSet(upTo) /\ Cardinality(upTo) <= n
    <3> HIDE DEF upTo
    <3> QED
      BY <2>1, FS_Subset
  <2>3. Cardinality(upTo) \in Nat /\ Cardinality(upTo) # 0
    <3> HIDE DEF upTo
    <3> QED
      BY <2>1, <2>2, FS_CardinalityType, FS_EmptySet
  <2>4. Rank(S, i) = Cardinality(upTo)
    BY DEF Rank
  <2> HIDE DEF upTo, n
  <2> QED
    BY <1>0, <2>2, <2>3, <2>4
<1>2. \A i, j \in S : Rank(S, i) = Rank(S, j) => i = j
  <2> SUFFICES ASSUME NEW i \in S, NEW j \in S, Rank(S, i) = Rank(S, j), i # j
               PROVE  FALSE
    OBVIOUS
  <2>1. i \in Nat /\ j \in Nat /\ (i < j \/ j < i)
    OBVIOUS
  <2>2. i < j => Rank(S, i) < Rank(S, j)
    BY RankGrows
  <2>3. j < i => Rank(S, j) < Rank(S, i)
    BY RankGrows
  <2>4. Rank(S, i) \in Nat /\ Rank(S, j) \in Nat /\ Rank(S, i) = Rank(S, j)
    BY <1>0, <1>1
  <2> QED
    BY <2>1, <2>2, <2>3, <2>4
<1>3. rank \in [S -> 1 .. n] /\ \A i, j \in S : rank[i] = rank[j] => i = j
  BY <1>1, <1>2
<1>4. rank \in Injection(S, 1 .. n)
  <2> HIDE DEF rank, n
  <2> QED
    BY <1>3 DEF Injection, IsInjective
<1>5. IsFiniteSet(1 .. n) /\ Cardinality(1 .. n) = n
  <2> HIDE DEF n
  <2> QED
    BY <1>0, FS_Interval
<1>6. rank \in Surjection(S, 1 .. n)
  <2>1. Cardinality(S) = Cardinality(1 .. n)
    BY <1>5
  <2> HIDE DEF rank, n
  <2> QED
    BY <2>1, <1>4, <1>5, FS_Injection
<1>7. ASSUME NEW k \in 1 .. n PROVE \E i \in S : Rank(S, i) = k
  <2>1. \E i \in S : rank[i] = k
    <3> HIDE DEF rank, n
    <3> QED
      BY <1>6 DEF Surjection
  <2> QED
    BY <2>1
<1> QED
  BY <1>0, <1>2, <1>7

\* Moved to other places in the same order, the same values come out.
LEMMA SameOrder ==
  ASSUME NEW f, NEW g, DOMAIN f \in SUBSET Nat, DOMAIN g \in SUBSET Nat, IsFiniteSet(DOMAIN f),
         NEW to, to \in Bijection(DOMAIN f, DOMAIN g),
         \A i, j \in DOMAIN f : i <= j <=> to[i] <= to[j],
         \A i \in DOMAIN f : f[i] = g[to[i]]
  PROVE  InOrder(f) = InOrder(g)
<1> DEFINE S == DOMAIN f
           T == DOMAIN g
<1>1. /\ to \in [S -> T] /\ \A i, j \in S : to[i] = to[j] => i = j
      /\ \A t \in T : \E i \in S : to[i] = t
  BY DEF Bijection, Injection, Surjection, IsInjective
<1>2. IsFiniteSet(T) /\ Cardinality(T) = Cardinality(S)
  <2>1. ExistsBijection(S, T)
    BY DEF ExistsBijection
  <2> HIDE DEF S, T
  <2>2. IsFiniteSet(S)
    BY DEF S
  <2> QED
    BY <2>1, <2>2, FS_Bijection
<1>3. ASSUME NEW i \in S PROVE Rank(T, to[i]) = Rank(S, i)
  <2> DEFINE A == {j \in S : j <= i}
             B == {j \in T : j <= to[i]}
             h == [j \in A |-> to[j]]
  <2>1. h \in [A -> B]
    BY <1>1
  <2>2. \A j, k \in A : h[j] = h[k] => j = k
    BY <1>1
  <2>3. \A t \in B : \E j \in A : h[j] = t
    BY <1>1
  <2>4. A \in SUBSET S
    OBVIOUS
  <2>5. IsFiniteSet(A)
    BY <2>4, FS_Subset
  <2>6. Rank(S, i) = Cardinality(A) /\ Rank(T, to[i]) = Cardinality(B)
    BY DEF Rank
  <2> HIDE DEF A, B, h
  <2>7. ExistsBijection(A, B)
    BY <2>1, <2>2, <2>3 DEF ExistsBijection, Bijection, Injection, Surjection, IsInjective
  <2>8. Cardinality(A) = Cardinality(B)
    BY <2>5, <2>7, FS_Bijection
  <2> QED
    BY <2>6, <2>8
<1>4. ASSUME NEW k \in 1 .. Cardinality(S)
      PROVE  f[CHOOSE i \in S : Rank(S, i) = k] = g[CHOOSE i \in T : Rank(T, i) = k]
  <2> DEFINE i == CHOOSE x \in S : Rank(S, x) = k
             j == CHOOSE x \in T : Rank(T, x) = k
  <2>1. i \in S /\ Rank(S, i) = k
    BY RanksAreHit
  <2>2. j \in T /\ Rank(T, j) = k
    <3>1. \E x \in T : Rank(T, x) = k
      BY <1>2, RanksAreHit
    <3> QED
      BY <3>1
  <2> HIDE DEF i, j
  <2>3. to[i] \in T /\ Rank(T, to[i]) = k
    BY <1>1, <1>3, <2>1
  <2>4. to[i] = j
    BY <1>2, <2>2, <2>3, RanksAreHit
  <2> QED
    BY <2>1, <2>4 DEF i, j
<1> HIDE DEF S, T
<1>5. /\ InOrder(f) = [k \in 1 .. Cardinality(S) |-> f[CHOOSE i \in S : Rank(S, i) = k]]
      /\ InOrder(g) = [k \in 1 .. Cardinality(T) |-> g[CHOOSE i \in T : Rank(T, i) = k]]
  BY Zenon DEF InOrder, Rank, S, T
<1> QED
  BY <1>2, <1>4, <1>5


\* What splicing makes of a description: the first p lines of t, the block, and the
\* lines after the q-th, if there are any, under a blank one.
Around(r, t, p, q, block) ==
  /\ r \in Seq(Line)
  /\ q = Len(t) => Len(r) = p + 3
  /\ q < Len(t) => Len(r) = p + 4 + (Len(t) - q)
  /\ \A i \in 1 .. p : r[i] = t[i]
  /\ \A i \in 1 .. 3 : r[p + i] = block[i]
  /\ q < Len(t) => /\ r[p + 4] = Plain("blank")
                   /\ \A i \in 1 .. Len(t) - q : r[p + 4 + i] = t[q + i]

\* It goes where p and q cut: no block before it, and a heading after it.
Fits(t, p, q) ==
  /\ t \in Seq(Line) /\ p \in 0 .. Len(t) /\ q \in p .. Len(t)
  /\ \A i \in 1 .. p : t[i].kind # "forecast"
  /\ q < Len(t) => t[q + 1].kind \in {"h2", "forecast"}

IsBlock(b) == /\ b \in Seq(Line) /\ Len(b) = 3
              /\ b[1].kind = "forecast" /\ b[2].kind = "blank" /\ b[3].kind = "row"

\* The lines of t that are not cut away, but for the blank ones.
Rest(t, p, q) == [i \in {j \in 1 .. Len(t) : (j <= p \/ q < j) /\ t[j].kind # "blank"} |-> t[i]]

LEMMA BlocksAre == \A n \in Counts : IsBlock(Block(n))
<1> SUFFICES ASSUME NEW n \in Counts
             PROVE  IsBlock(Block(n))
  OBVIOUS
<1>1. Block(n) \in Seq(Line)
  BY LineTyped
<1>2. /\ Len(Block(n)) = 3
      /\ Block(n)[1] = Plain("forecast") /\ Block(n)[2] = Plain("blank")
      /\ Block(n)[3] = [kind |-> "row", val |-> n]
  BY DEF Block
<1> QED
  BY <1>1, <1>2 DEF IsBlock, Plain

\* Two descriptions spliced in one way are one.
LEMMA AroundIsOne ==
  ASSUME NEW t, NEW p, NEW q, Fits(t, p, q), NEW b, NEW x, NEW y, Around(x, t, p, q, b), Around(y, t, p, q, b)
  PROVE  x = y
<1>1. t \in Seq(Line) /\ p \in 0 .. Len(t) /\ q \in p .. Len(t)
  BY DEF Fits
<1>2. Len(t) \in Nat /\ p \in Nat /\ q \in Nat /\ q <= Len(t)
  <2>1. Len(t) \in Nat
    BY <1>1, LenProperties
  <2> QED
    BY <1>1, <2>1
<1>3. /\ x \in Seq(Line) /\ y \in Seq(Line)
      /\ q = Len(t) => Len(x) = p + 3 /\ Len(y) = p + 3
      /\ q < Len(t) => Len(x) = p + 4 + (Len(t) - q) /\ Len(y) = p + 4 + (Len(t) - q)
  BY DEF Around
<1>4. /\ \A i \in 1 .. p : x[i] = y[i]
      /\ \A i \in 1 .. 3 : x[p + i] = y[p + i]
      /\ q < Len(t) => x[p + 4] = y[p + 4] /\ \A i \in 1 .. Len(t) - q : x[p + 4 + i] = y[p + 4 + i]
  BY DEF Around
<1>5. /\ q = Len(t) => Len(x) = p + 3
      /\ q < Len(t) => Len(x) = p + 4 + (Len(t) - q)
      /\ Len(x) = Len(y)
  BY <1>2, <1>3
<1>6. ASSUME NEW i \in 1 .. Len(x) PROVE x[i] = y[i]
  <2>0. i \in Nat /\ 1 <= i /\ i <= Len(x)
    BY <1>2, <1>5
  <2>1. CASE i <= p
    BY <1>2, <1>4, <2>0, <2>1
  <2>2. CASE p < i /\ i <= p + 3
    <3>1. i - p \in 1 .. 3 /\ p + (i - p) = i
      BY <1>2, <2>0, <2>2
    <3> QED
      BY <1>4, <3>1
  <2>3. CASE i = p + 4
    <3>1. q < Len(t)
      BY <1>2, <1>5, <2>0, <2>3
    <3> QED
      BY <1>4, <2>3, <3>1
  <2>4. CASE i > p + 4
    <3>1. q < Len(t)
      BY <1>2, <1>5, <2>0, <2>4
    <3>2. i - (p + 4) \in 1 .. Len(t) - q /\ p + 4 + (i - (p + 4)) = i
      BY <1>2, <1>5, <2>0, <2>4, <3>1
    <3> QED
      BY <1>4, <3>1, <3>2
  <2> QED
    BY <1>2, <2>0, <2>1, <2>2, <2>3, <2>4
<1> QED
  BY <1>3, <1>5, <1>6, SeqEqual

\* Where the first block ends: before the next heading of its level, if there is one.
NextTop(lines) == {j \in LeastOf(Headings(lines)) + 1 .. Len(lines) : lines[j].kind \in {"h2", "forecast"}}
StopOf(lines) == IF NextTop(lines) = {} THEN Len(lines) ELSE LeastOf(NextTop(lines)) - 1

LEMMA StopIs ==
  ASSUME NEW lines \in Seq(Line), Headings(lines) # {}
  PROVE  LET s == LeastOf(Headings(lines))
             stop == StopOf(lines)
         IN  /\ Len(lines) \in Nat /\ s \in 1 .. Len(lines) /\ stop \in s .. Len(lines)
             /\ lines[s].kind = "forecast"
             /\ \A i \in 1 .. s - 1 : lines[i].kind # "forecast"
             /\ \A i \in s + 1 .. stop : lines[i].kind \notin {"h2", "forecast"}
             /\ stop < Len(lines) => lines[stop + 1].kind \in {"h2", "forecast"}
<1> DEFINE s == LeastOf(Headings(lines))
           stop == StopOf(lines)
<1>1. Len(lines) \in Nat /\ DOMAIN lines = 1 .. Len(lines)
  BY LenProperties
<1>2. Headings(lines) \subseteq Nat
  BY <1>1 DEF Headings
<1>3. s \in Headings(lines) /\ \A y \in Headings(lines) : s <= y
  BY <1>2, Least
<1> HIDE DEF s
<1>4. s \in 1 .. Len(lines) /\ lines[s].kind = "forecast"
  BY <1>1, <1>3 DEF Headings
<1>5. \A i \in 1 .. s - 1 : lines[i].kind # "forecast"
  <2> SUFFICES ASSUME NEW i \in 1 .. s - 1, lines[i].kind = "forecast"
               PROVE  FALSE
    OBVIOUS
  <2>1. i \in Headings(lines)
    BY <1>1, <1>4 DEF Headings
  <2> QED
    BY <1>3, <1>4, <2>1
<1>6. /\ stop \in s .. Len(lines)
      /\ \A i \in s + 1 .. stop : lines[i].kind \notin {"h2", "forecast"}
      /\ stop < Len(lines) => lines[stop + 1].kind \in {"h2", "forecast"}
  <2> DEFINE next == {j \in s + 1 .. Len(lines) : lines[j].kind \in {"h2", "forecast"}}
  <2>1. stop = IF next = {} THEN Len(lines) ELSE LeastOf(next) - 1
    BY DEF StopOf, NextTop, s
  <2>2. CASE next = {}
    <3>1. stop = Len(lines)
      BY <2>1, <2>2
    <3>2. \A i \in s + 1 .. Len(lines) : lines[i].kind \notin {"h2", "forecast"}
      BY <2>2
    <3> QED
      BY <1>1, <1>4, <3>1, <3>2
  <2>3. CASE next # {}
    <3>1. LeastOf(next) \in next /\ \A y \in next : LeastOf(next) <= y
      <4>1. next \subseteq Nat
        BY <1>1, <1>4
      <4> QED
        BY <2>3, <4>1, Least
    <3>2. stop + 1 \in next /\ \A y \in next : stop + 1 <= y
      <4>1. stop = LeastOf(next) - 1
        BY <2>1, <2>3
      <4>2. LeastOf(next) \in Int
        BY <1>1, <1>4, <3>1
      <4>3. stop + 1 = LeastOf(next)
        <5> HIDE DEF stop, next
        <5> QED
          BY <4>1, <4>2
      <4> QED
        BY <3>1, <4>3
    <3> HIDE DEF stop
    <3>3. stop \in s .. Len(lines) /\ lines[stop + 1].kind \in {"h2", "forecast"}
      <4>1. stop + 1 \in s + 1 .. Len(lines)
        BY <3>2
      <4>2. stop \in Int
        BY <1>1, <1>4, <2>1, <2>3, <3>1
      <4> QED
        BY <1>1, <1>4, <3>2, <4>1, <4>2
    <3>4. ASSUME NEW i \in s + 1 .. stop PROVE lines[i].kind \notin {"h2", "forecast"}
      <4> SUFFICES ASSUME lines[i].kind \in {"h2", "forecast"}
                   PROVE  FALSE
        OBVIOUS
      <4>1. i \in next
        BY <1>1, <1>4, <3>3
      <4>2. stop + 1 <= i
        BY <3>2, <4>1
      <4> QED
        BY <1>1, <1>4, <3>3, <4>2
    <3> QED
      BY <3>3, <3>4
  <2> QED
    BY <2>2, <2>3
<1> QED
  BY <1>1, <1>4, <1>5, <1>6 DEF s


\* The block ends with its last line that is not blank.
LEMMA EndIs ==
  ASSUME NEW lines \in Seq(Line), Headings(lines) # {}
  PROVE  LET s == LeastOf(Headings(lines))
             e == BlockEnd(lines, s)
         IN  /\ e \in s .. StopOf(lines)
             /\ \A i \in e + 1 .. StopOf(lines) : lines[i].kind = "blank"
<1> DEFINE s == LeastOf(Headings(lines))
           stop == StopOf(lines)
           shown == {e \in s .. stop : lines[e].kind # "blank"}
<1>1. Len(lines) \in Nat /\ s \in 1 .. Len(lines) /\ stop \in s .. Len(lines) /\ lines[s].kind = "forecast"
  BY StopIs
<1>2. BlockEnd(lines, s) = CHOOSE e \in s .. stop : /\ lines[e].kind # "blank"
                                                    /\ Blank(SubSeq(lines, e + 1, stop))
  BY DEF BlockEnd, StopOf, NextTop
<1> HIDE DEF s, stop
<1>3. s \in shown
  BY <1>1
<1>4. PICK e \in shown : \A y \in shown : y <= e
  <2> DEFINE U == {stop - x : x \in shown}
  <2>1. U \subseteq Nat /\ U # {}
    BY <1>1, <1>3
  <2>2. LeastOf(U) \in U /\ \A y \in U : LeastOf(U) <= y
    BY <2>1, Least
  <2>3. PICK x \in shown : LeastOf(U) = stop - x
    BY <2>2
  <2>4. \A y \in shown : stop - x <= stop - y
    BY <2>2, <2>3
  <2> QED
    BY <1>1, <2>4
<1>5. \A i \in e + 1 .. stop : lines[i].kind = "blank"
  BY <1>1, <1>4
<1>6. \A x \in s .. stop : Blank(SubSeq(lines, x + 1, stop)) <=> \A i \in x + 1 .. stop : lines[i].kind = "blank"
  BY <1>1, BlankParts
<1>7. e \in s .. stop /\ lines[e].kind # "blank" /\ Blank(SubSeq(lines, e + 1, stop))
  BY <1>4, <1>5, <1>6
<1> DEFINE last == BlockEnd(lines, s)
<1>8. last \in s .. stop /\ Blank(SubSeq(lines, last + 1, stop))
  BY <1>2, <1>7
<1> HIDE DEF last
<1>9. \A i \in last + 1 .. stop : lines[i].kind = "blank"
  BY <1>6, <1>8
<1> QED
  BY <1>8, <1>9 DEF last, s, stop

\* What follows the block, without its leading blank lines.
LEMMA StripIs ==
  ASSUME NEW lines \in Seq(Line), Headings(lines) # {}
  PROVE  LET s == LeastOf(Headings(lines))
             suffix == SubSeq(lines, BlockEnd(lines, s) + 1, Len(lines))
         IN  /\ Blank(suffix) <=> StopOf(lines) = Len(lines)
             /\ StopOf(lines) < Len(lines) =>
                  /\ LStrip(suffix) \in Seq(Line)
                  /\ Len(LStrip(suffix)) = Len(lines) - StopOf(lines)
                  /\ \A i \in 1 .. Len(lines) - StopOf(lines) : LStrip(suffix)[i] = lines[StopOf(lines) + i]
<1> DEFINE s == LeastOf(Headings(lines))
           stop == StopOf(lines)
           e == BlockEnd(lines, s)
           n == Len(lines)
           suffix == SubSeq(lines, e + 1, n)
<1>1. /\ n \in Nat /\ s \in 1 .. n /\ stop \in s .. n
      /\ stop < n => lines[stop + 1].kind \in {"h2", "forecast"}
  BY StopIs
<1>2. e \in s .. stop /\ \A i \in e + 1 .. stop : lines[i].kind = "blank"
  BY EndIs
<1> HIDE DEF s, stop, e
<1>3. \A i \in e + 1 .. n : lines[i] \in Line
  <2>1. \A i \in 1 .. n : lines[i] \in Line
    BY <1>1, ElementOfSeq
  <2> QED
    BY <1>1, <1>2, <2>1
<1>4. /\ suffix \in Seq(Line) /\ Len(suffix) = n - e
      /\ \A i \in 1 .. n - e : suffix[i] = lines[e + i]
  <2>0. e + 1 \in Nat \ {0} /\ n \in Nat
    BY <1>1, <1>2
  <2>1. /\ suffix \in Seq(Line) /\ Len(suffix) = (IF e + 1 <= n THEN n - (e + 1) + 1 ELSE 0)
        /\ \A i \in 1 .. n - (e + 1) + 1 : suffix[i] = lines[e + 1 + i - 1]
    <3> HIDE DEF n
    <3> QED
      BY <1>3, <2>0, SubSeqProperties
  <2> HIDE DEF suffix, n
  <2> QED
    BY <1>1, <1>2, <2>1
<1>5. Blank(suffix) <=> \A i \in e + 1 .. n : lines[i].kind = "blank"
  <2>1. e + 1 \in Nat \ {0} /\ n \in 0 .. Len(lines)
    BY <1>1, <1>2
  <2> QED
    BY <2>1, BlankParts
<1>6. Blank(suffix) <=> stop = n
  <2> HIDE DEF n, suffix
  <2>1. CASE stop = n
    BY <1>2, <1>5, <2>1
  <2>2. CASE stop < n
    <3>1. stop + 1 \in e + 1 .. n /\ lines[stop + 1].kind # "blank"
      BY <1>1, <1>2, <2>2
    <3> QED
      BY <1>1, <1>5, <2>2, <3>1
  <2> QED
    BY <1>1, <2>1, <2>2
<1>7. ASSUME stop < n
      PROVE  /\ LStrip(suffix) \in Seq(Line) /\ Len(LStrip(suffix)) = n - stop
             /\ \A i \in 1 .. n - stop : LStrip(suffix)[i] = lines[stop + i]
  <2> DEFINE D == {i \in DOMAIN suffix : Blank(SubSeq(suffix, 1, i))}
  <2> HIDE DEF n, suffix
  <2>1. DOMAIN suffix = 1 .. n - e
    BY <1>4, LenProperties
  <2>2. \A i \in 1 .. n - e : Blank(SubSeq(suffix, 1, i)) <=> \A j \in 1 .. i : suffix[j].kind = "blank"
    <3> SUFFICES ASSUME NEW i \in 1 .. n - e
                 PROVE  Blank(SubSeq(suffix, 1, i)) <=> \A j \in 1 .. i : suffix[j].kind = "blank"
      OBVIOUS
    <3>1. i \in 0 .. Len(suffix) /\ 1 \in Nat \ {0}
      BY <1>1, <1>2, <1>4
    <3> QED
      BY <1>4, <3>1, BlankParts
  <2>3. D = 1 .. stop - e
    <3>1. ASSUME NEW i \in 1 .. stop - e PROVE i \in D
      <4>1. i \in 1 .. n - e
        BY <1>1, <1>2, <1>7, <3>1
      <4>2. \A j \in 1 .. i : j \in 1 .. n - e /\ e + j \in e + 1 .. stop
        BY <1>1, <1>2, <1>7, <3>1
      <4>3. \A j \in 1 .. i : suffix[j].kind = "blank"
        BY <1>2, <1>4, <4>2
      <4> QED
        BY <2>1, <2>2, <4>1, <4>3
    <3>2. ASSUME NEW i \in D PROVE i \in 1 .. stop - e
      <4>1. i \in 1 .. n - e /\ \A j \in 1 .. i : suffix[j].kind = "blank"
        BY <2>1, <2>2
      <4>2. stop - e + 1 \in 1 .. n - e /\ e + (stop - e + 1) = stop + 1
        BY <1>1, <1>2, <1>7
      <4>3. suffix[stop - e + 1].kind # "blank"
        <5>1. suffix[stop - e + 1] = lines[stop + 1]
          BY <1>4, <4>2
        <5> QED
          BY <1>1, <1>7, <5>1
      <4>4. ~(stop - e + 1 \in 1 .. i)
        BY <4>1, <4>3
      <4> QED
        BY <1>1, <1>2, <4>1, <4>4
    <3> HIDE DEF D
    <3> QED
      BY <3>1, <3>2
  <2>4. stop - e \in Nat
    BY <1>1, <1>2
  <2>5. Cardinality(D) = stop - e
    <3>1. Cardinality(1 .. stop - e) = stop - e
      <4> DEFINE k == stop - e
      <4>1. k \in Nat
        BY <2>4
      <4> HIDE DEF k
      <4>2. Cardinality(1 .. k) = k
        BY <4>1, FS_Interval
      <4> QED
        BY <4>2 DEF k
    <3> QED
      BY <2>3, <3>1
  <2>6. LStrip(suffix) = SubSeq(suffix, stop - e + 1, n - e)
    BY <1>4, <2>5 DEF LStrip
  <2> DEFINE r == SubSeq(suffix, stop - e + 1, n - e)
  <2>7. /\ r \in Seq(Line) /\ Len(r) = (IF stop - e + 1 <= n - e THEN n - e - (stop - e + 1) + 1 ELSE 0)
        /\ \A i \in 1 .. n - e - (stop - e + 1) + 1 : r[i] = suffix[stop - e + 1 + i - 1]
    <3>1. \A i \in stop - e + 1 .. n - e : suffix[i] \in Line
      <4>1. \A i \in stop - e + 1 .. n - e : i \in 1 .. n - e /\ e + i \in e + 1 .. n
        BY <1>1, <1>2
      <4> QED
        BY <1>3, <1>4, <4>1
    <3>2. stop - e + 1 \in Nat \ {0} /\ n - e \in Nat
      BY <1>1, <1>2
    <3> QED
      BY <3>1, <3>2, SubSeqProperties
  <2> HIDE DEF r
  <2>8. Len(r) = n - stop
    BY <1>1, <1>2, <1>7, <2>7
  <2>9. ASSUME NEW i \in 1 .. n - stop PROVE r[i] = lines[stop + i]
    <3>1. /\ i \in 1 .. n - e - (stop - e + 1) + 1 /\ stop - e + 1 + i - 1 = stop - e + i
          /\ stop - e + i \in 1 .. n - e /\ e + (stop - e + i) = stop + i
      BY <1>1, <1>2, <1>7
    <3> QED
      BY <1>4, <2>7, <3>1
  <2> QED
    BY <2>6, <2>7, <2>8, <2>9 DEF r
<1> QED
  BY <1>6, <1>7 DEF suffix, s, stop, e, n


\* Join, of two parts of a description.
Joins(x, y, z) == /\ z \in Seq(Line) /\ Len(z) = Len(x) + Len(y)
                  /\ \A i \in 1 .. Len(x) : z[i] = x[i]
                  /\ \A i \in 1 .. Len(y) : z[Len(x) + i] = y[i]

LEMMA Joined == \A x, y \in Seq(Line) : Joins(x, y, x \o y)
BY Join DEF Joins

\* A description that has a block keeps what is before it and what comes after.
LEMMA SpliceAtBlock ==
  ASSUME NEW lines \in Seq(Line), Headings(lines) # {}, NEW b, IsBlock(b)
  PROVE  LET s == LeastOf(Headings(lines))
         IN  /\ Fits(lines, s - 1, StopOf(lines))
             /\ Around(Splice(lines, b), lines, s - 1, StopOf(lines), b)
<1> DEFINE s == LeastOf(Headings(lines))
           stop == StopOf(lines)
           n == Len(lines)
           suffix == SubSeq(lines, BlockEnd(lines, s) + 1, n)
           front == SubSeq(lines, 1, s - 1)
           back == IF Blank(suffix) THEN <<>> ELSE <<Plain("blank")>> \o LStrip(suffix)
           r == Splice(lines, b)
<1>1. /\ n \in Nat /\ s \in 1 .. n /\ stop \in s .. n /\ lines[s].kind = "forecast"
      /\ \A i \in 1 .. s - 1 : lines[i].kind # "forecast"
      /\ stop < n => lines[stop + 1].kind \in {"h2", "forecast"}
  BY StopIs
<1>2. /\ Blank(suffix) <=> stop = n
      /\ stop < n => /\ LStrip(suffix) \in Seq(Line) /\ Len(LStrip(suffix)) = n - stop
                     /\ \A i \in 1 .. n - stop : LStrip(suffix)[i] = lines[stop + i]
  BY StripIs
<1>3. ~Blank(lines)
  <2>1. s \in DOMAIN lines
    BY <1>1, LenProperties
  <2> HIDE DEF s
  <2> QED
    BY <1>1, <2>1 DEF Blank
<1>4. r = (front \o b) \o back
  BY <1>3 DEF Splice
<1> HIDE DEF s, stop, suffix
<1>5. front \in Seq(Line) /\ Len(front) = s - 1 /\ \A i \in 1 .. s - 1 : front[i] = lines[i]
  <2>1. \A i \in 1 .. s - 1 : lines[i] \in Line
    <3>1. \A i \in 1 .. n : lines[i] \in Line
      BY ElementOfSeq
    <3> QED
      BY <1>1, <3>1
  <2>2. s - 1 \in Nat /\ 1 \in Nat \ {0}
    BY <1>1
  <2>3. /\ front \in Seq(Line) /\ Len(front) = (IF 1 <= s - 1 THEN s - 1 - 1 + 1 ELSE 0)
        /\ \A i \in 1 .. s - 1 - 1 + 1 : front[i] = lines[1 + i - 1]
    BY <2>1, <2>2, SubSeqProperties
  <2> HIDE DEF front, n
  <2> QED
    BY <1>1, <2>3
<1>6. /\ back \in Seq(Line)
      /\ stop = n => Len(back) = 0
      /\ stop < n => /\ Len(back) = 1 + (n - stop) /\ back[1] = Plain("blank")
                     /\ \A i \in 1 .. n - stop : back[1 + i] = lines[stop + i]
  <2>1. CASE stop = n
    <3>1. back = <<>>
      BY <1>2, <2>1
    <3> QED
      BY <1>1, <2>1, <3>1
  <2>2. CASE stop < n
    <3> DEFINE head == <<Plain("blank")>>
               tail == LStrip(suffix)
    <3>1. head \in Seq(Line) /\ Len(head) = 1 /\ head[1] = Plain("blank")
      BY LineTyped DEF LineKind
    <3>2. back = head \o tail
      BY <1>1, <1>2, <2>2
    <3>3. tail \in Seq(Line) /\ Len(tail) = n - stop /\ \A i \in 1 .. n - stop : tail[i] = lines[stop + i]
      BY <1>2, <2>2
    <3> HIDE DEF head, tail, back, n
    <3>4. Joins(head, tail, back)
      BY <3>1, <3>2, <3>3, Joined
    <3>5. 1 \in 1 .. Len(head)
      BY <3>1
    <3> QED
      BY <1>1, <2>2, <3>1, <3>2, <3>3, <3>4, <3>5 DEF Joins
  <2> QED
    BY <1>1, <2>1, <2>2
<1>7. b \in Seq(Line) /\ Len(b) = 3
  BY DEF IsBlock
<1> DEFINE c == front \o b
<1> HIDE DEF front, back, r, n
<1>0. c = front \o b
  OBVIOUS
<1> HIDE DEF c
<1>8. /\ c \in Seq(Line) /\ Len(c) = Len(front) + Len(b)
      /\ \A i \in 1 .. Len(front) : c[i] = front[i]
      /\ \A i \in 1 .. Len(b) : c[Len(front) + i] = b[i]
  <2>1. Joins(front, b, c)
    BY <1>0, <1>5, <1>7, Joined
  <2> QED
    BY <2>1 DEF Joins
<1>9. /\ r \in Seq(Line) /\ Len(r) = Len(c) + Len(back)
      /\ \A i \in 1 .. Len(c) : r[i] = c[i]
      /\ \A i \in 1 .. Len(back) : r[Len(c) + i] = back[i]
  <2>1. r = c \o back
    BY <1>0, <1>4
  <2>2. Joins(c, back, r)
    BY <1>6, <1>8, <2>1, Joined
  <2> QED
    BY <2>2 DEF Joins
<1> DEFINE p == s - 1
<1>10. p \in Nat /\ Len(front) = p /\ Len(c) = p + 3
  BY <1>1, <1>5, <1>7, <1>8
<1> HIDE DEF p
<1>11. \A i \in 1 .. p : r[i] = lines[i]
  <2> SUFFICES ASSUME NEW i \in 1 .. p
               PROVE  r[i] = lines[i]
    OBVIOUS
  <2>1. i \in 1 .. Len(c) /\ i \in 1 .. Len(front)
    BY <1>10
  <2> QED
    BY <1>5, <1>8, <1>9, <1>10, <2>1 DEF p
<1>12. \A i \in 1 .. 3 : r[p + i] = b[i]
  <2> SUFFICES ASSUME NEW i \in 1 .. 3
               PROVE  r[p + i] = b[i]
    OBVIOUS
  <2>1. p + i \in 1 .. Len(c) /\ i \in 1 .. Len(b)
    BY <1>7, <1>10
  <2> QED
    BY <1>8, <1>9, <1>10, <2>1
<1>13. ASSUME stop < n
       PROVE  /\ r[p + 4] = Plain("blank")
              /\ \A i \in 1 .. n - stop : r[p + 4 + i] = lines[stop + i]
  <2>1. Len(back) = 1 + (n - stop) /\ 1 \in 1 .. Len(back) /\ p + 3 + 1 = p + 4
    BY <1>1, <1>6, <1>10, <1>13
  <2>2. r[p + 4] = Plain("blank")
    BY <1>6, <1>9, <1>10, <1>13, <2>1
  <2>3. ASSUME NEW i \in 1 .. n - stop PROVE r[p + 4 + i] = lines[stop + i]
    <3>1. 1 + i \in 1 .. Len(back) /\ p + 3 + (1 + i) = p + 4 + i
      BY <1>1, <1>10, <2>1
    <3> QED
      BY <1>6, <1>9, <1>10, <1>13, <3>1
  <2> QED
    BY <2>2, <2>3
<1>14. /\ stop = n => Len(r) = p + 3
       /\ stop < n => Len(r) = p + 4 + (n - stop)
  <2>1. Len(r) = Len(c) + Len(back) /\ n \in Nat /\ stop \in Nat /\ s \in Nat
    BY <1>1, <1>9
  <2>2. CASE stop = n
    <3>1. Len(back) = 0
      BY <1>6, <2>2
    <3> QED
      BY <1>10, <2>1, <2>2, <3>1
  <2>3. CASE stop < n
    <3>1. Len(back) = 1 + (n - stop)
      BY <1>6, <2>3
    <3> QED
      BY <1>10, <2>1, <2>3, <3>1
  <2>4. stop <= n
    BY <1>1
  <2> QED
    BY <2>1, <2>2, <2>3, <2>4
<1>15. Around(r, lines, p, stop, b)
  BY <1>9, <1>11, <1>12, <1>13, <1>14 DEF Around, n
<1>16. Fits(lines, p, stop)
  <2>1. p \in 0 .. n /\ stop \in p .. n
    BY <1>1 DEF p
  <2> QED
    BY <1>1, <2>1 DEF Fits, n, p
<1> QED
  BY <1>15, <1>16 DEF p, s, stop, r


\* What stands outside the first block: the lines before and after it.
LEMMA OutsideIs ==
  ASSUME NEW lines \in Seq(Line)
  PROVE  LET s == LeastOf(Headings(lines))
         IN  /\ Headings(lines) = {} =>
                  Outside(lines) = [i \in {j \in 1 .. Len(lines) : lines[j].kind # "blank"} |-> lines[i]]
             /\ Headings(lines) # {} => Outside(lines) = Rest(lines, s - 1, StopOf(lines))
<1> DEFINE s == LeastOf(Headings(lines))
           stop == StopOf(lines)
           inside(i) == \E h \in Headings(lines) :
                          /\ h <= i
                          /\ \A j \in Headings(lines) : h <= j
                          /\ \A j \in h + 1 .. i : lines[j].kind \notin {"h2", "forecast"}
           shown == {j \in DOMAIN lines : ~inside(j) /\ lines[j].kind # "blank"}
<1>1. Outside(lines) = [i \in shown |-> lines[i]]
  BY DEF Outside
<1>2. DOMAIN lines = 1 .. Len(lines) /\ Len(lines) \in Nat
  BY LenProperties
<1>3. CASE Headings(lines) = {}
  <2>1. shown = {j \in 1 .. Len(lines) : lines[j].kind # "blank"}
    BY <1>2, <1>3
  <2> HIDE DEF shown
  <2> QED
    BY <1>1, <1>3, <2>1
<1>4. CASE Headings(lines) # {}
  <2>1. /\ s \in 1 .. Len(lines) /\ stop \in s .. Len(lines)
        /\ lines[s].kind = "forecast"
        /\ \A i \in 1 .. s - 1 : lines[i].kind # "forecast"
        /\ \A i \in s + 1 .. stop : lines[i].kind \notin {"h2", "forecast"}
        /\ stop < Len(lines) => lines[stop + 1].kind \in {"h2", "forecast"}
    BY <1>4, StopIs
  <2>2. s \in Headings(lines) /\ Headings(lines) \subseteq 1 .. Len(lines)
    BY <1>2, <2>1 DEF Headings
  <2>3. \A j \in Headings(lines) : s <= j
    <3>1. Headings(lines) \subseteq Nat
      BY <2>2
    <3> QED
      BY <1>4, <3>1, Least
  <2> HIDE DEF s, stop
  <2>4. ASSUME NEW i \in 1 .. Len(lines), i \in s .. stop PROVE inside(i)
    <3>1. \A j \in s + 1 .. i : j \in s + 1 .. stop
      BY <1>2, <2>1, <2>4
    <3>2. s <= i
      BY <2>4
    <3> QED
      BY <2>1, <2>2, <2>3, <3>1, <3>2
  <2>5. ASSUME NEW i \in 1 .. Len(lines), inside(i) PROVE i \in s .. stop
    <3>1. PICK h \in Headings(lines) : /\ h <= i /\ \A j \in Headings(lines) : h <= j
                                       /\ \A j \in h + 1 .. i : lines[j].kind \notin {"h2", "forecast"}
      BY <2>5
    <3>2. h = s
      BY <1>2, <2>1, <2>2, <2>3, <3>1
    <3>3. ~(i > stop)
      <4> SUFFICES ASSUME i > stop
                   PROVE  FALSE
        OBVIOUS
      <4>1. stop < Len(lines) /\ stop + 1 \in h + 1 .. i
        BY <1>2, <2>1, <3>2
      <4> QED
        BY <2>1, <3>1, <4>1
    <3> QED
      BY <1>2, <2>1, <3>1, <3>2, <3>3
  <2> DEFINE part == {j \in 1 .. Len(lines) : (j <= s - 1 \/ stop < j) /\ lines[j].kind # "blank"}
  <2>6. ASSUME NEW j \in 1 .. Len(lines) PROVE ~inside(j) <=> j <= s - 1 \/ stop < j
    <3>1. inside(j) <=> j \in s .. stop
      BY <2>4, <2>5
    <3> HIDE DEF inside
    <3> QED
      BY <1>2, <2>1, <3>1
  <2>7. shown = part
    <3> HIDE DEF inside
    <3> QED
      BY <1>2, <2>6
  <2> HIDE DEF shown, part
  <2>8. Outside(lines) = [i \in part |-> lines[i]]
    BY <1>1, <2>7
  <2> QED
    BY <1>4, <2>8 DEF Rest, part, s, stop
<1> QED
  BY <1>3, <1>4 DEF s, stop

\* Nobody has a second block.
OneBlock(lines) == \A i, j \in Headings(lines) : i = j

\* A block is spliced between the first p lines of t and those after the q-th, and
\* that is all that stands outside the old one.
SplicedAt(lines, t, p, q) ==
  /\ Fits(t, p, q)
  /\ \A b : IsBlock(b) => Around(Splice(lines, b), t, p, q, b)
  /\ Outside(lines) = Rest(t, p, q)
  /\ OneBlock(lines) => \A i \in q + 1 .. Len(t) : t[i].kind # "forecast"

\* What is spliced into and where depend on the description alone, whatever the block.
LEMMA SpliceShape ==
  ASSUME NEW lines \in Seq(Line)
  PROVE  \E t \in Seq(Line), p \in Nat, q \in Nat : SplicedAt(lines, t, p, q)
<1>1. DOMAIN lines = 1 .. Len(lines) /\ Len(lines) \in Nat
  BY LenProperties
<1>2. CASE Blank(lines)
  <2>1. \A i \in 1 .. Len(lines) : lines[i].kind = "blank"
    BY <1>1, <1>2 DEF Blank
  <2>2. Headings(lines) = {}
    BY <1>1, <2>1 DEF Headings
  <2> DEFINE t == <<>>
             none == {j \in 1 .. Len(lines) : lines[j].kind # "blank"}
             rest == {j \in 1 .. Len(t) : (j <= 0 \/ 0 < j) /\ t[j].kind # "blank"}
  <2>3. t \in Seq(Line) /\ Len(t) = 0
    OBVIOUS
  <2>4. none = {}
    BY <2>1
  <2>5. rest = {}
    BY <2>3
  <2> HIDE DEF t
  <2>6. Outside(lines) = [i \in none |-> lines[i]]
    BY <2>2, OutsideIs
  <2>7. Outside(lines) = [i \in rest |-> t[i]]
    BY <2>4, <2>5, <2>6
  <2>8. Fits(t, 0, 0)
    BY <2>3 DEF Fits
  <2>9. ASSUME NEW b, IsBlock(b) PROVE Around(Splice(lines, b), t, 0, 0, b)
    <3>1. Splice(lines, b) = b
      BY <1>2 DEF Splice
    <3>2. \A i \in 1 .. 3 : b[0 + i] = b[i]
      OBVIOUS
    <3> QED
      BY <2>3, <2>9, <3>1, <3>2 DEF Around, IsBlock
  <2>10. Outside(lines) = Rest(t, 0, 0) /\ \A i \in 0 + 1 .. Len(t) : t[i].kind # "forecast"
    BY <2>3, <2>7 DEF Rest
  <2>11. SplicedAt(lines, t, 0, 0)
    BY <2>8, <2>9, <2>10 DEF SplicedAt
  <2>12. 0 \in Nat
    OBVIOUS
  <2> HIDE DEF none, rest
  <2> QED
    BY <2>3, <2>11, <2>12, Zenon
<1>3. CASE ~Blank(lines) /\ Headings(lines) = {}
  <2> DEFINE n == Len(lines)
             gap == <<Plain("blank")>>
             t == lines \o gap
             all == {j \in 1 .. n : lines[j].kind # "blank"}
             rest == {j \in 1 .. Len(t) : (j <= n + 1 \/ n + 1 < j) /\ t[j].kind # "blank"}
  <2>1. gap \in Seq(Line) /\ Len(gap) = 1 /\ gap[1] = Plain("blank") /\ Plain("blank").kind = "blank"
    BY LineTyped DEF LineKind, Plain
  <2>2. t \in Seq(Line) /\ Len(t) = n + 1 /\ t[n + 1] = gap[1] /\ \A i \in 1 .. n : t[i] = lines[i]
    <3>1. Joins(lines, gap, t)
      BY <2>1, Joined
    <3>2. 1 \in 1 .. Len(gap)
      BY <2>1
    <3> HIDE DEF t, gap
    <3> QED
      BY <2>1, <3>1, <3>2 DEF Joins
  <2>3. n \in Nat
    BY <1>1
  <2>4. Outside(lines) = [i \in all |-> lines[i]]
    BY <1>3, OutsideIs
  <2>0. \A b : Splice(lines, b) = t \o b
    BY <1>3 DEF Splice
  <2> HIDE DEF t, gap
  <2>5. rest = all
    <3>1. t[n + 1].kind = "blank"
      BY <2>1, <2>2
    <3>2. \A j \in 1 .. n + 1 : j \in rest <=> j \in all
      BY <2>2, <2>3, <3>1
    <3> QED
      BY <2>2, <2>3, <3>2
  <2>6. Outside(lines) = [i \in rest |-> t[i]]
    <3>1. \A i \in all : t[i] = lines[i]
      BY <2>2
    <3> QED
      BY <2>4, <2>5, <3>1
  <2>7. \A i \in 1 .. n + 1 : t[i].kind # "forecast"
    <3>1. \A i \in 1 .. n : lines[i].kind # "forecast"
      BY <1>1, <1>3 DEF Headings
    <3>2. t[n + 1].kind # "forecast"
      BY <2>1, <2>2
    <3> QED
      BY <2>2, <2>3, <3>1, <3>2
  <2>8. Fits(t, n + 1, n + 1)
    <3> HIDE DEF n
    <3> QED
      BY <2>2, <2>3, <2>7 DEF Fits
  <2>9. ASSUME NEW b, IsBlock(b) PROVE Around(Splice(lines, b), t, n + 1, n + 1, b)
    <3> DEFINE r == Splice(lines, b)
    <3>1. Joins(t, b, r) /\ Len(b) = 3
      BY <2>0, <2>2, <2>9, Joined DEF IsBlock
    <3> HIDE DEF r, n
    <3> QED
      BY <2>2, <2>3, <3>1 DEF Around, Joins, r
  <2>10. Outside(lines) = Rest(t, n + 1, n + 1)
    BY <2>6 DEF Rest
  <2>11. \A i \in n + 1 + 1 .. Len(t) : t[i].kind # "forecast"
    BY <2>2, <2>3
  <2>12. n + 1 \in Nat
    BY <2>3
  <2> HIDE DEF n
  <2>13. SplicedAt(lines, t, n + 1, n + 1)
    BY <2>8, <2>9, <2>10, <2>11 DEF SplicedAt
  <2> QED
    BY <2>2, <2>12, <2>13
<1>4. CASE Headings(lines) # {}
  <2> DEFINE s == LeastOf(Headings(lines))
             p == s - 1
             stop == StopOf(lines)
  <2>1. s \in 1 .. Len(lines) /\ stop \in s .. Len(lines) /\ lines[s].kind = "forecast"
    BY <1>4, StopIs
  <2>2. p \in Nat /\ stop \in Nat
    BY <1>1, <2>1
  <2>3. \A b : IsBlock(b) => Fits(lines, p, stop) /\ Around(Splice(lines, b), lines, p, stop, b)
    BY <1>4, SpliceAtBlock
  <2>4. \E b : IsBlock(b)
    BY BlocksAre, CountsTyped
  <2>5. Outside(lines) = Rest(lines, p, stop)
    BY <1>4, OutsideIs
  <2>6. ASSUME OneBlock(lines), NEW i \in stop + 1 .. Len(lines) PROVE lines[i].kind # "forecast"
    <3>1. i \in 1 .. Len(lines) /\ i # s
      BY <1>1, <2>1
    <3> HIDE DEF s
    <3> QED
      BY <1>1, <2>1, <2>6, <3>1 DEF OneBlock, Headings
  <2> HIDE DEF p, stop, s
  <2>7. SplicedAt(lines, lines, p, stop)
    BY <2>3, <2>4, <2>5, <2>6 DEF SplicedAt
  <2> QED
    BY <2>2, <2>7
<1> QED
  BY <1>2, <1>3, <1>4


\* A spliced description has its block where it was put, and ends it before what
\* comes after.
LEMMA AroundHeads ==
  ASSUME NEW t \in Seq(Line), NEW p \in Nat, NEW q \in Nat, NEW b, NEW r,
         Fits(t, p, q), IsBlock(b), Around(r, t, p, q, b)
  PROVE  /\ r \in Seq(Line) /\ Headings(r) # {}
         /\ LeastOf(Headings(r)) = p + 1
         /\ q = Len(t) => StopOf(r) = p + 3
         /\ q < Len(t) => StopOf(r) = p + 4
         /\ (\A i \in q + 1 .. Len(t) : t[i].kind # "forecast") => OneBlock(r)
<1> DEFINE n == Len(t)
<1>1. n \in Nat /\ p <= q /\ q <= n /\ \A i \in 1 .. p : t[i].kind # "forecast"
  BY LenProperties DEF Fits
<1>2. /\ r \in Seq(Line)
      /\ q = n => Len(r) = p + 3
      /\ q < n => Len(r) = p + 4 + (n - q)
      /\ \A i \in 1 .. p : r[i] = t[i]
      /\ q < n => /\ r[p + 4].kind = "blank"
                  /\ \A i \in 1 .. n - q : r[p + 4 + i] = t[q + i]
  BY DEF Around, Plain
<1>3. r[p + 1].kind = "forecast" /\ r[p + 2].kind = "blank" /\ r[p + 3].kind = "row"
  BY DEF Around, IsBlock
<1>4. DOMAIN r = 1 .. Len(r)
  BY <1>2, LenProperties
<1>5. q < n => r[p + 5].kind \in {"h2", "forecast"}
  <2> SUFFICES ASSUME q < n
               PROVE  r[p + 5].kind \in {"h2", "forecast"}
    OBVIOUS
  <2>1. 1 \in 1 .. n - q /\ p + 4 + 1 = p + 5
    BY <1>1
  <2>2. r[p + 5] = t[q + 1]
    BY <1>2, <2>1
  <2> QED
    BY <2>2 DEF Fits
<1> HIDE DEF n
<1>6. p + 1 \in Headings(r) /\ Headings(r) \subseteq Nat
  <2>1. p + 1 \in 1 .. Len(r) /\ Len(r) \in Nat
    BY <1>1, <1>2
  <2> QED
    BY <1>3, <1>4, <2>1 DEF Headings
<1>7. \A y \in Headings(r) : p + 1 <= y
  <2> SUFFICES ASSUME NEW y \in Headings(r), y <= p
               PROVE  FALSE
    BY <1>6
  <2>1. y \in 1 .. p /\ r[y].kind = "forecast"
    BY <1>4, <1>6 DEF Headings
  <2> QED
    BY <1>1, <1>2, <2>1
<1>8. LeastOf(Headings(r)) = p + 1
  BY <1>6, <1>7, LeastIs
<1> DEFINE stop == StopOf(r)
<1>9. /\ Len(r) \in Nat /\ stop \in p + 1 .. Len(r)
      /\ \A i \in p + 1 + 1 .. stop : r[i].kind \notin {"h2", "forecast"}
      /\ stop < Len(r) => r[stop + 1].kind \in {"h2", "forecast"}
  BY <1>2, <1>6, <1>8, StopIs
<1> HIDE DEF stop
<1>10. ASSUME q = n PROVE stop = p + 3
  <2>1. stop \in {p + 1, p + 2, p + 3} /\ (stop # p + 3 => stop < Len(r))
    BY <1>1, <1>2, <1>9, <1>10
  <2>2. stop # p + 1
    BY <1>3, <1>9, <2>1
  <2>3. stop # p + 2
    BY <1>3, <1>9, <2>1
  <2> QED
    BY <2>1, <2>2, <2>3
<1>11. ASSUME q < n PROVE stop = p + 4
  <2>1. Len(r) >= p + 5
    BY <1>1, <1>2, <1>11
  <2>2. ~(stop >= p + 5)
    <3> SUFFICES ASSUME stop >= p + 5
                 PROVE  FALSE
      OBVIOUS
    <3>1. p + 5 \in p + 1 + 1 .. stop
      BY <1>9
    <3> QED
      BY <1>5, <1>9, <1>11, <3>1
  <2>3. stop \in {p + 1, p + 2, p + 3, p + 4}
    BY <1>9, <2>2
  <2>4. stop # p + 1 /\ stop # p + 2 /\ stop # p + 3
    <3>1. p + 1 < Len(r) /\ p + 2 < Len(r) /\ p + 3 < Len(r)
      BY <1>9, <2>1
    <3>2. r[p + 4].kind = "blank"
      BY <1>2, <1>11
    <3>3. stop # p + 1
      BY <1>3, <1>9, <3>1
    <3>4. stop # p + 2
      BY <1>3, <1>9, <3>1
    <3>5. stop # p + 3
      BY <1>9, <3>1, <3>2
    <3> QED
      BY <3>3, <3>4, <3>5
  <2> QED
    BY <2>3, <2>4
<1>12. ASSUME \A i \in q + 1 .. n : t[i].kind # "forecast" PROVE OneBlock(r)
  <2> SUFFICES ASSUME NEW y \in Headings(r)
               PROVE  y = p + 1
    BY DEF OneBlock
  <2>1. y \in 1 .. Len(r) /\ r[y].kind = "forecast" /\ y >= p + 1
    BY <1>4, <1>6, <1>7 DEF Headings
  <2>2. y # p + 2 /\ y # p + 3
    BY <1>3, <2>1
  <2>3. y # p + 4
    <3> SUFFICES ASSUME y = p + 4
                 PROVE  FALSE
      OBVIOUS
    <3>1. q < n
      BY <1>1, <1>2, <1>9, <2>1
    <3> QED
      BY <1>2, <2>1, <3>1
  <2>4. ~(y >= p + 5)
    <3> SUFFICES ASSUME y >= p + 5
                 PROVE  FALSE
      OBVIOUS
    <3>1. q < n
      BY <1>1, <1>2, <1>9, <2>1
    <3>2. y - (p + 4) \in 1 .. n - q /\ p + 4 + (y - (p + 4)) = y /\ q + (y - (p + 4)) \in q + 1 .. n
      BY <1>1, <1>2, <1>9, <2>1, <3>1
    <3>3. r[y] = t[q + (y - (p + 4))]
      BY <1>2, <3>1, <3>2
    <3> QED
      BY <1>12, <2>1, <3>2, <3>3
  <2> QED
    BY <1>9, <2>1, <2>2, <2>3, <2>4
<1> QED
  BY <1>2, <1>6, <1>8, <1>10, <1>11, <1>12 DEF stop, n

\* What it shows outside its block is what was kept, moved but in order.
LEMMA AroundKeeps ==
  ASSUME NEW t \in Seq(Line), NEW p \in Nat, NEW q \in Nat, NEW b, NEW r,
         Fits(t, p, q), IsBlock(b), Around(r, t, p, q, b)
  PROVE  InOrder(Outside(r)) = InOrder(Rest(t, p, q))
<1> DEFINE n == Len(t)
           stop == StopOf(r)
           S == {j \in 1 .. n : (j <= p \/ q < j) /\ t[j].kind # "blank"}
           T == {j \in 1 .. Len(r) : (j <= p \/ stop < j) /\ r[j].kind # "blank"}
           f == Rest(t, p, q)
           g == Outside(r)
           to == [i \in S |-> IF i <= p THEN i ELSE p + 4 + (i - q)]
<1>1. n \in Nat /\ p <= q /\ q <= n
  BY LenProperties DEF Fits
<1>2. /\ q = n => Len(r) = p + 3
      /\ q < n => Len(r) = p + 4 + (n - q)
      /\ \A i \in 1 .. p : r[i] = t[i]
      /\ q < n => \A i \in 1 .. n - q : r[p + 4 + i] = t[q + i]
  BY DEF Around
<1>3. /\ r \in Seq(Line) /\ Headings(r) # {} /\ LeastOf(Headings(r)) = p + 1
      /\ q = n => stop = p + 3
      /\ q < n => stop = p + 4
  <2> HIDE DEF S, T, f, g, to, n, stop
  <2>1. /\ r \in Seq(Line)
    BY AroundHeads
  <2>2. Headings(r) # {}
    BY AroundHeads
  <2>3. LeastOf(Headings(r)) = p + 1
    BY AroundHeads
  <2>4. q = Len(t) => StopOf(r) = p + 3
    BY AroundHeads
  <2>5. q < Len(t) => StopOf(r) = p + 4
    BY AroundHeads
  <2> QED
    BY <2>1, <2>2, <2>3, <2>4, <2>5 DEF n, stop
<1>4. f = [i \in S |-> t[i]]
  BY DEF Rest
<1>5. g = [i \in T |-> r[i]]
  <2>1. g = Rest(r, p + 1 - 1, stop)
    <3> HIDE DEF S, T, f, to, n
    <3>1. Outside(r) = Rest(r, LeastOf(Headings(r)) - 1, StopOf(r))
      BY <1>3, OutsideIs, Zenon
    <3> QED
      BY <1>3, <3>1
  <2>2. p + 1 - 1 = p
    OBVIOUS
  <2> HIDE DEF stop
  <2> QED
    BY <2>1, <2>2 DEF Rest
<1> HIDE DEF f, g, stop, n
<1>6. ASSUME NEW i \in S, q < i
      PROVE  /\ i \in Nat /\ q < n /\ i - q \in 1 .. n - q
             /\ to[i] = p + 4 + (i - q) /\ r[to[i]] = t[i]
             /\ to[i] \in T
  <2>1. i \in Nat /\ i <= n /\ q < n /\ i - q \in 1 .. n - q /\ q + (i - q) = i /\ ~(i <= p)
    BY <1>1, <1>6
  <2>2. to[i] = p + 4 + (i - q)
    BY <2>1
  <2>3. r[to[i]] = t[i]
    BY <1>2, <2>1, <2>2
  <2>4. to[i] \in 1 .. Len(r) /\ stop < to[i]
    BY <1>1, <1>2, <1>3, <2>1, <2>2
  <2> HIDE DEF to
  <2> QED
    BY <2>1, <2>2, <2>3, <2>4
<1>7. ASSUME NEW i \in S, i <= p
      PROVE  i \in 1 .. p /\ to[i] = i /\ r[to[i]] = t[i] /\ to[i] \in T
  <2>1. i \in 1 .. p /\ to[i] = i
    BY <1>1, <1>7
  <2>2. r[to[i]] = t[i] /\ to[i] \in 1 .. Len(r)
    BY <1>1, <1>2, <2>1
  <2> HIDE DEF to
  <2> QED
    BY <1>7, <2>1, <2>2
<1>8. \A i \in S : i <= p \/ q < i
  OBVIOUS
<1>9. \A i \in S : to[i] \in T /\ r[to[i]] = t[i]
  <2> HIDE DEF to, S, T
  <2> QED
    BY <1>6, <1>7, <1>8
<1>10. \A i, j \in S : i <= j <=> to[i] <= to[j]
  <2> SUFFICES ASSUME NEW i \in S, NEW j \in S
               PROVE  i <= j <=> to[i] <= to[j]
    OBVIOUS
  <2> HIDE DEF to, S, T
  <2>1. CASE i <= p /\ j <= p
    BY <1>7, <2>1
  <2>2. CASE i <= p /\ q < j
    <3>1. i \in 1 .. p /\ to[i] = i /\ j \in Nat /\ to[j] = p + 4 + (j - q) /\ j - q \in 1 .. n - q
      BY <1>6, <1>7, <2>2
    <3> QED
      BY <1>1, <2>2, <3>1
  <2>3. CASE q < i /\ j <= p
    <3>1. j \in 1 .. p /\ to[j] = j /\ i \in Nat /\ to[i] = p + 4 + (i - q) /\ i - q \in 1 .. n - q
      BY <1>6, <1>7, <2>3
    <3> QED
      BY <1>1, <2>3, <3>1
  <2>4. CASE q < i /\ q < j
    <3>1. i \in Nat /\ to[i] = p + 4 + (i - q) /\ j \in Nat /\ to[j] = p + 4 + (j - q)
      BY <1>6, <2>4
    <3> QED
      BY <1>1, <3>1
  <2> QED
    BY <1>8, <2>1, <2>2, <2>3, <2>4
<1>11. \A k \in T : \E i \in S : to[i] = k
  <2> SUFFICES ASSUME NEW k \in T
               PROVE  \E i \in S : to[i] = k
    OBVIOUS
  <2>1. CASE k <= p
    <3>1. k \in S /\ to[k] = k
      BY <1>1, <1>2, <2>1
    <3> QED
      BY <3>1
  <2>2. CASE stop < k
    <3>1. q < n /\ k > p + 4
      BY <1>1, <1>2, <1>3, <2>2
    <3> DEFINE i == q + (k - (p + 4))
    <3>2. i \in 1 .. n /\ q < i /\ k - (p + 4) \in 1 .. n - q /\ p + 4 + (k - (p + 4)) = k
      BY <1>1, <1>2, <3>1
    <3>3. t[i] = r[k]
      BY <1>2, <3>1, <3>2
    <3>4. i \in S
      BY <3>2, <3>3
    <3>5. p + 4 + (i - q) = k
      BY <1>1, <3>1
    <3>6. to[i] = k
      BY <1>6, <3>2, <3>4, <3>5
    <3> QED
      BY <3>4, <3>6
  <2> QED
    BY <2>1, <2>2
<1>12. /\ DOMAIN f = S /\ DOMAIN g = T /\ S \in SUBSET Nat /\ T \in SUBSET Nat
       /\ IsFiniteSet(S)
  <2>1. S \in SUBSET (1 .. n) /\ 1 .. n \subseteq Nat /\ T \in SUBSET Nat
    BY <1>1
  <2>2. IsFiniteSet(1 .. n)
    BY <1>1, FS_Interval
  <2>3. IsFiniteSet(S)
    <3> HIDE DEF S, T
    <3> QED
      BY <2>1, <2>2, FS_Subset
  <2> HIDE DEF S, T
  <2> QED
    BY <1>4, <1>5, <2>1, <2>3
<1>13. to \in [S -> T]
  BY <1>9
<1> HIDE DEF S, T, to
<1>14. to \in Bijection(S, T)
  <2>1. \A i, j \in S : to[i] = to[j] => i = j
    <3> SUFFICES ASSUME NEW i \in S, NEW j \in S, to[i] = to[j]
                 PROVE  i = j
      OBVIOUS
    <3>1. to[i] \in Nat /\ i \in Nat /\ j \in Nat
      BY <1>9, <1>12
    <3>2. i <= j /\ j <= i
      BY <1>10, <3>1
    <3> QED
      BY <3>1, <3>2
  <2> QED
    BY <1>11, <1>13, <2>1 DEF Bijection, Injection, Surjection, IsInjective
<1>15. \A i \in S : f[i] = g[to[i]]
  BY <1>4, <1>5, <1>9
<1>16. InOrder(f) = InOrder(g)
  BY <1>10, <1>12, <1>14, <1>15, SameOrder
<1> QED
  BY <1>16 DEF f, g


\* Spliced into again, a description is spliced where it was.
LEMMA SplicedAgain ==
  ASSUME NEW t \in Seq(Line), NEW p \in Nat, NEW q \in Nat, NEW b, NEW r, NEW c,
         Fits(t, p, q), IsBlock(b), Around(r, t, p, q, b), IsBlock(c)
  PROVE  Around(Splice(r, c), t, p, q, c)
<1> DEFINE n == Len(t)
           stop == StopOf(r)
           x == Splice(r, c)
<1>1. n \in Nat /\ p <= q /\ q <= n
  BY LenProperties DEF Fits
<1>2. r \in Seq(Line) /\ Headings(r) # {}
  <2>1. r \in Seq(Line)
    BY AroundHeads
  <2>2. Headings(r) # {}
    BY AroundHeads
  <2> QED
    BY <2>1, <2>2
<1>3. LeastOf(Headings(r)) = p + 1
  BY AroundHeads
<1>4. q = n => stop = p + 3
  BY AroundHeads
<1>5. q < n => stop = p + 4
  BY AroundHeads
<1>6. Around(x, r, p, stop, c)
  <2>1. Around(x, r, p + 1 - 1, stop, c)
    <3>1. Around(x, r, LeastOf(Headings(r)) - 1, stop, c)
      BY <1>2, SpliceAtBlock
    <3> QED
      BY <1>3, <3>1
  <2>2. p + 1 - 1 = p
    OBVIOUS
  <2> HIDE DEF x, stop
  <2> QED
    BY <2>1, <2>2
<1>7. /\ q = n => Len(r) = p + 3
      /\ q < n => Len(r) = p + 4 + (n - q)
      /\ \A i \in 1 .. p : r[i] = t[i]
      /\ q < n => \A i \in 1 .. n - q : r[p + 4 + i] = t[q + i]
  BY DEF Around
<1>8. /\ x \in Seq(Line)
      /\ stop = Len(r) => Len(x) = p + 3
      /\ stop < Len(r) => Len(x) = p + 4 + (Len(r) - stop)
      /\ \A i \in 1 .. p : x[i] = r[i]
      /\ \A i \in 1 .. 3 : x[p + i] = c[i]
      /\ stop < Len(r) => /\ x[p + 4] = Plain("blank")
                          /\ \A i \in 1 .. Len(r) - stop : x[p + 4 + i] = r[stop + i]
  BY <1>6 DEF Around
<1> HIDE DEF x, stop
<1>9. \A i \in 1 .. p : x[i] = t[i]
  BY <1>7, <1>8
<1>10. ASSUME q = n PROVE Len(x) = p + 3
  BY <1>4, <1>7, <1>8, <1>10
<1>11. ASSUME q < n
       PROVE  /\ Len(x) = p + 4 + (n - q)
              /\ x[p + 4] = Plain("blank")
              /\ \A i \in 1 .. n - q : x[p + 4 + i] = t[q + i]
  <2>1. stop = p + 4 /\ Len(r) = p + 4 + (n - q) /\ stop < Len(r) /\ Len(r) - stop = n - q
    BY <1>1, <1>5, <1>7, <1>11
  <2>2. \A i \in 1 .. n - q : x[p + 4 + i] = t[q + i]
    BY <1>7, <1>8, <1>11, <2>1
  <2> QED
    BY <1>8, <2>1, <2>2
<1> HIDE DEF n
<1>12. Around(x, t, p, q, c)
  BY <1>8, <1>9, <1>10, <1>11 DEF Around, n
<1> QED
  BY <1>12 DEF x

\* Refreshing again changes nothing, and nothing but the block if other counts came between.
LEMMA SpliceAgain ==
  ASSUME NEW lines \in Seq(Line), NEW b, NEW c, IsBlock(b), IsBlock(c)
  PROVE  LET once == Splice(lines, b)
         IN  Splice(once, b) = once /\ Splice(Splice(once, c), b) = once
<1> DEFINE once == Splice(lines, b)
           twice == Splice(once, c)
           back == Splice(twice, b)
           same == Splice(once, b)
<1>1. PICK t \in Seq(Line), p \in Nat, q \in Nat : SplicedAt(lines, t, p, q)
  BY SpliceShape
<1>2. Fits(t, p, q) /\ Around(once, t, p, q, b)
  BY <1>1 DEF SplicedAt
<1> HIDE DEF once
<1>3. Around(twice, t, p, q, c)
  BY <1>2, SplicedAgain
<1>4. Around(same, t, p, q, b)
  BY <1>2, SplicedAgain
<1> HIDE DEF twice, same
<1>5. Around(back, t, p, q, b)
  BY <1>2, <1>3, SplicedAgain
<1> HIDE DEF back
<1>6. same = once
  BY <1>2, <1>4, AroundIsOne
<1>7. back = once
  BY <1>2, <1>5, AroundIsOne
<1> QED
  BY <1>6, <1>7 DEF same, back, twice, once

\* A refresh leaves what is outside the block, and no second block.
LEMMA SpliceKeeps ==
  ASSUME NEW lines \in Seq(Line), NEW b, IsBlock(b)
  PROVE  /\ InOrder(Outside(Splice(lines, b))) = InOrder(Outside(lines))
         /\ OneBlock(lines) => OneBlock(Splice(lines, b))
<1> DEFINE r == Splice(lines, b)
<1>1. PICK t \in Seq(Line), p \in Nat, q \in Nat : SplicedAt(lines, t, p, q)
  BY SpliceShape
<1>2. /\ Fits(t, p, q) /\ Around(r, t, p, q, b)
      /\ Outside(lines) = Rest(t, p, q)
      /\ OneBlock(lines) => \A i \in q + 1 .. Len(t) : t[i].kind # "forecast"
  BY <1>1 DEF SplicedAt
<1> HIDE DEF r
<1>3. InOrder(Outside(r)) = InOrder(Rest(t, p, q))
  BY <1>2, AroundKeeps
<1>4. (\A i \in q + 1 .. Len(t) : t[i].kind # "forecast") => OneBlock(r)
  BY <1>2, AroundHeads
<1> QED
  BY <1>2, <1>3, <1>4 DEF r

\* One block is one heading at most.
LEMMA OneBlockIs ==
  ASSUME NEW lines \in Seq(Line)
  PROVE  OneBlock(lines) <=> Cardinality(Headings(lines)) <= 1
<1> DEFINE H == Headings(lines)
<1>1. IsFiniteSet(H)
  <2>1. Len(lines) \in Nat /\ H \in SUBSET (1 .. Len(lines))
    BY LenProperties DEF Headings
  <2>2. IsFiniteSet(1 .. Len(lines))
    BY <2>1, FS_Interval
  <2> HIDE DEF H
  <2> QED
    BY <2>1, <2>2, FS_Subset
<1>2. Cardinality(H) \in Nat
  BY <1>1, FS_CardinalityType
<1>3. ASSUME OneBlock(lines) PROVE Cardinality(H) <= 1
  <2>1. CASE H = {}
    <3> HIDE DEF H
    <3> QED
      BY <2>1, FS_EmptySet
  <2>2. CASE H # {}
    <3>1. PICK h : h \in H
      BY <2>2
    <3>2. H = {h}
      BY <1>3, <3>1 DEF OneBlock
    <3> HIDE DEF H
    <3>3. Cardinality(H) = 1
      BY <3>2, FS_Singleton
    <3> QED
      BY <3>3
  <2> QED
    BY <2>1, <2>2
<1>4. ASSUME Cardinality(H) <= 1, NEW i \in H, NEW j \in H PROVE i = j
  <2> HIDE DEF H
  <2>1. CASE Cardinality(H) = 0
    BY <1>1, <2>1, FS_EmptySet
  <2>2. CASE Cardinality(H) = 1
    <3>1. PICK x : H = {x}
      BY <1>1, <2>2, FS_Singleton
    <3> QED
      BY <3>1
  <2> QED
    BY <1>2, <1>4, <2>1, <2>2
<1> QED
  BY <1>3, <1>4 DEF OneBlock

\* What the product owner writes is no block.
LEMMA DraftsHaveOne ==
  ASSUME description \in Seq(Line), OneBlock(description), NEW d \in Drafts
  PROVE  OneBlock(d)
<1> DEFINE n == Len(description)
<1>1. n \in Nat /\ DOMAIN description = 1 .. n
  BY LenProperties
<1>2. \A i, j \in 1 .. n : description[i].kind = "forecast" /\ description[j].kind = "forecast" => i = j
  BY <1>1 DEF OneBlock, Headings
<1>3. CASE d = description \o <<Plain("h2"), Plain("text")>>
  <2> DEFINE new == <<Plain("h2"), Plain("text")>>
  <2>1. new \in Seq(Line) /\ Len(new) = 2 /\ new[1].kind = "h2" /\ new[2].kind = "text"
    BY LineTyped DEF LineKind, Plain
  <2>2. Joins(description, new, d)
    BY <1>3, <2>1, Joined
  <2> HIDE DEF new
  <2>3. d \in Seq(Line) /\ Len(d) = n + 2 /\ \A i \in 1 .. n : d[i] = description[i]
    BY <2>1, <2>2 DEF Joins
  <2>4. d[n + 1].kind = "h2" /\ d[n + 2].kind = "text"
    <3>1. 1 \in 1 .. Len(new) /\ 2 \in 1 .. Len(new)
      BY <2>1
    <3> QED
      BY <2>1, <2>2, <3>1 DEF Joins
  <2>5. DOMAIN d = 1 .. n + 2
    BY <2>3, LenProperties
  <2> HIDE DEF n
  <2>6. \A i \in DOMAIN d : d[i].kind = "forecast" => i \in 1 .. n /\ description[i].kind = "forecast"
    BY <1>1, <2>3, <2>4, <2>5
  <2> QED
    BY <1>2, <2>6 DEF OneBlock, Headings
<1>4. CASE d = <<Plain("text")>> \o description
  <2> DEFINE new == <<Plain("text")>>
  <2>1. new \in Seq(Line) /\ Len(new) = 1 /\ new[1].kind = "text"
    BY LineTyped DEF LineKind, Plain
  <2>2. Joins(new, description, d)
    BY <1>4, <2>1, Joined
  <2> HIDE DEF new
  <2>3. /\ d \in Seq(Line) /\ Len(d) = 1 + n /\ d[1].kind = "text"
        /\ \A i \in 1 .. n : d[1 + i] = description[i]
    <3>1. 1 \in 1 .. Len(new)
      BY <2>1
    <3> QED
      BY <2>1, <2>2, <3>1 DEF Joins
  <2>4. DOMAIN d = 1 .. 1 + n
    BY <2>3, LenProperties
  <2> HIDE DEF n
  <2>5. \A i \in DOMAIN d : d[i].kind = "forecast" => i - 1 \in 1 .. n /\ description[i - 1].kind = "forecast"
    <3> SUFFICES ASSUME NEW i \in DOMAIN d, d[i].kind = "forecast"
                 PROVE  i - 1 \in 1 .. n /\ description[i - 1].kind = "forecast"
      OBVIOUS
    <3>1. i \in 1 .. 1 + n /\ i # 1
      BY <2>3, <2>4
    <3>2. i - 1 \in 1 .. n /\ 1 + (i - 1) = i
      BY <1>1, <3>1
    <3> QED
      BY <2>3, <3>2
  <2>6. \A i, j \in Headings(d) : i - 1 = j - 1
    BY <1>2, <2>5 DEF Headings
  <2>7. Headings(d) \subseteq Nat
    BY <1>1, <2>4 DEF Headings
  <2> QED
    BY <2>6, <2>7 DEF OneBlock
<1>5. ASSUME NEW k \in DOMAIN description,
             d = SubSeq(description, 1, k - 1) \o SubSeq(description, k + 1, n)
      PROVE  OneBlock(d)
  <2>1. k \in 1 .. n /\ k - 1 \in Nat
    BY <1>1
  <2>2. /\ d \in Seq(Line) /\ Len(d) = k - 1 + (n - k)
        /\ \A i \in 1 .. k - 1 : d[i] = description[i]
        /\ \A i \in 1 .. n - k : d[k - 1 + i] = description[k + i]
    <3> DEFINE x == SubSeq(description, 1, k - 1)
               y == SubSeq(description, k + 1, n)
    <3>1. \A i \in 1 .. n : description[i] \in Line
      BY ElementOfSeq
    <3>2. x \in Seq(Line) /\ Len(x) = k - 1 /\ \A i \in 1 .. k - 1 : x[i] = description[i]
      <4>1. \A i \in 1 .. k - 1 : description[i] \in Line
        BY <1>1, <2>1, <3>1
      <4>2. 1 \in Int /\ k - 1 \in Int
        BY <2>1
      <4>3. /\ x \in Seq(Line) /\ Len(x) = (IF 1 <= k - 1 THEN k - 1 - 1 + 1 ELSE 0)
            /\ \A i \in 1 .. k - 1 - 1 + 1 : x[i] = description[1 + i - 1]
        BY <4>1, <4>2, SubSeqProperties
      <4> HIDE DEF x, n
      <4> QED
        BY <1>1, <2>1, <4>3
    <3>3. y \in Seq(Line) /\ Len(y) = n - k /\ \A i \in 1 .. n - k : y[i] = description[k + i]
      <4>1. \A i \in k + 1 .. n : description[i] \in Line
        BY <1>1, <2>1, <3>1
      <4>2. k + 1 \in Int /\ n \in Int
        BY <1>1, <2>1
      <4>3. /\ y \in Seq(Line) /\ Len(y) = (IF k + 1 <= n THEN n - (k + 1) + 1 ELSE 0)
            /\ \A i \in 1 .. n - (k + 1) + 1 : y[i] = description[k + 1 + i - 1]
        BY <4>1, <4>2, SubSeqProperties
      <4>4. k \in Int /\ n - (k + 1) + 1 = n - k /\ (k + 1 <= n \/ n - k = 0)
        BY <1>1, <2>1
      <4>5. \A i \in 1 .. n - k : k + 1 + i - 1 = k + i
        BY <1>1, <2>1
      <4> HIDE DEF y, n
      <4>6. Len(y) = n - k
        BY <1>1, <2>1, <4>3, <4>4
      <4>7. \A i \in 1 .. n - k : y[i] = description[k + i]
        BY <4>3, <4>4, <4>5
      <4> QED
        BY <4>3, <4>6, <4>7
    <3>4. d = x \o y
      BY <1>5
    <3> HIDE DEF x, y, n
    <3>5. Joins(x, y, d)
      BY <3>2, <3>3, <3>4, Joined
    <3> QED
      BY <2>1, <3>2, <3>3, <3>5 DEF Joins
  <2>3. DOMAIN d = 1 .. n - 1
    BY <1>1, <2>1, <2>2, LenProperties
  <2> HIDE DEF n
  <2> DEFINE was == [i \in 1 .. n - 1 |-> IF i < k THEN i ELSE i + 1]
  <2>4. \A i \in 1 .. n - 1 : was[i] \in 1 .. n /\ d[i] = description[was[i]]
    <3> SUFFICES ASSUME NEW i \in 1 .. n - 1
                 PROVE  was[i] \in 1 .. n /\ d[i] = description[was[i]]
      OBVIOUS
    <3>1. CASE i < k
      <4>1. i \in 1 .. k - 1 /\ was[i] = i /\ i \in 1 .. n
        BY <1>1, <2>1, <3>1
      <4> QED
        BY <2>2, <4>1
    <3>2. CASE ~(i < k)
      <4>1. i - (k - 1) \in 1 .. n - k /\ k - 1 + (i - (k - 1)) = i /\ k + (i - (k - 1)) = i + 1
        BY <1>1, <2>1, <3>2
      <4>2. d[i] = description[i + 1]
        BY <2>2, <4>1
      <4> QED
        BY <1>1, <2>1, <3>2, <4>2
    <3> QED
      BY <3>1, <3>2
  <2>5. \A i, j \in 1 .. n - 1 : was[i] = was[j] => i = j
    BY <1>1, <2>1
  <2> HIDE DEF was
  <2>6. \A i \in Headings(d) : i \in 1 .. n - 1 /\ was[i] \in 1 .. n /\ description[was[i]].kind = "forecast"
    BY <2>3, <2>4 DEF Headings
  <2> QED
    BY <1>2, <2>5, <2>6 DEF OneBlock
<1> HIDE DEF n
<1> QED
  BY <1>3, <1>4, <1>5 DEF Drafts, n


\* No session holds a description with two blocks.
Texts == \A s \in Session : run[s].pc = "save" => OneBlock(run[s].text)

\* The lines outside the block are those people wrote.
ProseKept == textOrderly => InOrder(Outside(description)) = prose

\* A session that moves to its save has a text with one block, the others keep theirs.
LEMMA TextsKept ==
  ASSUME RunType, Texts
  PROVE  /\ \A s \in Session, r \in Session_ \cup {Idle} :
              /\ r.pc = "save" => OneBlock(r.text)
              /\ run' = [run EXCEPT ![s] = r] \/ run' = Disturb([run EXCEPT ![s] = r], s)
              => Texts'
         /\ run' = Disturb(run, None) => Texts'
<1>1. ASSUME NEW t \in Session, run'[t] = run[t] \/ Spoils(t), run'[t].pc = "save"
      PROVE  OneBlock(run'[t].text)
  <2>1. run'[t].pc = run[t].pc /\ run'[t].text = run[t].text
    BY <1>1, Spoiled DEF Spoils
  <2> QED
    BY <1>1, <2>1 DEF Texts
<1>2. ASSUME NEW s \in Session, NEW r \in Session_ \cup {Idle},
             r.pc = "save" => OneBlock(r.text),
             run' = [run EXCEPT ![s] = r] \/ run' = Disturb([run EXCEPT ![s] = r], s)
      PROVE  Texts'
  <2>1. run'[s] = r /\ \A t \in Session \ {s} : run'[t] = run[t] \/ Spoils(t)
    BY <1>2, OneMoves DEF Takes
  <2>2. ASSUME NEW t \in Session, run'[t].pc = "save" PROVE OneBlock(run'[t].text)
    BY <1>1, <1>2, <2>1, <2>2
  <2> QED
    BY <2>2 DEF Texts, OneBlock, Headings
<1>3. ASSUME run' = Disturb(run, None) PROVE Texts'
  <2>1. \A t \in Session : run'[t] = run[t] \/ Spoils(t)
    BY <1>3, AllStirred
  <2>2. ASSUME NEW t \in Session, run'[t].pc = "save" PROVE OneBlock(run'[t].text)
    BY <1>1, <2>1, <2>2
  <2> QED
    BY <2>2 DEF Texts, OneBlock, Headings
<1> QED
  BY <1>2, <1>3

\* Every step leaves one block at most, in the description and in what sessions read of
\* it, and the prose as it was.
LEMMA BlockStep ==
  ASSUME TypeOK, Holding, Texts, OneBlock(description), ProseKept, [Next]_vars
  PROVE  Texts' /\ OneBlock(description') /\ ProseKept'
<1>0. RunType /\ description \in Seq(Line)
  BY DEF TypeOK, RunType
<1>1. \A s \in Session, r \in Session_ \cup {Idle} :
        /\ r.pc = "save" => OneBlock(r.text)
        /\ run' = [run EXCEPT ![s] = r] \/ run' = Disturb([run EXCEPT ![s] = r], s)
        => Texts'
  BY <1>0, TextsKept
<1>2. run' = Disturb(run, None) => Texts'
  BY <1>0, TextsKept
<1>3. UNCHANGED <<description, textOrderly, prose>> => OneBlock(description') /\ ProseKept'
  BY DEF ProseKept, OneBlock, Headings
<1>4. Idle.pc # "save" /\ \A q \in Query : NextQuery[q] # "save"
  BY DEF Idle, NextQuery, Query
<1>5. ASSUME NEW s \in Session, NEW r \in Session_, NEW copy, NEW after, NEW now,
             SaveLabels(s, copy, after, now, r), r.pc # "save"
      PROVE  Texts'
  BY <1>1, <1>5 DEF SaveLabels
<1>6. ASSUME NEW s \in Session,
             \/ Begin(s) \/ Surveyed(s) \/ Count(s) \/ Stop(s) \/ HelpBlocked(s) \/ HelpManual(s)
             \/ Accept(s) \/ Clear(s) \/ \E u \in Unit : Inspect(s, u) \/ Review(s, u)
      PROVE  Texts'
  <2>1. CASE Begin(s) \/ Surveyed(s)
    <3>1. \E r \in Session_ : run' = [run EXCEPT ![s] = r] /\ r.pc # "save"
      BY <2>1, After
    <3> QED
      BY <1>1, <3>1
  <2>2. CASE Count(s)
    <3>1. /\ run[s].pc \in Query
          /\ \E r \in Session_ : run' = [run EXCEPT ![s] = r] /\ r.pc = NextQuery[run[s].pc]
      BY <2>2, After
    <3> QED
      BY <1>1, <1>4, <3>1
  <2>3. CASE Stop(s)
    <3>1. run' = [run EXCEPT ![s] = Idle]
      BY <2>3 DEF Stop
    <3> QED
      BY <1>1, <1>4, <3>1
  <2>4. CASE HelpBlocked(s)
    <3> DEFINE i == run[s].issue
               after == WithBlocked(i)
    <3>1. \E r \in Session_ : SaveLabels(s, i, after, i, r) /\ r.pc = "manual"
      BY <2>4, After
    <3> HIDE DEF i, after
    <3> QED
      BY <1>5, <3>1
  <2>5. CASE HelpManual(s)
    <3> DEFINE i == run[s].issue
               now == WithBlocked(i)
               after == WithManual(i)
    <3>1. \E r \in Session_ : SaveLabels(s, i, after, now, r) /\ r.pc = "survey"
      BY <2>5, After
    <3> HIDE DEF i, now, after
    <3> QED
      BY <1>5, <3>1
  <2>6. CASE Accept(s)
    <3>1. \E r \in Session_ : run' = Disturb([run EXCEPT ![s] = r], s) /\ r.pc # "save"
      BY <2>6, After
    <3> QED
      BY <1>1, <3>1
  <2>7. CASE Clear(s)
    <3>1. run' = Disturb([run EXCEPT ![s] = Idle], s)
      BY <2>7 DEF Clear
    <3> QED
      BY <1>1, <1>4, <3>1
  <2>8. ASSUME NEW u \in Unit, Inspect(s, u) PROVE Texts'
    <3>1. \A v \in Unit : Inspect(s, v) =>
            /\ run[s] \in Session_ /\ run[s].pc = "survey" /\ v \in run[s].todo
            /\ \E r \in Session_ : /\ run' = [run EXCEPT ![s] = r]
                                   /\ r.pc = "blocked" /\ r.quiet = run[s].quiet
                                   /\ r.issue = Issue(v) /\ r.todo = run[s].todo \ {v}
                                   /\ r.undone = run[s].undone
      BY After
    <3> QED
      BY <1>1, <2>8, <3>1
  <2>9. ASSUME NEW u \in Unit, Review(s, u) PROVE Texts'
    <3>1. \A v \in Unit : Review(s, v) => \E r \in Session_ : /\ run' = [run EXCEPT ![s] = r]
                                                              /\ r.pc = "accept" /\ r.issue = Issue(v)
      BY After
    <3> QED
      BY <1>1, <2>9, <3>1
  <2> QED
    BY <1>6, <2>1, <2>2, <2>3, <2>4, <2>5, <2>6, <2>7, <2>8, <2>9
<1>7. ASSUME NEW s \in Session,
             \/ Begin(s) \/ Surveyed(s) \/ Count(s) \/ Stop(s) \/ HelpBlocked(s) \/ HelpManual(s)
             \/ Accept(s) \/ Clear(s) \/ ReadProject(s) \/ \E u \in Unit : Inspect(s, u) \/ Review(s, u)
      PROVE  UNCHANGED <<description, textOrderly, prose>>
  BY <1>7 DEF Begin, Surveyed, Count, Stop, HelpBlocked, HelpManual, Accept, Clear, ReadProject, Inspect, Review,
              linear, history
<1>8. ASSUME NEW s \in Session, ReadProject(s) PROVE Texts'
  <2> DEFINE r == [run[s] EXCEPT !.pc = "save", !.text = description]
  <2>1. run[s] \in Session_
    BY <1>8, After
  <2>2. r \in Session_ /\ r.text = description
    BY <1>0, <2>1 DEF Session_
  <2>3. run' = [run EXCEPT ![s] = r]
    BY <1>0, <1>8 DEF ReadProject, RunType
  <2> HIDE DEF r
  <2> QED
    BY <1>1, <2>2, <2>3
<1>9. ASSUME NEW s \in Session, SaveProject(s) PROVE Texts' /\ OneBlock(description') /\ ProseKept'
  <2> DEFINE lines == run[s].text
             b == Block(run[s].counts)
  <2>1. run[s] \in Session_ /\ run[s].pc = "save" /\ run' = Disturb([run EXCEPT ![s] = Idle], s)
    BY <1>9, After
  <2>2. lines \in Seq(Line) /\ IsBlock(b) /\ OneBlock(lines)
    BY <2>1, BlocksAre DEF Session_, Texts
  <2>3. /\ description' = Splice(lines, b) /\ prose' = prose
        /\ textOrderly' => textOrderly /\ InOrder(Outside(lines)) = InOrder(Outside(description))
    BY <1>9 DEF SaveProject
  <2> HIDE DEF lines, b
  <2>4. InOrder(Outside(Splice(lines, b))) = InOrder(Outside(lines)) /\ OneBlock(Splice(lines, b))
    BY <2>2, SpliceKeeps
  <2>5. Texts'
    BY <1>1, <1>4, <2>1
  <2>6. OneBlock(description')
    BY <2>3, <2>4
  <2>7. textOrderly' => InOrder(Outside(description')) = prose'
    BY <2>3, <2>4 DEF ProseKept
  <2>8. ProseKept'
    BY <2>7 DEF ProseKept, Outside, InOrder, Headings
  <2> QED
    BY <2>5, <2>6, <2>8
<1>10. ASSUME NEW d \in Drafts, WriteProse(d) PROVE Texts' /\ OneBlock(description') /\ ProseKept'
  <2>1. description' = d /\ prose' = InOrder(Outside(d)) /\ run' = Disturb(run, None)
    BY <1>10 DEF WriteProse
  <2>2. OneBlock(d)
    BY <1>0, DraftsHaveOne
  <2>3. InOrder(Outside(description')) = prose'
    BY <2>1
  <2>4. ProseKept'
    BY <2>3 DEF ProseKept, Outside, InOrder, Headings
  <2> QED
    BY <1>2, <2>1, <2>2, <2>4
<1>11. ASSUME People PROVE Texts' /\ OneBlock(description') /\ ProseKept'
  <2>1. run' = Disturb(run, None) /\ UNCHANGED <<description, textOrderly, prose>>
    BY <1>11 DEF People, Move, Reword, Relabel, history
  <2> QED
    BY <1>2, <1>3, <2>1
<1>12. CASE UNCHANGED vars
  BY <1>3, <1>12 DEF vars, linear, history, Texts, OneBlock, Headings
<1> QED
  BY <1>3, <1>6, <1>7, <1>8, <1>9, <1>10, <1>11, <1>12 DEF Next, Step

\* For descriptions of any length, with the block anywhere in them or not there yet: a
\* refresh leaves what people wrote outside the block, in order, unless it overwrites an edit
\* made since it read; there is never a second block; and refreshing again changes nothing.
THEOREM RefreshTouchesTheBlock == Spec => []OnlyTheBlock
<1> DEFINE Inv == TypeOK /\ Holding /\ Texts /\ OneBlock(description) /\ ProseKept
<1>1. Init => Inv
  <2>1. SUFFICES ASSUME Init PROVE Texts /\ OneBlock(description) /\ ProseKept
    BY TypeInit
  <2>2. Texts
    BY <2>1 DEF Init, Texts, Idle
  <2>3. PICK w \in Workspaces : description = w.description
    BY <2>1 DEF Init
  <2>4. description \in Seq(Line)
    BY <2>3, WorkspacesAssumption
  <2>5. Cardinality(Headings(description)) <= 1
    BY <2>3, HeadingsAssumption
  <2>6. OneBlock(description)
    BY <2>4, <2>5, OneBlockIs
  <2> QED
    BY <2>1, <2>2, <2>6 DEF Init, ProseKept
<1>2. Inv /\ [Next]_vars => Inv'
  <2>1. OneBlock(description') <=> OneBlock(description)'
    BY DEF OneBlock, Headings
  <2> QED
    BY <2>1, TypeStep, BlockStep
<1>3. Inv => OnlyTheBlock
  <2> SUFFICES ASSUME Inv
               PROVE  OnlyTheBlock
    OBVIOUS
  <2>1. description \in Seq(Line) /\ RunType
    BY DEF TypeOK, RunType
  <2>2. Cardinality(Headings(description)) <= 1
    BY <2>1, OneBlockIs
  <2>3. ASSUME NEW s \in Session, run[s] # Idle, run[s].pc = "save"
        PROVE  LET block == Block(run[s].counts)
                   once == Splice(run[s].text, block)
               IN  /\ Splice(once, block) = once
                   /\ Splice(Splice(once, Block(NoCounts)), block) = once
    <3>1. run[s] \in Session_
      BY <2>1, <2>3, Works
    <3>2. run[s].text \in Seq(Line) /\ IsBlock(Block(run[s].counts)) /\ IsBlock(Block(NoCounts))
      BY <3>1, BlocksAre, CountsTyped DEF Session_
    <3> QED
      BY <3>2, SpliceAgain
  <2> QED
    BY <2>2, <2>3 DEF OnlyTheBlock, ProseKept
<1> HIDE DEF Inv
<1>4. Spec => Init /\ [][Next]_vars
  BY DEF Spec
<1> QED
  BY <1>1, <1>2, <1>3, <1>4, PTL
===============================================================================
