---------------------------- MODULE Ledger_proofs -----------------------------
(***************************************************************************)
(* Proofs about Ledger: what the file holds of the runs that were          *)
(* recorded, and that the read surface gives it back, for any number of    *)
(* records, problems and writes cut short.                                 *)
(***************************************************************************)
EXTENDS Ledger, FiniteSetTheorems, TLAPS

(* The values a finite set of numbers keeps, in order *)

\* The rank of a number grows with it, and stays within the set's size.
LEMMA RankGrows ==
  ASSUME NEW S \in SUBSET Nat, IsFiniteSet(S), NEW i \in S, NEW j \in S, i < j
  PROVE  /\ Rank(S, i) \in Nat /\ Rank(S, j) \in Nat
         /\ Rank(S, i) < Rank(S, j)
<1> DEFINE below == {x \in S : x <= i}
           upTo == {x \in S : x <= j}
<1>1. IsFiniteSet(upTo)
  <2>1. upTo \in SUBSET S
    OBVIOUS
  <2> QED
    BY <2>1, FS_Subset
<1>0. i \in Nat /\ j \in Nat /\ S \subseteq Nat
  OBVIOUS
<1>2. below \in SUBSET upTo /\ j \in upTo /\ j \notin below
  <2>1. \A x \in below : x \in upTo
    BY <1>0
  <2>2. j \in upTo /\ j \notin below
    BY <1>0
  <2> QED
    BY <2>1, <2>2
<1>3. IsFiniteSet(below) /\ Cardinality(below) <= Cardinality(upTo)
      /\ (Cardinality(upTo) = Cardinality(below) => upTo = below)
  <2> HIDE DEF below, upTo
  <2> QED
    BY <1>1, <1>2, FS_Subset
<1>4. Cardinality(below) \in Nat /\ Cardinality(upTo) \in Nat
  BY <1>1, <1>3, FS_CardinalityType
<1>5. upTo # below
  BY <1>2
<1>6. Cardinality(below) < Cardinality(upTo)
  <2> HIDE DEF below, upTo
  <2> QED
    BY <1>3, <1>4, <1>5
<1> QED
  BY <1>4, <1>6 DEF Rank

LEMMA RankInRange ==
  ASSUME NEW S \in SUBSET Nat, IsFiniteSet(S), NEW i \in S
  PROVE  /\ Cardinality(S) \in Nat
         /\ Rank(S, i) \in 1 .. Cardinality(S)
<1> DEFINE upTo == {x \in S : x <= i}
<1>1. upTo \in SUBSET S /\ i \in upTo
  OBVIOUS
<1>2. IsFiniteSet(upTo) /\ Cardinality(upTo) <= Cardinality(S)
  <2> HIDE DEF upTo
  <2> QED
    BY <1>1, FS_Subset
<1>3. Cardinality(upTo) \in Nat /\ Cardinality(S) \in Nat
  BY <1>2, FS_CardinalityType
<1>4. Cardinality(upTo) # 0
  <2> HIDE DEF upTo
  <2> QED
    BY <1>1, <1>2, FS_EmptySet
<1>5. Cardinality(upTo) \in 1 .. Cardinality(S)
  <2> HIDE DEF upTo
  <2> QED
    BY <1>2, <1>3, <1>4
<1> QED
  BY <1>3, <1>5 DEF Rank

\* Every number up to the size of the set is the rank of exactly one member.
LEMMA RanksAreHit ==
  ASSUME NEW S \in SUBSET Nat, IsFiniteSet(S), NEW k \in 1 .. Cardinality(S)
  PROVE  \E i \in S : Rank(S, i) = k
<1> DEFINE n == Cardinality(S)
           rank == [i \in S |-> Rank(S, i)]
<1>0. n \in Nat
  BY FS_CardinalityType
<1>1. rank \in [S -> 1 .. n]
  BY RankInRange
<1>2. \A i, j \in S : rank[i] = rank[j] => i = j
  <2> SUFFICES ASSUME NEW i \in S, NEW j \in S, rank[i] = rank[j], i # j
               PROVE  FALSE
    OBVIOUS
  <2>1. i \in Nat /\ j \in Nat /\ (i < j \/ j < i)
    OBVIOUS
  <2>2. i < j => Rank(S, i) < Rank(S, j)
    BY RankGrows
  <2>3. j < i => Rank(S, j) < Rank(S, i)
    BY RankGrows
  <2>4. Rank(S, i) \in Nat /\ Rank(S, j) \in Nat /\ Rank(S, i) = Rank(S, j)
    BY <1>0, RankInRange
  <2> QED
    BY <2>1, <2>2, <2>3, <2>4
<1>3. rank \in Injection(S, 1 .. n)
  <2> HIDE DEF rank, n
  <2> QED
    BY <1>1, <1>2 DEF Injection, IsInjective
<1>4. IsFiniteSet(1 .. n) /\ Cardinality(1 .. n) = n
  <2> HIDE DEF n
  <2> QED
    BY <1>0, FS_Interval
<1>5. rank \in Surjection(S, 1 .. n)
  <2>1. Cardinality(S) = Cardinality(1 .. n)
    BY <1>4
  <2> HIDE DEF rank, n
  <2> QED
    BY <2>1, <1>3, <1>4, FS_Injection
<1>6. \E i \in S : rank[i] = k
  <2> HIDE DEF rank
  <2> QED
    BY <1>5 DEF Surjection
<1> QED
  BY <1>6

\* InOrder lists the members of the set, each of them, in increasing order.
LEMMA InOrderIsRight ==
  ASSUME NEW S \in SUBSET Nat, IsFiniteSet(S)
  PROVE  /\ Cardinality(S) \in Nat
         /\ \A k \in 1 .. Cardinality(S) : InOrder(S)[k] \in S /\ Rank(S, InOrder(S)[k]) = k
         /\ \A i \in S : InOrder(S)[Rank(S, i)] = i
         /\ \A k, m \in 1 .. Cardinality(S) : k < m => InOrder(S)[k] < InOrder(S)[m]
<1>0. Cardinality(S) \in Nat
  BY FS_CardinalityType
<1>1. \A k \in 1 .. Cardinality(S) : InOrder(S)[k] \in S /\ Rank(S, InOrder(S)[k]) = k
  <2> SUFFICES ASSUME NEW k \in 1 .. Cardinality(S)
               PROVE  InOrder(S)[k] \in S /\ Rank(S, InOrder(S)[k]) = k
    OBVIOUS
  <2>1. InOrder(S)[k] = CHOOSE i \in S : Rank(S, i) = k
    BY DEF InOrder
  <2>2. \E i \in S : Rank(S, i) = k
    BY RanksAreHit
  <2> QED
    BY <2>1, <2>2
<1>2. \A i, j \in S : Rank(S, i) = Rank(S, j) => i = j
  <2> SUFFICES ASSUME NEW i \in S, NEW j \in S, Rank(S, i) = Rank(S, j), i # j
               PROVE  FALSE
    OBVIOUS
  <2>1. i \in Nat /\ j \in Nat /\ (i < j \/ j < i)
    OBVIOUS
  <2>2. i < j => Rank(S, i) < Rank(S, j)
    BY RankGrows
  <2>3. j < i => Rank(S, j) < Rank(S, i)
    BY RankGrows
  <2>4. Rank(S, i) \in Nat /\ Rank(S, j) \in Nat
    BY <1>0, RankInRange
  <2> QED
    BY <2>1, <2>2, <2>3, <2>4
<1>3. \A i \in S : InOrder(S)[Rank(S, i)] = i
  BY <1>1, <1>2, RankInRange
<1>4. \A k, m \in 1 .. Cardinality(S) : k < m => InOrder(S)[k] < InOrder(S)[m]
  <2> SUFFICES ASSUME NEW k \in 1 .. Cardinality(S), NEW m \in 1 .. Cardinality(S), k < m
               PROVE  InOrder(S)[k] < InOrder(S)[m]
    OBVIOUS
  <2> DEFINE i == InOrder(S)[k]
             j == InOrder(S)[m]
  <2>1. i \in S /\ j \in S /\ i \in Nat /\ j \in Nat /\ Rank(S, i) = k /\ Rank(S, j) = m
    BY <1>1
  <2>2. j < i => Rank(S, j) < Rank(S, i)
    BY <2>1, RankGrows
  <2>3. i # j
    BY <1>0, <2>1
  <2> HIDE DEF i, j
  <2>4. i < j
    BY <1>0, <2>1, <2>2, <2>3
  <2> QED
    BY <2>4 DEF i, j
<1> QED
  BY <1>0, <1>1, <1>3, <1>4

\* Kept holds the values at the members of the set and no others.
LEMMA KeptIsRight ==
  ASSUME NEW S \in SUBSET Nat, IsFiniteSet(S), NEW f
  PROVE  /\ DOMAIN Kept(f, S) = 1 .. Cardinality(S)
         /\ \A k \in DOMAIN Kept(f, S) : \E i \in S : Kept(f, S)[k] = f[i]
         /\ \A i \in S : \E k \in DOMAIN Kept(f, S) : Kept(f, S)[k] = f[i]
<1>1. DOMAIN Kept(f, S) = 1 .. Cardinality(S)
  BY DEF Kept
<1>2. \A k \in 1 .. Cardinality(S) : Kept(f, S)[k] = f[InOrder(S)[k]]
  BY DEF Kept
<1>3. \A k \in 1 .. Cardinality(S) : InOrder(S)[k] \in S
  BY InOrderIsRight
<1>4. \A i \in S : Rank(S, i) \in 1 .. Cardinality(S) /\ InOrder(S)[Rank(S, i)] = i
  BY InOrderIsRight, RankInRange
<1>5. \A k \in DOMAIN Kept(f, S) : \E i \in S : Kept(f, S)[k] = f[i]
  <2> SUFFICES ASSUME NEW k \in 1 .. Cardinality(S)
               PROVE  \E i \in S : Kept(f, S)[k] = f[i]
    BY <1>1
  <2> QED
    BY <1>2, <1>3
<1>6. \A i \in S : \E k \in DOMAIN Kept(f, S) : Kept(f, S)[k] = f[i]
  <2> SUFFICES ASSUME NEW i \in S
               PROVE  \E k \in 1 .. Cardinality(S) : Kept(f, S)[k] = f[i]
    BY <1>1
  <2>1. Kept(f, S)[Rank(S, i)] = f[i]
    BY <1>2, <1>4
  <2> QED
    BY <1>4, <2>1
<1> QED
  BY <1>1, <1>5, <1>6

-------------------------------------------------------------------------------
(* The types of the variables *)

LEMMA JsonIsTyped ==
  ASSUME NEW r \in Record
  PROVE  /\ Json(r) \in Seq(Piece) /\ Len(Json(r)) = 2
         /\ Json(r)[1] = <<"head", r>> /\ Json(r)[2] = <<"tail", r>>
<1>1. <<"head", r>> \in Piece /\ <<"tail", r>> \in Piece
  BY DEF Piece
<1> QED
  BY <1>1 DEF Json

LEMMA CutsAreTyped ==
  ASSUME NEW r \in Record
  PROVE  Cuts(r) \subseteq Seq(Piece)
<1>1. <<>> \in Seq(Piece) /\ SubSeq(Json(r), 1, 1) \in Seq(Piece) /\ Json(r) \in Seq(Piece)
  BY JsonIsTyped
<1>2. <<<<"split", r>>>> \in Seq(Piece)
  <2>1. <<"split", r>> \in Piece
    BY DEF Piece
  <2> QED
    BY <2>1
<1> QED
  BY <1>1, <1>2 DEF Cuts

LEMMA TypeInit == Init => TypeOK
BY FaultsAssumption DEF Init, TypeOK

LEMMA TypeStep == TypeOK /\ [Next]_vars => TypeOK'
<1> SUFFICES ASSUME TypeOK, [Next]_vars
             PROVE  TypeOK'
  OBVIOUS
<1> USE FaultsAssumption
<1>1. ASSUME NEW r \in Record, RecordRun(r)
      PROVE  TypeOK'
  <2>1. open \o Json(r) \in Seq(Piece)
    BY JsonIsTyped DEF TypeOK
  <2>2. lines' \in Seq(Seq(Piece))
    BY <1>1, <2>1 DEF RecordRun, TypeOK
  <2>3. open' \in Seq(Piece) /\ begun' \subseteq Record /\ done' \in Seq(Record)
    BY <1>1 DEF RecordRun, TypeOK
  <2> QED
    BY <1>1, <2>2, <2>3 DEF RecordRun, TypeOK
<1>2. ASSUME NEW r \in Record, RecordRunCutShort(r)
      PROVE  TypeOK'
  <2>1. open' \in Seq(Piece)
    BY <1>2, CutsAreTyped DEF RecordRunCutShort, TypeOK
  <2> QED
    BY <1>2, <2>1 DEF RecordRunCutShort, TypeOK
<1>3. ASSUME UNCHANGED vars
      PROVE  TypeOK'
  BY <1>3 DEF vars, TypeOK
<1> QED
  BY <1>1, <1>2, <1>3 DEF Next

\* The file stays a sequence of lines of pieces and the bookkeeping keeps its types,
\* however many runs are recorded and wherever writes are cut.
THEOREM TypeCorrect == Spec => []TypeOK
BY TypeInit, TypeStep, PTL DEF Spec

-------------------------------------------------------------------------------
(* What the file holds of the runs that were recorded *)

\* The records on a line of their own, and those whose append completed but are not.
Whole == {r \in Record : \E i \in DOMAIN lines : lines[i] = Json(r)}
Finished == {done[i] : i \in DOMAIN done}
Lost == Finished \ Whole

\* Each lost run is paid for by a fault, and unfinished text at the end by one more.
Charged == Cardinality(Lost) + (IF open = <<>> THEN 0 ELSE 1) <= faults

\* Without a fault the file is the JSON of the recorded runs, line by line.
Clean == faults = 0 => /\ open = <<>>
                       /\ Len(lines) = Len(done)
                       /\ \A i \in 1 .. Len(done) : lines[i] = Json(done[i])

LedgerInv == TypeOK /\ Charged /\ Clean

LEMMA LostIsFinite ==
  ASSUME TypeOK
  PROVE  Lost \subseteq Record /\ IsFiniteSet(Lost) /\ Cardinality(Lost) \in Nat
<1>1. Lost \in SUBSET Record
  BY DEF TypeOK, Lost, Finished
<1>2. IsFiniteSet(Lost)
  BY <1>1, RecordAssumption, FS_Subset
<1> QED
  BY <1>1, <1>2, FS_CardinalityType

LEMMA LedgerInvInit == Init => LedgerInv
<1> SUFFICES ASSUME Init
             PROVE  LedgerInv
  OBVIOUS
<1>1. TypeOK
  BY TypeInit
<1>2. Lost = {}
  BY DEF Init, Lost, Finished
<1>3. Charged
  BY <1>2, FS_EmptySet DEF Init, Charged
<1>4. Clean
  BY DEF Init, Clean
<1> QED
  BY <1>1, <1>3, <1>4 DEF LedgerInv

\* An append that completes loses its own record at most, and only to text left open.
LEMMA AppendStep ==
  ASSUME LedgerInv, NEW r \in Record, RecordRun(r)
  PROVE  Charged' /\ Clean'
<1> USE DEF LedgerInv
<1> DEFINE L == Len(lines)
           D == Len(done)
<1>1. /\ lines \in Seq(Seq(Piece)) /\ done \in Seq(Record) /\ open \in Seq(Piece)
      /\ faults \in Nat /\ faults' = faults /\ open' = <<>>
      /\ lines' = Append(lines, open \o Json(r)) /\ done' = Append(done, r)
  BY FaultsAssumption DEF RecordRun, TypeOK
<1>2. L \in Nat /\ D \in Nat /\ DOMAIN lines = 1 .. L /\ DOMAIN done = 1 .. D
  BY <1>1
<1>3. /\ DOMAIN lines' = 1 .. L + 1 /\ lines'[L + 1] = open \o Json(r)
      /\ \A i \in 1 .. L : lines'[i] = lines[i]
  <2>1. open \o Json(r) \in Seq(Piece)
    BY <1>1, JsonIsTyped
  <2> QED
    BY <1>1, <2>1
<1>4. /\ DOMAIN done' = 1 .. D + 1 /\ Len(done') = D + 1 /\ done'[D + 1] = r
      /\ \A i \in 1 .. D : done'[i] = done[i]
  BY <1>1
<1>5. Len(lines') = L + 1
  BY <1>1
<1> HIDE DEF L, D
<1>6. Whole \subseteq Whole'
  BY <1>2, <1>3 DEF Whole
<1>7. Finished' \subseteq Finished \cup {r}
  <2> SUFFICES ASSUME NEW i \in 1 .. D + 1
               PROVE  done'[i] \in Finished \cup {r}
    BY <1>4 DEF Finished
  <2>1. i \in 1 .. D \/ i = D + 1
    BY <1>2
  <2> QED
    BY <2>1, <1>2, <1>4 DEF Finished
<1>8. Lost' \subseteq Lost \cup {r}
  BY <1>6, <1>7 DEF Lost
<1>9. IsFiniteSet(Lost) /\ Cardinality(Lost) \in Nat
  BY LostIsFinite
<1>10. ASSUME open = <<>>
       PROVE  Charged'
  <2>1. lines'[L + 1] = Json(r)
    BY <1>3, <1>10, JsonIsTyped
  <2>2. r \in Whole'
    <3>1. L + 1 \in DOMAIN lines'
      BY <1>2, <1>3
    <3> QED
      BY <2>1, <3>1 DEF Whole
  <2>3. Lost' \in SUBSET Lost
    BY <2>2, <1>8 DEF Lost
  <2>4. IsFiniteSet(Lost') /\ Cardinality(Lost') <= Cardinality(Lost)
    BY <2>3, <1>9, FS_Subset
  <2>5. Cardinality(Lost') \in Nat
    BY <2>4, FS_CardinalityType
  <2> QED
    BY <2>4, <2>5, <1>1, <1>9, <1>10 DEF Charged
<1>11. ASSUME open # <<>>
       PROVE  Charged'
  <2> DEFINE more == Lost \cup {r}
  <2>1. IsFiniteSet(more) /\ Cardinality(more) <= Cardinality(Lost) + 1
        /\ Cardinality(more) \in Nat
    BY <1>9, FS_AddElement, FS_CardinalityType
  <2>2. IsFiniteSet(Lost') /\ Cardinality(Lost') <= Cardinality(more)
    <3>1. Lost' \in SUBSET more
      BY <1>8
    <3> HIDE DEF more
    <3> QED
      BY <3>1, <2>1, FS_Subset
  <2>3. Cardinality(Lost') \in Nat
    BY <2>2, FS_CardinalityType
  <2> HIDE DEF more
  <2> QED
    BY <2>1, <2>2, <2>3, <1>1, <1>9, <1>11 DEF Charged
<1>12. Clean'
  <2> SUFFICES ASSUME faults = 0
               PROVE  /\ L + 1 = D + 1
                      /\ \A i \in 1 .. D + 1 : lines'[i] = Json(done'[i])
    BY <1>1, <1>4, <1>5 DEF Clean
  <2>1. open = <<>> /\ L = D /\ \A i \in 1 .. D : lines[i] = Json(done[i])
    BY DEF Clean, L, D
  <2>2. lines'[L + 1] = Json(r)
    BY <1>3, <2>1, JsonIsTyped
  <2>3. ASSUME NEW i \in 1 .. D + 1
        PROVE  lines'[i] = Json(done'[i])
    <3>1. i \in 1 .. D \/ i = D + 1
      BY <1>2
    <3>2. ASSUME i \in 1 .. D
          PROVE  lines'[i] = Json(done'[i])
      BY <3>2, <2>1, <1>3, <1>4
    <3>3. ASSUME i = D + 1
          PROVE  lines'[i] = Json(done'[i])
      BY <3>3, <2>1, <2>2, <1>4
    <3> QED
      BY <3>1, <3>2, <3>3
  <2> QED
    BY <2>1, <2>3
<1> QED
  BY <1>10, <1>11, <1>12

LEMMA LedgerInvStep == LedgerInv /\ [Next]_vars => LedgerInv'
<1> SUFFICES ASSUME LedgerInv, [Next]_vars
             PROVE  LedgerInv'
  OBVIOUS
<1>0. TypeOK /\ TypeOK'
  BY TypeStep DEF LedgerInv
<1>1. ASSUME NEW r \in Record, RecordRun(r)
      PROVE  Charged' /\ Clean'
  BY <1>1, AppendStep
<1>2. ASSUME NEW r \in Record, RecordRunCutShort(r)
      PROVE  Charged' /\ Clean'
  <2>1. faults \in Nat /\ faults' = faults + 1 /\ lines' = lines /\ done' = done
    BY <1>0, <1>2, FaultsAssumption DEF RecordRunCutShort, TypeOK
  <2>2. Lost' = Lost
    BY <2>1 DEF Lost, Finished, Whole
  <2>3. Cardinality(Lost) \in Nat
    BY <1>0, LostIsFinite
  <2>4. Charged'
    BY <2>1, <2>2, <2>3 DEF LedgerInv, Charged
  <2> QED
    BY <2>1, <2>4 DEF Clean
<1>3. ASSUME UNCHANGED vars
      PROVE  Charged' /\ Clean'
  BY <1>3 DEF LedgerInv, vars, Charged, Clean, Lost, Finished, Whole
<1> QED
  BY <1>0, <1>1, <1>2, <1>3 DEF LedgerInv, Next

LEMMA LedgerInvariant == Spec => []LedgerInv
BY LedgerInvInit, LedgerInvStep, PTL DEF Spec
-------------------------------------------------------------------------------
(* What a reader gets back *)

LEMMA JsonTellsRecord ==
  ASSUME NEW r \in Record, NEW x \in Record, Json(r) = Json(x)
  PROVE  r = x
BY JsonIsTyped

LEMMA ParsedJson ==
  ASSUME NEW r \in Record
  PROVE  Parsed(Json(r)) # {} <=> r \notin Separated
BY JsonTellsRecord DEF Parsed

LEMMA AllLinesAre ==
  ASSUME TypeOK
  PROVE  /\ Len(lines) \in Nat /\ DOMAIN lines = 1 .. Len(lines)
         /\ DOMAIN AllLines = 1 .. Len(lines) + 1
         /\ \A i \in 1 .. Len(lines) : AllLines[i] = lines[i]
         /\ AllLines[Len(lines) + 1] = open
BY DEF TypeOK, AllLines

\* The positions read_all keeps.
Good == {i \in DOMAIN AllLines : Parsed(AllLines[i]) # {}}

LEMMA GoodIsFinite ==
  ASSUME TypeOK
  PROVE  Good \in SUBSET Nat /\ IsFiniteSet(Good)
<1>1. Good \in SUBSET (1 .. Len(lines) + 1) /\ Len(lines) \in Nat
  BY AllLinesAre DEF Good
<1>2. IsFiniteSet(1 .. Len(lines) + 1)
  BY <1>1, FS_Interval
<1>3. IsFiniteSet(Good)
  BY <1>1, <1>2, FS_Subset
<1>4. Good \in SUBSET Nat
  BY <1>1
<1> QED
  BY <1>3, <1>4

LEMMA OwedPositions ==
  ASSUME TypeOK
  PROVE  LET S == {i \in DOMAIN done : done[i] \notin Separated}
         IN  S \in SUBSET Nat /\ IsFiniteSet(S)
<1> DEFINE S == {i \in DOMAIN done : done[i] \notin Separated}
<1>1. Len(done) \in Nat /\ DOMAIN done = 1 .. Len(done)
  BY DEF TypeOK
<1>2. S \in SUBSET (1 .. Len(done))
  BY <1>1
<1>3. IsFiniteSet(1 .. Len(done))
  BY <1>1, FS_Interval
<1> HIDE DEF S
<1>4. IsFiniteSet(S)
  BY <1>2, <1>3, FS_Subset
<1>5. S \in SUBSET Nat
  BY <1>1, <1>2
<1> QED
  BY <1>4, <1>5 DEF S

LEMMA OwedIsTyped == TypeOK => Owed \in Seq(Record)
<1> SUFFICES ASSUME TypeOK
             PROVE  Owed \in Seq(Record)
  OBVIOUS
<1> DEFINE S == {i \in DOMAIN done : done[i] \notin Separated}
           n == Cardinality(S)
<1>1. S \in SUBSET Nat /\ IsFiniteSet(S)
  BY OwedPositions
<1>2. S \subseteq DOMAIN done /\ \A i \in DOMAIN done : done[i] \in Record
  BY DEF TypeOK
<1>3. Owed = [k \in 1 .. n |-> done[InOrder(S)[k]]]
  BY DEF Owed, Kept
<1> HIDE DEF S
<1>4. n \in Nat /\ \A k \in 1 .. n : InOrder(S)[k] \in S
  BY <1>1, InOrderIsRight
<1>5. \A k \in 1 .. n : done[InOrder(S)[k]] \in Record
  BY <1>2, <1>4
<1> HIDE DEF n
<1>6. Owed \in [1 .. n -> Record]
  BY <1>3, <1>5
<1> QED
  BY <1>4, <1>6

\* Without a fault read_all returns the records owed, in the order of their appends.
LEMMA ReadsOwed ==
  ASSUME LedgerInv, faults = 0
  PROVE  ReadAll = Owed
<1> DEFINE L == Len(lines)
           S == {i \in DOMAIN done : done[i] \notin Separated}
<1>1. /\ TypeOK /\ open = <<>> /\ L = Len(done) /\ L \in Nat
      /\ DOMAIN done = 1 .. L
      /\ \A i \in 1 .. L : lines[i] = Json(done[i]) /\ done[i] \in Record
  BY DEF LedgerInv, Clean, TypeOK
<1>2. /\ DOMAIN AllLines = 1 .. L + 1
      /\ \A i \in 1 .. L : AllLines[i] = Json(done[i])
      /\ AllLines[L + 1] = <<>>
  BY <1>1, AllLinesAre
<1>3. Parsed(<<>>) = {}
  BY JsonIsTyped DEF Parsed
<1>4. S = {i \in 1 .. L : done[i] \notin Separated}
  BY <1>1
<1> HIDE DEF L, S
<1>5. \A i \in 1 .. L + 1 : i \in 1 .. L \/ i = L + 1
  BY <1>1
<1>6. ~ \E i \in DOMAIN AllLines : HasSplit(AllLines[i])
  <2> SUFFICES ASSUME NEW i \in 1 .. L + 1
               PROVE  ~ HasSplit(AllLines[i])
    BY <1>2
  <2>1. ~ HasSplit(<<>>)
    BY DEF HasSplit
  <2>2. ASSUME NEW r \in Record
        PROVE  ~ HasSplit(Json(r))
    <3>1. DOMAIN Json(r) = {1, 2} /\ Json(r)[1][1] = "head" /\ Json(r)[2][1] = "tail"
      BY DEF Json
    <3> QED
      BY <3>1 DEF HasSplit
  <2> QED
    BY <2>1, <2>2, <1>1, <1>2, <1>5
<1>7. Good = S
  <2>1. ASSUME NEW i \in 1 .. L
        PROVE  Parsed(AllLines[i]) # {} <=> done[i] \notin Separated
    BY <1>1, <1>2, ParsedJson
  <2>2. \A i \in 1 .. L : i \in 1 .. L + 1
    BY <1>1
  <2> QED
    BY <2>1, <2>2, <1>2, <1>3, <1>4, <1>5 DEF Good
<1>8. \A i \in S : AllLines[i][1][2] = done[i]
  BY <1>1, <1>2, <1>4, JsonIsTyped
<1>9. [i \in Good |-> AllLines[i][1][2]] = [i \in S |-> done[i]]
  BY <1>7, <1>8
<1>10. ReadAll = Kept([i \in Good |-> AllLines[i][1][2]], Good)
  BY <1>6 DEF ReadAll, Good
<1>11. Kept([i \in S |-> done[i]], S) = Kept(done, S)
  <2>1. S \in SUBSET Nat /\ IsFiniteSet(S)
    BY <1>7, <1>1, GoodIsFinite
  <2>2. \A k \in 1 .. Cardinality(S) : InOrder(S)[k] \in S
    BY <2>1, InOrderIsRight
  <2> QED
    BY <2>2 DEF Kept
<1> QED
  BY <1>7, <1>9, <1>10, <1>11 DEF Owed, S

LEMMA ReadsWhatWasRecordedHolds ==
  ASSUME LedgerInv
  PROVE  ReadsWhatWasRecorded
<1> SUFFICES ASSUME faults = 0, NEW problem \in Problem
             PROVE  ReadRuns(problem) = OfProblem(Owed, problem)
  BY DEF ReadsWhatWasRecorded
<1>1. ReadAll = Owed
  BY ReadsOwed
<1>2. ReadAll # Raised
  BY <1>1, OwedIsTyped, RaisedAssumption DEF LedgerInv
<1> QED
  BY <1>1, <1>2 DEF ReadRuns

\* While no write is cut short, reading a problem's runs returns exactly those whose
\* append completed, in that order, whichever processes wrote them (read_runs).
THEOREM ReadsAreExact == Spec => []ReadsWhatWasRecorded
BY LedgerInvariant, ReadsWhatWasRecordedHolds, PTL

LEMMA WholeIsRead ==
  ASSUME TypeOK, ReadAll # Raised, NEW r \in Whole, r \notin Separated
  PROVE  r \in ToSet(ReadAll)
<1> DEFINE f == [i \in Good |-> AllLines[i][1][2]]
<1>1. ReadAll = Kept(f, Good)
  BY DEF ReadAll, Good
<1>2. PICK i \in DOMAIN lines : lines[i] = Json(r)
  BY DEF Whole
<1>3. r \in Record /\ i \in DOMAIN AllLines /\ AllLines[i] = Json(r)
  <2>1. i \in 1 .. Len(lines) /\ Len(lines) \in Nat
    BY AllLinesAre
  <2>2. i \in 1 .. Len(lines) + 1
    BY <2>1
  <2> QED
    BY <1>2, <2>1, <2>2, AllLinesAre DEF Whole
<1>4. i \in Good
  BY <1>3, ParsedJson DEF Good
<1>5. f[i] = r
  BY <1>3, <1>4, JsonIsTyped
<1> HIDE DEF f
<1>6. PICK k \in DOMAIN Kept(f, Good) : Kept(f, Good)[k] = f[i]
  BY <1>4, GoodIsFinite, KeptIsRight
<1> QED
  BY <1>1, <1>5, <1>6 DEF ToSet

LEMMA OwedIsFinished ==
  ASSUME TypeOK
  PROVE  ToSet(Owed) \subseteq Finished \ Separated
<1> DEFINE S == {i \in DOMAIN done : done[i] \notin Separated}
<1>1. S \in SUBSET Nat /\ IsFiniteSet(S)
  BY OwedPositions
<1>2. \A i \in S : done[i] \in Finished \ Separated
  BY DEF Finished
<1>3. Owed = Kept(done, S)
  BY DEF Owed
<1> HIDE DEF S
<1>4. \A k \in DOMAIN Kept(done, S) : \E i \in S : Kept(done, S)[k] = done[i]
  BY <1>1, KeptIsRight
<1> QED
  BY <1>2, <1>3, <1>4 DEF ToSet

LEMMA DamageIsBoundedHolds ==
  ASSUME LedgerInv
  PROVE  DamageBounded
<1> SUFFICES ASSUME ReadAll # Raised
             PROVE  Cardinality(ToSet(Owed) \ ToSet(ReadAll)) <= faults
  BY DEF DamageBounded
<1> DEFINE missing == ToSet(Owed) \ ToSet(ReadAll)
<1>1. TypeOK /\ faults \in Nat
  BY FaultsAssumption DEF LedgerInv, TypeOK
<1>2. missing \in SUBSET Lost
  <2> SUFFICES ASSUME NEW r \in ToSet(Owed), r \notin ToSet(ReadAll)
               PROVE  r \in Lost
    OBVIOUS
  <2>1. r \in Finished /\ r \notin Separated
    BY <1>1, OwedIsFinished
  <2> QED
    BY <2>1, <1>1, WholeIsRead DEF Lost
<1> HIDE DEF missing
<1>3. IsFiniteSet(Lost) /\ Cardinality(Lost) \in Nat
  BY <1>1, LostIsFinite
<1>4. Cardinality(missing) <= Cardinality(Lost) /\ IsFiniteSet(missing)
  BY <1>2, <1>3, FS_Subset
<1>5. Cardinality(missing) \in Nat
  BY <1>4, FS_CardinalityType
<1>6. Cardinality(Lost) <= faults
  BY <1>1, <1>3 DEF LedgerInv, Charged
<1> QED
  BY <1>1, <1>3, <1>4, <1>5, <1>6 DEF missing

\* However many writes are cut short, and wherever, each costs a reader at most one of
\* the runs whose append completed (record_run's single write at end-of-file).
THEOREM DamageIsBounded == Spec => []DamageBounded
BY LedgerInvariant, DamageIsBoundedHolds, PTL

===============================================================================
