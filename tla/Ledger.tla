-------------------------------- MODULE Ledger --------------------------------
(***************************************************************************)
(* The solve ledger of scripts/ledger.py: a JSONL file to which record_run *)
(* appends one line per run (a single write at end-of-file, from any       *)
(* process) and which read_all parses line by line.  A write may be cut    *)
(* short by a kill or a full disk; its error is logged and swallowed.      *)
(* A line is a sequence of pieces: the JSON of a record is its <<"head">>  *)
(* and its <<"tail">>, and "split" is text cut inside a multi-byte         *)
(* character (record_run writes ensure_ascii=False, so there are some).    *)
(***************************************************************************)
EXTENDS Naturals, Sequences, FiniteSets, SequencesExt

CONSTANTS
  Record,     \* the run records, one per record_run call
  Problem,    \* problem identifiers
  ProblemOf,  \* record |-> the problem it is keyed by
  Wide,       \* records whose JSON holds a character outside ASCII
  Separated,  \* records whose JSON holds a separator str.splitlines breaks at (U+2028, U+0085)
  MaxFaults,  \* bound: writes cut short
  Raised      \* the outcome of a read that raises

ASSUME RecordAssumption == /\ ProblemOf \in [Record -> Problem]
                           /\ Wide \subseteq Record /\ Separated \subseteq Wide
                           /\ IsFiniteSet(Record)
ASSUME FaultsAssumption == MaxFaults \in Nat
ASSUME RaisedAssumption == Raised \notin Seq(Record)

VARIABLES
  lines,   \* the terminated lines of the file
  open,    \* what follows the last newline
  faults,  \* writes cut short so far
  begun,   \* the records record_run was called with
  done     \* history: the records whose append completed, oldest first

vars == <<lines, open, faults, begun, done>>

\* Faulty variant of Json: the record is written as it is.
Unserialised(r) == <<r>>

Json(r) == <<<<"head", r>>, <<"tail", r>>>>

\* What a write cut short may leave of a record's line.
Cuts(r) == {<<>>, SubSeq(Json(r), 1, 1), Json(r)}
           \cup (IF r \in Wide THEN {<<<<"split", r>>>>} ELSE {})

\* A line parses if it is the JSON of one record and nothing else.
Parsed(line) == {r \in Record \ Separated : line = Json(r)}

HasSplit(line) == \E i \in DOMAIN line : line[i][1] = "split"

AllLines == Append(lines, open)

\* The numbers of a finite set in increasing order, and a function's values at them.
Rank(S, i) == Cardinality({j \in S : j <= i})
InOrder(S) == [k \in 1 .. Cardinality(S) |-> CHOOSE i \in S : Rank(S, i) = k]
Kept(f, S) == [k \in 1 .. Cardinality(S) |-> f[InOrder(S)[k]]]

\* Faulty variant of ReadAll: reading stops at the first line that does not parse.
ReadUntilMalformed ==
  IF \E i \in DOMAIN AllLines : HasSplit(AllLines[i]) THEN Raised
  ELSE LET sound == {n \in 0 .. Len(lines) : \A i \in 1 .. n : Parsed(lines[i]) # {}}
       IN  [i \in 1 .. Max(sound) |-> lines[i][1][2]]

\* read_all: the records of the lines that parse, in file order.  The file is
\* decoded as a whole first, and only OSError is caught there.
ReadAll ==
  IF \E i \in DOMAIN AllLines : HasSplit(AllLines[i]) THEN Raised
  ELSE LET good == {i \in DOMAIN AllLines : Parsed(AllLines[i]) # {}}
       IN  Kept([i \in good |-> AllLines[i][1][2]], good)

\* One problem's records of a sequence of records.
OfProblem(runs, problem) == Kept(runs, {i \in DOMAIN runs : ProblemOf[runs[i]] = problem})

\* read_runs: one problem's records, oldest first.
ReadRuns(problem) == IF ReadAll = Raised THEN Raised ELSE OfProblem(ReadAll, problem)

-------------------------------------------------------------------------------

Init == lines = <<>> /\ open = <<>> /\ faults = 0 /\ begun = {} /\ done = <<>>

\* Faulty variant of RecordRun: the file is opened for writing, not for appending.
RecordRunTruncating(r) ==
  /\ r \notin begun
  /\ lines' = <<Json(r)>>
  /\ open' = <<>>
  /\ begun' = begun \cup {r}
  /\ done' = Append(done, r)
  /\ UNCHANGED faults

\* record_run: the whole line, newline included, lands at the end of the file.
RecordRun(r) ==
  /\ r \notin begun
  /\ lines' = Append(lines, open \o Json(r))
  /\ open' = <<>>
  /\ begun' = begun \cup {r}
  /\ done' = Append(done, r)
  /\ UNCHANGED faults

\* The write is cut short before its newline; the caller is not told.
RecordRunCutShort(r) ==
  /\ r \notin begun
  /\ faults < MaxFaults
  /\ \E cut \in Cuts(r) : open' = open \o cut
  /\ faults' = faults + 1
  /\ begun' = begun \cup {r}
  /\ UNCHANGED <<lines, done>>

Next == \E r \in Record : RecordRun(r) \/ RecordRunCutShort(r)

Spec == Init /\ [][Next]_vars

-------------------------------------------------------------------------------
Piece == {"head", "tail", "split"} \X Record

TypeOK == /\ lines \in Seq(Seq(Piece))
          /\ open \in Seq(Piece)
          /\ faults \in 0 .. MaxFaults
          /\ begun \subseteq Record
          /\ done \in Seq(Record)

\* The runs whose record a reader is owed: those whose append completed, but for a
\* record with a line separator of its own, which the line-by-line read splits.
Owed == Kept(done, {i \in DOMAIN done : done[i] \notin Separated})

\* While no write is cut short, the read surface returns exactly the runs that
\* were recorded, oldest first, whichever processes appended them.
ReadsWhatWasRecorded ==
  faults = 0 => \A problem \in Problem :
                  ReadRuns(problem) = OfProblem(Owed, problem)

\* A write cut short costs at most one recorded run (the next append, glued to
\* the unfinished line); every later append is on a line of its own again.
DamageBounded ==
  ReadAll # Raised => Cardinality(ToSet(Owed) \ ToSet(ReadAll)) <= faults
===============================================================================
