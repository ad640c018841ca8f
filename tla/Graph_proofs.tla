----------------------------- MODULE Graph_proofs -----------------------------
(***************************************************************************)
(* Proofs about the execution graph.  First the store: the types of its    *)
(* variables for any number of writers, and, with one writer per session   *)
(* file at a time, that the CLI processes' load, truncate and write        *)
(* implement the edge memory.  Then, with one writer per session file,     *)
(* what the logs hold and what is read back from them: the recorded        *)
(* commands and the edges of the logs correspond, whatever crashes.        *)
(***************************************************************************)
EXTENDS GraphReads, FiniteSetTheorems, TLAPS

\* The parts of TypeOK.
DiskType == disk \in [File -> SUBSET Edge]
JobType == job \in [Proc -> Busy \cup {Idle}]
CountType == /\ clock \in Second
             /\ calls \in 0 .. MaxCalls
             /\ faults \in 0 .. MaxFaults
DoneType == done \subseteq Calls \X Second /\ unread \subseteq Calls \X Second

LEMMA TypeParts == TypeOK <=> DiskType /\ JobType /\ CountType /\ DoneType
BY DEF TypeOK, DiskType, JobType, CountType, DoneType

\* The edge a command builds is well-formed, and so is the file it goes to.
LEMMA EdgeIsTyped ==
  ASSUME NEW j \in Busy
  PROVE  NewEdge(j) \in Edge /\ Target(j) \in File
<1>1. /\ j.call \in Call /\ j.ts \in Second /\ j.ms \in Int \cup {None}
      /\ j.call.cmd \in Cmd /\ j.call.session \in Session
      /\ j.call.unit \in Unit /\ j.call.outcome \in Outcome \cup {None}
  BY CallsAssumption DEF Busy, Call
<1>2. EdgeTypeOf[j.call.cmd] \in EdgeType
  BY <1>1 DEF EdgeTypeOf, Cmd, EdgeType
<1>3. EventSession(j.call, j.ts) \in SessionId
  BY <1>1 DEF EventSession, SessionId
<1>4. Target(j) \in File
  BY <1>3 DEF Target, SessionFile, File, SessionId
<1> QED
  BY <1>1, <1>2, <1>3, <1>4 DEF NewEdge, Edge

\* A process that is not idle runs a well-formed invocation.
LEMMA AtWorkIsBusy ==
  ASSUME JobType, NEW p \in Proc, job[p] # Idle
  PROVE  job[p] \in Busy
BY DEF JobType

LEMMA PcIsBusy ==
  ASSUME JobType, NEW p \in Proc, job[p].pc \in {"derive", "load", "blind", "truncate", "flush"}
  PROVE  job[p] \in Busy /\ job[p] # Idle
BY DEF JobType, Idle, Busy

-------------------------------------------------------------------------------
LEMMA DiskTypeStep == DiskType /\ JobType /\ [Next]_vars => DiskType'
<1> SUFFICES ASSUME DiskType, JobType, [Next]_vars PROVE DiskType'
  OBVIOUS
<1>1. ASSUME NEW p \in Proc, Truncate(p) PROVE DiskType'
  BY <1>1, PcIsBusy, EdgeIsTyped DEF Truncate, DiskType
<1>2. ASSUME NEW p \in Proc, Flush(p) PROVE DiskType'
  <2> DEFINE f == Target(job[p])
             text == Merge(job[p].old, NewEdge(job[p]))
  <2>1. job[p] \in Busy
    BY <1>2, PcIsBusy DEF Flush
  <2>2. f \in File /\ NewEdge(job[p]) \in Edge /\ job[p].old \subseteq Edge
    BY <2>1, EdgeIsTyped DEF Busy
  <2>3. text \subseteq Edge
    BY <2>2 DEF Merge
  <2>4. PICK content \in WriteOver(disk[f], text) : disk' = [disk EXCEPT ![f] = content]
    BY <1>2 DEF Flush
  <2>5. content \subseteq Edge
    BY <2>3, <2>4 DEF WriteOver
  <2> QED
    BY <2>2, <2>4, <2>5 DEF DiskType
<1>3. ASSUME NEW p \in Proc, Abort(p) PROVE DiskType'
  BY <1>3, AtWorkIsBusy, EdgeIsTyped DEF Abort, Empty, DiskType
<1>4. ASSUME NEW p \in Proc, Overwrite(p) PROVE DiskType'
  BY <1>4, PcIsBusy, EdgeIsTyped DEF Overwrite, Empty, DiskType
<1>5. CASE UNCHANGED disk
  BY <1>5 DEF DiskType
<1> QED
  BY <1>1, <1>2, <1>3, <1>4, <1>5
  DEF Next, Tick, Invoke, Derive, DeriveBlind, LoadFile, LoadFails, Unreadable, vars

LEMMA ElapsedIsTyped ==
  ASSUME DiskType, NEW c, NEW ts \in Second
  PROVE  Elapsed(c, ts) \in Int \cup {None}
<1> DEFINE starts == {e \in ReadGraph : /\ e.type = "dispatch_started"
                                        /\ e.session = <<c.session, None>>
                                        /\ e.tgt = c.unit}
<1>1. starts \subseteq Edge
  BY DEF ReadGraph, DiskType
<1>2. ASSUME starts # {} PROVE ts - (CHOOSE e \in starts : TRUE).ts \in Int
  <2>1. (CHOOSE e \in starts : TRUE) \in Edge
    BY <1>1, <1>2
  <2>2. (CHOOSE e \in starts : TRUE).ts \in Second
    BY <2>1 DEF Edge
  <2> QED
    BY <2>2, BoundsAssumption DEF Second
<1>3. Elapsed(c, ts) = IF starts = {} THEN None ELSE ts - (CHOOSE e \in starts : TRUE).ts
  BY DEF Elapsed
<1> HIDE DEF starts
<1> QED
  BY <1>2, <1>3

\* What a step that meets an unreadable file, or rewrites one, makes of its process.
LEMMA BlindStep ==
  ASSUME DiskType, JobType, CountType, NEW p \in Proc, DeriveBlind(p) \/ LoadFails(p) \/ Overwrite(p)
  PROVE  \E k : /\ job' = [job EXCEPT ![p] = k] /\ k \in Busy
                /\ k.call = job[p].call /\ k.ts = job[p].ts /\ k.ms = job[p].ms
                /\ k.pc \in {"load", "blind", "flush"} /\ (k.pc = "blind" => k.old = {} /\ MaxFaults > 0)
                /\ k.pc = "flush" => k.old = job[p].old
                /\ \A f \in File : f # Target(job[p]) => disk'[f] = disk[f]
                /\ k.pc = "flush" <=> Overwrite(p)
                /\ k.pc = "flush" => disk'[Target(job[p])] = {}
                /\ k.pc # "flush" => disk' = disk /\ done' = done
<1>1. job[p] \in Busy /\ job[p] # Idle /\ Target(job[p]) \in File
  BY PcIsBusy, EdgeIsTyped DEF DeriveBlind, LoadFails, Overwrite
<1>2. CASE DeriveBlind(p)
  <2> DEFINE k == [job[p] EXCEPT !.pc = "load"]
  <2>1. job' = [job EXCEPT ![p] = k] /\ disk' = disk /\ done' = done /\ ~Overwrite(p)
    BY <1>2 DEF DeriveBlind, Unreadable, JobType, Overwrite
  <2>2. /\ k \in Busy /\ k.call = job[p].call /\ k.ts = job[p].ts /\ k.ms = job[p].ms
        /\ k.pc = "load"
    BY <1>1 DEF Busy
  <2> HIDE DEF k
  <2> QED
    BY <2>1, <2>2
<1>3. CASE LoadFails(p)
  <2> DEFINE k == [job[p] EXCEPT !.pc = "blind", !.old = {}]
  <2>1. job' = [job EXCEPT ![p] = k] /\ disk' = disk /\ done' = done /\ ~Overwrite(p)
    BY <1>3 DEF LoadFails, Unreadable, JobType, Overwrite
  <2>2. /\ k \in Busy /\ k.call = job[p].call /\ k.ts = job[p].ts /\ k.ms = job[p].ms
        /\ k.pc = "blind" /\ k.old = {}
    BY <1>1 DEF Busy
  <2>3. MaxFaults > 0
    BY <1>3, BoundsAssumption DEF LoadFails, Unreadable, CountType
  <2> HIDE DEF k
  <2> QED
    BY <2>1, <2>2, <2>3
<1>4. CASE Overwrite(p)
  <2> DEFINE k == [job[p] EXCEPT !.pc = "flush"]
  <2>1. job' = [job EXCEPT ![p] = k] /\ disk' = [disk EXCEPT ![Target(job[p])] = {}]
    BY <1>4 DEF Overwrite, Empty, JobType
  <2>2. /\ k \in Busy /\ k.call = job[p].call /\ k.ts = job[p].ts /\ k.ms = job[p].ms
        /\ k.pc = "flush" /\ k.old = job[p].old
    BY <1>1 DEF Busy
  <2>3. disk'[Target(job[p])] = {} /\ \A f \in File : f # Target(job[p]) => disk'[f] = disk[f]
    BY <1>1, <2>1 DEF DiskType
  <2> HIDE DEF k
  <2> QED
    BY <1>4, <2>1, <2>2, <2>3
<1> QED
  BY <1>2, <1>3, <1>4

LEMMA JobTypeStep == DiskType /\ JobType /\ CountType /\ [Next]_vars => JobType'
<1> SUFFICES ASSUME DiskType, JobType, CountType, [Next]_vars PROVE JobType'
  OBVIOUS
<1>1. ASSUME NEW p \in Proc, NEW c \in Calls, Invoke(p, c) PROVE JobType'
  <2> DEFINE j == [pc |-> IF c.cmd \in EndCmd THEN "derive" ELSE "load",
                   call |-> c, ts |-> clock, ms |-> None, old |-> {}]
  <2>1. j \in Busy
    BY DEF Busy, CountType
  <2>2. job' = [job EXCEPT ![p] = j]
    BY <1>1 DEF Invoke
  <2> QED
    BY <2>1, <2>2 DEF JobType
<1>2. ASSUME NEW p \in Proc, Derive(p) PROVE JobType'
  <2>1. job[p] \in Busy
    BY <1>2, PcIsBusy DEF Derive
  <2>2. Elapsed(job[p].call, job[p].ts) \in Int \cup {None}
    BY <2>1, ElapsedIsTyped DEF Busy
  <2>3. [job[p] EXCEPT !.pc = "load", !.ms = Elapsed(job[p].call, job[p].ts)] \in Busy
    BY <2>1, <2>2 DEF Busy
  <2>4. job' = [job EXCEPT ![p] = [job[p] EXCEPT !.pc = "load",
                                                 !.ms = Elapsed(job[p].call, job[p].ts)]]
    BY <1>2, <2>1 DEF Derive, JobType
  <2> QED
    BY <2>3, <2>4 DEF JobType
<1>3. ASSUME NEW p \in Proc, LoadFile(p) PROVE JobType'
  <2>1. job[p] \in Busy
    BY <1>3, PcIsBusy DEF LoadFile
  <2>2. disk[Target(job[p])] \subseteq Edge
    BY <2>1, EdgeIsTyped DEF DiskType
  <2>3. [job[p] EXCEPT !.pc = "truncate", !.old = disk[Target(job[p])]] \in Busy
    BY <2>1, <2>2 DEF Busy
  <2>4. job' = [job EXCEPT ![p] = [job[p] EXCEPT !.pc = "truncate", !.old = disk[Target(job[p])]]]
    BY <1>3 DEF LoadFile, JobType
  <2> QED
    BY <2>3, <2>4 DEF JobType
<1>4. ASSUME NEW p \in Proc, Truncate(p) PROVE JobType'
  <2>1. job[p] \in Busy
    BY <1>4, PcIsBusy DEF Truncate
  <2>2. [job[p] EXCEPT !.pc = "flush"] \in Busy
    BY <2>1 DEF Busy
  <2>3. job' = [job EXCEPT ![p] = [job[p] EXCEPT !.pc = "flush"]]
    BY <1>4 DEF Truncate, JobType
  <2> QED
    BY <2>2, <2>3 DEF JobType
<1>5. ASSUME NEW p \in Proc, job' = [job EXCEPT ![p] = Idle] PROVE JobType'
  BY <1>5 DEF JobType
<1>6. ASSUME NEW p \in Proc, DeriveBlind(p) \/ LoadFails(p) \/ Overwrite(p) PROVE JobType'
  BY <1>6, BlindStep DEF JobType
<1>7. CASE UNCHANGED job
  BY <1>7 DEF JobType
<1> QED
  BY <1>1, <1>2, <1>3, <1>4, <1>5, <1>6, <1>7 DEF Next, Tick, Flush, Abort, vars

LEMMA CountTypeStep == CountType /\ [Next]_vars => CountType'
<1> SUFFICES ASSUME CountType, [Next]_vars PROVE CountType'
  OBVIOUS
<1>1. clock' \in Second
  <2>1. CASE Tick
    BY <2>1, BoundsAssumption DEF Tick, CountType, Second
  <2>2. CASE UNCHANGED clock
    BY <2>2 DEF CountType
  <2> QED
    BY <2>1, <2>2 DEF Next, vars, Invoke, Derive, DeriveBlind, LoadFile, LoadFails, Unreadable, Truncate,
           Overwrite, Flush, Abort
<1>2. calls' \in 0 .. MaxCalls
  <2>1. ASSUME calls < MaxCalls, calls' = calls + 1 PROVE calls' \in 0 .. MaxCalls
    BY <2>1, BoundsAssumption DEF CountType
  <2>2. CASE UNCHANGED calls
    BY <2>2 DEF CountType
  <2> QED
    BY <2>1, <2>2 DEF Next, vars, Tick, Invoke, Derive, DeriveBlind, LoadFile, LoadFails, Unreadable, Truncate,
         Overwrite, Flush, Abort, Empty
<1>3. faults' \in 0 .. MaxFaults
  <2>1. ASSUME faults < MaxFaults, faults' = faults + 1 PROVE faults' \in 0 .. MaxFaults
    BY <2>1, BoundsAssumption DEF CountType
  <2>2. CASE UNCHANGED faults
    BY <2>2 DEF CountType
  <2> QED
    BY <2>1, <2>2 DEF Next, vars, Tick, Invoke, Derive, DeriveBlind, LoadFile, LoadFails, Unreadable, Truncate,
         Overwrite, Flush, Abort, Empty
<1> QED
  BY <1>1, <1>2, <1>3 DEF CountType

LEMMA DoneTypeStep == JobType /\ DoneType /\ [Next]_vars => DoneType'
<1> SUFFICES ASSUME JobType, DoneType, [Next]_vars PROVE DoneType'
  OBVIOUS
<1>1. ASSUME NEW p \in Proc, Flush(p) PROVE DoneType'
  <2>1. job[p].call \in Calls /\ job[p].ts \in Second
    BY <1>1, PcIsBusy DEF Flush, Busy
  <2> QED
    BY <1>1, <2>1 DEF Flush, DoneType
<1>2. ASSUME NEW p \in Proc, DeriveBlind(p) \/ LoadFails(p) PROVE DoneType'
  <2>1. job[p].call \in Calls /\ job[p].ts \in Second
    BY <1>2, PcIsBusy DEF DeriveBlind, LoadFails, Busy
  <2> QED
    BY <1>2, <2>1 DEF DeriveBlind, LoadFails, Unreadable, DoneType
<1>3. CASE done' \subseteq done /\ unread' = unread
  BY <1>3 DEF DoneType
<1> QED
  BY <1>1, <1>2, <1>3
  DEF Next, vars, Tick, Invoke, Derive, LoadFile, Truncate, Overwrite, Abort, Empty

\* Every variable of the store keeps its type, for any processes, sessions and
\* command lines, any number of writers at once and any failures: what is on disk
\* is always a set of well-formed edges.
THEOREM TypeCorrect == Spec => []TypeOK
<1>1. Init => TypeOK
  BY BoundsAssumption DEF Init, TypeOK, Second
<1>2. TypeOK /\ [Next]_vars => TypeOK'
  BY TypeParts, DiskTypeStep, JobTypeStep, CountTypeStep, DoneTypeStep, PTL
<1> QED
  BY <1>1, <1>2, PTL DEF Spec

-------------------------------------------------------------------------------
\* What one writer per session file at a time gives: while a process is between its
\* load and its write, the file is as it loaded it, or emptied by its own truncation;
\* one that could not read the file holds nothing of it.
OneWriter ==
  /\ \A p, q \in Proc : /\ job[p] # Idle /\ job[q] # Idle
                        /\ Target(job[p]) = Target(job[q])
                        => p = q
  /\ \A p \in Proc : /\ job[p].pc = "truncate" => disk[Target(job[p])] = job[p].old
                     /\ job[p].pc = "flush" => disk[Target(job[p])] = {}
                     /\ job[p].pc = "blind" => job[p].old = {} /\ MaxFaults > 0

\* The file of an invocation does not change while it runs.
LEMMA TargetKept ==
  ASSUME NEW j, NEW k, k.call = j.call, k.ts = j.ts
  PROVE  Target(k) = Target(j)
BY DEF Target

LEMMA OneWriterStep ==
  ASSUME MaxWriters = 1, DiskType, JobType, CountType, OneWriter, [Next]_vars
  PROVE  OneWriter'
<1>1. ASSUME NEW p \in Proc, NEW c \in Calls, Invoke(p, c) PROVE OneWriter'
  <2> DEFINE j == [pc |-> IF c.cmd \in EndCmd THEN "derive" ELSE "load",
                   call |-> c, ts |-> clock, ms |-> None, old |-> {}]
  <2>1. job' = [job EXCEPT ![p] = j] /\ disk' = disk /\ Cardinality(Writers(Target(j))) < 1
    BY <1>1 DEF Invoke
  <2>2. Writers(Target(j)) = {}
    <3>1. IsFiniteSet(Writers(Target(j)))
      BY BoundsAssumption, FS_Subset DEF Writers
    <3>2. Cardinality(Writers(Target(j))) = 0
      BY <2>1, <3>1, FS_CardinalityType
    <3> QED
      BY <3>1, <3>2, FS_EmptySet
  <2>3. j.pc \notin {"truncate", "flush", "blind"} /\ j # Idle
    BY DEF Idle
  <2>4. \A q \in Proc : job[q] # Idle => Target(job[q]) # Target(j)
    BY <2>2 DEF Writers
  <2> HIDE DEF j
  <2> QED
    BY <2>1, <2>3, <2>4 DEF OneWriter, JobType
<1>2. ASSUME NEW p \in Proc, NEW k \in Busy, job' = [job EXCEPT ![p] = k], job[p] \in Busy, job[p] # Idle,
             k.call = job[p].call, k.ts = job[p].ts,
             \A f \in File : f # Target(job[p]) => disk'[f] = disk[f],
             k.pc = "truncate" => disk'[Target(job[p])] = k.old,
             k.pc = "flush" => disk'[Target(job[p])] = {},
             k.pc = "blind" => k.old = {} /\ MaxFaults > 0
      PROVE  OneWriter'
  <2>1. Target(k) = Target(job[p])
    BY <1>2, TargetKept
  <2>2. ASSUME NEW q \in Proc, job'[q].pc \in {"truncate", "flush"}, q # p
        PROVE  /\ job'[q] = job[q] /\ Target(job[q]) \in File
               /\ disk'[Target(job[q])] = disk[Target(job[q])]
    <3>1. job'[q] = job[q]
      BY <1>2, <2>2 DEF JobType
    <3>2. job[q] \in Busy /\ job[q] # Idle
      BY <2>2, <3>1, PcIsBusy
    <3> QED
      BY <1>2, <2>2, <3>1, <3>2, EdgeIsTyped DEF OneWriter
  <2>3. \A q, r \in Proc : /\ job'[q] # Idle /\ job'[r] # Idle
                           /\ Target(job'[q]) = Target(job'[r])
                           => q = r
    BY <1>2, <2>1 DEF OneWriter, JobType
  <2>4. \A q \in Proc : /\ job'[q].pc = "truncate" => disk'[Target(job'[q])] = job'[q].old
                        /\ job'[q].pc = "flush" => disk'[Target(job'[q])] = {}
                        /\ job'[q].pc = "blind" => job'[q].old = {} /\ MaxFaults > 0
    BY <1>2, <2>1, <2>2 DEF OneWriter, JobType
  <2> QED
    BY <2>3, <2>4 DEF OneWriter
<1>3. ASSUME NEW p \in Proc, job[p] \in Busy, job[p] # Idle, job' = [job EXCEPT ![p] = Idle],
             \A f \in File : f # Target(job[p]) => disk'[f] = disk[f]
      PROVE  OneWriter'
  <2>1. ASSUME NEW q \in Proc, job'[q].pc \in {"truncate", "flush"}
        PROVE  /\ job'[q] = job[q] /\ Target(job[q]) \in File
               /\ disk'[Target(job[q])] = disk[Target(job[q])]
    <3>1. q # p /\ job'[q] = job[q]
      BY <1>3, <2>1 DEF JobType, Idle
    <3>2. job[q] \in Busy /\ job[q] # Idle
      BY <2>1, <3>1, PcIsBusy
    <3> QED
      BY <1>3, <3>1, <3>2, EdgeIsTyped DEF OneWriter
  <2>2. \A q, r \in Proc : /\ job'[q] # Idle /\ job'[r] # Idle
                           /\ Target(job'[q]) = Target(job'[r])
                           => q = r
    BY <1>3 DEF OneWriter, JobType
  <2>3. \A q \in Proc : job'[q].pc = "blind" => job'[q].old = {} /\ MaxFaults > 0
    BY <1>3 DEF OneWriter, JobType, Idle
  <2> QED
    BY <2>1, <2>2, <2>3 DEF OneWriter
<1>4. ASSUME NEW p \in Proc, Derive(p) PROVE OneWriter'
  <2>1. job[p] \in Busy /\ job[p] # Idle /\ disk' = disk
    BY <1>4, PcIsBusy DEF Derive
  <2> DEFINE k == [job[p] EXCEPT !.pc = "load", !.ms = Elapsed(job[p].call, job[p].ts)]
  <2>2. job' = [job EXCEPT ![p] = k] /\ k.call = job[p].call /\ k.ts = job[p].ts /\ k.pc = "load"
    BY <1>4, <2>1 DEF Derive, JobType, Busy
  <2>3. k \in Busy
    BY <1>4, <2>1, <2>2, ElapsedIsTyped DEF Busy
  <2> HIDE DEF k
  <2> QED
    BY <1>2, <2>1, <2>2, <2>3
<1>5. ASSUME NEW p \in Proc, LoadFile(p) PROVE OneWriter'
  <2>1. job[p] \in Busy /\ job[p] # Idle /\ disk' = disk /\ disk[Target(job[p])] \subseteq Edge
    BY <1>5, PcIsBusy, EdgeIsTyped DEF LoadFile, DiskType
  <2> DEFINE k == [job[p] EXCEPT !.pc = "truncate", !.old = disk[Target(job[p])]]
  <2>2. /\ job' = [job EXCEPT ![p] = k] /\ k.call = job[p].call /\ k.ts = job[p].ts
        /\ k.pc = "truncate" /\ k.old = disk[Target(job[p])] /\ k \in Busy
    BY <1>5, <2>1 DEF LoadFile, JobType, Busy
  <2> HIDE DEF k
  <2> QED
    BY <1>2, <2>1, <2>2
<1>6. ASSUME NEW p \in Proc, Truncate(p) PROVE OneWriter'
  <2>1. /\ job[p] \in Busy /\ job[p] # Idle /\ Target(job[p]) \in File
        /\ disk' = [disk EXCEPT ![Target(job[p])] = {}]
    BY <1>6, PcIsBusy, EdgeIsTyped DEF Truncate
  <2> DEFINE k == [job[p] EXCEPT !.pc = "flush"]
  <2>2. /\ job' = [job EXCEPT ![p] = k] /\ k.call = job[p].call /\ k.ts = job[p].ts
        /\ k.pc = "flush" /\ k \in Busy
    BY <1>6, <2>1 DEF Truncate, JobType, Busy
  <2>3. disk'[Target(job[p])] = {} /\ \A f \in File : f # Target(job[p]) => disk'[f] = disk[f]
    BY <2>1 DEF DiskType
  <2> HIDE DEF k
  <2> QED
    BY <1>2, <2>1, <2>2, <2>3
<1>7. ASSUME NEW p \in Proc, Flush(p) \/ Abort(p) PROVE OneWriter'
  <2>1. job[p] \in Busy /\ job[p] # Idle /\ job' = [job EXCEPT ![p] = Idle]
    BY <1>7, PcIsBusy, AtWorkIsBusy DEF Flush, Abort
  <2>2. \A f \in File : f # Target(job[p]) => disk'[f] = disk[f]
    BY <1>7 DEF Flush, Abort, Empty, DiskType
  <2> QED
    BY <1>3, <2>1, <2>2
<1>8. ASSUME NEW p \in Proc, DeriveBlind(p) \/ LoadFails(p) \/ Overwrite(p) PROVE OneWriter'
  <2>1. job[p] \in Busy /\ job[p] # Idle /\ Target(job[p]) \in File
    BY <1>8, PcIsBusy, EdgeIsTyped DEF DeriveBlind, LoadFails, Overwrite
  <2>2. PICK k : /\ job' = [job EXCEPT ![p] = k] /\ k \in Busy
                 /\ k.call = job[p].call /\ k.ts = job[p].ts
                 /\ k.pc \in {"load", "blind", "flush"} /\ (k.pc = "blind" => k.old = {} /\ MaxFaults > 0)
                 /\ \A f \in File : f # Target(job[p]) => disk'[f] = disk[f]
                 /\ k.pc = "flush" => disk'[Target(job[p])] = {}
    BY <1>8, <2>1, BlindStep
  <2> QED
    BY <1>2, <2>1, <2>2
<1>9. CASE UNCHANGED <<disk, job>>
  BY <1>9 DEF OneWriter
<1> QED
  BY <1>1, <1>4, <1>5, <1>6, <1>7, <1>8, <1>9 DEF Next, Tick, vars

-------------------------------------------------------------------------------
\* Log, as a function of the jobs and the disk.
RewritingIn(J, f) == {p \in Proc : J[p].pc = "flush" /\ Target(J[p]) = f}
LogIn(J, D, f) == IF RewritingIn(J, f) # {} THEN J[CHOOSE p \in RewritingIn(J, f) : TRUE].old
                  ELSE D[f]

\* The log of a file that is being written is what its writer loaded.
LEMMA LogOfRewritten ==
  ASSUME NEW J, NEW D, NEW f, NEW p \in Proc, J[p].pc = "flush", Target(J[p]) = f,
         \A q \in Proc : J[q].pc = "flush" /\ Target(J[q]) = f => q = p
  PROVE  LogIn(J, D, f) = J[p].old
<1>1. RewritingIn(J, f) = {p}
  BY DEF RewritingIn
<1> QED
  BY <1>1 DEF LogIn

LEMMA LogOfQuiet ==
  ASSUME NEW J, NEW D, NEW f, \A q \in Proc : ~(J[q].pc = "flush" /\ Target(J[q]) = f)
  PROVE  LogIn(J, D, f) = D[f]
BY DEF LogIn, RewritingIn

\* A file whose content and writers a step leaves alone keeps its log.
LEMMA LogKept ==
  ASSUME NEW J, NEW D, NEW K, NEW E, NEW f, E[f] = D[f],
         \A q \in Proc : (K[q].pc = "flush" /\ Target(K[q]) = f)
                          <=> (J[q].pc = "flush" /\ Target(J[q]) = f),
         \A q \in Proc : J[q].pc = "flush" /\ Target(J[q]) = f => K[q].old = J[q].old
  PROVE  LogIn(K, E, f) = LogIn(J, D, f)
<1>1. RewritingIn(K, f) = RewritingIn(J, f)
  BY DEF RewritingIn
<1>2. CASE RewritingIn(J, f) = {}
  BY <1>1, <1>2 DEF LogIn
<1>3. CASE RewritingIn(J, f) # {}
  <2> DEFINE q == CHOOSE p \in RewritingIn(J, f) : TRUE
  <2>1. q \in RewritingIn(J, f)
    BY <1>3
  <2>2. K[q].old = J[q].old
    BY <2>1 DEF RewritingIn
  <2>3. LogIn(K, E, f) = K[q].old /\ LogIn(J, D, f) = J[q].old
    BY <1>1, <1>3 DEF LogIn
  <2> QED
    BY <2>2, <2>3
<1> QED
  BY <1>2, <1>3

Logs == [f \in File |-> Log(f)]

\* A step changes the logs only when a writer's buffer reaches its file, which then
\* holds its edge in the place of the one with that key, when a writer dies over an
\* emptied file, or when one empties a file it could not read.
LEMMA LogStep ==
  ASSUME DiskType, JobType, CountType, OneWriter, [Next]_vars
  PROVE  \/ Logs' = Logs /\ done' = done
         \/ \E p \in Proc :
              /\ Flush(p)
              /\ Logs' = [Logs EXCEPT ![Target(job[p])] = Merge(Logs[Target(job[p])], NewEdge(job[p]))]
         \/ \E p \in Proc :
              /\ (Abort(p) /\ job[p].pc = "flush") \/ Overwrite(p)
              /\ Logs' = [Logs EXCEPT ![Target(job[p])] = {}]
<1> DEFINE log == [f \in File |-> LogIn(job, disk, f)]
           log1 == [f \in File |-> LogIn(job', disk', f)]
<1>0. log = Logs /\ log1 = Logs'
  BY DEF Logs, Log, LogIn, Rewriting, RewritingIn
<1>1. ASSUME NEW p \in Proc, disk' = disk, job' = [job EXCEPT ![p] = job'[p]],
             job[p].pc # "flush", job'[p].pc # "flush"
      PROVE  log1 = log
  <2>1. ASSUME NEW f \in File PROVE LogIn(job', disk', f) = LogIn(job, disk, f)
    BY <1>1, LogKept DEF JobType
  <2> QED
    BY <2>1
<1>2. ASSUME NEW p \in Proc, Truncate(p) PROVE log1 = log
  <2> DEFINE g == Target(job[p])
  <2>1. /\ job[p] \in Busy /\ job[p] # Idle /\ g \in File /\ disk' = [disk EXCEPT ![g] = {}]
        /\ job' = [job EXCEPT ![p] = [job[p] EXCEPT !.pc = "flush"]] /\ job[p].pc = "truncate"
    BY <1>2, PcIsBusy, EdgeIsTyped DEF Truncate, JobType
  <2>2. /\ job'[p].pc = "flush" /\ job'[p].old = job[p].old /\ Target(job'[p]) = g
        /\ \A q \in Proc : q # p => job'[q] = job[q]
    BY <2>1, TargetKept DEF JobType, Busy
  <2>3. \A q \in Proc : job[q].pc = "flush" => Target(job[q]) # g
    BY <2>1, PcIsBusy DEF OneWriter
  <2>4. LogIn(job, disk, g) = job[p].old
    BY <2>1, <2>3, LogOfQuiet DEF OneWriter
  <2>5. LogIn(job', disk', g) = job[p].old
    BY <2>2, <2>3, LogOfRewritten
  <2>6. ASSUME NEW f \in File, f # g PROVE LogIn(job', disk', f) = LogIn(job, disk, f)
    <3>1. disk'[f] = disk[f]
      BY <2>1, <2>6 DEF DiskType
    <3>2. \A q \in Proc : (job'[q].pc = "flush" /\ Target(job'[q]) = f)
                           <=> (job[q].pc = "flush" /\ Target(job[q]) = f)
      BY <2>1, <2>2, <2>6
    <3>3. \A q \in Proc : job[q].pc = "flush" /\ Target(job[q]) = f => job'[q].old = job[q].old
      BY <2>1, <2>2
    <3> HIDE DEF g
    <3> QED
      BY <2>6, <3>1, <3>2, <3>3, LogKept
  <2> QED
    BY <2>4, <2>5, <2>6
<1>3. ASSUME NEW p \in Proc, job[p].pc = "flush", job' = [job EXCEPT ![p] = Idle],
             NEW content, disk' = [disk EXCEPT ![Target(job[p])] = content]
      PROVE  log1 = [log EXCEPT ![Target(job[p])] = content]
  <2> DEFINE g == Target(job[p])
  <2>1. job[p] \in Busy /\ job[p] # Idle /\ g \in File
    BY <1>3, PcIsBusy, EdgeIsTyped
  <2>2. \A q \in Proc : job[q].pc = "flush" /\ Target(job[q]) = g => q = p
    BY <2>1, PcIsBusy DEF OneWriter
  <2>3. job'[p].pc # "flush" /\ \A q \in Proc : q # p => job'[q] = job[q]
    BY <1>3 DEF JobType, Idle
  <2>4. disk'[g] = content /\ \A f \in File : f # g => disk'[f] = disk[f]
    BY <1>3, <2>1 DEF DiskType
  <2>5. LogIn(job', disk', g) = content
    <3>1. \A q \in Proc : ~(job'[q].pc = "flush" /\ Target(job'[q]) = g)
      BY <2>2, <2>3
    <3> HIDE DEF g
    <3> QED
      BY <2>4, <3>1, LogOfQuiet
  <2>6. ASSUME NEW f \in File, f # g PROVE LogIn(job', disk', f) = LogIn(job, disk, f)
    <3>1. \A q \in Proc : (job'[q].pc = "flush" /\ Target(job'[q]) = f)
                           <=> (job[q].pc = "flush" /\ Target(job[q]) = f)
      BY <2>3, <2>6
    <3>2. \A q \in Proc : job[q].pc = "flush" /\ Target(job[q]) = f => job'[q].old = job[q].old
      BY <2>3, <2>6
    <3> HIDE DEF g
    <3> QED
      BY <2>4, <2>6, <3>1, <3>2, LogKept
  <2> QED
    BY <2>1, <2>5, <2>6
<1>4. ASSUME NEW p \in Proc, Flush(p)
      PROVE  log1 = [log EXCEPT ![Target(job[p])] = Merge(log[Target(job[p])], NewEdge(job[p]))]
  <2> DEFINE g == Target(job[p])
             e == NewEdge(job[p])
             text == Merge(job[p].old, e)
  <2>1. /\ job[p].pc = "flush" /\ job' = [job EXCEPT ![p] = Idle]
        /\ job[p] \in Busy /\ job[p] # Idle /\ g \in File
    BY <1>4, PcIsBusy, EdgeIsTyped DEF Flush
  <2>2. disk[g] = {}
    BY <2>1 DEF OneWriter
  <2>3. e \in text
    BY DEF Merge
  <2>4. PICK content \in WriteOver(disk[g], text) : disk' = [disk EXCEPT ![g] = content]
    BY <1>4 DEF Flush
  <2>5. content = text
    BY <2>2, <2>3, <2>4 DEF WriteOver
  <2>6. log1 = [log EXCEPT ![g] = text]
    BY <1>3, <2>1, <2>4, <2>5
  <2>7. log[g] = job[p].old
    <3>1. \A q \in Proc : job[q].pc = "flush" /\ Target(job[q]) = g => q = p
      BY <2>1, PcIsBusy DEF OneWriter
    <3> QED
      BY <2>1, <3>1, LogOfRewritten
  <2> HIDE DEF log, log1, g, e
  <2>8. log1 = [log EXCEPT ![g] = Merge(log[g], e)]
    BY <2>6, <2>7
  <2> QED
    BY <2>8 DEF g, e
<1>5. ASSUME NEW p \in Proc, Abort(p), job[p].pc = "flush"
      PROVE  log1 = [log EXCEPT ![Target(job[p])] = {}]
  <2>1. job' = [job EXCEPT ![p] = Idle] /\ disk' = [disk EXCEPT ![Target(job[p])] = {}]
    BY <1>5 DEF Abort, Empty
  <2> QED
    BY <1>3, <1>5, <2>1
<1>6. ASSUME NEW p \in Proc, Abort(p), job[p].pc # "flush" PROVE log1 = log
  <2>1. job' = [job EXCEPT ![p] = Idle] /\ disk' = disk /\ job'[p] = Idle /\ Idle.pc # "flush"
    BY <1>6 DEF Abort, JobType, Idle
  <2> QED
    BY <1>1, <1>6, <2>1
<1>7. ASSUME NEW p \in Proc, NEW c \in Calls, Invoke(p, c) PROVE log1 = log
  <2> DEFINE j == [pc |-> IF c.cmd \in EndCmd THEN "derive" ELSE "load",
                   call |-> c, ts |-> clock, ms |-> None, old |-> {}]
  <2>1. disk' = disk /\ job[p] = Idle /\ job' = [job EXCEPT ![p] = j]
    BY <1>7 DEF Invoke
  <2>2. job[p].pc # "flush" /\ j.pc # "flush"
    BY <2>1 DEF Idle
  <2> HIDE DEF j
  <2>3. job'[p] = j
    BY <2>1 DEF JobType
  <2> QED
    BY <1>1, <2>1, <2>2, <2>3
<1>8. ASSUME NEW p \in Proc, Derive(p) PROVE log1 = log
  <2>1. disk' = disk /\ job[p].pc # "flush" /\ job[p] \in Busy
    BY <1>8, PcIsBusy DEF Derive
  <2> DEFINE k == [job[p] EXCEPT !.pc = "load", !.ms = Elapsed(job[p].call, job[p].ts)]
  <2>2. job' = [job EXCEPT ![p] = k] /\ k.pc = "load"
    BY <1>8, <2>1 DEF Derive, JobType, Busy
  <2> HIDE DEF k
  <2>3. job'[p] = k
    BY <2>2 DEF JobType
  <2> QED
    BY <1>1, <2>1, <2>2, <2>3
<1>9. ASSUME NEW p \in Proc, LoadFile(p) PROVE log1 = log
  <2>1. disk' = disk /\ job[p].pc # "flush" /\ job[p] \in Busy
    BY <1>9, PcIsBusy DEF LoadFile
  <2> DEFINE k == [job[p] EXCEPT !.pc = "truncate", !.old = disk[Target(job[p])]]
  <2>2. job' = [job EXCEPT ![p] = k] /\ k.pc = "truncate"
    BY <1>9, <2>1 DEF LoadFile, JobType, Busy
  <2> HIDE DEF k
  <2>3. job'[p] = k
    BY <2>2 DEF JobType
  <2> QED
    BY <1>1, <2>1, <2>2, <2>3
<1>10. ASSUME UNCHANGED <<disk, job>> PROVE log1 = log
  BY <1>10
<1>14. ASSUME NEW p \in Proc, Overwrite(p) PROVE log1 = [log EXCEPT ![Target(job[p])] = {}]
  <2> DEFINE g == Target(job[p])
  <2>1. /\ job[p] \in Busy /\ job[p] # Idle /\ g \in File /\ disk' = [disk EXCEPT ![g] = {}]
        /\ job' = [job EXCEPT ![p] = [job[p] EXCEPT !.pc = "flush"]] /\ job[p].pc = "blind"
    BY <1>14, PcIsBusy, EdgeIsTyped DEF Overwrite, Empty, JobType
  <2>2. /\ job'[p].pc = "flush" /\ job'[p].old = {} /\ Target(job'[p]) = g
        /\ \A q \in Proc : q # p => job'[q] = job[q]
    BY <2>1, TargetKept DEF JobType, Busy, OneWriter
  <2>3. \A q \in Proc : job[q].pc = "flush" => Target(job[q]) # g
    BY <2>1, PcIsBusy DEF OneWriter
  <2>4. LogIn(job', disk', g) = {}
    BY <2>2, <2>3, LogOfRewritten
  <2>5. ASSUME NEW f \in File, f # g PROVE LogIn(job', disk', f) = LogIn(job, disk, f)
    <3>1. disk'[f] = disk[f]
      BY <2>1, <2>5 DEF DiskType
    <3>2. \A q \in Proc : (job'[q].pc = "flush" /\ Target(job'[q]) = f)
                           <=> (job[q].pc = "flush" /\ Target(job[q]) = f)
      BY <2>1, <2>2, <2>5
    <3>3. \A q \in Proc : job[q].pc = "flush" /\ Target(job[q]) = f => job'[q].old = job[q].old
      BY <2>1, <2>2
    <3> HIDE DEF g
    <3> QED
      BY <2>5, <3>1, <3>2, <3>3, LogKept
  <2> QED
    BY <2>1, <2>4, <2>5
<1>15. ASSUME NEW p \in Proc, DeriveBlind(p) \/ LoadFails(p) PROVE log1 = log /\ done' = done
  <2>1. ~Overwrite(p) /\ job[p].pc # "flush"
    BY <1>15 DEF DeriveBlind, LoadFails, Overwrite
  <2>2. PICK k : /\ job' = [job EXCEPT ![p] = k] /\ k.pc # "flush"
                 /\ disk' = disk /\ done' = done
    BY <1>15, <2>1, BlindStep
  <2>3. job'[p] = k
    BY <2>2 DEF JobType
  <2> QED
    BY <1>1, <2>1, <2>2, <2>3
<1> HIDE DEF log, log1
<1>11. CASE UNCHANGED <<disk, job, done>>
  BY <1>0, <1>10, <1>11
<1>12. ASSUME NEW p \in Proc, Truncate(p) \/ Derive(p) \/ LoadFile(p) \/ \E c \in Calls : Invoke(p, c)
       PROVE  Logs' = Logs /\ done' = done
  <2>1. done' = done
    BY <1>12 DEF Truncate, Derive, LoadFile, Invoke
  <2> QED
    BY <1>0, <1>2, <1>7, <1>8, <1>9, <1>12, <2>1
<1>13. ASSUME NEW p \in Proc, Abort(p), job[p].pc # "flush" PROVE Logs' = Logs /\ done' = done
  BY <1>0, <1>6, <1>13 DEF Abort
<1> QED
  BY <1>0, <1>4, <1>5, <1>11, <1>12, <1>13, <1>14, <1>15 DEF Next, Tick, vars

\* Every step of the processes is a step of the edge memory, or one it cannot see.
LEMMA MemoryStep ==
  ASSUME DiskType, JobType, CountType, OneWriter, [Next]_vars
  PROVE  [Memory!EMNext]_[f \in File |-> Log(f)]
<1>0. Logs = [f \in File |-> Log(f)] /\ Logs' = [f \in File |-> Log(f)]'
  BY DEF Logs
<1>1. ASSUME NEW p \in Proc, Flush(p),
             Logs' = [Logs EXCEPT ![Target(job[p])] = Merge(Logs[Target(job[p])], NewEdge(job[p]))]
      PROVE  \E f \in File : Memory!Record(f)
  <2> DEFINE g == Target(job[p])
             e == NewEdge(job[p])
  <2>1. g \in File /\ e \in Edge
    BY <1>1, PcIsBusy, EdgeIsTyped DEF Flush
  <2>2. Logs'[g] = Merge(Logs[g], e) /\ e \in Merge(Logs[g], e)
    BY <1>1, <2>1 DEF Logs, Merge
  <2> HIDE DEF g, e
  <2>3. Logs' = [Logs EXCEPT ![g] = Memory!Merge(Logs[g], e)]
    BY <1>1 DEF g, e, Merge, Memory!Merge
  <2> QED
    BY <1>0, <2>1, <2>2, <2>3 DEF Memory!Record, Memory!Merge
<1>2. ASSUME NEW p \in Proc, (Abort(p) /\ job[p].pc = "flush") \/ Overwrite(p),
             Logs' = [Logs EXCEPT ![Target(job[p])] = {}]
      PROVE  \E f \in File : Memory!Lose(f)
  <2>1. Target(job[p]) \in File
    BY <1>2, PcIsBusy, EdgeIsTyped DEF Overwrite
  <2>2. MaxFaults > 0
    BY <1>2, BoundsAssumption DEF Abort, Overwrite, OneWriter, CountType
  <2> QED
    BY <1>0, <1>2, <2>1, <2>2 DEF Memory!Lose
<1> QED
  BY <1>0, <1>1, <1>2, LogStep DEF Memory!EMNext

\* With one writer per session file at a time, load, merge, truncate and write
\* implement the edge memory, whatever the processes, the calls and the crashes: a
\* command's edge replaces the one with its key and no other, a writer that dies
\* loses the file it was writing, one that cannot read its file the file it rewrites,
\* and no other.
THEOREM StoreImplementsMemory == ASSUME MaxWriters = 1 PROVE Spec => ImplementsMemory
<1>1. Init => OneWriter
  BY DEF Init, OneWriter, Idle
<1>2. Init => Memory!EMInit
  <2>1. ASSUME Init, NEW f \in File PROVE Log(f) = {}
    BY <2>1 DEF Init, Log, Rewriting, Idle
  <2> QED
    BY <2>1 DEF Memory!EMInit
<1>3. TypeOK /\ OneWriter /\ [Next]_vars => OneWriter'
  BY OneWriterStep, TypeParts
<1>4. TypeOK /\ OneWriter /\ [Next]_vars => [Memory!EMNext]_[f \in File |-> Log(f)]
  BY MemoryStep, TypeParts
<1> QED
  BY <1>1, <1>2, <1>3, <1>4, TypeCorrect, PTL DEF Spec, ImplementsMemory, Memory!EMSpec

-------------------------------------------------------------------------------
(* What the logs hold, with one writer per session file at a time *)

FileOf(d) == SessionFile(EventSession(d[1], d[2]))
EndTypes == {"dispatch_completed", "run_completed"}

\* An edge is in its session's file, and no other edge there has its key.
Placed == \A f \in File : \A e \in Logs[f] : SessionFile(e.session) = f
OneEdgePerKey == \A f \in File : \A e, x \in Logs[f] : Key(e) = Key(x) => e = x

\* A process writes no edge older than those of its file.
Aged == /\ \A f \in File : \A e \in Logs[f] : e.ts <= clock
        /\ \A p \in Proc : job[p] # Idle =>
             /\ job[p].ts <= clock
             /\ \A e \in Logs[Target(job[p])] : e.ts <= job[p].ts

\* An edge is that of a finished command; a finished command has an edge for its key.
FromDone == \A f \in File : \A e \in Logs[f] : \E d \in done :
              /\ KeyOfCall(d[1], d[2]) = Key(e)
              /\ d[2] = e.ts
              /\ d[1].outcome = e.outcome
HasEdge == \A d \in done : \E e \in Logs[FileOf(d)] :
             Key(e) = KeyOfCall(d[1], d[2]) /\ e.ts >= d[2]

LogInv == Placed /\ OneEdgePerKey /\ Aged /\ FromDone /\ HasEdge /\ IsFiniteSet(done)

Safe == DiskType /\ JobType /\ CountType /\ DoneType /\ OneWriter

LEMMA DoneIsTyped ==
  ASSUME DoneType, NEW d \in done
  PROVE  /\ d[1] \in Calls /\ d[1] \in Call /\ d[2] \in Second /\ FileOf(d) \in File
         /\ d = <<d[1], d[2]>>
<1>1. d[1] \in Calls /\ d[2] \in Second /\ d = <<d[1], d[2]>>
  BY DEF DoneType
<1>2. d[1] \in Call /\ d[1].session \in Session
  BY <1>1, CallsAssumption DEF Call
<1>3. FileOf(d) \in File
  BY <1>1, <1>2 DEF FileOf, SessionFile, EventSession, File
<1> QED
  BY <1>1, <1>2, <1>3

\* An edge has the key of the command that records it.
LEMMA NewEdgeKey ==
  ASSUME NEW j \in Busy
  PROVE  /\ Key(NewEdge(j)) = KeyOfCall(j.call, j.ts)
         /\ SessionFile(NewEdge(j).session) = Target(j)
         /\ FileOf(<<j.call, j.ts>>) = Target(j)
         /\ NewEdge(j).ts = j.ts /\ NewEdge(j).outcome = j.call.outcome
         /\ NewEdge(j).type = EdgeTypeOf[j.call.cmd] /\ NewEdge(j).tgt = j.call.unit
         /\ NewEdge(j).session = EventSession(j.call, j.ts) /\ NewEdge(j).ms = j.ms
  BY DEF NewEdge, Key, KeyOfCall, FileOf, Target

\* The log of a file is a set of edges; what is on disk of it is no more than that.
LEMMA LogType ==
  ASSUME DiskType, JobType, OneWriter, NEW f \in File
  PROVE  /\ Logs[f] \subseteq Edge
         /\ disk[f] \subseteq Logs[f]
         /\ (\A p \in Proc : job[p].pc # "flush" \/ Target(job[p]) # f) => Logs[f] = disk[f]
<1>1. Logs[f] = LogIn(job, disk, f)
  BY DEF Logs, Log, LogIn, Rewriting, RewritingIn
<1>2. CASE \A p \in Proc : job[p].pc # "flush" \/ Target(job[p]) # f
  <2>1. LogIn(job, disk, f) = disk[f]
    BY <1>2, LogOfQuiet
  <2> QED
    BY <1>1, <2>1 DEF DiskType
<1>3. CASE ~(\A p \in Proc : job[p].pc # "flush" \/ Target(job[p]) # f)
  <2>1. PICK p \in Proc : job[p].pc = "flush" /\ Target(job[p]) = f
    BY <1>3
  <2>2. \A q \in Proc : job[q].pc = "flush" /\ Target(job[q]) = f => q = p
    BY <2>1, PcIsBusy DEF OneWriter
  <2>3. LogIn(job, disk, f) = job[p].old /\ disk[f] = {} /\ job[p].old \subseteq Edge
    BY <2>1, <2>2, LogOfRewritten, PcIsBusy DEF OneWriter, Busy
  <2> QED
    BY <1>1, <1>3, <2>3
<1> QED
  BY <1>2, <1>3

LEMMA EdgeTimes ==
  ASSUME DiskType, JobType, OneWriter, NEW f \in File, NEW e \in Logs[f]
  PROVE  e.ts \in Second /\ e.ts \in Int /\ e.ms \in Int \cup {None}
  BY LogType, BoundsAssumption DEF Edge, Second

\* What a step does to a process, as far as its invocation goes.
LEMMA JobStep ==
  ASSUME DiskType, JobType, CountType, [Next]_vars, NEW p \in Proc, job'[p] # Idle
  PROVE  /\ clock' >= clock /\ clock \in Int /\ clock' \in Int
         /\ \/ /\ job[p] # Idle
               /\ job'[p].call = job[p].call /\ job'[p].ts = job[p].ts
            \/ /\ job[p] = Idle
               /\ clock' = clock /\ job'[p].ts = clock /\ job'[p] \in Busy
<1>1. clock' >= clock /\ clock \in Int /\ clock' \in Int
  <2>1. clock \in Int
    BY BoundsAssumption DEF CountType, Second
  <2>2. clock' = clock \/ clock' = clock + 1
    BY DEF Next, vars, Tick, Invoke, Derive, DeriveBlind, LoadFile, LoadFails, Unreadable, Truncate,
         Overwrite, Flush, Abort, Empty
  <2> QED
    BY <2>1, <2>2
<1>2. ASSUME NEW q \in Proc, NEW k, job' = [job EXCEPT ![q] = k],
             k = Idle \/ (job[q] # Idle /\ k.call = job[q].call /\ k.ts = job[q].ts)
      PROVE  job[p] # Idle /\ job'[p].call = job[p].call /\ job'[p].ts = job[p].ts
  BY <1>2 DEF JobType
<1>3. ASSUME NEW q \in Proc, NEW c \in Calls, Invoke(q, c)
      PROVE  \/ /\ job[p] # Idle
                /\ job'[p].call = job[p].call /\ job'[p].ts = job[p].ts
             \/ /\ job[p] = Idle
                /\ clock' = clock /\ job'[p].ts = clock /\ job'[p] \in Busy
  <2> DEFINE j == [pc |-> IF c.cmd \in EndCmd THEN "derive" ELSE "load",
                   call |-> c, ts |-> clock, ms |-> None, old |-> {}]
  <2>1. job' = [job EXCEPT ![q] = j] /\ job[q] = Idle /\ clock' = clock /\ j.ts = clock
    BY <1>3 DEF Invoke
  <2>2. j \in Busy
    BY DEF Busy, CountType
  <2> HIDE DEF j
  <2> QED
    BY <2>1, <2>2 DEF JobType
<1>4. ASSUME NEW q \in Proc, Derive(q)
      PROVE  job[p] # Idle /\ job'[p].call = job[p].call /\ job'[p].ts = job[p].ts
  <2> DEFINE k == [job[q] EXCEPT !.pc = "load", !.ms = Elapsed(job[q].call, job[q].ts)]
  <2>1. job[q] \in Busy /\ job[q] # Idle
    BY <1>4, PcIsBusy DEF Derive
  <2>2. job' = [job EXCEPT ![q] = k] /\ k.call = job[q].call /\ k.ts = job[q].ts
    BY <1>4, <2>1 DEF Derive, JobType, Busy
  <2> HIDE DEF k
  <2> QED
    BY <1>2, <2>1, <2>2
<1>5. ASSUME NEW q \in Proc, LoadFile(q)
      PROVE  job[p] # Idle /\ job'[p].call = job[p].call /\ job'[p].ts = job[p].ts
  <2> DEFINE k == [job[q] EXCEPT !.pc = "truncate", !.old = disk[Target(job[q])]]
  <2>1. job[q] \in Busy /\ job[q] # Idle
    BY <1>5, PcIsBusy DEF LoadFile
  <2>2. job' = [job EXCEPT ![q] = k] /\ k.call = job[q].call /\ k.ts = job[q].ts
    BY <1>5, <2>1 DEF LoadFile, JobType, Busy
  <2> HIDE DEF k
  <2> QED
    BY <1>2, <2>1, <2>2
<1>6. ASSUME NEW q \in Proc, Truncate(q)
      PROVE  job[p] # Idle /\ job'[p].call = job[p].call /\ job'[p].ts = job[p].ts
  <2> DEFINE k == [job[q] EXCEPT !.pc = "flush"]
  <2>1. job[q] \in Busy /\ job[q] # Idle
    BY <1>6, PcIsBusy DEF Truncate
  <2>2. job' = [job EXCEPT ![q] = k] /\ k.call = job[q].call /\ k.ts = job[q].ts
    BY <1>6, <2>1 DEF Truncate, JobType, Busy
  <2> HIDE DEF k
  <2> QED
    BY <1>2, <2>1, <2>2
<1>7. ASSUME NEW q \in Proc, Flush(q) \/ Abort(q)
      PROVE  job[p] # Idle /\ job'[p].call = job[p].call /\ job'[p].ts = job[p].ts
  <2>1. job' = [job EXCEPT ![q] = Idle]
    BY <1>7 DEF Flush, Abort
  <2> QED
    BY <1>2, <2>1
<1>8. ASSUME UNCHANGED job
      PROVE  job[p] # Idle /\ job'[p].call = job[p].call /\ job'[p].ts = job[p].ts
  BY <1>8
<1>9. ASSUME NEW q \in Proc, DeriveBlind(q) \/ LoadFails(q) \/ Overwrite(q)
      PROVE  job[p] # Idle /\ job'[p].call = job[p].call /\ job'[p].ts = job[p].ts
  <2>1. job[q] # Idle
    BY <1>9, PcIsBusy DEF DeriveBlind, LoadFails, Overwrite
  <2>2. PICK k : job' = [job EXCEPT ![q] = k] /\ k.call = job[q].call /\ k.ts = job[q].ts
    BY <1>9, BlindStep
  <2> QED
    BY <1>2, <2>1, <2>2
<1> QED
  BY <1>1, <1>3, <1>4, <1>5, <1>6, <1>7, <1>8, <1>9 DEF Next, Tick, vars

LEMMA ClockStep ==
  ASSUME CountType, [Next]_vars
  PROVE  clock' >= clock /\ clock \in Int /\ clock' \in Int
<1>1. clock \in Int
  BY BoundsAssumption DEF CountType, Second
<1>2. clock' = clock \/ clock' = clock + 1
  BY DEF Next, vars, Tick, Invoke, Derive, DeriveBlind, LoadFile, LoadFails, Unreadable, Truncate,
         Overwrite, Flush, Abort, Empty
<1> QED
  BY <1>1, <1>2

\* LogStep, file by file: nothing recorded, one edge recorded, or one file lost.
LEMMA Effects ==
  ASSUME Safe, [Next]_vars
  PROVE  \/ Logs' = Logs /\ done' = done
         \/ \E p \in Proc :
              /\ job[p] \in Busy /\ job[p] # Idle /\ job[p].pc = "flush" /\ job'[p] = Idle
              /\ Target(job[p]) \in File
              /\ Logs'[Target(job[p])] = Merge(Logs[Target(job[p])], NewEdge(job[p]))
              /\ \A f \in File : f # Target(job[p]) => Logs'[f] = Logs[f]
              /\ done' = done \cup {<<job[p].call, job[p].ts>>}
         \/ \E g \in File :
              /\ Logs'[g] = {}
              /\ \A f \in File : f # g => Logs'[f] = Logs[f]
              /\ done' = {d \in done : FileOf(d) # g}
              /\ \E p \in Proc : /\ job[p] # Idle /\ Target(job[p]) = g
                                 /\ job'[p] = Idle \/ job[p].pc = "blind"
<1>1. ASSUME NEW p \in Proc, Flush(p),
             Logs' = [Logs EXCEPT ![Target(job[p])] = Merge(Logs[Target(job[p])], NewEdge(job[p]))]
      PROVE  /\ job[p] \in Busy /\ job[p] # Idle /\ job[p].pc = "flush" /\ job'[p] = Idle
             /\ Target(job[p]) \in File
             /\ Logs'[Target(job[p])] = Merge(Logs[Target(job[p])], NewEdge(job[p]))
             /\ \A f \in File : f # Target(job[p]) => Logs'[f] = Logs[f]
             /\ done' = done \cup {<<job[p].call, job[p].ts>>}
  <2>1. /\ job[p] \in Busy /\ job[p] # Idle /\ job[p].pc = "flush" /\ Target(job[p]) \in File
        /\ job'[p] = Idle /\ done' = done \cup {<<job[p].call, job[p].ts>>}
    BY <1>1, PcIsBusy, EdgeIsTyped DEF Flush, Safe, JobType
  <2> QED
    BY <1>1, <2>1 DEF Logs
<1>2. ASSUME NEW p \in Proc, (Abort(p) /\ job[p].pc = "flush") \/ Overwrite(p),
             Logs' = [Logs EXCEPT ![Target(job[p])] = {}]
      PROVE  \E g \in File :
               /\ Logs'[g] = {}
               /\ \A f \in File : f # g => Logs'[f] = Logs[f]
               /\ done' = {d \in done : FileOf(d) # g}
               /\ \E q \in Proc : /\ job[q] # Idle /\ Target(job[q]) = g
                                  /\ job'[q] = Idle \/ job[q].pc = "blind"
  <2> DEFINE g == Target(job[p])
  <2>1. g \in File
    BY <1>2, PcIsBusy, EdgeIsTyped DEF Safe, Overwrite
  <2>2. Logs'[g] = {} /\ \A f \in File : f # g => Logs'[f] = Logs[f]
    BY <1>2, <2>1 DEF Logs
  <2>3. done' = {d \in done : FileOf(d) # g}
    BY <1>2 DEF Abort, Overwrite, Empty, FileOf
  <2>4. \E q \in Proc : /\ job[q] # Idle /\ Target(job[q]) = g
                        /\ job'[q] = Idle \/ job[q].pc = "blind"
    BY <1>2, PcIsBusy DEF Abort, Overwrite, Safe, JobType
  <2> HIDE DEF g
  <2> QED
    BY <2>1, <2>2, <2>3, <2>4
<1> QED
  BY <1>1, <1>2, LogStep DEF Safe

\* The edges of a merge.
LEMMA Merged ==
  ASSUME NEW old, NEW e, NEW x
  PROVE  x \in Merge(old, e) <=> x = e \/ (x \in old /\ Key(x) # Key(e))
BY DEF Merge

\* Edges and commands with one key are of one session, unit and type, and of one file.
LEMMA SameKey ==
  /\ \A e, x : Key(e) = Key(x) <=> e.session = x.session /\ e.tgt = x.tgt /\ e.type = x.type
  /\ \A d, e : KeyOfCall(d[1], d[2]) = Key(e)
               => /\ EventSession(d[1], d[2]) = e.session /\ d[1].unit = e.tgt
                  /\ EdgeTypeOf[d[1].cmd] = e.type
                  /\ FileOf(d) = SessionFile(e.session)
BY DEF Key, KeyOfCall, FileOf

LEMMA PlacedStep ==
  ASSUME Safe, LogInv, [Next]_vars
  PROVE  Placed' /\ OneEdgePerKey'
<1>1. CASE Logs' = Logs /\ done' = done
  BY <1>1 DEF LogInv, Placed, OneEdgePerKey
<1>2. ASSUME NEW p \in Proc, job[p] \in Busy, Target(job[p]) \in File,
             Logs'[Target(job[p])] = Merge(Logs[Target(job[p])], NewEdge(job[p])),
             \A f \in File : f # Target(job[p]) => Logs'[f] = Logs[f]
      PROVE  Placed' /\ OneEdgePerKey'
  <2> DEFINE g == Target(job[p])
             n == NewEdge(job[p])
  <2>1. SessionFile(n.session) = g
    BY <1>2, NewEdgeKey
  <2>2. \A x : x \in Logs'[g] <=> x = n \/ (x \in Logs[g] /\ Key(x) # Key(n))
    BY <1>2, Merged
  <2>3. \A f \in File : f # g => Logs'[f] = Logs[f]
    BY <1>2
  <2> HIDE DEF g, n
  <2>4. Placed'
    BY <2>1, <2>2, <2>3 DEF LogInv, Placed
  <2>5. OneEdgePerKey'
    BY <2>2, <2>3 DEF LogInv, OneEdgePerKey
  <2> QED
    BY <2>4, <2>5
<1>3. ASSUME NEW g \in File, Logs'[g] = {}, \A f \in File : f # g => Logs'[f] = Logs[f]
      PROVE  Placed' /\ OneEdgePerKey'
  BY <1>3 DEF LogInv, Placed, OneEdgePerKey
<1> QED
  BY <1>1, <1>2, <1>3, Effects

LEMMA AgedStep ==
  ASSUME Safe, LogInv, [Next]_vars
  PROVE  Aged'
<1>0. \A f \in File : \A e \in Logs[f] : e.ts \in Int
  BY EdgeTimes DEF Safe
<1>1. clock' >= clock /\ clock \in Int /\ clock' \in Int
  BY ClockStep DEF Safe
<1>2. ASSUME NEW f \in File, NEW e \in Logs'[f] PROVE e.ts <= clock' /\ e.ts \in Int
  <2>1. CASE e \in Logs[f]
    <3>1. e.ts <= clock
      BY <2>1 DEF LogInv, Aged
    <3> QED
      BY <1>0, <1>1, <2>1, <3>1
  <2>2. ASSUME NEW p \in Proc, job[p] \in Busy, job[p] # Idle, e = NewEdge(job[p])
        PROVE  e.ts <= clock' /\ e.ts \in Int
    <3>1. e.ts = job[p].ts
      BY <2>2, NewEdgeKey
    <3>2. job[p].ts <= clock /\ job[p].ts \in Int
      BY <2>2, BoundsAssumption DEF LogInv, Aged, Busy, Second
    <3> QED
      BY <1>1, <3>1, <3>2
  <2> QED
    BY <2>1, <2>2, Effects, Merged
<1>3. ASSUME NEW p \in Proc, job'[p] # Idle
      PROVE  job'[p].ts <= clock' /\ \A e \in Logs'[Target(job'[p])] : e.ts <= job'[p].ts
  <2>1. CASE job[p] # Idle /\ job'[p].call = job[p].call /\ job'[p].ts = job[p].ts
    <3>1. Target(job'[p]) = Target(job[p]) /\ job[p] \in Busy /\ Target(job[p]) \in File
      BY <2>1, TargetKept, AtWorkIsBusy, EdgeIsTyped DEF Safe
    <3>2. job[p].ts <= clock /\ job[p].ts \in Int
      BY <2>1, <3>1, BoundsAssumption DEF LogInv, Aged, Busy, Second
    <3>3. job'[p].ts <= clock'
      BY <1>1, <2>1, <3>2
    <3>4. Logs'[Target(job[p])] \subseteq Logs[Target(job[p])]
      BY <1>3, <2>1, <3>1, Effects DEF Safe, OneWriter
    <3>5. \A e \in Logs[Target(job[p])] : e.ts <= job[p].ts
      BY <2>1 DEF LogInv, Aged
    <3> QED
      BY <2>1, <3>1, <3>3, <3>4, <3>5
  <2>2. CASE job[p] = Idle /\ clock' = clock /\ job'[p].ts = clock /\ job'[p] \in Busy
    <3>1. Target(job'[p]) \in File
      BY <2>2, EdgeIsTyped
    <3> QED
      BY <1>1, <1>2, <2>2, <3>1
  <2> QED
    BY <1>3, <2>1, <2>2, JobStep DEF Safe
<1> QED
  BY <1>2, <1>3 DEF Aged

LEMMA FromDoneStep ==
  ASSUME Safe, LogInv, [Next]_vars
  PROVE  FromDone'
<1> DEFINE From(d, e) == KeyOfCall(d[1], d[2]) = Key(e) /\ d[2] = e.ts /\ d[1].outcome = e.outcome
<1>1. SUFFICES ASSUME NEW f \in File, NEW e \in Logs'[f] PROVE \E d \in done' : From(d, e)
  BY DEF FromDone
<1>2. ASSUME e \in Logs[f] PROVE \E d \in done : From(d, e) /\ FileOf(d) = f
  <2>1. PICK d \in done : From(d, e)
    BY <1>2 DEF LogInv, FromDone
  <2>2. FileOf(d) = SessionFile(e.session)
    BY <2>1, SameKey
  <2> QED
    BY <1>2, <2>1, <2>2 DEF LogInv, Placed
<1>3. ASSUME NEW p \in Proc, job[p] \in Busy, e = NewEdge(job[p]), <<job[p].call, job[p].ts>> \in done'
      PROVE  \E d \in done' : From(d, e)
  <2> DEFINE d == <<job[p].call, job[p].ts>>
  <2>1. From(d, e)
    BY <1>3, NewEdgeKey
  <2> QED
    BY <1>3, <2>1
<1> HIDE DEF From
<1>4. CASE Logs' = Logs /\ done' = done
  BY <1>1, <1>2, <1>4
<1>5. ASSUME NEW p \in Proc, job[p] \in Busy,
             Logs'[Target(job[p])] = Merge(Logs[Target(job[p])], NewEdge(job[p])),
             \A h \in File : h # Target(job[p]) => Logs'[h] = Logs[h],
             done' = done \cup {<<job[p].call, job[p].ts>>}
      PROVE  \E d \in done' : From(d, e)
  <2>1. e \in Logs[f] \/ e = NewEdge(job[p])
    BY <1>1, <1>5, Merged
  <2> QED
    BY <1>2, <1>3, <1>5, <2>1
<1>6. ASSUME NEW g \in File, Logs'[g] = {}, \A h \in File : h # g => Logs'[h] = Logs[h],
             done' = {d \in done : FileOf(d) # g}
      PROVE  \E d \in done' : From(d, e)
  BY <1>1, <1>2, <1>6
<1> QED
  BY <1>4, <1>5, <1>6, Effects

LEMMA HasEdgeStep ==
  ASSUME Safe, LogInv, [Next]_vars
  PROVE  HasEdge'
<1> DEFINE Holds(d, e) == Key(e) = KeyOfCall(d[1], d[2]) /\ e.ts >= d[2]
<1>0. \A d \in done : \E e \in Logs[FileOf(d)] : Holds(d, e)
  BY DEF LogInv, HasEdge
<1>1. ASSUME NEW p \in Proc, job[p] \in Busy, job[p] # Idle, Target(job[p]) \in File,
             Logs'[Target(job[p])] = Merge(Logs[Target(job[p])], NewEdge(job[p])),
             \A f \in File : f # Target(job[p]) => Logs'[f] = Logs[f],
             done' = done \cup {<<job[p].call, job[p].ts>>}
      PROVE  \A d \in done' : \E e \in Logs'[FileOf(d)] : Holds(d, e)
  <2> DEFINE g == Target(job[p])
             n == NewEdge(job[p])
             new == <<job[p].call, job[p].ts>>
  <2>1. n \in Logs'[g]
    BY <1>1, Merged
  <2>2. n.ts = job[p].ts /\ n.ts \in Int /\ Key(n) = KeyOfCall(new[1], new[2]) /\ FileOf(new) = g
    BY <1>1, NewEdgeKey, BoundsAssumption DEF Busy, Second
  <2>3. Holds(new, n)
    BY <2>2
  <2>4. ASSUME NEW d \in done PROVE \E e \in Logs'[FileOf(d)] : Holds(d, e)
    <3>1. PICK e \in Logs[FileOf(d)] : Holds(d, e)
      BY <1>0
    <3>2. FileOf(d) \in File /\ d[2] \in Int
      BY DoneIsTyped, BoundsAssumption DEF Safe, Second
    <3>3. CASE FileOf(d) # g \/ Key(e) # Key(n)
      BY <1>1, <3>1, <3>2, <3>3, Merged
    <3>4. CASE FileOf(d) = g /\ Key(e) = Key(n)
      <4>1. e.ts \in Int /\ e.ts <= job[p].ts
        BY <1>1, <3>1, <3>2, <3>4, EdgeTimes DEF Safe, LogInv, Aged
      <4>2. n.ts >= d[2]
        BY <2>2, <3>1, <3>2, <4>1
      <4>3. Holds(d, n)
        BY <3>1, <3>4, <4>2
      <4> QED
        BY <2>1, <3>4, <4>3
    <3> QED
      BY <3>3, <3>4
  <2> HIDE DEF Holds, n
  <2>5. \E e \in Logs'[FileOf(new)] : Holds(new, e)
    BY <2>1, <2>2, <2>3
  <2> QED
    BY <1>1, <2>4, <2>5
<1>2. ASSUME NEW g \in File, \A f \in File : f # g => Logs'[f] = Logs[f],
             done' = {d \in done : FileOf(d) # g}
      PROVE  \A d \in done' : \E e \in Logs'[FileOf(d)] : Holds(d, e)
  BY <1>0, <1>2, DoneIsTyped DEF Safe
<1> QED
  BY <1>0, <1>1, <1>2, Effects DEF HasEdge

LEMMA FiniteDoneStep ==
  ASSUME IsFiniteSet(done), [Next]_vars
  PROVE  IsFiniteSet(done')
<1>1. \/ done' \subseteq done
      \/ \E p \in Proc : done' = done \cup {<<job[p].call, job[p].ts>>}
  BY DEF Next, vars, Tick, Invoke, Derive, DeriveBlind, LoadFile, LoadFails, Unreadable, Truncate,
         Overwrite, Flush, Abort, Empty
<1> QED
  BY <1>1, FS_Subset, FS_AddElement

THEOREM LogInvariant == ASSUME MaxWriters = 1 PROVE Spec => [](Safe /\ LogInv)
<1>1. ASSUME Init PROVE OneWriter /\ LogInv
  <2>1. OneWriter
    BY <1>1 DEF Init, OneWriter, Idle
  <2>2. ASSUME NEW f \in File PROVE Logs[f] = {}
    BY <1>1 DEF Init, Logs, Log, Rewriting, Idle
  <2>3. \A p \in Proc : job[p] = Idle
    BY <1>1 DEF Init
  <2>4. done = {}
    BY <1>1 DEF Init
  <2> QED
    BY <2>1, <2>2, <2>3, <2>4, FS_EmptySet DEF LogInv, Placed, OneEdgePerKey, Aged, FromDone, HasEdge
<1>2. TypeOK /\ OneWriter /\ [Next]_vars => OneWriter'
  BY OneWriterStep, TypeParts
<1>3. TypeOK /\ OneWriter /\ LogInv /\ [Next]_vars => LogInv'
  BY TypeParts, PlacedStep, AgedStep, FromDoneStep, HasEdgeStep, FiniteDoneStep DEF Safe, LogInv
<1>4. TypeOK /\ OneWriter => Safe
  BY TypeParts DEF Safe
<1> QED
  BY <1>1, <1>2, <1>3, <1>4, TypeCorrect, PTL DEF Spec

-------------------------------------------------------------------------------
(* What a reader sees once no process is at work *)

\* The graph and the finished commands correspond, key by key.
LEMMA Remembered ==
  ASSUME Safe, LogInv, NoneAtWork
  PROVE  /\ ReadGraph \subseteq Edge
         /\ \A e, x \in ReadGraph : Key(e) = Key(x) => e = x
         /\ \A e \in ReadGraph : \E d \in done :
              KeyOfCall(d[1], d[2]) = Key(e) /\ d[2] = e.ts /\ d[1].outcome = e.outcome
         /\ \A d \in done : \E e \in ReadGraph : Key(e) = KeyOfCall(d[1], d[2]) /\ e.ts >= d[2]
<1>1. ASSUME NEW f \in File PROVE Logs[f] = disk[f] /\ Logs[f] \subseteq Edge
  BY LogType DEF Safe, NoneAtWork, Idle
<1>2. \A e : e \in ReadGraph <=> \E f \in File : e \in Logs[f]
  BY <1>1 DEF ReadGraph
<1>3. ReadGraph \subseteq Edge
  BY <1>1, <1>2
<1>4. ASSUME NEW e \in ReadGraph, NEW x \in ReadGraph, Key(e) = Key(x) PROVE e = x
  <2>1. PICK f \in File, g \in File : e \in Logs[f] /\ x \in Logs[g]
    BY <1>2
  <2>2. f = SessionFile(e.session) /\ g = SessionFile(x.session) /\ e.session = x.session
    BY <1>4, <2>1, SameKey DEF LogInv, Placed
  <2> QED
    BY <1>4, <2>1, <2>2 DEF LogInv, OneEdgePerKey
<1>5. \A e \in ReadGraph : \E d \in done :
        KeyOfCall(d[1], d[2]) = Key(e) /\ d[2] = e.ts /\ d[1].outcome = e.outcome
  BY <1>2 DEF LogInv, FromDone
<1>6. \A d \in done : \E e \in ReadGraph : Key(e) = KeyOfCall(d[1], d[2]) /\ e.ts >= d[2]
  BY <1>2, DoneIsTyped DEF LogInv, HasEdge, Safe
<1> QED
  BY <1>3, <1>4, <1>5, <1>6

\* An edge's type tells the command that recorded it, and its session.
LEMMA TypeTellsCommand ==
  ASSUME DoneType, NEW d \in done
  PROVE  /\ d[1].cmd = "dispatch-start" <=> EdgeTypeOf[d[1].cmd] = "dispatch_started"
         /\ d[1].cmd = "dispatch-end" <=> EdgeTypeOf[d[1].cmd] = "dispatch_completed"
         /\ d[1].cmd = "pr-opened" <=> EdgeTypeOf[d[1].cmd] = "pr_opened"
         /\ d[1].cmd = "run-end" <=> EdgeTypeOf[d[1].cmd] = "run_completed"
         /\ d[1].cmd = "rework" <=> EdgeTypeOf[d[1].cmd] = "rework"
         /\ d[1].cmd = "labeled" <=> EdgeTypeOf[d[1].cmd] = "labeled"
         /\ d[1].unit \in Unit /\ d[1].session \in Session
         /\ d[1].cmd = "dispatch-end" => d[1].outcome \in Outcome
         /\ d[1].cmd # "dispatch-end" => d[1].outcome = None
         /\ EventSession(d[1], d[2]) = <<d[1].session, IF d[1].cmd = "rework" THEN d[2] ELSE None>>
<1>1. d[1] \in Call
  BY DoneIsTyped
<1>2. /\ d[1].cmd \in Cmd /\ d[1].unit \in Unit /\ d[1].session \in Session
      /\ d[1].outcome \in Outcome \cup {None}
      /\ d[1].cmd = "dispatch-end" <=> d[1].outcome # None
  BY <1>1 DEF Call
<1> QED
  BY <1>2 DEF EdgeTypeOf, Cmd, EventSession

\* A map that pairs two finite sets off makes them of one size.
LEMMA PairedOff ==
  ASSUME NEW S, NEW T, IsFiniteSet(S), NEW F \in [S -> T],
         \A x, y \in S : F[x] = F[y] => x = y,
         \A z \in T : \E x \in S : F[x] = z
  PROVE  IsFiniteSet(T) /\ Cardinality(T) = Cardinality(S)
<1>1. F \in Bijection(S, T)
  BY DEF Bijection, Injection, Surjection, IsInjective
<1> QED
  BY <1>1, FS_Bijection DEF ExistsBijection

\* What write_edges merges into a file survives every later command that can read the
\* file and lives to write it: with one writer per session file, the graph of a store at
\* rest holds an edge for each such command, no older than it.
THEOREM EdgesOutlive == ASSUME MaxWriters = 1 PROVE Spec => []EdgesSurvive
<1>1. Safe /\ LogInv => EdgesSurvive
  BY Remembered DEF EdgesSurvive
<1> QED
  BY <1>1, LogInvariant, PTL

\* The rework edges for some units are as many as the rework commands for them.
LEMMA ReworkCounted ==
  ASSUME Safe, LogInv, NoneAtWork, NEW U
  PROVE  Cardinality({e \in ReadGraph : e.type = "rework" /\ e.tgt \in U})
           = Cardinality({d \in done : d[1].cmd = "rework" /\ d[1].unit \in U})
<1> DEFINE A == {e \in ReadGraph : e.type = "rework" /\ e.tgt \in U}
           B == {d \in done : d[1].cmd = "rework" /\ d[1].unit \in U}
           edge == [d \in B |-> CHOOSE e \in A : Key(e) = KeyOfCall(d[1], d[2])]
<1>1. ASSUME NEW d \in B PROVE \E e \in A : Key(e) = KeyOfCall(d[1], d[2])
  <2>1. PICK e \in ReadGraph : Key(e) = KeyOfCall(d[1], d[2])
    BY <1>1, Remembered
  <2>2. e.type = EdgeTypeOf[d[1].cmd] /\ e.tgt = d[1].unit
    BY <2>1, SameKey
  <2>3. e.type = "rework"
    BY <2>2, TypeTellsCommand DEF Safe
  <2> QED
    BY <2>1, <2>2, <2>3
<1>2. ASSUME NEW d \in B PROVE edge[d] \in A /\ Key(edge[d]) = KeyOfCall(d[1], d[2])
  BY <1>1
<1>3. ASSUME NEW d \in B, NEW c \in B, edge[d] = edge[c] PROVE d = c
  <2>1. KeyOfCall(d[1], d[2]) = KeyOfCall(c[1], c[2])
    BY <1>2, <1>3
  <2>2. EventSession(d[1], d[2]) = EventSession(c[1], c[2]) /\ d[1].unit = c[1].unit
    BY <2>1 DEF KeyOfCall
  <2>3. /\ EventSession(d[1], d[2]) = <<d[1].session, d[2]>> /\ d[1].outcome = None
        /\ EventSession(c[1], c[2]) = <<c[1].session, c[2]>> /\ c[1].outcome = None
    BY TypeTellsCommand DEF Safe
  <2>4. d[1].session = c[1].session /\ d[2] = c[2]
    <3>1. <<d[1].session, d[2]>> = <<c[1].session, c[2]>>
      BY <2>2, <2>3
    <3> HIDE DEF A, B, edge
    <3> QED
      BY <3>1
  <2>5. d[1] \in Call /\ c[1] \in Call /\ d = <<d[1], d[2]>> /\ c = <<c[1], c[2]>>
    BY DoneIsTyped DEF Safe
  <2>6. d[1] = c[1]
    BY <2>2, <2>3, <2>4, <2>5 DEF Call
  <2> QED
    BY <2>4, <2>5, <2>6
<1>4. ASSUME NEW e \in A PROVE \E d \in B : edge[d] = e
  <2>1. PICK d \in done : KeyOfCall(d[1], d[2]) = Key(e)
    BY <1>4, Remembered
  <2>2. d[1].unit = e.tgt /\ EdgeTypeOf[d[1].cmd] = "rework"
    BY <2>1, SameKey
  <2>3. d \in B
    BY <2>2, TypeTellsCommand DEF Safe
  <2>4. edge[d] = e
    BY <1>2, <2>1, <2>3, Remembered
  <2> QED
    BY <2>3, <2>4
<1>5. IsFiniteSet(B)
  BY FS_Subset DEF LogInv
<1>6. edge \in [B -> A]
  BY <1>2
<1> HIDE DEF A, B, edge
<1>7. Cardinality(A) = Cardinality(B)
  BY <1>3, <1>4, <1>5, <1>6, PairedOff
<1> QED
  BY <1>7 DEF A, B

\* No rework event replaces another: the graph of a store at rest holds as many for
\* a unit as rework commands were recorded for it.
THEOREM ReworkIsCounted == ASSUME MaxWriters = 1 PROVE Spec => []ReworkAccumulates
<1>1. ASSUME Safe, LogInv, NoneAtWork, NEW u \in Unit
      PROVE  Cardinality({e \in ReadGraph : e.type = "rework" /\ e.tgt = u})
               = Cardinality({d \in done : d[1].cmd = "rework" /\ d[1].unit = u})
  <2>1. Cardinality({e \in ReadGraph : e.type = "rework" /\ e.tgt \in {u}})
          = Cardinality({d \in done : d[1].cmd = "rework" /\ d[1].unit \in {u}})
    BY <1>1, ReworkCounted
  <2>2. /\ {e \in ReadGraph : e.type = "rework" /\ e.tgt \in {u}}
             = {e \in ReadGraph : e.type = "rework" /\ e.tgt = u}
        /\ {d \in done : d[1].cmd = "rework" /\ d[1].unit \in {u}}
             = {d \in done : d[1].cmd = "rework" /\ d[1].unit = u}
    OBVIOUS
  <2> QED
    BY <2>1, <2>2
<1>2. Safe /\ LogInv => ReworkAccumulates
  BY <1>1 DEF ReworkAccumulates
<1> QED
  BY <1>2, LogInvariant, PTL

-------------------------------------------------------------------------------
(* The latencies the end commands derive *)

StartsIn(D, e) == {d \in D : /\ d[1].cmd = "dispatch-start"
                             /\ d[1].session = e.session[1]
                             /\ d[1].unit = e.tgt
                             /\ d[2] <= e.ts}

\* What LatencyExact says of one edge, with S the starts recorded up to it.
ExactOf(S, e) ==
  IF e.ms = None THEN \A d \in S : d[2] = e.ts
  ELSE /\ e.ms >= 0
       /\ \E d \in S : d[2] = e.ts - e.ms
       /\ \A d \in S : d[2] \in {e.ts - e.ms, e.ts} \/ d[2] < e.ts - e.ms

\* Unless its command could not read the file, the latency of a recorded end is exact,
\* and so is one that a process is to record.
ExactInv ==
  /\ \A f \in File : \A e \in Logs[f] : e.type \in EndTypes /\ ~Unread(e) => ExactOf(StartsIn(done, e), e)
  /\ \A p \in Proc : job[p] # Idle /\ job[p].pc # "derive" /\ EdgeTypeOf[job[p].call.cmd] \in EndTypes
                     => \/ <<job[p].call, job[p].ts>> \in unread
                        \/ ExactOf(StartsIn(done, NewEdge(job[p])), NewEdge(job[p]))
  /\ \A p \in Proc : job[p].pc = "blind" /\ EdgeTypeOf[job[p].call.cmd] \in EndTypes
                     => <<job[p].call, job[p].ts>> \in unread

\* A start recorded in the very second of the edge leaves its latency exact.
LEMMA ExactGrows ==
  ASSUME NEW e, NEW S, NEW T, ExactOf(S, e), S \subseteq T, \A d \in T : d \in S \/ d[2] = e.ts
  PROVE  ExactOf(T, e)
BY DEF ExactOf

\* An end command and its starts share their session's file.
LEMMA StartsFile ==
  ASSUME DoneType, NEW D, D \subseteq done, NEW e, e.session[2] = None, NEW d \in StartsIn(D, e)
  PROVE  FileOf(d) = SessionFile(e.session)
<1>1. EventSession(d[1], d[2]) = <<e.session[1], None>>
  BY TypeTellsCommand DEF StartsIn
<1> QED
  BY <1>1 DEF FileOf, SessionFile

\* An exact latency stays exact, unless the file of its session is lost.
LEMMA ExactKept ==
  ASSUME Safe, LogInv, [Next]_vars, NEW e, e.ts \in Int, e.session[2] = None,
         ExactOf(StartsIn(done, e), e),
         \A p \in Proc : /\ job[p] # Idle /\ Target(job[p]) = SessionFile(e.session)
                         /\ job[p].call.cmd = "dispatch-start"
                         => e.ts <= job[p].ts
  PROVE  \/ ExactOf(StartsIn(done', e), e)
         \/ /\ Logs'[SessionFile(e.session)] = {}
            /\ \E p \in Proc : /\ job[p] # Idle /\ Target(job[p]) = SessionFile(e.session)
                               /\ job'[p] = Idle \/ job[p].pc = "blind"
<1>1. CASE done' = done
  BY <1>1
<1>2. ASSUME NEW p \in Proc, job[p] \in Busy, job[p] # Idle,
             done' = done \cup {<<job[p].call, job[p].ts>>}
      PROVE  ExactOf(StartsIn(done', e), e)
  <2> DEFINE new == <<job[p].call, job[p].ts>>
  <2>1. StartsIn(done, e) \subseteq StartsIn(done', e)
    BY <1>2 DEF StartsIn
  <2>2. ASSUME NEW d \in StartsIn(done', e), d \notin StartsIn(done, e) PROVE d[2] = e.ts
    <3>1. d = new /\ d[1].cmd = "dispatch-start" /\ d[1].session = e.session[1] /\ d[2] <= e.ts
      BY <1>2, <2>2 DEF StartsIn
    <3>2. Target(job[p]) = SessionFile(e.session)
      BY <3>1 DEF Target, EventSession, SessionFile
    <3>3. e.ts <= job[p].ts /\ job[p].ts \in Int
      BY <1>2, <3>1, <3>2, BoundsAssumption DEF Busy, Second
    <3> QED
      BY <3>1, <3>3
  <2> QED
    BY <2>1, <2>2, ExactGrows
<1>3. ASSUME NEW g \in File, done' = {d \in done : FileOf(d) # g}, g # SessionFile(e.session)
      PROVE  ExactOf(StartsIn(done', e), e)
  <2>1. StartsIn(done', e) = StartsIn(done, e)
    BY <1>3, StartsFile DEF StartsIn, Safe
  <2> QED
    BY <2>1
<1> QED
  BY <1>1, <1>2, <1>3, Effects

\* An end command reads off the graph the latest recorded start of its session.
LEMMA ElapsedIsExact ==
  ASSUME Safe, LogInv, NEW p \in Proc, job[p].pc = "derive",
         NEW e, e.session = <<job[p].call.session, None>>, e.tgt = job[p].call.unit,
         e.ts = job[p].ts, e.ms = Elapsed(job[p].call, job[p].ts),
         EventSession(job[p].call, job[p].ts) = e.session
  PROVE  ExactOf(StartsIn(done, e), e)
<1> DEFINE g == Target(job[p])
           starts == {x \in ReadGraph : /\ x.type = "dispatch_started"
                                        /\ x.session = <<job[p].call.session, None>>
                                        /\ x.tgt = job[p].call.unit}
<1>1. /\ job[p] \in Busy /\ job[p] # Idle /\ g \in File /\ e.ts \in Int
      /\ SessionFile(e.session) = g /\ e.session[1] = job[p].call.session /\ e.session[2] = None
  BY PcIsBusy, EdgeIsTyped, BoundsAssumption DEF Safe, Busy, Second, Target
<1>2. Logs[g] = disk[g]
  <2>1. \A q \in Proc : job[q].pc # "flush" \/ Target(job[q]) # g
    BY <1>1, PcIsBusy DEF Safe, OneWriter
  <2> QED
    BY <1>1, <2>1, LogType DEF Safe
<1>3. ASSUME NEW x \in starts
      PROVE  x \in Logs[g] /\ x.ts \in Int /\ x.ts <= e.ts
  <2>1. PICK f \in File : x \in disk[f]
    BY DEF ReadGraph
  <2>2. x \in Logs[f]
    BY <2>1, LogType DEF Safe
  <2>3. f = g
    BY <1>1, <2>2 DEF LogInv, Placed
  <2>4. x.ts <= job[p].ts
    BY <1>1, <2>2, <2>3 DEF LogInv, Aged
  <2> QED
    BY <1>1, <2>2, <2>3, <2>4, EdgeTimes DEF Safe
<1>4. ASSUME NEW d \in StartsIn(done, e)
      PROVE  \E x \in starts : d[2] <= x.ts /\ d[2] \in Int
  <2>1. FileOf(d) = g /\ d \in done /\ d[2] \in Int
    <3>1. d \in done
      BY DEF StartsIn
    <3>2. d[2] \in Int
      BY <3>1, DoneIsTyped, BoundsAssumption DEF Safe, Second
    <3>3. FileOf(d) = SessionFile(e.session)
      BY <1>1, StartsFile DEF Safe
    <3> QED
      BY <1>1, <3>1, <3>2, <3>3
  <2>2. PICK x \in Logs[g] : Key(x) = KeyOfCall(d[1], d[2]) /\ x.ts >= d[2]
    BY <2>1 DEF LogInv, HasEdge
  <2>3. x \in ReadGraph /\ x.ts \in Int
    BY <1>1, <1>2, <2>2, EdgeTimes DEF ReadGraph, Safe
  <2>4. /\ x.session = EventSession(d[1], d[2]) /\ x.tgt = d[1].unit /\ x.type = EdgeTypeOf[d[1].cmd]
    BY <2>2, SameKey
  <2>5. x.type = "dispatch_started" /\ x.session = <<e.session[1], None>> /\ x.tgt = e.tgt
    BY <2>1, <2>4, TypeTellsCommand DEF Safe, StartsIn
  <2>6. x \in starts
    BY <1>1, <2>3, <2>5
  <2> QED
    BY <2>1, <2>2, <2>3, <2>6
<1>5. e.ms = IF starts = {} THEN None ELSE job[p].ts - (CHOOSE x \in starts : TRUE).ts
  BY DEF Elapsed
<1>6. CASE starts = {}
  BY <1>4, <1>5, <1>6 DEF ExactOf
<1>7. CASE starts # {}
  <2> DEFINE s == CHOOSE x \in starts : TRUE
  <2>1. s \in starts
    BY <1>7
  <2>2. \A x \in starts : x = s
    BY <1>1, <1>3, <2>1, SameKey DEF LogInv, OneEdgePerKey
  <2>3. s \in Logs[g] /\ s.ts \in Int /\ s.ts <= e.ts
    BY <1>3, <2>1
  <2>4. e.ms = e.ts - s.ts
    BY <1>5, <1>7
  <2>5. \E d \in StartsIn(done, e) : d[2] = s.ts
    <3>1. PICK d \in done : KeyOfCall(d[1], d[2]) = Key(s) /\ d[2] = s.ts
      BY <1>1, <2>3 DEF LogInv, FromDone
    <3>2. EventSession(d[1], d[2]) = s.session /\ d[1].unit = s.tgt /\ EdgeTypeOf[d[1].cmd] = s.type
      BY <3>1, SameKey
    <3>3. d[1].cmd = "dispatch-start"
      BY <2>1, <3>2, TypeTellsCommand DEF Safe
    <3>4. EventSession(d[1], d[2]) = <<d[1].session, None>>
      BY <3>3 DEF EventSession
    <3>5. d[1].session = e.session[1] /\ d[1].unit = e.tgt
      <4>1. <<d[1].session, None>> = <<job[p].call.session, None>>
        BY <2>1, <3>2, <3>4
      <4>2. d[1].session = job[p].call.session
        BY <4>1
      <4> QED
        BY <1>1, <2>1, <3>2, <4>2
    <3>6. d \in StartsIn(done, e)
      BY <2>3, <3>1, <3>3, <3>5 DEF StartsIn
    <3> QED
      BY <3>1, <3>6
  <2>6. \A d \in StartsIn(done, e) : d[2] <= s.ts /\ d[2] \in Int
    BY <1>4, <2>2
  <2>7. e.ms \in Int /\ e.ms >= 0 /\ s.ts = e.ts - e.ms /\ e.ms # None
    BY <1>1, <2>3, <2>4, NoneAssumption
  <2> HIDE DEF s, starts, g
  <2>8. \A d \in StartsIn(done, e) : d[2] = e.ts - e.ms \/ d[2] < e.ts - e.ms
    BY <2>3, <2>6, <2>7
  <2>9. \E d \in StartsIn(done, e) : d[2] = e.ts - e.ms
    BY <2>5, <2>7
  <2> QED
    BY <2>7, <2>8, <2>9 DEF ExactOf
<1> QED
  BY <1>6, <1>7

\* Only dispatch-end and run-end record an end.
LEMMA EndCommand ==
  ASSUME NEW c \in Calls, EdgeTypeOf[c.cmd] \in EndTypes
  PROVE  c.cmd \in EndCmd
BY CallsAssumption DEF EdgeTypeOf, EndTypes, EndCmd, Call, Cmd

\* What could not be read is not forgotten.
LEMMA UnreadGrows ==
  ASSUME [Next]_vars
  PROVE  unread \subseteq unread' /\ \A e : Unread(e) => Unread(e)'
<1>1. unread \subseteq unread'
  BY DEF Next, vars, Tick, Invoke, Derive, DeriveBlind, LoadFile, LoadFails, Unreadable, Truncate,
         Overwrite, Flush, Abort
<1> QED
  BY <1>1 DEF Unread

\* An invocation that is past its derive step has its latency, derives it now, or
\* cannot.
LEMMA ReadyStep ==
  ASSUME Safe, [Next]_vars, NEW p \in Proc, job'[p] # Idle, job'[p].pc # "derive",
         EdgeTypeOf[job'[p].call.cmd] \in EndTypes
  PROVE  /\ job[p] \in Busy /\ job[p] # Idle
         /\ job'[p].call = job[p].call /\ job'[p].ts = job[p].ts
         /\ \/ job[p].pc # "derive" /\ job'[p].ms = job[p].ms
            \/ /\ job[p].pc = "derive" /\ done' = done
               /\ job'[p].ms = Elapsed(job[p].call, job[p].ts)
            \/ <<job[p].call, job[p].ts>> \in unread'
<1> DEFINE Kept == job'[p].call = job[p].call /\ job'[p].ts = job[p].ts
           Ready == job[p].pc # "derive" /\ job'[p].ms = job[p].ms
<1>1. ASSUME NEW q \in Proc, NEW k, job' = [job EXCEPT ![q] = k],
             k = Idle \/ (/\ job[q] # Idle /\ job[q].pc # "derive"
                         /\ k.call = job[q].call /\ k.ts = job[q].ts /\ k.ms = job[q].ms)
      PROVE  job[p] # Idle /\ Kept /\ Ready
  BY <1>1 DEF JobType, Safe
<1>2. ASSUME NEW q \in Proc, NEW c \in Calls, Invoke(q, c) PROVE job[p] # Idle /\ Kept /\ Ready
  <2> DEFINE j == [pc |-> IF c.cmd \in EndCmd THEN "derive" ELSE "load",
                   call |-> c, ts |-> clock, ms |-> None, old |-> {}]
  <2>1. job' = [job EXCEPT ![q] = j]
    BY <1>2 DEF Invoke
  <2>2. EdgeTypeOf[c.cmd] \in EndTypes => j.pc = "derive"
    BY EndCommand
  <2>3. j.call = c
    OBVIOUS
  <2> HIDE DEF j
  <2> QED
    BY <2>1, <2>2, <2>3 DEF JobType, Safe
<1>3. ASSUME NEW q \in Proc, Derive(q)
      PROVE  /\ job[p] # Idle /\ Kept
             /\ Ready \/ (/\ job[p].pc = "derive" /\ done' = done
                         /\ job'[p].ms = Elapsed(job[p].call, job[p].ts))
  <2> DEFINE k == [job[q] EXCEPT !.pc = "load", !.ms = Elapsed(job[q].call, job[q].ts)]
  <2>1. job[q] \in Busy /\ job[q] # Idle /\ job[q].pc = "derive" /\ done' = done
    BY <1>3, PcIsBusy DEF Derive, Safe
  <2>2. /\ job' = [job EXCEPT ![q] = k] /\ k.call = job[q].call /\ k.ts = job[q].ts
        /\ k.ms = Elapsed(job[q].call, job[q].ts)
    BY <1>3, <2>1 DEF Derive, JobType, Busy, Safe
  <2> HIDE DEF k
  <2> QED
    BY <2>1, <2>2 DEF JobType, Safe
<1>4. ASSUME NEW q \in Proc, LoadFile(q) PROVE job[p] # Idle /\ Kept /\ Ready
  <2> DEFINE k == [job[q] EXCEPT !.pc = "truncate", !.old = disk[Target(job[q])]]
  <2>1. job[q] \in Busy /\ job[q] # Idle /\ job[q].pc = "load"
    BY <1>4, PcIsBusy DEF LoadFile, Safe
  <2>2. /\ job' = [job EXCEPT ![q] = k] /\ k.call = job[q].call /\ k.ts = job[q].ts
        /\ k.ms = job[q].ms
    BY <1>4, <2>1 DEF LoadFile, JobType, Busy, Safe
  <2> HIDE DEF k, Kept, Ready
  <2> QED
    BY <1>1, <2>1, <2>2
<1>5. ASSUME NEW q \in Proc, Truncate(q) PROVE job[p] # Idle /\ Kept /\ Ready
  <2> DEFINE k == [job[q] EXCEPT !.pc = "flush"]
  <2>1. job[q] \in Busy /\ job[q] # Idle /\ job[q].pc = "truncate"
    BY <1>5, PcIsBusy DEF Truncate, Safe
  <2>2. /\ job' = [job EXCEPT ![q] = k] /\ k.call = job[q].call /\ k.ts = job[q].ts
        /\ k.ms = job[q].ms
    BY <1>5, <2>1 DEF Truncate, JobType, Busy, Safe
  <2> HIDE DEF k, Kept, Ready
  <2> QED
    BY <1>1, <2>1, <2>2
<1>6. ASSUME NEW q \in Proc, Flush(q) \/ Abort(q) PROVE job[p] # Idle /\ Kept /\ Ready
  <2>1. job' = [job EXCEPT ![q] = Idle]
    BY <1>6 DEF Flush, Abort
  <2> HIDE DEF Kept, Ready
  <2> QED
    BY <1>1, <2>1
<1>7. ASSUME UNCHANGED job PROVE job[p] # Idle /\ Kept /\ Ready
  BY <1>7
<1>9. ASSUME NEW q \in Proc, DeriveBlind(q) \/ LoadFails(q) \/ Overwrite(q)
      PROVE  job[p] # Idle /\ Kept /\ (Ready \/ <<job[p].call, job[p].ts>> \in unread')
  <2>1. job[q] \in Busy /\ job[q] # Idle
    BY <1>9, PcIsBusy DEF DeriveBlind, LoadFails, Overwrite, Safe
  <2>2. PICK k : /\ job' = [job EXCEPT ![q] = k] /\ k.ms = job[q].ms
                 /\ k.call = job[q].call /\ k.ts = job[q].ts
    BY <1>9, BlindStep DEF Safe
  <2>3. CASE job[q].pc # "derive"
    <3> HIDE DEF Kept, Ready
    <3> QED
      BY <1>1, <2>1, <2>2, <2>3
  <2>4. CASE job[q].pc = "derive"
    <3>1. DeriveBlind(q)
      BY <1>9, <2>4 DEF LoadFails, Overwrite
    <3>2. job[q].call.cmd \in EndCmd => <<job[q].call, job[q].ts>> \in unread'
      BY <3>1 DEF DeriveBlind, Unreadable
    <3>3. CASE p = q
      <4>1. job'[p] = k
        BY <2>2, <3>3 DEF Safe, JobType
      <4>2. job[p].call.cmd \in EndCmd
        BY <2>1, <2>2, <3>3, <4>1, EndCommand DEF Busy
      <4> QED
        BY <2>1, <2>2, <3>2, <3>3, <4>1, <4>2
    <3>4. CASE p # q
      <4>1. job'[p] = job[p]
        BY <2>2, <3>4 DEF Safe, JobType
      <4> QED
        BY <4>1
    <3> QED
      BY <3>3, <3>4
  <2> QED
    BY <2>3, <2>4
<1>8. /\ job[p] # Idle /\ Kept
      /\ \/ Ready
         \/ /\ job[p].pc = "derive" /\ done' = done
            /\ job'[p].ms = Elapsed(job[p].call, job[p].ts)
         \/ <<job[p].call, job[p].ts>> \in unread'
  <2> HIDE DEF Kept, Ready
  <2> QED
    BY <1>2, <1>3, <1>4, <1>5, <1>6, <1>7, <1>9 DEF Next, Tick, vars
<1> QED
  BY <1>8, AtWorkIsBusy DEF Safe

\* An end command that found its file unreadable is among those that did.
LEMMA BlindEnd ==
  ASSUME Safe, ExactInv, [Next]_vars, NEW p \in Proc, job'[p].pc = "blind",
         EdgeTypeOf[job'[p].call.cmd] \in EndTypes
  PROVE  <<job'[p].call, job'[p].ts>> \in unread'
<1> DEFINE Before == job'[p].call = job[p].call /\ job'[p].ts = job[p].ts /\ job[p].pc = "blind"
<1>0. job'[p] # Idle
  BY DEF Idle
<1>1. ASSUME Before PROVE <<job'[p].call, job'[p].ts>> \in unread'
  BY <1>1, UnreadGrows DEF ExactInv
<1>2. ASSUME NEW q \in Proc, NEW k, job' = [job EXCEPT ![q] = k], k.pc # "blind"
      PROVE  Before
  BY <1>2 DEF Safe, JobType
<1>3. ASSUME NEW q \in Proc, NEW c \in Calls, Invoke(q, c) PROVE Before
  <2> DEFINE j == [pc |-> IF c.cmd \in EndCmd THEN "derive" ELSE "load",
                   call |-> c, ts |-> clock, ms |-> None, old |-> {}]
  <2>1. job' = [job EXCEPT ![q] = j] /\ j.pc # "blind"
    BY <1>3 DEF Invoke
  <2> HIDE DEF j
  <2> QED
    BY <1>2, <2>1
<1>4. ASSUME NEW q \in Proc, Derive(q) \/ LoadFile(q) \/ Truncate(q) PROVE Before
  <2>1. job[q] \in Busy
    BY <1>4, PcIsBusy DEF Derive, LoadFile, Truncate, Safe
  <2>2. PICK k : job' = [job EXCEPT ![q] = k] /\ k.pc # "blind"
    BY <1>4, <2>1 DEF Derive, LoadFile, Truncate, Busy, Safe, JobType
  <2> QED
    BY <1>2, <2>2
<1>5. ASSUME NEW q \in Proc, Flush(q) \/ Abort(q) PROVE Before
  <2>1. job' = [job EXCEPT ![q] = Idle] /\ Idle.pc # "blind"
    BY <1>5 DEF Flush, Abort, Idle
  <2> QED
    BY <1>2, <2>1
<1>6. ASSUME NEW q \in Proc, DeriveBlind(q) \/ Overwrite(q) PROVE Before
  <2>1. job[q] \in Busy
    BY <1>6, PcIsBusy DEF DeriveBlind, Overwrite, Safe
  <2>2. PICK k : job' = [job EXCEPT ![q] = k] /\ k.pc # "blind"
    BY <1>6, <2>1 DEF DeriveBlind, Overwrite, Busy, Safe, JobType
  <2> QED
    BY <1>2, <2>2
<1>7. ASSUME NEW q \in Proc, LoadFails(q)
      PROVE  Before \/ <<job'[p].call, job'[p].ts>> \in unread'
  <2>1. job[q] \in Busy /\ job[q] # Idle
    BY <1>7, PcIsBusy DEF LoadFails, Safe
  <2>2. PICK k : job' = [job EXCEPT ![q] = k] /\ k.call = job[q].call /\ k.ts = job[q].ts
    BY <1>7, BlindStep DEF Safe
  <2>3. job[q].call.cmd \in EndCmd => <<job[q].call, job[q].ts>> \in unread'
    BY <1>7 DEF LoadFails, Unreadable
  <2>4. CASE p = q
    <3>1. job'[p] = k
      BY <2>2, <2>4 DEF Safe, JobType
    <3>2. job[p].call.cmd \in EndCmd
      BY <2>1, <2>2, <2>4, <3>1, EndCommand DEF Busy
    <3> QED
      BY <2>2, <2>3, <2>4, <3>1, <3>2
  <2>5. CASE p # q
    <3>1. job'[p] = job[p]
      BY <2>2, <2>5 DEF Safe, JobType
    <3> QED
      BY <3>1
  <2> QED
    BY <2>4, <2>5
<1>8. ASSUME UNCHANGED job PROVE Before
  BY <1>8
<1> HIDE DEF Before
<1> QED
  BY <1>1, <1>3, <1>4, <1>5, <1>6, <1>7, <1>8 DEF Next, Tick, vars

\* An end command's edge is in its session's own file, and no start.
LEMMA EndEdge ==
  ASSUME JobType, NEW p \in Proc, job[p] \in Busy, EdgeTypeOf[job[p].call.cmd] \in EndTypes
  PROVE  /\ job[p].call.cmd # "dispatch-start"
         /\ EventSession(job[p].call, job[p].ts) = <<job[p].call.session, None>>
         /\ NewEdge(job[p]).session[2] = None /\ NewEdge(job[p]).ts \in Int
<1>1. job[p].call.cmd \in Cmd /\ job[p].ts \in Int
  BY CallsAssumption, BoundsAssumption DEF Busy, Call, Second
<1>2. job[p].call.cmd \notin {"dispatch-start", "rework"}
  BY <1>1 DEF EdgeTypeOf, EndTypes, Cmd
<1>3. EventSession(job[p].call, job[p].ts) = <<job[p].call.session, None>>
  BY <1>2 DEF EventSession
<1>4. NewEdge(job[p]).session = EventSession(job[p].call, job[p].ts) /\ NewEdge(job[p]).ts = job[p].ts
  BY NewEdgeKey
<1>5. NewEdge(job[p]).session[2] = None
  BY <1>3, <1>4
<1> QED
  BY <1>1, <1>2, <1>3, <1>4, <1>5

LEMMA ExactStep ==
  ASSUME Safe, LogInv, ExactInv, [Next]_vars
  PROVE  ExactInv'
<1>1. ASSUME NEW f \in File, NEW e \in Logs'[f], e.type \in EndTypes, ~Unread(e)'
      PROVE  ExactOf(StartsIn(done', e), e)
  <2>1. CASE e \in Logs[f]
    <3>1. ExactOf(StartsIn(done, e), e) /\ SessionFile(e.session) = f /\ e.ts \in Int
      BY <1>1, <2>1, EdgeTimes, UnreadGrows DEF ExactInv, LogInv, Placed, Safe
    <3>2. e.session[2] = None
      <4>1. PICK d \in done : KeyOfCall(d[1], d[2]) = Key(e)
        BY <2>1 DEF LogInv, FromDone
      <4>2. EventSession(d[1], d[2]) = e.session /\ EdgeTypeOf[d[1].cmd] = e.type
        BY <4>1, SameKey
      <4>3. d[1].cmd # "rework"
        BY <1>1, <4>2, TypeTellsCommand DEF Safe, EndTypes
      <4>4. EventSession(d[1], d[2]) = <<d[1].session, None>>
        BY <4>3 DEF EventSession
      <4> QED
        BY <4>2, <4>4
    <3>3. \A p \in Proc : job[p] # Idle /\ Target(job[p]) = f => e.ts <= job[p].ts
      BY <2>1 DEF LogInv, Aged
    <3> QED
      BY <1>1, <3>1, <3>2, <3>3, ExactKept
  <2>2. ASSUME NEW p \in Proc, job[p] \in Busy, job[p] # Idle, job[p].pc = "flush",
               Target(job[p]) = f, e = NewEdge(job[p])
        PROVE  ExactOf(StartsIn(done', e), e)
    <3>1. EdgeTypeOf[job[p].call.cmd] \in EndTypes /\ SessionFile(e.session) = f
      BY <1>1, <2>2, NewEdgeKey
    <3>2. ExactOf(StartsIn(done, e), e)
      <4>1. KeyOfCall(job[p].call, job[p].ts) = Key(e) /\ job[p].ts = e.ts
        BY <2>2, NewEdgeKey
      <4>2. <<job[p].call, job[p].ts>> \notin unread
        <5>1. ASSUME <<job[p].call, job[p].ts>> \in unread PROVE Unread(e)
          <6> DEFINE d == <<job[p].call, job[p].ts>>
          <6>1. d \in unread /\ KeyOfCall(d[1], d[2]) = Key(e) /\ d[2] = e.ts
            BY <4>1, <5>1
          <6> QED
            BY <6>1 DEF Unread
        <5> QED
          BY <1>1, <5>1, UnreadGrows
      <4> QED
        BY <2>2, <3>1, <4>2 DEF ExactInv
    <3>3. e.session[2] = None /\ e.ts \in Int /\ job[p].call.cmd # "dispatch-start"
      BY <2>2, <3>1, EndEdge DEF Safe
    <3>4. \A q \in Proc : job[q] # Idle /\ Target(job[q]) = f => q = p
      BY <2>2 DEF Safe, OneWriter
    <3> QED
      BY <1>1, <3>1, <3>2, <3>3, <3>4, ExactKept
  <2>3. e \in Logs[f] \/ \E p \in Proc : /\ job[p] \in Busy /\ job[p] # Idle /\ job[p].pc = "flush"
                                        /\ Target(job[p]) = f /\ e = NewEdge(job[p])
    BY <1>1, Effects, Merged
  <2> QED
    BY <2>1, <2>2, <2>3
<1>2. ASSUME NEW p \in Proc, job'[p] # Idle, job'[p].pc # "derive",
             EdgeTypeOf[job'[p].call.cmd] \in EndTypes,
             <<job'[p].call, job'[p].ts>> \notin unread'
      PROVE  ExactOf(StartsIn(done', NewEdge(job'[p])), NewEdge(job'[p]))
  <2>0. <<job'[p].call, job'[p].ts>> \notin unread
    BY <1>2, UnreadGrows
  <2>1. /\ job[p] \in Busy /\ job[p] # Idle
        /\ job'[p].call = job[p].call /\ job'[p].ts = job[p].ts
        /\ \/ job[p].pc # "derive" /\ job'[p].ms = job[p].ms
           \/ /\ job[p].pc = "derive" /\ done' = done
              /\ job'[p].ms = Elapsed(job[p].call, job[p].ts)
    BY <1>2, ReadyStep
  <2>2. /\ EdgeTypeOf[job[p].call.cmd] \in EndTypes
        /\ job[p].call.cmd # "dispatch-start"
        /\ EventSession(job[p].call, job[p].ts) = <<job[p].call.session, None>>
        /\ NewEdge(job[p]).session[2] = None /\ NewEdge(job[p]).ts \in Int
    BY <1>2, <2>1, EndEdge DEF Safe
  <2>3. CASE job[p].pc # "derive" /\ job'[p].ms = job[p].ms
    <3>1. NewEdge(job'[p]) = NewEdge(job[p])
      BY <2>1, <2>3 DEF NewEdge
    <3>2. ExactOf(StartsIn(done, NewEdge(job[p])), NewEdge(job[p]))
      BY <2>0, <2>1, <2>2, <2>3 DEF ExactInv
    <3>3. SessionFile(NewEdge(job[p]).session) = Target(job[p])
      BY <2>1, NewEdgeKey
    <3>4. \A q \in Proc : job[q] # Idle /\ Target(job[q]) = Target(job[p]) => q = p
      BY <2>1 DEF Safe, OneWriter
    <3>5. job[p].pc # "blind"
      BY <2>0, <2>1, <2>2 DEF ExactInv
    <3>0. PICK e : e = NewEdge(job[p])
      OBVIOUS
    <3>6. e.ts \in Int /\ e.session[2] = None
      BY <2>2, <3>0
    <3>7. \A q \in Proc : /\ job[q] # Idle /\ Target(job[q]) = SessionFile(e.session)
                           /\ job[q].call.cmd = "dispatch-start"
                           => e.ts <= job[q].ts
      BY <2>2, <3>0, <3>3, <3>4
    <3>8. ~(\E q \in Proc : /\ job[q] # Idle /\ Target(job[q]) = SessionFile(e.session)
                            /\ job'[q] = Idle \/ job[q].pc = "blind")
      BY <1>2, <3>0, <3>3, <3>4, <3>5
    <3>9. ExactOf(StartsIn(done, e), e)
      BY <3>0, <3>2
    <3>10. \/ ExactOf(StartsIn(done', e), e)
           \/ \E q \in Proc : /\ job[q] # Idle /\ Target(job[q]) = SessionFile(e.session)
                              /\ job'[q] = Idle \/ job[q].pc = "blind"
      BY <3>6, <3>7, <3>9, ExactKept
    <3> QED
      BY <3>0, <3>1, <3>8, <3>10
  <2>4. CASE /\ job[p].pc = "derive" /\ done' = done
             /\ job'[p].ms = Elapsed(job[p].call, job[p].ts)
    <3> DEFINE e == NewEdge(job'[p])
    <3>1. /\ e.session = EventSession(job[p].call, job[p].ts) /\ e.tgt = job[p].call.unit
          /\ e.ts = job[p].ts /\ e.ms = Elapsed(job[p].call, job[p].ts)
      BY <2>1, <2>4 DEF NewEdge
    <3> HIDE DEF e
    <3>2. ExactOf(StartsIn(done, e), e)
      BY <2>2, <2>4, <3>1, ElapsedIsExact
    <3> QED
      BY <2>4, <3>2 DEF e
  <2> QED
    BY <2>1, <2>3, <2>4
<1> QED
  BY <1>1, <1>2, BlindEnd DEF ExactInv

\* The latency of every end the graph holds, at any moment and whatever crashed, runs
\* from its session's most recent recorded start, if its command could read the file.
THEOREM LatenciesAreExact == ASSUME MaxWriters = 1 PROVE Spec => []LatencyExact
<1>1. ASSUME Init PROVE ExactInv
  <2>1. ASSUME NEW f \in File PROVE Logs[f] = {}
    BY <1>1 DEF Init, Logs, Log, Rewriting, Idle
  <2>2. \A p \in Proc : job[p] = Idle
    BY <1>1 DEF Init
  <2> QED
    BY <2>1, <2>2 DEF ExactInv, Idle
<1>2. Safe /\ LogInv /\ ExactInv /\ [Next]_vars => ExactInv'
  BY ExactStep
<1>3. ASSUME Safe, ExactInv PROVE LatencyExact
  <2>1. SUFFICES ASSUME NEW e \in ReadGraph, e.type \in {"dispatch_completed", "run_completed"}, ~Unread(e)
                 PROVE  ExactOf(StartsBefore(e), e)
    BY DEF LatencyExact, ExactOf
  <2>2. PICK f \in File : e \in disk[f]
    BY <2>1 DEF ReadGraph
  <2>3. e \in Logs[f]
    BY <1>3, <2>2, LogType DEF Safe
  <2>4. ExactOf(StartsIn(done, e), e)
    BY <1>3, <2>1, <2>3 DEF ExactInv, EndTypes
  <2>5. StartsIn(done, e) = StartsBefore(e)
    BY DEF StartsIn, StartsBefore
  <2> QED
    BY <2>4, <2>5
<1> QED
  BY <1>1, <1>2, <1>3, LogInvariant, PTL DEF Spec

-------------------------------------------------------------------------------
(* run_status *)

\* Of some seconds, one is the latest.
LEMMA HasLatest ==
  ASSUME NEW T, T \subseteq Second, T # {}
  PROVE  /\ Latest(T) \in T
         /\ \A x \in T : x <= Latest(T)
<1> DEFINE U == {t .. MaxClock : t \in T}
           R == StrictSubsetOrdering(Second)
<1>1. \A t \in T : t \in Int /\ t <= MaxClock /\ t \in t .. MaxClock /\ t .. MaxClock \subseteq Second
  BY BoundsAssumption DEF Second
<1>2. U \subseteq FiniteSubsetsOf(Second) /\ U # {}
  <2>1. \A t \in T : IsFiniteSet(t .. MaxClock)
    BY <1>1, FS_Interval, BoundsAssumption
  <2> QED
    BY <1>1, <2>1 DEF FiniteSubsetsOf
<1>3. IsWellFoundedOn(R, FiniteSubsetsOf(Second))
  BY FS_StrictSubsetOrderingWellFounded
<1>4. PICK m \in U : \A y \in U : ~ (<<y, m>> \in R)
  <2> HIDE DEF U, R
  <2> QED
    BY <1>2, <1>3, WFMin
<1>5. PICK t \in T : m = t .. MaxClock
  BY <1>4
<1>6. ASSUME NEW x \in T PROVE x <= t
  <2>1. SUFFICES ASSUME t < x PROVE FALSE
    BY <1>1
  <2>2. x .. MaxClock \subseteq t .. MaxClock /\ t \notin x .. MaxClock /\ t \in t .. MaxClock
    BY <1>1, <2>1
  <2>3. <<x .. MaxClock, t .. MaxClock>> \in R
    BY <1>1, <2>2 DEF StrictSubsetOrdering
  <2> QED
    BY <1>4, <1>5, <2>3
<1> QED
  BY <1>6 DEF Latest

\* The edges of one type for a unit tell what the commands that record them did: whose
\* sessions, and the newest one's second and outcome.
LEMMA EdgesTell ==
  ASSUME Safe, LogInv, NoneAtWork, NEW u \in Unit, NEW cmd, NEW type,
         \/ cmd = "dispatch-start" /\ type = "dispatch_started"
         \/ cmd = "dispatch-end" /\ type = "dispatch_completed"
  PROVE  /\ At(type, u) = {} <=> RecordedFor(cmd, u) = {}
         /\ {e.session[1] : e \in At(type, u)} = {d[1].session : d \in RecordedFor(cmd, u)}
         /\ RecordedFor(cmd, u) # {} =>
              /\ LatestTs(At(type, u)) = Newest(At(type, u)).ts
              /\ Newest(At(type, u)).ts = Latest({d[2] : d \in RecordedFor(cmd, u)})
              /\ \E d \in RecordedFor(cmd, u) : /\ d[1].outcome = Newest(At(type, u)).outcome
                                               /\ d[2] = Newest(At(type, u)).ts
<1> DEFINE E == At(type, u)
           D == RecordedFor(cmd, u)
           times == {d[2] : d \in D}
<1>1. ASSUME NEW e \in E
      PROVE  \E d \in D : d[1].session = e.session[1] /\ d[2] = e.ts /\ d[1].outcome = e.outcome
  <2>1. e \in ReadGraph /\ e.type = type /\ e.tgt = u
    BY DEF At, Of
  <2>2. PICK d \in done : KeyOfCall(d[1], d[2]) = Key(e) /\ d[2] = e.ts /\ d[1].outcome = e.outcome
    BY <2>1, Remembered
  <2>3. EventSession(d[1], d[2]) = e.session /\ d[1].unit = u /\ EdgeTypeOf[d[1].cmd] = type
    BY <2>1, <2>2, SameKey
  <2>4. d[1].cmd = cmd /\ e.session[1] = d[1].session
    BY <2>3, TypeTellsCommand DEF Safe
  <2> QED
    BY <2>2, <2>3, <2>4 DEF RecordedFor, Recorded
<1>2. ASSUME NEW d \in D
      PROVE  \E e \in E : d[1].session = e.session[1] /\ e.ts >= d[2]
  <2>1. d \in done /\ d[1].cmd = cmd /\ d[1].unit = u
    BY DEF RecordedFor, Recorded
  <2>2. PICK e \in ReadGraph : Key(e) = KeyOfCall(d[1], d[2]) /\ e.ts >= d[2]
    BY <2>1, Remembered
  <2>3. EventSession(d[1], d[2]) = e.session /\ e.tgt = u /\ EdgeTypeOf[d[1].cmd] = e.type
    BY <2>1, <2>2, SameKey
  <2>4. e.type = type /\ e.session[1] = d[1].session
    BY <2>1, <2>3, TypeTellsCommand DEF Safe
  <2> QED
    BY <2>2, <2>3, <2>4 DEF At, Of
<1>3. times \subseteq Second /\ \A t \in Second : t \in Int
  BY DoneIsTyped, BoundsAssumption DEF RecordedFor, Recorded, Safe, Second
<1>4. {e.session[1] : e \in E} = {d[1].session : d \in D}
  BY <1>1, <1>2
<1>5. E = {} <=> D = {}
  BY <1>1, <1>2
<1>6. ASSUME D # {}
      PROVE  /\ Newest(E) \in E /\ Newest(E).ts = Latest(times)
             /\ LatestTs(E) = Newest(E).ts
  <2>1. Latest(times) \in times /\ \A x \in times : x <= Latest(times)
    BY <1>3, <1>6, HasLatest
  <2>2. \A e \in E : e.ts \in times /\ e.ts \in Int
    BY <1>1, <1>3
  <2>3. PICK d \in D : d[2] = Latest(times)
    BY <2>1
  <2>4. PICK e \in E : e.ts >= d[2]
    BY <1>2
  <2>5. e.ts = Latest(times)
    <3>1. e.ts <= Latest(times) /\ e.ts >= Latest(times) /\ e.ts \in Int /\ Latest(times) \in Int
      BY <1>3, <2>1, <2>2, <2>3, <2>4
    <3> QED
      BY <3>1
  <2>6. \A x \in E : x.ts <= e.ts
    BY <2>1, <2>2, <2>5
  <2>7. Newest(E) \in E /\ \A x \in E : x.ts <= Newest(E).ts
    BY <2>6 DEF Newest
  <2>8. Newest(E).ts = Latest(times)
    <3>1. Newest(E).ts <= Latest(times) /\ Latest(times) <= Newest(E).ts
      BY <2>1, <2>2, <2>5, <2>7
    <3>2. Newest(E).ts \in Int /\ Latest(times) \in Int
      BY <2>2, <2>5, <2>7
    <3> QED
      BY <3>1, <3>2
  <2> QED
    BY <1>5, <1>6, <2>7, <2>8 DEF LatestTs
<1>7. ASSUME D # {}
      PROVE  \E d \in D : d[1].outcome = Newest(E).outcome /\ d[2] = Newest(E).ts
  BY <1>1, <1>6, <1>7
<1> QED
  BY <1>4, <1>5, <1>6, <1>7

\* What the next run is told of a unit is what was done to it: state, sessions, the
\* seconds of its latest start and end, and the outcome of the latest end.
THEOREM RunStatusIsTrue == ASSUME MaxWriters = 1 PROVE Spec => []RunStatusTells
<1>1. ASSUME Safe, LogInv, NoneAtWork, NEW u \in Unit
      PROVE  LET starts == RecordedFor("dispatch-start", u)
                 ends   == RecordedFor("dispatch-end", u)
                 status == RunStatus(u)
             IN  /\ (ends # {}) => status.state = "completed"
                 /\ (ends = {} /\ starts # {}) => status.state = "in-progress"
                 /\ status.sessions = {d[1].session : d \in starts \cup ends}
                 /\ (starts # {}) => status.lastStarted = Latest({d[2] : d \in starts})
                 /\ (ends # {}) => status.lastCompleted = Latest({d[2] : d \in ends})
                 /\ (ends # {}) => \E d \in ends : /\ d[1].outcome = status.outcome
                                                  /\ d[2] = status.lastCompleted
                 /\ (starts \cup ends = {}) => status.state = "untouched"
  <2> DEFINE starts == RecordedFor("dispatch-start", u)
             ends   == RecordedFor("dispatch-end", u)
             S == At("dispatch_started", u)
             E == At("dispatch_completed", u)
             status == RunStatus(u)
  <2>1. /\ S = {} <=> starts = {}
        /\ {e.session[1] : e \in S} = {d[1].session : d \in starts}
        /\ starts # {} => LatestTs(S) = Latest({d[2] : d \in starts})
    BY <1>1, EdgesTell
  <2>2. /\ E = {} <=> ends = {}
        /\ {e.session[1] : e \in E} = {d[1].session : d \in ends}
        /\ ends # {} => /\ LatestTs(E) = Newest(E).ts
                        /\ LatestTs(E) = Latest({d[2] : d \in ends})
                        /\ \E d \in ends : d[1].outcome = Newest(E).outcome /\ d[2] = Newest(E).ts
    BY <1>1, EdgesTell
  <2>3. /\ status.state = IF E # {} THEN "completed" ELSE IF S # {} THEN "in-progress" ELSE "untouched"
        /\ status.sessions = {e.session[1] : e \in S \cup E}
        /\ status.lastStarted = LatestTs(S) /\ status.lastCompleted = LatestTs(E)
        /\ status.outcome = IF E = {} THEN None ELSE Newest(E).outcome
    BY DEF RunStatus
  <2> HIDE DEF starts, ends, S, E, status
  <2>4. status.sessions = {d[1].session : d \in starts \cup ends}
    <3>1. {e.session[1] : e \in S \cup E} = {e.session[1] : e \in S} \cup {e.session[1] : e \in E}
      OBVIOUS
    <3>2. {d[1].session : d \in starts \cup ends}
            = {d[1].session : d \in starts} \cup {d[1].session : d \in ends}
      OBVIOUS
    <3> QED
      BY <2>1, <2>2, <2>3, <3>1, <3>2
  <2>5. /\ (ends # {}) => status.state = "completed"
        /\ (ends = {} /\ starts # {}) => status.state = "in-progress"
        /\ (starts # {}) => status.lastStarted = Latest({d[2] : d \in starts})
        /\ (ends # {}) => status.lastCompleted = Latest({d[2] : d \in ends})
        /\ (ends # {}) => \E d \in ends : /\ d[1].outcome = status.outcome
                                         /\ d[2] = status.lastCompleted
        /\ (starts \cup ends = {}) => status.state = "untouched"
    BY <2>1, <2>2, <2>3
  <2> QED
    BY <2>4, <2>5 DEF starts, ends, status
<1>2. Safe /\ LogInv => RunStatusTells
  BY <1>1 DEF RunStatusTells
<1> QED
  BY <1>2, LogInvariant, PTL

-------------------------------------------------------------------------------
(* metrics *)

\* Even while processes are at work, an edge on disk is that of a finished command, and
\* the only one with its key.
LEMMA OnDisk ==
  ASSUME Safe, LogInv
  PROVE  /\ ReadGraph \subseteq Edge
         /\ \A e, x \in ReadGraph : Key(e) = Key(x) => e = x
         /\ \A e \in ReadGraph : \E d \in done : KeyOfCall(d[1], d[2]) = Key(e)
<1>1. ASSUME NEW f \in File PROVE disk[f] \subseteq Logs[f] /\ Logs[f] \subseteq Edge
  BY LogType DEF Safe
<1>2. \A e \in ReadGraph : \E f \in File : e \in Logs[f]
  BY <1>1 DEF ReadGraph
<1>3. ReadGraph \subseteq Edge
  BY <1>1, <1>2
<1>4. ASSUME NEW e \in ReadGraph, NEW x \in ReadGraph, Key(e) = Key(x) PROVE e = x
  <2>1. PICK f \in File, g \in File : e \in Logs[f] /\ x \in Logs[g]
    BY <1>2
  <2>2. f = SessionFile(e.session) /\ g = SessionFile(x.session) /\ e.session = x.session
    BY <1>4, <2>1, SameKey DEF LogInv, Placed
  <2> QED
    BY <1>4, <2>1, <2>2 DEF LogInv, OneEdgePerKey
<1>5. \A e \in ReadGraph : \E d \in done : KeyOfCall(d[1], d[2]) = Key(e)
  BY <1>2 DEF LogInv, FromDone
<1> QED
  BY <1>3, <1>4, <1>5

LEMMA FiniteGraph ==
  ASSUME Safe, LogInv
  PROVE  IsFiniteSet(ReadGraph)
<1> DEFINE f == [e \in ReadGraph |-> CHOOSE d \in done : KeyOfCall(d[1], d[2]) = Key(e)]
<1>1. ASSUME NEW e \in ReadGraph PROVE f[e] \in done /\ KeyOfCall(f[e][1], f[e][2]) = Key(e)
  BY OnDisk
<1>2. \A e, x \in ReadGraph : f[e] = f[x] => e = x
  BY <1>1, OnDisk
<1>3. f \in [ReadGraph -> done]
  BY <1>1
<1> HIDE DEF f
<1>4. f \in Injection(ReadGraph, done)
  BY <1>2, <1>3 DEF Injection, IsInjective
<1> QED
  BY <1>4, FS_Injection DEF LogInv

LEMMA DisjointUnion ==
  ASSUME NEW S, NEW T, IsFiniteSet(S), IsFiniteSet(T), S \cap T = {}
  PROVE  IsFiniteSet(S \cup T) /\ Cardinality(S \cup T) = Cardinality(S) + Cardinality(T)
<1>1. /\ IsFiniteSet(S \cup T)
      /\ Cardinality(S \cup T) = Cardinality(S) + Cardinality(T) - Cardinality(S \cap T)
  BY FS_Union
<1>2. Cardinality(S) \in Nat /\ Cardinality(T) \in Nat
  BY FS_CardinalityType
<1>3. Cardinality(S \cap T) = 0
  BY FS_EmptySet
<1> QED
  BY <1>1, <1>2, <1>3

\* The completed dispatches: one edge for each session and unit some end command was
\* recorded for, under one of the three outcomes.
LEMMA EndsCounted ==
  ASSUME Safe, LogInv, NoneAtWork
  PROVE  /\ Cardinality({<<d[1].session, d[1].unit>> : d \in Recorded("dispatch-end")})
              = Cardinality(Of("dispatch_completed"))
         /\ Dispatches("solved") + Dispatches("partial") + Dispatches("blocked")
              = Cardinality(Of("dispatch_completed"))
<1> DEFINE C == Of("dispatch_completed")
           D == Recorded("dispatch-end")
           P == {<<d[1].session, d[1].unit>> : d \in D}
           pair == [e \in C |-> <<e.session[1], e.tgt>>]
           Part(o) == {e \in C : e.outcome = o}
<1>1. IsFiniteSet(C)
  BY FiniteGraph, FS_Subset DEF Of
<1>2. ASSUME NEW e \in C
      PROVE  /\ \E d \in D : d[1].session = e.session[1] /\ d[1].unit = e.tgt
             /\ e.session = <<e.session[1], None>>
             /\ e.outcome \in Outcome
  <2>1. e \in ReadGraph /\ e.type = "dispatch_completed"
    BY DEF Of
  <2>2. PICK d \in done : KeyOfCall(d[1], d[2]) = Key(e) /\ d[1].outcome = e.outcome
    BY <2>1, Remembered
  <2>3. EventSession(d[1], d[2]) = e.session /\ d[1].unit = e.tgt /\ EdgeTypeOf[d[1].cmd] = e.type
    BY <2>2, SameKey
  <2>4. d[1].cmd = "dispatch-end" /\ d[1].outcome \in Outcome
    BY <2>1, <2>3, TypeTellsCommand DEF Safe
  <2>5. e.session = <<d[1].session, None>>
    BY <2>3, <2>4 DEF EventSession
  <2>6. e.session[1] = d[1].session
    BY <2>5
  <2> QED
    BY <2>2, <2>3, <2>4, <2>5, <2>6 DEF Recorded
<1>3. ASSUME NEW d \in D PROVE \E e \in C : d[1].session = e.session[1] /\ d[1].unit = e.tgt
  <2>1. d \in done /\ d[1].cmd = "dispatch-end"
    BY DEF Recorded
  <2>2. PICK e \in ReadGraph : Key(e) = KeyOfCall(d[1], d[2])
    BY <2>1, Remembered
  <2>3. EventSession(d[1], d[2]) = e.session /\ d[1].unit = e.tgt /\ EdgeTypeOf[d[1].cmd] = e.type
    BY <2>2, SameKey
  <2>4. e.type = "dispatch_completed" /\ e.session[1] = d[1].session
    BY <2>1, <2>3, TypeTellsCommand DEF Safe
  <2> QED
    BY <2>2, <2>3, <2>4 DEF Of
<1>4. ASSUME NEW e \in C, NEW x \in C, pair[e] = pair[x] PROVE e = x
  <2>1. e.session[1] = x.session[1] /\ e.tgt = x.tgt
    BY <1>4
  <2>2. e.session = x.session
    BY <1>2, <2>1
  <2>3. e \in ReadGraph /\ x \in ReadGraph /\ e.type = x.type
    BY DEF Of
  <2> QED
    BY <2>1, <2>2, <2>3, SameKey, Remembered
<1>5. pair \in [C -> P] /\ \A z \in P : \E e \in C : pair[e] = z
  BY <1>2, <1>3
<1>6. Cardinality(P) = Cardinality(C)
  <2> HIDE DEF C, P, pair
  <2> QED
    BY <1>1, <1>4, <1>5, PairedOff
<1>7. /\ C = (Part("solved") \cup Part("partial")) \cup Part("blocked")
      /\ Part("solved") \cap Part("partial") = {}
      /\ (Part("solved") \cup Part("partial")) \cap Part("blocked") = {}
  BY <1>2 DEF Outcome
<1>8. \A o : Dispatches(o) = Cardinality(Part(o)) /\ IsFiniteSet(Part(o))
  BY <1>1, FS_Subset DEF Dispatches
<1> HIDE DEF C, Part
<1>9. \A o : Cardinality(Part(o)) \in Nat
  BY <1>8, FS_CardinalityType
<1>10. /\ IsFiniteSet(Part("solved") \cup Part("partial"))
       /\ Cardinality(Part("solved") \cup Part("partial"))
            = Cardinality(Part("solved")) + Cardinality(Part("partial"))
  BY <1>7, <1>8, DisjointUnion
<1>11. Cardinality(C) = Cardinality(Part("solved") \cup Part("partial")) + Cardinality(Part("blocked"))
  BY <1>7, <1>8, <1>10, DisjointUnion
<1>12. Dispatches("solved") + Dispatches("partial") + Dispatches("blocked") = Cardinality(C)
  BY <1>8, <1>9, <1>10, <1>11
<1> QED
  BY <1>6, <1>12 DEF C

\* The rates retro quotes are over what happened: each unit a session ended counts
\* once, each send-back as one event and its problem once, and no rate exceeds one.
THEOREM RatesAreTrue == ASSUME MaxWriters = 1 PROVE Spec => []RatesAreSound
<1>1. ASSUME Safe, LogInv, NoneAtWork
      PROVE  /\ Rework.problems = {d[1].unit : d \in Recorded("rework")}
             /\ Rework.problems \subseteq Problems
  <2> DEFINE W == Of("rework")
  <2>1. ASSUME NEW e \in W PROVE \E d \in Recorded("rework") : d[1].unit = e.tgt
    <3>1. e \in ReadGraph /\ e.type = "rework"
      BY DEF Of
    <3>2. PICK d \in done : KeyOfCall(d[1], d[2]) = Key(e)
      BY <1>1, <3>1, Remembered
    <3> QED
      BY <1>1, <3>1, <3>2, SameKey, TypeTellsCommand DEF Safe, Recorded
  <2>2. ASSUME NEW d \in Recorded("rework") PROVE \E e \in W : d[1].unit = e.tgt
    <3>1. d \in done /\ d[1].cmd = "rework"
      BY DEF Recorded
    <3>2. PICK e \in ReadGraph : Key(e) = KeyOfCall(d[1], d[2])
      BY <1>1, <3>1, Remembered
    <3> QED
      BY <1>1, <3>1, <3>2, SameKey, TypeTellsCommand DEF Safe, Of
  <2>3. W \subseteq {x \in ReadGraph : x.type # "labeled"}
    BY DEF Of
  <2>4. Rework.problems = {e.tgt : e \in W}
    BY DEF Rework
  <2> HIDE DEF W
  <2>5. {e.tgt : e \in W} = {d[1].unit : d \in Recorded("rework")}
    BY <2>1, <2>2
  <2>6. {e.tgt : e \in W} \subseteq Problems
    BY <2>3 DEF Problems
  <2> QED
    BY <2>4, <2>5, <2>6
<1>2. ASSUME Safe, LogInv, NoneAtWork
      PROVE  Rework.events = Cardinality(Recorded("rework"))
  <2>1. Cardinality({e \in ReadGraph : e.type = "rework" /\ e.tgt \in Unit})
          = Cardinality({d \in done : d[1].cmd = "rework" /\ d[1].unit \in Unit})
    BY <1>2, ReworkCounted
  <2>2. {e \in ReadGraph : e.type = "rework" /\ e.tgt \in Unit} = Of("rework")
    BY <1>2, Remembered DEF Of, Edge
  <2>3. {d \in done : d[1].cmd = "rework" /\ d[1].unit \in Unit} = Recorded("rework")
    BY <1>2, TypeTellsCommand DEF Recorded, Safe
  <2> QED
    BY <2>1, <2>2, <2>3 DEF Rework
<1>3. Safe /\ LogInv => RatesAreSound
  BY <1>1, <1>2, EndsCounted DEF RatesAreSound
<1> QED
  BY <1>3, LogInvariant, PTL

-------------------------------------------------------------------------------
(* metrics: latencies and their percentiles *)

Measured(S) == IsFiniteSet(S) /\ \A x \in S : x.ms \in Int

\* The samples up to a value, and those below it.
UpTo(S, v) == {x \in S : x.ms <= v}
Below(S, v) == {x \in S : x.ms < v}

LEMMA CountsGrow ==
  ASSUME NEW S, Measured(S), NEW v \in Int, NEW w \in Int, v < w
  PROVE  /\ Cardinality(UpTo(S, v)) <= Cardinality(Below(S, w))
         /\ Cardinality(Below(S, w)) <= Cardinality(UpTo(S, w))
         /\ Cardinality(UpTo(S, v)) \in Nat /\ Cardinality(Below(S, w)) \in Nat
         /\ Cardinality(UpTo(S, w)) \in Nat /\ Cardinality(S) \in Nat
         /\ Cardinality(UpTo(S, w)) <= Cardinality(S)
         /\ (\E x \in S : x.ms = w) => Cardinality(Below(S, w)) < Cardinality(UpTo(S, w))
<1>0. IsFiniteSet(S) /\ \A x \in S : x.ms \in Int
  BY DEF Measured
<1>1. UpTo(S, v) \in SUBSET Below(S, w)
  BY <1>0 DEF UpTo, Below
<1>2. Below(S, w) \in SUBSET UpTo(S, w)
  BY <1>0 DEF UpTo, Below
<1>3. UpTo(S, w) \in SUBSET S
  BY DEF UpTo
<1>4. IsFiniteSet(UpTo(S, w)) /\ Cardinality(UpTo(S, w)) <= Cardinality(S)
  BY <1>0, <1>3, FS_Subset
<1>5. IsFiniteSet(Below(S, w)) /\ Cardinality(Below(S, w)) <= Cardinality(UpTo(S, w))
      /\ (Cardinality(UpTo(S, w)) = Cardinality(Below(S, w)) => UpTo(S, w) = Below(S, w))
  BY <1>2, <1>4, FS_Subset
<1>6. IsFiniteSet(UpTo(S, v)) /\ Cardinality(UpTo(S, v)) <= Cardinality(Below(S, w))
  BY <1>1, <1>5, FS_Subset
<1>7. /\ Cardinality(UpTo(S, v)) \in Nat /\ Cardinality(Below(S, w)) \in Nat
      /\ Cardinality(UpTo(S, w)) \in Nat /\ Cardinality(S) \in Nat
  BY <1>0, <1>4, <1>5, <1>6, FS_CardinalityType
<1>8. (\E x \in S : x.ms = w) => UpTo(S, w) # Below(S, w)
  <2>1. ASSUME NEW x \in S, x.ms = w
        PROVE  x \in UpTo(S, w) /\ x \notin Below(S, w)
    BY <2>1, <1>0 DEF UpTo, Below
  <2> QED
    BY <2>1
<1> QED
  BY <1>4, <1>5, <1>6, <1>7, <1>8

\* A set of numbers that is not empty has a least member.
LEMMA LeastOf ==
  ASSUME NEW N \in SUBSET Nat, N # {}
  PROVE  \E m \in N : \A k \in N : m <= k
<1> DEFINE R == OpToRel(<, Nat)
<1>1. IsWellFoundedOn(R, Nat)
  BY NatLessThanWellFounded
<1>2. \A y, z \in Nat : y < z => <<y, z>> \in R
  BY Zenon DEF OpToRel
<1>3. PICK m \in N : \A y \in N : ~ (<<y, m>> \in R)
  <2> HIDE DEF R
  <2> QED
    BY <1>1, WFMin
<1> HIDE DEF R
<1>4. \A k \in N : ~ (k < m)
  BY <1>2, <1>3
<1> QED
  BY <1>4

\* Of finitely many samples one is the largest, and one the smallest of those with k below or at them.
LEMMA LargestOf ==
  ASSUME NEW S, Measured(S), S # {}
  PROVE  \E x \in S : \A y \in S : y.ms <= x.ms
<1> DEFINE n == Cardinality(S)
           N == {n - Cardinality(UpTo(S, x.ms)) : x \in S}
<1>1. ASSUME NEW x \in S
      PROVE  x.ms \in Int /\ Cardinality(UpTo(S, x.ms)) \in Nat /\ n \in Nat
             /\ Cardinality(UpTo(S, x.ms)) <= n
  <2>1. x.ms \in Int /\ x.ms - 1 \in Int /\ x.ms - 1 < x.ms
    BY DEF Measured
  <2> QED
    BY <2>1, CountsGrow
<1>2. N \in SUBSET Nat /\ N # {}
  <2>1. \A x \in S : n - Cardinality(UpTo(S, x.ms)) \in Nat
    BY <1>1
  <2> QED
    BY <2>1
<1>3. PICK m \in N : \A k \in N : m <= k
  <2> HIDE DEF N
  <2> QED
    BY <1>2, LeastOf
<1>4. PICK x \in S : m = n - Cardinality(UpTo(S, x.ms))
  BY <1>3
<1>5. ASSUME NEW y \in S, x.ms < y.ms
      PROVE  FALSE
  <2>1. Cardinality(UpTo(S, x.ms)) <= Cardinality(Below(S, y.ms))
        /\ Cardinality(Below(S, y.ms)) < Cardinality(UpTo(S, y.ms))
        /\ Cardinality(Below(S, y.ms)) \in Nat
    BY <1>1, <1>5, CountsGrow
  <2>2. m <= n - Cardinality(UpTo(S, y.ms))
    BY <1>3
  <2> QED
    BY <1>1, <1>4, <2>1, <2>2
<1> QED
  BY <1>1, <1>5

\* The k-th value is a sample's, with fewer than k samples below and at least k up to it.
LEMMA NthIsRight ==
  ASSUME NEW S, Measured(S), NEW k \in 1 .. Cardinality(S)
  PROVE  /\ \E x \in S : Nth(S, k) = x.ms
         /\ Nth(S, k) \in Int
         /\ Cardinality(Below(S, Nth(S, k))) < k
         /\ k <= Cardinality(UpTo(S, Nth(S, k)))
<1> DEFINE n == Cardinality(S)
           N == {Cardinality(UpTo(S, x.ms)) : x \in {y \in S : k <= Cardinality(UpTo(S, y.ms))}}
<1>0. IsFiniteSet(S) /\ n \in Nat /\ k \in Nat /\ 1 <= k /\ k <= n /\ S # {}
  <2>1. IsFiniteSet(S) /\ n \in Nat
    BY FS_CardinalityType DEF Measured
  <2>2. k \in Nat /\ 1 <= k /\ k <= n
    BY <2>1
  <2> QED
    BY <2>1, <2>2, FS_EmptySet
<1>1. ASSUME NEW x \in S
      PROVE  /\ x.ms \in Int /\ Cardinality(UpTo(S, x.ms)) \in Nat
             /\ Cardinality(Below(S, x.ms)) \in Nat
  <2>1. x.ms \in Int /\ x.ms - 1 \in Int /\ x.ms - 1 < x.ms
    BY DEF Measured
  <2> QED
    BY <2>1, CountsGrow
<1>2. N \in SUBSET Nat
  BY <1>1
<1>3. N # {}
  <2>1. PICK x \in S : \A y \in S : y.ms <= x.ms
    BY <1>0, LargestOf
  <2>2. UpTo(S, x.ms) = S
    BY <2>1 DEF UpTo
  <2> QED
    BY <1>0, <2>2
<1>4. PICK m \in N : \A j \in N : m <= j
  <2> HIDE DEF N
  <2> QED
    BY <1>2, <1>3, LeastOf
<1>5. PICK x \in S : k <= Cardinality(UpTo(S, x.ms)) /\ m = Cardinality(UpTo(S, x.ms))
  BY <1>4
<1>6. Cardinality(Below(S, x.ms)) < k
  <2> SUFFICES ASSUME k <= Cardinality(Below(S, x.ms))
               PROVE  FALSE
    BY <1>0, <1>1
  <2> DEFINE L == Below(S, x.ms)
  <2>1. L \in SUBSET S
    BY DEF Below
  <2>2. IsFiniteSet(L)
    <3> HIDE DEF L
    <3> QED
      BY <1>0, <2>1, FS_Subset
  <2>3. L # {}
    BY <1>0, FS_EmptySet
  <2>4. Measured(L)
    BY <1>1, <2>1, <2>2 DEF Measured
  <2>5. PICK y \in L : \A z \in L : z.ms <= y.ms
    <3> HIDE DEF L
    <3> QED
      BY <2>3, <2>4, LargestOf
  <2>6. y \in S /\ y.ms \in Int /\ y.ms < x.ms
    BY <1>1, <2>5 DEF Below
  <2>7. UpTo(S, y.ms) = L
    <3>1. ASSUME NEW z \in S, z.ms <= y.ms
          PROVE  z.ms < x.ms
      BY <3>1, <1>1, <2>6
    <3>2. UpTo(S, y.ms) \subseteq L
      BY <3>1 DEF UpTo, Below
    <3>3. L \subseteq UpTo(S, y.ms)
      BY <2>1, <2>5 DEF UpTo
    <3> QED
      BY <3>2, <3>3
  <2>8. Cardinality(UpTo(S, y.ms)) \in N
    BY <2>6, <2>7
  <2>9. Cardinality(L) < m
    BY <1>1, <1>5, <2>6, CountsGrow
  <2> QED
    BY <1>1, <1>4, <1>5, <2>6, <2>7, <2>8, <2>9
<1>7. \E v \in {z.ms : z \in S} : /\ Cardinality(Below(S, v)) < k
                                  /\ k <= Cardinality(UpTo(S, v))
  BY <1>5, <1>6
<1>8. /\ Nth(S, k) \in {z.ms : z \in S}
      /\ Cardinality(Below(S, Nth(S, k))) < k
      /\ k <= Cardinality(UpTo(S, Nth(S, k)))
  BY <1>7 DEF Nth, Below, UpTo
<1>9. PICK z \in S : Nth(S, k) = z.ms
  BY <1>8
<1> QED
  BY <1>1, <1>8, <1>9

LEMMA NthGrows ==
  ASSUME NEW S, Measured(S), NEW j \in 1 .. Cardinality(S), NEW k \in 1 .. Cardinality(S), j <= k
  PROVE  Nth(S, j) <= Nth(S, k)
<1> DEFINE v == Nth(S, j)
           w == Nth(S, k)
<1>1. /\ v \in Int /\ Cardinality(Below(S, v)) < j
      /\ w \in Int /\ k <= Cardinality(UpTo(S, w))
  BY NthIsRight
<1>2. Cardinality(S) \in Nat /\ j \in Nat /\ k \in Nat
  BY FS_CardinalityType DEF Measured
<1> HIDE DEF v, w
<1>3. ASSUME w < v
      PROVE  FALSE
  <2>1. /\ Cardinality(UpTo(S, w)) <= Cardinality(Below(S, v))
        /\ Cardinality(UpTo(S, w)) \in Nat /\ Cardinality(Below(S, v)) \in Nat
    BY <1>1, <1>3, CountsGrow
  <2> QED
    BY <1>1, <1>2, <2>1
<1>4. v <= w
  BY <1>1, <1>3
<1> QED
  BY <1>4 DEF v, w

\* A value between two others, by a fraction of a hundred, is no smaller for a larger one.
LEMMA BetweenTwo ==
  ASSUME NEW a \in Int, NEW b \in Int, a <= b, NEW f \in 0 .. 99, NEW g \in 0 .. 99, f <= g
  PROVE  /\ a * 100 <= a * 100 + (b - a) * f
         /\ a * 100 + (b - a) * f <= a * 100 + (b - a) * g
         /\ a * 100 + (b - a) * g <= b * 100
         /\ a * 100 + (b - a) * f \in Int /\ a * 100 + (b - a) * g \in Int
<1> DEFINE d == b - a
           p == d * f
           q == d * g
<1>1. d \in Nat /\ f \in Nat /\ g \in Nat /\ g <= 100
  OBVIOUS
<1> HIDE DEF d
<1>2. p \in Int /\ q \in Int /\ 0 <= p
  BY <1>1
<1>3. p <= q
  <2>1. g - f \in Nat /\ d * (g - f) >= 0
    BY <1>1
  <2>2. d * (g - f) = d * g - d * f
    BY <1>1
  <2> QED
    BY <1>2, <2>1, <2>2
<1>4. q <= d * 100
  <2>1. 100 - g \in Nat /\ d * (100 - g) >= 0
    BY <1>1
  <2>2. d * (100 - g) = d * 100 - d * g
    BY <1>1
  <2> QED
    BY <1>1, <1>2, <2>1, <2>2
<1>5. a * 100 + d * 100 = b * 100
  BY <1>1 DEF d
<1> HIDE DEF p, q
<1>6. /\ a * 100 <= a * 100 + p /\ a * 100 + p <= a * 100 + q /\ a * 100 + q <= b * 100
      /\ a * 100 + p \in Int /\ a * 100 + q \in Int
  BY <1>1, <1>2, <1>3, <1>4, <1>5
<1> QED
  BY <1>6 DEF p, q, d

\* The rank a percentile starts from, of n samples.
RankOf(n, p) == (((n - 1) * p) \div 100) + 1
NextRank(n, p) == IF RankOf(n, p) < n THEN RankOf(n, p) + 1 ELSE n

LEMMA RanksOfPercentile ==
  ASSUME NEW n \in Nat \ {0}, NEW p \in 0 .. 99
  PROVE  /\ RankOf(n, p) \in 1 .. n /\ NextRank(n, p) \in 1 .. n
         /\ RankOf(n, p) <= NextRank(n, p)
         /\ ((n - 1) * p) % 100 \in 0 .. 99
         /\ (n - 1) * p = 100 * (RankOf(n, p) - 1) + (((n - 1) * p) % 100)
<1> DEFINE m == n - 1
           k == m * p
           q == k \div 100
           r == k % 100
<1>1. m \in Nat /\ p \in Nat /\ p <= 100
  OBVIOUS
<1>2. k \in Nat /\ k <= 100 * m
  <2>1. k \in Int /\ k >= 0
    BY <1>1
  <2>2. m * (100 - p) >= 0 /\ m * (100 - p) = 100 * m - m * p
    BY <1>1
  <2> QED
    BY <1>1, <2>1, <2>2
<1> HIDE DEF m
<1>3. q \in Int /\ r \in 0 .. 99 /\ k = 100 * q + r
  <2> HIDE DEF k
  <2> QED
    BY <1>2
<1>4. q >= 0 /\ q <= m
  <2> HIDE DEF k, q, r
  <2> QED
    BY <1>1, <1>2, <1>3
<1>5. RankOf(n, p) = q + 1 /\ n = m + 1
  BY DEF RankOf, m
<1>6. ((n - 1) * p) % 100 = r /\ (n - 1) * p = k
  BY DEF m
<1> HIDE DEF k, q, r
<1>7. /\ RankOf(n, p) \in 1 .. n /\ NextRank(n, p) \in 1 .. n
      /\ RankOf(n, p) <= NextRank(n, p)
  BY <1>1, <1>4, <1>3, <1>5 DEF NextRank
<1>8. k = 100 * (RankOf(n, p) - 1) + r
  BY <1>3, <1>5
<1> QED
  BY <1>3, <1>6, <1>7, <1>8

\* A percentile lies within the samples, grows with p, and of two samples the median
\* is their mean.
LEMMA PercentilesAreSound ==
  ASSUME NEW S, Measured(S), S # {}
  PROVE  /\ \E x \in S : x.ms * 100 <= Percentile(S, 50)
         /\ Percentile(S, 50) <= Percentile(S, 90)
         /\ \E x \in S : Percentile(S, 90) <= x.ms * 100
         /\ \A x \in S : \A y \in S \ {x} :
              S = {x, y} => Percentile(S, 50) = 50 * (x.ms + y.ms)
<1> DEFINE n == Cardinality(S)
           lo(p) == Nth(S, RankOf(n, p))
           hi(p) == Nth(S, NextRank(n, p))
           at(p) == ((n - 1) * p) % 100
<1>1. n \in Nat \ {0}
  BY FS_CardinalityType, FS_EmptySet DEF Measured
<1>2. ASSUME NEW p \in 0 .. 99
      PROVE  /\ Percentile(S, p) = lo(p) * 100 + (hi(p) - lo(p)) * at(p)
             /\ at(p) \in 0 .. 99 /\ lo(p) \in Int /\ hi(p) \in Int /\ lo(p) <= hi(p)
             /\ (\E x \in S : lo(p) = x.ms) /\ (\E x \in S : hi(p) = x.ms)
  <2>1. Percentile(S, p) = lo(p) * 100 + (hi(p) - lo(p)) * at(p)
    BY DEF Percentile, RankOf, NextRank
  <2> HIDE DEF n
  <2>2. at(p) \in 0 .. 99
    BY <1>1, RanksOfPercentile
  <2>3. /\ RankOf(n, p) \in 1 .. n /\ NextRank(n, p) \in 1 .. n
        /\ RankOf(n, p) <= NextRank(n, p)
    BY <1>1, RanksOfPercentile
  <2>4. lo(p) \in Int /\ \E x \in S : lo(p) = x.ms
    BY <2>3, NthIsRight DEF n
  <2>5. hi(p) \in Int /\ \E x \in S : hi(p) = x.ms
    BY <2>3, NthIsRight DEF n
  <2>6. lo(p) <= hi(p)
    BY <2>3, NthGrows DEF n
  <2> QED
    BY <2>1, <2>2, <2>4, <2>5, <2>6
<1>3. Percentile(S, 50) <= Percentile(S, 90)
  <2>1. 50 \in 0 .. 99 /\ 90 \in 0 .. 99
    OBVIOUS
  <2> HIDE DEF n
  <2>2. /\ RankOf(n, 50) \in 1 .. n /\ RankOf(n, 90) \in 1 .. n
        /\ (n - 1) * 50 = 100 * (RankOf(n, 50) - 1) + at(50) /\ at(50) \in 0 .. 99
        /\ (n - 1) * 90 = 100 * (RankOf(n, 90) - 1) + at(90) /\ at(90) \in 0 .. 99
    BY <1>1, <2>1, RanksOfPercentile
  <2> HIDE DEF at
  <2>3. RankOf(n, 50) < RankOf(n, 90) \/ (RankOf(n, 50) = RankOf(n, 90) /\ at(50) <= at(90))
    <3> DEFINE j == RankOf(n, 50)
               k == RankOf(n, 90)
               f == at(50)
               g == at(90)
    <3>1. /\ j \in Int /\ k \in Int /\ f \in 0 .. 99 /\ g \in 0 .. 99
          /\ n * 50 - 50 = 100 * j - 100 + f
          /\ n * 90 - 90 = 100 * k - 100 + g
      BY <1>1, <2>2
    <3> HIDE DEF j, k, f, g
    <3>2. j < k \/ (j = k /\ f <= g)
      BY <1>1, <3>1
    <3> QED
      BY <3>2 DEF j, k, f, g
  <2>4. ASSUME RankOf(n, 50) = RankOf(n, 90), at(50) <= at(90)
        PROVE  Percentile(S, 50) <= Percentile(S, 90)
    <3>1. lo(50) = lo(90) /\ hi(50) = hi(90)
      BY <2>4 DEF NextRank
    <3>2. /\ Percentile(S, 50) = lo(90) * 100 + (hi(90) - lo(90)) * at(50)
          /\ Percentile(S, 90) = lo(90) * 100 + (hi(90) - lo(90)) * at(90)
          /\ lo(90) \in Int /\ hi(90) \in Int /\ lo(90) <= hi(90)
      BY <1>2, <2>1, <3>1
    <3> HIDE DEF lo, hi
    <3> QED
      BY <2>2, <2>4, <3>2, BetweenTwo
  <2>5. ASSUME RankOf(n, 50) < RankOf(n, 90)
        PROVE  Percentile(S, 50) <= Percentile(S, 90)
    <3>1. NextRank(n, 50) = RankOf(n, 50) + 1 /\ NextRank(n, 50) <= RankOf(n, 90)
          /\ NextRank(n, 50) \in 1 .. n
      BY <1>1, <2>2, <2>5 DEF NextRank
    <3>2. hi(50) <= lo(90)
      BY <2>2, <3>1, NthGrows DEF n
    <3>3. /\ Percentile(S, 50) = lo(50) * 100 + (hi(50) - lo(50)) * at(50)
          /\ Percentile(S, 90) = lo(90) * 100 + (hi(90) - lo(90)) * at(90)
          /\ lo(90) \in Int /\ hi(90) \in Int /\ lo(90) <= hi(90)
          /\ lo(50) \in Int /\ hi(50) \in Int /\ lo(50) <= hi(50)
      BY <1>2, <2>1
    <3> HIDE DEF lo, hi
    <3>4. /\ lo(50) * 100 + (hi(50) - lo(50)) * at(50) <= hi(50) * 100
          /\ lo(50) * 100 + (hi(50) - lo(50)) * at(50) \in Int
      BY <2>2, <3>3, BetweenTwo
    <3>5. /\ lo(90) * 100 <= lo(90) * 100 + (hi(90) - lo(90)) * at(90)
          /\ lo(90) * 100 + (hi(90) - lo(90)) * at(90) \in Int
      BY <2>2, <3>3, BetweenTwo
    <3>6. Percentile(S, 50) \in Int /\ Percentile(S, 50) <= hi(50) * 100
      BY <3>3, <3>4
    <3>7. Percentile(S, 90) \in Int /\ lo(90) * 100 <= Percentile(S, 90)
      BY <3>3, <3>5
    <3>8. hi(50) \in Int /\ lo(90) \in Int
      BY <3>3
    <3> QED
      BY <3>2, <3>6, <3>7, <3>8
  <2> QED
    BY <2>3, <2>4, <2>5
<1>4. \E x \in S : x.ms * 100 <= Percentile(S, 50)
  <2>1. /\ Percentile(S, 50) = lo(50) * 100 + (hi(50) - lo(50)) * at(50)
        /\ at(50) \in 0 .. 99 /\ lo(50) \in Int /\ hi(50) \in Int /\ lo(50) <= hi(50)
        /\ \E x \in S : lo(50) = x.ms
    BY <1>2
  <2> HIDE DEF lo, hi, at
  <2>2. lo(50) * 100 <= lo(50) * 100 + (hi(50) - lo(50)) * at(50)
    BY <2>1, BetweenTwo
  <2>3. PICK x \in S : lo(50) = x.ms
    BY <2>1
  <2>4. x.ms * 100 <= Percentile(S, 50)
    BY <2>1, <2>2, <2>3
  <2> QED
    BY <2>4
<1>5. \E x \in S : Percentile(S, 90) <= x.ms * 100
  <2>1. /\ Percentile(S, 90) = lo(90) * 100 + (hi(90) - lo(90)) * at(90)
        /\ at(90) \in 0 .. 99 /\ lo(90) \in Int /\ hi(90) \in Int /\ lo(90) <= hi(90)
        /\ \E x \in S : hi(90) = x.ms
    BY <1>2
  <2> HIDE DEF lo, hi, at
  <2>2. lo(90) * 100 + (hi(90) - lo(90)) * at(90) <= hi(90) * 100
    BY <2>1, BetweenTwo
  <2>3. PICK x \in S : hi(90) = x.ms
    BY <2>1
  <2>4. Percentile(S, 90) <= x.ms * 100
    BY <2>1, <2>2, <2>3
  <2> QED
    BY <2>4
<1>6. ASSUME NEW x \in S, NEW y \in S \ {x}, S = {x, y}
      PROVE  Percentile(S, 50) = 50 * (x.ms + y.ms)
  <2>1. n = 2 /\ x.ms \in Int /\ y.ms \in Int /\ IsFiniteSet(S)
    <3>1. IsFiniteSet({x}) /\ Cardinality({x}) = 1 /\ y \notin {x} /\ {x} \cup {y} = S
      BY <1>6, FS_Singleton
    <3>2. n = 2
      BY <3>1, FS_AddElement
    <3> QED
      BY <3>2 DEF Measured
  <2>2. RankOf(n, 50) = 1 /\ NextRank(n, 50) = 2 /\ at(50) = 50
    BY <2>1 DEF RankOf, NextRank
  <2> DEFINE v == Nth(S, 1)
             w == Nth(S, 2)
  <2>3. Percentile(S, 50) = v * 100 + (w - v) * 50
    BY <1>2, <2>2
  <2>4. /\ v \in Int /\ (v = x.ms \/ v = y.ms) /\ Cardinality(Below(S, v)) < 1
        /\ w \in Int /\ (w = x.ms \/ w = y.ms) /\ 2 <= Cardinality(UpTo(S, w))
    <3>1. 1 \in 1 .. Cardinality(S) /\ 2 \in 1 .. Cardinality(S)
      BY <2>1
    <3> QED
      BY <1>6, <3>1, NthIsRight
  <2> HIDE DEF v, w
  <2>5. v <= x.ms /\ v <= y.ms
    <3>1. Below(S, v) \in SUBSET S
      BY DEF Below
    <3>2. IsFiniteSet(Below(S, v)) /\ Cardinality(Below(S, v)) \in Nat
      BY <2>1, <3>1, FS_Subset, FS_CardinalityType
    <3>3. Below(S, v) = {}
      BY <2>4, <3>2, FS_EmptySet
    <3>4. ~ (x.ms < v) /\ ~ (y.ms < v)
      BY <3>3 DEF Below
    <3> QED
      BY <2>1, <2>4, <3>4
  <2>6. x.ms <= w /\ y.ms <= w
    <3>1. UpTo(S, w) \in SUBSET S
      BY DEF UpTo
    <3>2. /\ IsFiniteSet(UpTo(S, w)) /\ Cardinality(UpTo(S, w)) \in Nat
          /\ Cardinality(UpTo(S, w)) <= 2
          /\ (2 = Cardinality(UpTo(S, w)) => S = UpTo(S, w))
      BY <2>1, <3>1, FS_Subset, FS_CardinalityType
    <3>3. S = UpTo(S, w)
      BY <2>4, <3>2
    <3> QED
      BY <3>3 DEF UpTo
  <2>7. v + w = x.ms + y.ms
    BY <2>1, <2>4, <2>5, <2>6
  <2> QED
    BY <2>1, <2>3, <2>4, <2>7
<1> QED
  BY <1>3, <1>4, <1>5, <1>6

\* The samples of both reports are finitely many, each with a number.
LEMMA SamplesAreMeasured ==
  ASSUME Safe, LogInv
  PROVE  Measured(DispatchToPr) /\ Measured(WallTimes)
<1> DEFINE P == ReadGraph \X ReadGraph
           ofPair == [x \in P |-> [edge |-> x[2], ms |-> x[2].ts - x[1].ts]]
           ofStart == [x \in P |-> [edge |-> x[1], ms |-> x[1].ts - x[2].ts]]
           carried == [e \in ReadGraph |-> [edge |-> e, ms |-> e.ms]]
           A == {ofPair[x] : x \in P}
           B == {ofStart[x] : x \in P}
           C == {carried[e] : e \in ReadGraph}
<1>0. ASSUME NEW S, NEW f, IsFiniteSet(S), f = [x \in S |-> f[x]]
      PROVE  IsFiniteSet({f[x] : x \in S})
  <2> DEFINE T == {f[x] : x \in S}
  <2>1. \A x \in S : f[x] \in T
    OBVIOUS
  <2>2. \A t \in T : \E x \in S : f[x] = t
    OBVIOUS
  <2> HIDE DEF T
  <2>3. f \in [S -> T]
    BY <1>0, <2>1
  <2>4. f \in Surjection(S, T)
    BY <2>2, <2>3 DEF Surjection
  <2>5. IsFiniteSet(T)
    BY <1>0, <2>4, FS_Surjection
  <2> QED
    BY <2>5 DEF T
<1>1. IsFiniteSet(ReadGraph) /\ IsFiniteSet(P)
  BY FiniteGraph, FS_Product
<1>2. IsFiniteSet(A)
  <2>1. ofPair = [x \in P |-> ofPair[x]]
    OBVIOUS
  <2> HIDE DEF ofPair, P
  <2> QED
    BY <2>1, <1>0, <1>1
<1>3. IsFiniteSet(B)
  <2>1. ofStart = [x \in P |-> ofStart[x]]
    OBVIOUS
  <2> HIDE DEF ofStart, P
  <2> QED
    BY <2>1, <1>0, <1>1
<1>4. IsFiniteSet(C)
  <2>1. carried = [x \in ReadGraph |-> carried[x]]
    OBVIOUS
  <2> HIDE DEF carried
  <2> QED
    BY <2>1, <1>0, <1>1
<1>5. \A e \in ReadGraph : e.ts \in Int /\ e.ms \in Int \cup {None}
  BY OnDisk, BoundsAssumption DEF Edge, Second
<1>6. \A x \in P : x[1] \in ReadGraph /\ x[2] \in ReadGraph
  OBVIOUS
<1>7. DispatchToPr \in SUBSET A
  <2> SUFFICES ASSUME NEW s \in DispatchToPr
               PROVE  s \in A
    OBVIOUS
  <2>1. PICK x \in Of("dispatch_started") \X Of("pr_opened") :
          s = [edge |-> x[2], ms |-> x[2].ts - x[1].ts]
    BY DEF DispatchToPr
  <2>2. x \in P /\ ofPair[x] = s
    BY <2>1 DEF Of
  <2> QED
    BY <2>2
<1>8. WallTimes \in SUBSET (B \cup C)
  <2> SUFFICES ASSUME NEW s \in WallTimes
               PROVE  s \in B \cup C
    OBVIOUS
  <2>1. \/ \E e \in Of("run_completed") : s = [edge |-> e, ms |-> e.ms]
        \/ \E x \in Of("run_completed") \X Of("dispatch_started") :
              s = [edge |-> x[1], ms |-> x[1].ts - x[2].ts]
    BY DEF WallTimes
  <2>2. ASSUME NEW e \in Of("run_completed"), s = [edge |-> e, ms |-> e.ms]
        PROVE  s \in C
    <3>1. e \in ReadGraph /\ carried[e] = s
      BY <2>2 DEF Of
    <3> QED
      BY <3>1
  <2>3. ASSUME NEW x \in Of("run_completed") \X Of("dispatch_started"),
               s = [edge |-> x[1], ms |-> x[1].ts - x[2].ts]
        PROVE  s \in B
    <3>1. x \in P /\ ofStart[x] = s
      BY <2>3 DEF Of
    <3> QED
      BY <3>1
  <2> QED
    BY <2>1, <2>2, <2>3
<1>9. \A s \in DispatchToPr : s.ms \in Int
  <2> SUFFICES ASSUME NEW s \in DispatchToPr
               PROVE  s.ms \in Int
    OBVIOUS
  <2>1. PICK x \in P : s = [edge |-> x[2], ms |-> x[2].ts - x[1].ts]
    BY <1>7
  <2>2. x[1].ts \in Int /\ x[2].ts \in Int
    BY <1>5, <1>6
  <2> QED
    BY <2>1, <2>2
<1>10. \A s \in WallTimes : s.ms \in Int
  <2> SUFFICES ASSUME NEW s \in WallTimes
               PROVE  s.ms \in Int
    OBVIOUS
  <2>1. \/ \E e \in ReadGraph : e.ms # None /\ s = [edge |-> e, ms |-> e.ms]
        \/ \E e, x \in ReadGraph : s = [edge |-> e, ms |-> e.ts - x.ts]
    BY DEF WallTimes, Of
  <2> QED
    BY <2>1, <1>5
<1> HIDE DEF A, B, C, P
<1>11. IsFiniteSet(DispatchToPr)
  BY <1>2, <1>7, FS_Subset
<1>12. IsFiniteSet(B \cup C)
  BY <1>3, <1>4, FS_Union
<1>13. IsFiniteSet(WallTimes)
  BY <1>8, <1>12, FS_Subset
<1> QED
  BY <1>9, <1>10, <1>11, <1>13 DEF Measured

\* The seconds at which a session recorded a command for a unit.
SecondsOf(cmd, s, u) == {d[2] : d \in {c \in RecordedFor(cmd, u) : c[1].session = s}}

\* A session's start, or pull request, of a unit has one edge: that of the latest.
LEMMA LatestOfSession ==
  ASSUME Safe, LogInv, NoneAtWork, NEW s \in Session, NEW u \in Unit, NEW cmd, NEW type,
         \/ cmd = "dispatch-start" /\ type = "dispatch_started"
         \/ cmd = "pr-opened" /\ type = "pr_opened",
         SecondsOf(cmd, s, u) # {}
  PROVE  \E e \in Of(type) : /\ e.session = <<s, None>> /\ e.tgt = u
                             /\ e.ts = Latest(SecondsOf(cmd, s, u))
<1> DEFINE D == {c \in RecordedFor(cmd, u) : c[1].session = s}
           times == {d[2] : d \in D}
<1>1. ASSUME NEW d \in done, EventSession(d[1], d[2]) = <<s, None>>, d[1].unit = u,
             EdgeTypeOf[d[1].cmd] = type
      PROVE  d \in D
  <2>1. d[1].cmd = cmd /\ d[1].session = s
    BY <1>1, TypeTellsCommand DEF Safe
  <2> QED
    BY <1>1, <2>1 DEF RecordedFor, Recorded
<1>2. ASSUME NEW d \in D
      PROVE  /\ d \in done /\ d[2] \in Second
             /\ KeyOfCall(d[1], d[2]) = <<<<s, None>>, u, type>>
  <2>1. d \in done /\ d[1].cmd = cmd /\ d[1].unit = u /\ d[1].session = s
    BY DEF RecordedFor, Recorded
  <2>2. d[2] \in Second
    BY <2>1, DoneIsTyped DEF Safe
  <2>3. EdgeTypeOf[d[1].cmd] = type /\ EventSession(d[1], d[2]) = <<s, None>>
    BY <2>1, TypeTellsCommand DEF Safe
  <2> QED
    BY <2>1, <2>2, <2>3 DEF KeyOfCall
<1>3. times \subseteq Second /\ times # {} /\ \A t \in Second : t \in Int
  BY <1>2, BoundsAssumption DEF Second, SecondsOf
<1>3a. times = SecondsOf(cmd, s, u)
  BY DEF SecondsOf
<1> HIDE DEF D
<1>4. Latest(times) \in times /\ \A t \in times : t <= Latest(times)
  <2> HIDE DEF times
  <2> QED
    BY <1>3, HasLatest
<1>5. PICK d \in D : d[2] = Latest(times)
  BY <1>4
<1>6. PICK e \in ReadGraph : Key(e) = <<<<s, None>>, u, type>> /\ e.ts >= d[2]
  BY <1>2, Remembered
<1>7. PICK x \in done : /\ KeyOfCall(x[1], x[2]) = Key(e)
                        /\ x[2] = e.ts
  BY Remembered
<1>8. EventSession(x[1], x[2]) = <<s, None>> /\ x[1].unit = u /\ EdgeTypeOf[x[1].cmd] = type
  BY <1>6, <1>7 DEF KeyOfCall
<1>9. e.session = <<s, None>> /\ e.tgt = u /\ e.type = type
  BY <1>6 DEF Key
<1>10. x \in D
  BY <1>1, <1>8
<1>11. e.ts \in times
  BY <1>7, <1>10
<1>12. e.ts = Latest(times)
  <2>1. e.ts <= Latest(times) /\ e.ts >= Latest(times)
    BY <1>4, <1>5, <1>6, <1>11
  <2>2. e.ts \in Int /\ Latest(times) \in Int
    BY <1>3, <1>4, <1>11
  <2> QED
    BY <2>1, <2>2
<1>13. e \in Of(type)
  BY <1>9 DEF Of
<1> QED
  BY <1>3a, <1>9, <1>12, <1>13

LEMMA LatenciesTellHolds ==
  ASSUME Safe, LogInv
  PROVE  LatenciesTell
<1>1. ASSUME NoneAtWork, NEW x \in DispatchToPr
      PROVE  /\ \A y \in DispatchToPr : x.edge = y.edge => x = y
             /\ \E d \in RecordedFor("dispatch-start", x.edge.tgt) :
                  x.edge.session = <<d[1].session, None>> /\ x.ms = x.edge.ts - d[2]
  <2>1. ASSUME NEW y \in DispatchToPr
        PROVE  \E a \in Of("dispatch_started"), b \in Of("pr_opened") :
                 /\ y = [edge |-> b, ms |-> b.ts - a.ts]
                 /\ a.tgt = b.tgt /\ a.session = b.session
    BY DEF DispatchToPr, SameRun
  <2>2. PICK a \in Of("dispatch_started"), b \in Of("pr_opened") :
          /\ x = [edge |-> b, ms |-> b.ts - a.ts]
          /\ a.tgt = b.tgt /\ a.session = b.session
    BY <2>1
  <2>3. ASSUME NEW y \in DispatchToPr, x.edge = y.edge
        PROVE  x = y
    <3>1. PICK a2 \in Of("dispatch_started"), b2 \in Of("pr_opened") :
            /\ y = [edge |-> b2, ms |-> b2.ts - a2.ts]
            /\ a2.tgt = b2.tgt /\ a2.session = b2.session
      BY <2>1
    <3>2. b = b2
      BY <2>2, <2>3, <3>1
    <3>3. Key(a) = Key(a2) /\ a \in ReadGraph /\ a2 \in ReadGraph
      BY <2>2, <3>1, <3>2 DEF Key, Of
    <3>4. a = a2
      BY <3>3, OnDisk
    <3> QED
      BY <2>2, <3>1, <3>2, <3>4
  <2>4. a \in ReadGraph /\ a.type = "dispatch_started"
    BY DEF Of
  <2>5. PICK d \in done : KeyOfCall(d[1], d[2]) = Key(a) /\ d[2] = a.ts
    BY <1>1, <2>4, Remembered
  <2>6. /\ EventSession(d[1], d[2]) = a.session /\ d[1].unit = a.tgt
        /\ EdgeTypeOf[d[1].cmd] = "dispatch_started"
    BY <2>4, <2>5 DEF KeyOfCall, Key
  <2>7. d[1].cmd = "dispatch-start" /\ a.session = <<d[1].session, None>>
    BY <2>6, TypeTellsCommand DEF Safe
  <2>8. d \in RecordedFor("dispatch-start", x.edge.tgt)
    BY <2>2, <2>6, <2>7 DEF RecordedFor, Recorded
  <2>9. x.edge.session = <<d[1].session, None>> /\ x.ms = x.edge.ts - d[2]
    BY <2>2, <2>5, <2>7
  <2> QED
    BY <2>3, <2>8, <2>9
<1>2. ASSUME NoneAtWork, NEW s \in Session, NEW u \in Unit
      PROVE  LET starts == {d[2] : d \in {c \in RecordedFor("dispatch-start", u) : c[1].session = s}}
                 opens  == {d[2] : d \in {c \in RecordedFor("pr-opened", u) : c[1].session = s}}
             IN  starts # {} /\ opens # {} /\ Latest(opens) >= Latest(starts) =>
                   \E x \in DispatchToPr : /\ x.edge.session = <<s, None>>
                                           /\ x.edge.tgt = u
                                           /\ x.ms = Latest(opens) - Latest(starts)
  <2> DEFINE starts == {d[2] : d \in {c \in RecordedFor("dispatch-start", u) : c[1].session = s}}
             opens  == {d[2] : d \in {c \in RecordedFor("pr-opened", u) : c[1].session = s}}
             from == Latest(starts)
             to == Latest(opens)
  <2> SUFFICES ASSUME starts # {}, opens # {}, to >= from
               PROVE  \E x \in DispatchToPr : /\ x.edge.session = <<s, None>>
                                              /\ x.edge.tgt = u
                                              /\ x.ms = to - from
    OBVIOUS
  <2>0. starts = SecondsOf("dispatch-start", s, u) /\ opens = SecondsOf("pr-opened", s, u)
    BY DEF SecondsOf
  <2> HIDE DEF starts, opens
  <2>1. PICK a \in Of("dispatch_started") :
          a.session = <<s, None>> /\ a.tgt = u /\ a.ts = from
    BY <1>2, <2>0, LatestOfSession
  <2>2. PICK b \in Of("pr_opened") :
          b.session = <<s, None>> /\ b.tgt = u /\ b.ts = to
    BY <1>2, <2>0, LatestOfSession
  <2> HIDE DEF from, to
  <2> DEFINE x == [edge |-> b, ms |-> b.ts - a.ts]
  <2>3. <<a, b>> \in {y \in Of("dispatch_started") \X Of("pr_opened") :
                       SameRun(y[1], y[2]) /\ y[2].ts >= y[1].ts}
    BY <2>1, <2>2 DEF SameRun
  <2>4. x \in DispatchToPr
    BY <2>3 DEF DispatchToPr
  <2>5. x.edge.session = <<s, None>> /\ x.edge.tgt = u /\ x.ms = to - from
    BY <2>1, <2>2
  <2> QED
    BY <2>4, <2>5
<1>3. ASSUME NEW samples \in {DispatchToPr, WallTimes}, samples # {}
      PROVE  /\ \E x \in samples : x.ms * 100 <= Percentile(samples, 50)
             /\ Percentile(samples, 50) <= Percentile(samples, 90)
             /\ \E x \in samples : Percentile(samples, 90) <= x.ms * 100
             /\ \A x \in samples : \A y \in samples \ {x} :
                  samples = {x, y} => Percentile(samples, 50) = 50 * (x.ms + y.ms)
  <2>1. Measured(samples)
    BY SamplesAreMeasured
  <2> QED
    BY <1>3, <2>1, PercentilesAreSound
<1> QED
  BY <1>1, <1>2, <1>3 DEF LatenciesTell

\* What retro and status quote of latencies is of the runs that took place: each is of
\* one session's latest start and pull request of a unit, none is counted twice or
\* measured across sessions, and the percentiles lie within the samples and in order.
THEOREM ReportsAreTrue == ASSUME MaxWriters = 1 PROVE Spec => []LatenciesTell
BY LogInvariant, LatenciesTellHolds, PTL
===============================================================================
