------------------------------ MODULE GraphStore ------------------------------
(***************************************************************************)
(* The execution-graph store of scripts/graph.py: one JSON file per        *)
(* session, written by short-lived CLI processes.  write_edges loads the   *)
(* whole file, merges one edge over its dedup key, and rewrites the file   *)
(* with Path.write_text, which truncates first and writes afterwards; no   *)
(* step holds a lock.  A process may die or meet an OSError at any step: a *)
(* file that cannot be read counts as empty, and is rewritten as such.     *)
(* An edge is [session, tgt, type, ts, outcome, ms]; src is a function of  *)
(* session and is left out.  A session is <<id, suffix>>: the suffix is    *)
(* None, or the second a rework event was stamped with.                    *)
(***************************************************************************)
EXTENDS Integers, FiniteSets

CONSTANTS
  Proc,        \* the CLI processes
  Session,     \* session ids ($SESSION)
  Unit,        \* Linear identifiers
  FileName,    \* session id |-> sanitised name: ids that differ only in "/", "\" and "__" share one
  Calls,       \* the command lines the orchestrator may issue
  MaxWriters,  \* processes that may be at work on one session file at a time
  MaxClock,    \* bound: seconds on the clock
  MaxCalls,    \* bound: invocations
  MaxFaults,   \* bound: processes that die or fail
  None         \* an absent value

Cmd == {"dispatch-start", "dispatch-end", "pr-opened", "run-end", "rework", "labeled"}
EndCmd == {"dispatch-end", "run-end"}
EdgeType == {"dispatch_started", "dispatch_completed", "pr_opened",
             "run_completed", "rework", "labeled"}
Outcome == {"solved", "partial", "blocked"}
\* --outcome is required of dispatch-end, and no other command takes it.
Call == {c \in [cmd : Cmd, session : Session, unit : Unit, outcome : Outcome \cup {None}] :
           c.cmd = "dispatch-end" <=> c.outcome # None}
Second == 0 .. MaxClock
SessionId == Session \X (Second \cup {None})
Edge == [session : SessionId, tgt : Unit, type : EdgeType, ts : Second,
         outcome : Outcome \cup {None}, ms : Int \cup {None}]
File == {FileName[s] : s \in Session} \X (Second \cup {None})

ASSUME CallsAssumption == Calls \subseteq Call
ASSUME NoneAssumption == None \notin Int /\ None \notin Outcome
ASSUME BoundsAssumption == /\ MaxWriters \in Nat \ {0}
                           /\ MaxClock \in Nat /\ MaxCalls \in Nat /\ MaxFaults \in Nat
                           /\ IsFiniteSet(Proc)
VARIABLES
  disk,    \* file |-> the edges _load reads from it: none from a file that is
           \* absent, emptied, cut short, or that does not parse
  job,     \* process |-> the invocation it is running
  clock,   \* _now_iso, in seconds
  calls,   \* invocations so far
  faults,  \* failures so far
  done,    \* history: <<call, ts>> of the invocations whose write landed, but for
           \* those whose file a writer that died, or could not read it, has emptied
  unread   \* history: <<call, ts>> of the end commands that could not read their file

vars == <<disk, job, clock, calls, faults, done, unread>>

\* Faulty variant of EdgeTypeOf: the command's name is taken for the edge's type.
CommandAsType == [c \in Cmd |-> c]

EdgeTypeOf == [c \in Cmd |->
  CASE c = "dispatch-start" -> "dispatch_started"
    [] c = "dispatch-end"   -> "dispatch_completed"
    [] c = "pr-opened"      -> "pr_opened"
    [] c = "run-end"        -> "run_completed"
    [] OTHER                -> c]

\* Faulty variant of EventSession: a rework event has no session of its own.
UnstampedSession(c, ts) == <<c.session, None>>

\* Each rework event is recorded under a session of its own.
EventSession(c, ts) == <<c.session, IF c.cmd = "rework" THEN ts ELSE None>>

SessionFile(sid) == <<FileName[sid[1]], sid[2]>>

Key(e) == <<e.session, e.tgt, e.type>>

ReadGraph == UNION {disk[f] : f \in File}

\* Faulty variants of Merge: the old edge wins; the key leaves out the type.
MergeOldWins(old, e) == IF \E x \in old : Key(x) = Key(e) THEN old ELSE old \cup {e}
MergeAcrossTypes(old, e) ==
  {x \in old : x.session # e.session \/ x.tgt # e.tgt} \cup {e}

\* The new edge wins on a duplicate key.
Merge(old, e) == {x \in old : Key(x) # Key(e)} \cup {e}

\* Faulty variant of Elapsed: any session's start will do.
ElapsedOfAnySession(c, ts) ==
  LET starts == {e \in ReadGraph : e.type = "dispatch_started" /\ e.tgt = c.unit}
  IN  IF starts = {} THEN None ELSE ts - (CHOOSE e \in starts : TRUE).ts

\* _cmd_dispatch_end, _cmd_run_end: the milliseconds (here seconds) since this
\* session's dispatch_started edge for the unit, if the graph shows one.
Elapsed(c, ts) ==
  LET starts == {e \in ReadGraph : /\ e.type = "dispatch_started"
                                   /\ e.session = <<c.session, None>>
                                   /\ e.tgt = c.unit}
  IN  IF starts = {} THEN None ELSE ts - (CHOOSE e \in starts : TRUE).ts

NewEdge(j) == [session |-> EventSession(j.call, j.ts), tgt |-> j.call.unit,
               type |-> EdgeTypeOf[j.call.cmd], ts |-> j.ts,
               outcome |-> j.call.outcome, ms |-> j.ms]

Target(j) == SessionFile(EventSession(j.call, j.ts))

\* What can be read of a file once the array "text" has been written over
\* "content" from offset 0: when another writer's longer array was there, its
\* tail stays behind and nothing parses.  (Which is longer is left open unless
\* one contains the other.)
WriteOver(content, text) ==
  (IF text \subseteq content /\ text # content THEN {} ELSE {text})
  \cup (IF content \subseteq text THEN {} ELSE {{}})

Idle == [pc |-> "idle"]
Busy == [pc : {"derive", "load", "blind", "truncate", "flush"}, call : Calls, ts : Second,
         ms : Int \cup {None}, old : SUBSET Edge]

Writers(f) == {p \in Proc : job[p] # Idle /\ Target(job[p]) = f}

-------------------------------------------------------------------------------

Init == /\ disk = [f \in File |-> {}]
        /\ job = [p \in Proc |-> Idle]
        /\ clock = 0
        /\ calls = 0
        /\ faults = 0
        /\ done = {}
        /\ unread = {}

Tick == /\ clock < MaxClock
        /\ clock' = clock + 1
        /\ UNCHANGED <<disk, job, calls, faults, done, unread>>

\* A command starts: it stamps its edge before it opens any file.
Invoke(p, c) ==
  LET j == [pc |-> IF c.cmd \in EndCmd THEN "derive" ELSE "load",
            call |-> c, ts |-> clock, ms |-> None, old |-> {}]
  IN  /\ job[p] = Idle
      /\ calls < MaxCalls
      /\ Cardinality(Writers(Target(j))) < MaxWriters
      /\ job' = [job EXCEPT ![p] = j]
      /\ calls' = calls + 1
      /\ UNCHANGED <<disk, clock, faults, done, unread>>

\* dispatch-end and run-end read the graph for the start of their clock.
Derive(p) ==
  /\ job[p].pc = "derive"
  /\ job' = [job EXCEPT ![p].pc = "load", ![p].ms = Elapsed(job[p].call, job[p].ts)]
  /\ UNCHANGED <<disk, clock, calls, faults, done, unread>>

\* _load meets an OSError on the session's file: for the end commands it shows no
\* start (DeriveBlind), for write_edges no edge at all (LoadFails).
Unreadable(p) == /\ faults < MaxFaults
                 /\ faults' = faults + 1
                 /\ unread' = unread \cup {d \in {<<job[p].call, job[p].ts>>} : d[1].cmd \in EndCmd}
                 /\ UNCHANGED <<disk, clock, calls, done>>

DeriveBlind(p) ==
  /\ job[p].pc = "derive"
  /\ Unreadable(p)
  /\ job' = [job EXCEPT ![p].pc = "load"]

LoadFails(p) ==
  /\ job[p].pc = "load"
  /\ Unreadable(p)
  /\ job' = [job EXCEPT ![p].pc = "blind", ![p].old = {}]

\* write_edges reads the session file and merges in memory.
LoadFile(p) ==
  /\ job[p].pc = "load"
  /\ job' = [job EXCEPT ![p].pc = "truncate", ![p].old = disk[Target(job[p])]]
  /\ UNCHANGED <<disk, clock, calls, faults, done, unread>>

\* write_text opens the file for writing, which empties it.
Truncate(p) ==
  /\ job[p].pc = "truncate"
  /\ disk' = [disk EXCEPT ![Target(job[p])] = {}]
  /\ job' = [job EXCEPT ![p].pc = "flush"]
  /\ UNCHANGED <<clock, calls, faults, done, unread>>

\* What a file held is gone, and with it what earlier commands recorded there.
Empty(f) == /\ disk' = [disk EXCEPT ![f] = {}]
            /\ done' = {d \in done : SessionFile(EventSession(d[1], d[2])) # f}

\* write_text empties the file that could not be read: only the new edge is left to
\* be written.
Overwrite(p) ==
  /\ job[p].pc = "blind"
  /\ Empty(Target(job[p]))
  /\ job' = [job EXCEPT ![p].pc = "flush"]
  /\ UNCHANGED <<clock, calls, faults, unread>>

\* write_text's buffer reaches the file and the command exits 0.
Flush(p) ==
  /\ job[p].pc = "flush"
  /\ \E content \in WriteOver(disk[Target(job[p])], Merge(job[p].old, NewEdge(job[p]))) :
       disk' = [disk EXCEPT ![Target(job[p])] = content]
  /\ job' = [job EXCEPT ![p] = Idle]
  /\ done' = done \cup {<<job[p].call, job[p].ts>>}
  /\ UNCHANGED <<clock, calls, faults, unread>>

\* The process is killed, or an OSError is logged and swallowed: nothing after
\* the truncation is guaranteed to have reached the file.
Abort(p) ==
  /\ job[p] # Idle
  /\ faults < MaxFaults
  /\ IF job[p].pc = "flush"
     THEN Empty(Target(job[p]))
     ELSE UNCHANGED <<disk, done>>
  /\ job' = [job EXCEPT ![p] = Idle]
  /\ faults' = faults + 1
  /\ UNCHANGED <<clock, calls, unread>>

Next == \/ Tick
        \/ \E p \in Proc : \/ \E c \in Calls : Invoke(p, c)
                           \/ Derive(p)
                           \/ DeriveBlind(p)
                           \/ LoadFile(p)
                           \/ LoadFails(p)
                           \/ Truncate(p)
                           \/ Overwrite(p)
                           \/ Flush(p)
                           \/ Abort(p)

Spec == Init /\ [][Next]_vars

-------------------------------------------------------------------------------
TypeOK == /\ disk \in [File -> SUBSET Edge]
          /\ job \in [Proc -> Busy \cup {Idle}]
          /\ clock \in Second
          /\ calls \in 0 .. MaxCalls
          /\ faults \in 0 .. MaxFaults
          /\ done \subseteq Calls \X Second
          /\ unread \subseteq Calls \X Second

NoneAtWork == \A p \in Proc : job[p] = Idle

KeyOfCall(c, ts) == <<EventSession(c, ts), c.unit, EdgeTypeOf[c.cmd]>>

\* What write_edges merges into a file survives every later command that can read
\* the file and lives to write it: once no process is at work, the graph holds an
\* edge for the key of each such command, no older than that command.
EdgesSurvive ==
  NoneAtWork => \A d \in done : \E e \in ReadGraph :
                  Key(e) = KeyOfCall(d[1], d[2]) /\ e.ts >= d[2]

\* A rework event never replaces another: the graph counts as many events for
\* a unit as rework commands were recorded for it, one per session and second.
ReworkAccumulates ==
  NoneAtWork => \A u \in Unit :
    Cardinality({e \in ReadGraph : e.type = "rework" /\ e.tgt = u})
      = Cardinality({d \in done : d[1].cmd = "rework" /\ d[1].unit = u})

StartsBefore(e) == {d \in done : /\ d[1].cmd = "dispatch-start"
                                 /\ d[1].session = e.session[1]
                                 /\ d[1].unit = e.tgt
                                 /\ d[2] <= e.ts}

\* The command that recorded an edge could not read its file.
Unread(e) == \E d \in unread : KeyOfCall(d[1], d[2]) = Key(e) /\ d[2] = e.ts

\* The latency an end command derives, when it can read its session's file, runs
\* from its session's most recent recorded start: it is never negative, never
\* measured from a start a later one replaced, and absent only if no start of an
\* earlier second was recorded.
LatencyExact ==
  \A e \in ReadGraph : e.type \in {"dispatch_completed", "run_completed"} /\ ~Unread(e) =>
    IF e.ms = None THEN \A d \in StartsBefore(e) : d[2] = e.ts
    ELSE /\ e.ms >= 0
         /\ \E d \in StartsBefore(e) : d[2] = e.ts - e.ms
         /\ \A d \in StartsBefore(e) : d[2] \in {e.ts - e.ms, e.ts} \/ d[2] < e.ts - e.ms

-------------------------------------------------------------------------------
\* With one writer per file at a time the store implements EdgeMemory: while a
\* file stands emptied its log is still what its writer loaded.
Rewriting(f) == {p \in Proc : job[p].pc = "flush" /\ Target(job[p]) = f}

Log(f) == IF Rewriting(f) # {} THEN job[CHOOSE p \in Rewriting(f) : TRUE].old
          ELSE disk[f]

Memory == INSTANCE EdgeMemory WITH log <- [f \in File |-> Log(f)],
                                   Lossy <- MaxFaults > 0

\* Every step of the CLI processes records one edge, loses the log of the file
\* whose writer died or could not read it, or changes nothing a reader of EdgeMemory can tell.
ImplementsMemory == Memory!EMSpec

===============================================================================
