------------------------------ MODULE GraphReads ------------------------------
(***************************************************************************)
(* What scripts/graph.py reads back from the execution graph: run_status,  *)
(* on which /backlogd:solve bases its resume, and metrics, which retro and *)
(* status report.  Both are functions of the edges on disk; the properties *)
(* compare them with the commands that were really carried out.            *)
(***************************************************************************)
EXTENDS GraphStore

Of(type) == {e \in ReadGraph : e.type = type}
At(type, u) == {e \in Of(type) : e.tgt = u}
Newest(edges) == CHOOSE e \in edges : \A x \in edges : x.ts <= e.ts
LatestTs(edges) == IF edges = {} THEN None ELSE Newest(edges).ts

\* Faulty variant of RunStatus: a start after the end reopens the unit, and a
\* unit that was ended and started again reads as in progress.
RunStatusReopened(u) ==
  LET starts == At("dispatch_started", u)
      ends   == At("dispatch_completed", u)
  IN  [state |-> IF ends # {} /\ \E e \in ends : \A s \in starts : s.ts <= e.ts THEN "completed"
                 ELSE IF starts # {} THEN "in-progress" ELSE "untouched",
       sessions |-> {e.session[1] : e \in starts \cup ends},
       lastStarted |-> LatestTs(starts),
       lastCompleted |-> LatestTs(ends),
       outcome |-> IF ends = {} THEN None ELSE Newest(ends).outcome]

\* run_status: one unit, over every session.  A completion counts whatever was
\* started after it, and the newest one's outcome is reported.
RunStatus(u) ==
  LET starts == At("dispatch_started", u)
      ends   == At("dispatch_completed", u)
  IN  [state |-> IF ends # {} THEN "completed"
                 ELSE IF starts # {} THEN "in-progress" ELSE "untouched",
       sessions |-> {e.session[1] : e \in starts \cup ends},
       lastStarted |-> LatestTs(starts),
       lastCompleted |-> LatestTs(ends),
       outcome |-> IF ends = {} THEN None ELSE Newest(ends).outcome]

-------------------------------------------------------------------------------
(* metrics *)

\* Faulty variant of SameRun: joined by problem alone.
SameProblem(a, b) == a.tgt = b.tgt

\* The joins are by (problem, session).
SameRun(a, b) == a.tgt = b.tgt /\ a.session = b.session

\* One latency per (problem, session): from its dispatch_started to its
\* pr_opened edge, unless the pull request is the older of the two.
DispatchToPr == {[edge |-> x[2], ms |-> x[2].ts - x[1].ts] :
                   x \in {y \in Of("dispatch_started") \X Of("pr_opened") :
                            SameRun(y[1], y[2]) /\ y[2].ts >= y[1].ts}}

\* The latency a run carries, or else the time since a start of that problem.
WallTimes ==
  {[edge |-> e, ms |-> e.ms] : e \in {r \in Of("run_completed") : r.ms # None /\ r.ms >= 0}}
  \cup {[edge |-> x[1], ms |-> x[1].ts - x[2].ts] :
          x \in {y \in Of("run_completed") \X Of("dispatch_started") :
                   /\ y[1].ms = None \/ y[1].ms < 0
                   /\ SameRun(y[1], y[2])
                   /\ y[1].ts >= y[2].ts}}

\* Faulty variant of Problems: a problem known only by its rework is left out.
ProblemsDispatched == {e.tgt : e \in Of("dispatch_started") \cup Of("dispatch_completed")
                                     \cup Of("pr_opened") \cup Of("run_completed")}

\* The denominator of the rework rate: problems with any edge but a label.
Problems == {e.tgt : e \in {x \in ReadGraph : x.type # "labeled"}}

Dispatches(outcome) == Cardinality({e \in Of("dispatch_completed") : e.outcome = outcome})

Rework == [events |-> Cardinality(Of("rework")), problems |-> {e.tgt : e \in Of("rework")}]

\* The k-th of the samples' values, counted from 1 in the order of "sorted".
Nth(samples, k) ==
  CHOOSE v \in {x.ms : x \in samples} : /\ Cardinality({x \in samples : x.ms < v}) < k
                                        /\ k <= Cardinality({x \in samples : x.ms <= v})

\* _percentile, a hundredfold: linear interpolation between the two samples
\* around (n - 1) * p / 100, or None of no samples.
Percentile(samples, p) ==
  LET n == Cardinality(samples)
      k == (n - 1) * p
      lo == (k \div 100) + 1
      hi == IF lo < n THEN lo + 1 ELSE n
  IN  IF samples = {} THEN None
      ELSE Nth(samples, lo) * 100 + (Nth(samples, hi) - Nth(samples, lo)) * (k % 100)

-------------------------------------------------------------------------------
Recorded(cmd) == {d \in done : d[1].cmd = cmd}
RecordedFor(cmd, u) == {d \in Recorded(cmd) : d[1].unit = u}

Latest(times) == CHOOSE t \in times : \A x \in times : x <= t

\* What the next run is told of a unit is what was done to it: it reads as
\* completed once any session has ended it, however often it was started since;
\* with the outcome of its latest end; as in progress if it was only started;
\* naming every session that did either, and no other; and as untouched if
\* neither was recorded.
RunStatusTells ==
  NoneAtWork => \A u \in Unit :
    LET starts == RecordedFor("dispatch-start", u)
        ends   == RecordedFor("dispatch-end", u)
        status == RunStatus(u)
    IN  /\ (ends # {}) => status.state = "completed"
        /\ (ends = {} /\ starts # {}) => status.state = "in-progress"
        /\ status.sessions = {d[1].session : d \in starts \cup ends}
        /\ (starts # {}) => status.lastStarted = Latest({d[2] : d \in starts})
        /\ (ends # {}) => status.lastCompleted = Latest({d[2] : d \in ends})
        /\ (ends # {}) => \E d \in ends : /\ d[1].outcome = status.outcome
                                         /\ d[2] = status.lastCompleted
        /\ (starts \cup ends = {}) => status.state = "untouched"

\* The rates retro quotes are over what happened: every unit a session ended
\* counts once, under one outcome; every send-back counts as an event, and its
\* problem once; and the problems with rework are among the problems, so that no
\* rate exceeds one.
RatesAreSound ==
  NoneAtWork =>
    /\ Cardinality({<<d[1].session, d[1].unit>> : d \in Recorded("dispatch-end")})
         = Dispatches("solved") + Dispatches("partial") + Dispatches("blocked")
    /\ Dispatches("solved") + Dispatches("partial") + Dispatches("blocked")
         = Cardinality(Of("dispatch_completed"))
    /\ Rework.problems = {d[1].unit : d \in Recorded("rework")}
    /\ Rework.problems \subseteq Problems
    /\ Rework.events = Cardinality(Recorded("rework"))

\* A dispatch-to-PR latency is of one run: where one session recorded both a
\* start and a pull request for a unit, it is the time between the last of
\* each, and it is counted once unless the unit was started again after the
\* pull request; none is ever measured from another session's start.  The
\* percentiles a report prints of these, and of the wall times, lie within the
\* samples and in order, and of two samples the median is their mean.
LatenciesTell ==
  /\ NoneAtWork =>
       /\ \A x \in DispatchToPr :
            /\ \A y \in DispatchToPr : x.edge = y.edge => x = y
            /\ \E d \in RecordedFor("dispatch-start", x.edge.tgt) :
                 x.edge.session = <<d[1].session, None>> /\ x.ms = x.edge.ts - d[2]
       /\ \A s \in Session, u \in Unit :
            LET starts == {d[2] : d \in {c \in RecordedFor("dispatch-start", u) : c[1].session = s}}
                opens  == {d[2] : d \in {c \in RecordedFor("pr-opened", u) : c[1].session = s}}
            IN  starts # {} /\ opens # {} /\ Latest(opens) >= Latest(starts) =>
                  \E x \in DispatchToPr : /\ x.edge.session = <<s, None>>
                                          /\ x.edge.tgt = u
                                          /\ x.ms = Latest(opens) - Latest(starts)
  /\ \A samples \in {DispatchToPr, WallTimes} : samples # {} =>
       /\ \E x \in samples : x.ms * 100 <= Percentile(samples, 50)
       /\ Percentile(samples, 50) <= Percentile(samples, 90)
       /\ \E x \in samples : Percentile(samples, 90) <= x.ms * 100
       /\ \A x \in samples : \A y \in samples \ {x} :
            samples = {x, y} => Percentile(samples, 50) = 50 * (x.ms + y.ms)

===============================================================================
