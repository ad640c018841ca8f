-------------------------------- MODULE Status --------------------------------
(***************************************************************************)
(* The signal layer of /backlogd:status: the `blocked` and                 *)
(* `manual-pending` labels it re-evaluates on every active problem (as     *)
(* scope and solve do on theirs), the clear-on-accept of review, and the   *)
(* forecast block it splices into the description of the team's Project    *)
(* (scripts/forecast.py, scripts/ac_parse.py).  A session reads an issue   *)
(* or a description, and writes it whole in a later call; nothing keeps    *)
(* the product owner or another session from writing in between.           *)
(***************************************************************************)
EXTENDS Integers, FiniteSets, Sequences

CONSTANTS
  Session,      \* orchestrator sessions
  Unit,         \* issues and sub-issues
  BlockedBy,    \* unit |-> the units its blocked-by relations point at
  Criteria,     \* the acceptance criteria a unit may have: sets of authored bullets
  Workspaces,   \* initial [labels, type, ac, description]
  OtherClosed,  \* problems beside Unit: closed this week, and queued
  OtherQueued,
  MaxEdits,     \* bound: changes people make, reviews and kills
  None          \* an absent value

Category == {"backlog", "unstarted", "started", "completed", "canceled"}
Active == {"unstarted", "started"}
Label == {"problem", "blocked", "manual-pending", "other"}
Signal == {"blocked", "manual-pending"}
Kind == {"test", "manual", "review"}

\* A bullet as it was written: the word in its leading brackets, how they are
\* wrapped, whether a space follows, and whether the body mentions [manual].
Bullet == [word : Kind \cup {"wip"}, wrap : {"none", "bare", "span", "double"},
           spaced : BOOLEAN, mention : BOOLEAN]

LineKind == {"h1", "h2", "text", "blank", "forecast", "row"}
Counts == [closed : Nat, started : Nat, unstarted : Nat, stalled : Nat]
Line == [kind : LineKind, val : Counts \cup {None}]

\* What get_issue with relations shows of a unit.
IssueRecord == [unit : Unit, labels : SUBSET Label, type : Category, ac : Criteria, open : BOOLEAN]

ASSUME UnitAssumption == IsFiniteSet(Unit) /\ BlockedBy \in [Unit -> SUBSET Unit]
ASSUME CriteriaAssumption == \A c \in Criteria : c \subseteq Bullet
ASSUME WorkspacesAssumption ==
  \A w \in Workspaces : /\ w.labels \in [Unit -> SUBSET Label] /\ w.type \in [Unit -> Category]
                        /\ w.ac \in [Unit -> Criteria] /\ w.description \in Seq(Line)
ASSUME NoneAssumption == None \notin IssueRecord /\ None \notin Session
ASSUME BoundsAssumption == OtherClosed \in Nat /\ OtherQueued \in Nat /\ MaxEdits \in Nat

VARIABLES
  labels,       \* unit |-> its labels in Linear
  type,         \* unit |-> the category of its state
  ac,           \* unit |-> its acceptance criteria
  description,  \* the Project's description, as lines
  run,          \* session |-> what it is doing and what it has read
  edits,        \* changes so far
  owed,         \* history: unit |-> the labels people have put on it
  orderly,      \* history: unit |-> no session wrote its labels over another's change
  accepted,     \* history: the units review has closed and nobody has touched since
  textOrderly,  \* history: no session wrote the description over a newer one of a person's
  judged,       \* history: unit |-> the issue as its last evaluation left it
  prose         \* history: what people wrote outside the block

linear == <<labels, type, ac, description>>
history == <<owed, orderly, accepted, textOrderly, judged, prose>>
vars == <<linear, run, edits, history>>

-------------------------------------------------------------------------------
(* ac_parse: the kind of one bullet, from the text Linear stores *)

\* Linear escapes a bracket outside a code span.
Brackets(word) == <<"esc", "[", word, "esc", "]">>
Stored(b) ==
  (CASE b.wrap = "none"   -> <<>>
     [] b.wrap = "bare"   -> Brackets(b.word)
     [] b.wrap = "span"   -> <<"tick", "[", b.word, "]", "tick">>
     [] b.wrap = "double" -> <<"tick", "tick", "[", b.word, "]", "tick", "tick">>)
  \o (IF b.spaced /\ b.wrap # "none" THEN <<"space">> ELSE <<>>) \o <<"body">>
  \o (IF b.mention THEN Brackets("manual") \o <<"space">> ELSE <<>>)

LeastOf(S) == CHOOSE x \in S : \A y \in S : x <= y

\* _strip_leading_code_span: a run of backticks around a bracketed token, at
\* the very start, is taken off.
StripSpan(t) ==
  LET n == Cardinality({i \in DOMAIN t : \A j \in 1 .. i : t[j] = "tick"})
      closes == {k \in n + 2 .. Len(t) - n : /\ t[k] = "]"
                                             /\ \A j \in 1 .. n : t[k + j] = "tick"}
      k == LeastOf(closes)
  IN  IF n > 0 /\ n < Len(t) /\ t[n + 1] = "[" /\ closes # {}
      THEN SubSeq(t, n + 1, k) \o SubSeq(t, k + n + 1, Len(t))
      ELSE t

\* _unescape_leading_brackets: the backslash before a leading bracket goes, and
\* the one before the first closing bracket after it.
Unescape(t) ==
  LET rest == Tail(t)
      closes == {k \in 1 .. Len(rest) - 1 : rest[k] = "esc" /\ rest[k + 1] = "]"}
      k == LeastOf(closes)
  IN  IF Len(t) < 2 \/ SubSeq(t, 1, 2) # <<"esc", "[">> THEN t
      ELSE IF closes = {} THEN rest
      ELSE SubSeq(rest, 1, k - 1) \o SubSeq(rest, k + 1, Len(rest))

\* Faulty variant of ExtractKind: the tag is looked for anywhere in the text.
ExtractAnywhere(t) ==
  IF \E i \in DOMAIN t : t[i] = "manual" THEN "manual" ELSE "review"

\* extract_kind: the kind in a leading "[kind] ", and review otherwise.
ExtractKind(t) ==
  LET n == Unescape(StripSpan(t))
  IN  IF Len(n) >= 4 /\ n[1] = "[" /\ n[2] \in Kind /\ n[3] = "]" /\ n[4] = "space"
      THEN n[2] ELSE "review"

-------------------------------------------------------------------------------
(* the label helpers *)

Issue(u) == [unit |-> u, labels |-> labels[u], type |-> type[u], ac |-> ac[u],
             open |-> \E b \in BlockedBy[u] : type[b] \notin {"completed", "canceled"}]

Guarded(i) == "problem" \in i.labels /\ i.type \in Active

\* Faulty variant of Delta: a label that is no longer wanted is left on.
DeltaAddOnly(i, label, wanted) ==
  [i EXCEPT !.labels = IF wanted /\ Guarded(i) THEN @ \cup {label} ELSE @]

\* Faulty variant of Delta: save_issue is given the labels the helper knows about.
DeltaKnownOnly(i, label, wanted) ==
  [i EXCEPT !.labels = IF ~Guarded(i) THEN @
                       ELSE ((@ \cap (Signal \cup {"problem"})) \ {label})
                            \cup (IF wanted THEN {label} ELSE {})]

\* The issue with one label put on or taken off, the others passed back verbatim.
Delta(i, label, wanted) ==
  [i EXCEPT !.labels = IF ~Guarded(i) THEN @
                       ELSE IF wanted THEN @ \cup {label} ELSE @ \ {label}]

HasManual(i) == \E b \in i.ac : ExtractKind(Stored(b)) = "manual"

\* What each helper saves, of the issue the calling command has read.
WithBlocked(i) == Delta(i, "blocked", i.open)
WithManual(i) == Delta(i, "manual-pending", HasManual(i))

\* When both of them write, the second takes the first one's label back; so this is
\* how the two leave an issue nobody else writes to.
Undone(i) == WithBlocked(i) # i /\ WithManual(i) # i
Left(i) == IF WithManual(i) # i THEN WithManual(i) ELSE WithBlocked(i)

-------------------------------------------------------------------------------
(* forecast *)

Plain(k) == [kind |-> k, val |-> None]

\* Faulty variant of HalfDays: the queue is drained in whole days, rounded down.
HalfDaysFloor(queue, closed) == 2 * ((7 * queue) \div closed)

\* _round_to_half of queue / (closed / 7), counted in half days, half up.  The
\* code divides floats: there an exact tie may come out half a day lower.
HalfDays(queue, closed) == (28 * queue + closed) \div (2 * closed)

\* compute_forecast: no ETA without a problem closed in the window.
Eta(n) == IF n.closed = 0 THEN None ELSE HalfDays(n.started + n.unstarted, n.closed)

\* render_block; its timestamp is left out.
Block(n) == <<Plain("forecast"), Plain("blank"), [kind |-> "row", val |-> n]>>

Blank(lines) == \A i \in DOMAIN lines : lines[i].kind = "blank"
LStrip(lines) == SubSeq(lines, Cardinality({i \in DOMAIN lines : Blank(SubSeq(lines, 1, i))}) + 1,
                        Len(lines))

\* Faulty variant of BlockEnd: the block runs on to the end of the description.
BlockEndOfFile(lines, start) ==
  CHOOSE e \in start .. Len(lines) : /\ lines[e].kind # "blank"
                                     /\ Blank(SubSeq(lines, e + 1, Len(lines)))

\* _find_block_span: up to the next level-2 heading, without trailing blanks.
BlockEnd(lines, start) ==
  LET next == {j \in start + 1 .. Len(lines) : lines[j].kind \in {"h2", "forecast"}}
      stop == IF next = {} THEN Len(lines) ELSE LeastOf(next) - 1
  IN  CHOOSE e \in start .. stop : /\ lines[e].kind # "blank"
                                   /\ Blank(SubSeq(lines, e + 1, stop))

Headings(lines) == {i \in DOMAIN lines : lines[i].kind = "forecast"}

\* Nobody has copied the block.
ASSUME HeadingsAssumption == \A w \in Workspaces : Cardinality(Headings(w.description)) <= 1

\* splice_forecast_block: the first block is replaced, or one is appended.
Splice(lines, block) ==
  LET start  == LeastOf(Headings(lines))
      suffix == SubSeq(lines, BlockEnd(lines, start) + 1, Len(lines))
  IN  IF Blank(lines) THEN block
      ELSE IF Headings(lines) = {} THEN lines \o <<Plain("blank")>> \o block
      ELSE SubSeq(lines, 1, start - 1) \o block
           \o (IF Blank(suffix) THEN <<>> ELSE <<Plain("blank")>> \o LStrip(suffix))

-------------------------------------------------------------------------------
Idle == [pc |-> "idle"]

Query == {"closed", "started", "unstarted", "stalled"}
NextQuery == [closed |-> "started", started |-> "unstarted", unstarted |-> "stalled",
              stalled |-> "read"]
NoCounts == [q \in Query |-> 0]

Problem(u) == "problem" \in labels[u]

\* The four list_issues queries, each over the whole team.
Answer(q) ==
  CASE q = "closed"  -> OtherClosed + Cardinality({u \in Unit : Problem(u) /\ type[u] = "completed"})
    [] q = "started" -> Cardinality({u \in Unit : Problem(u) /\ type[u] = "started"})
    [] q = "unstarted" ->
         OtherQueued + Cardinality({u \in Unit : Problem(u) /\ type[u] = "unstarted"})
    [] q = "stalled" -> Cardinality({u \in Unit : /\ Problem(u)
                                                  /\ type[u] \in Active
                                                  /\ "blocked" \in labels[u]})

\* What stands outside the first block: all but the lines from its heading up
\* to the next level-2 heading.
Outside(lines) ==
  LET inside(i) == \E h \in Headings(lines) :
        /\ h <= i
        /\ \A j \in Headings(lines) : h <= j
        /\ \A j \in h + 1 .. i : lines[j].kind \notin {"h2", "forecast"}
  IN  [i \in {j \in DOMAIN lines : ~inside(j) /\ lines[j].kind # "blank"} |-> lines[i]]

InOrder(f) == [k \in 1 .. Cardinality(DOMAIN f) |->
                 f[CHOOSE i \in DOMAIN f : Cardinality({j \in DOMAIN f : j <= i}) = k]]

Init == /\ \E w \in Workspaces : /\ labels = w.labels
                                 /\ type = w.type
                                 /\ ac = w.ac
                                 /\ description = w.description
        /\ run = [s \in Session |-> Idle]
        /\ edits = 0
        /\ owed = labels
        /\ orderly = [u \in Unit |-> TRUE]
        /\ accepted = {}
        /\ textOrderly = TRUE
        /\ judged = [u \in Unit |-> None]
        /\ prose = InOrder(Outside(description))

\* Somebody else's step spoils the quiet of every session at work.
Disturb(r, s) == [t \in Session |-> IF t # s /\ r[t] # Idle THEN [r[t] EXCEPT !.quiet = FALSE]
                                    ELSE r[t]]

\* status resolves its scope: the active problems.
Begin(s) ==
  /\ run[s] = Idle
  /\ run' = [run EXCEPT ![s] = [pc |-> "survey", quiet |-> TRUE, issue |-> None,
                                todo |-> {u \in Unit : Guarded(Issue(u))},
                                undone |-> {}, counts |-> NoCounts, text |-> <<>>]]
  /\ UNCHANGED <<linear, edits, history>>

Inspect(s, u) ==
  /\ run[s].pc = "survey" /\ u \in run[s].todo
  /\ run' = [run EXCEPT ![s].pc = "blocked", ![s].issue = Issue(u), ![s].todo = @ \ {u}]
  /\ UNCHANGED <<linear, edits, history>>

\* save_issue with the labels a helper made of this session's copy: a write only when
\* they differ from it.  The issue should read as it does to be written over.
SaveLabels(s, copy, after, reads, r) ==
  LET u == copy.unit
      writes == after # copy
  IN  /\ labels' = IF writes THEN [labels EXCEPT ![u] = after.labels] ELSE labels
      /\ orderly' = [orderly EXCEPT ![u] = @ /\ (writes => Issue(u) = reads)]
      /\ run' = IF writes THEN Disturb([run EXCEPT ![s] = r], s) ELSE [run EXCEPT ![s] = r]

\* blocked-label.md, on the issue as the calling command read it.
HelpBlocked(s) ==
  /\ run[s].pc = "blocked"
  /\ LET i == run[s].issue
     IN  SaveLabels(s, i, WithBlocked(i), i, [run[s] EXCEPT !.pc = "manual"])
  /\ UNCHANGED <<type, ac, description, edits, owed, accepted, textOrderly, judged, prose>>

\* manual-pending-label.md, on the same copy: what the first helper saved is not in it.
HelpManual(s) ==
  /\ run[s].pc = "manual"
  /\ LET i == run[s].issue
     IN  /\ SaveLabels(s, i, WithManual(i), WithBlocked(i),
                       [run[s] EXCEPT !.pc = "survey", !.issue = None,
                          !.undone = IF Undone(i) THEN @ \cup {i.unit} ELSE @])
         /\ judged' = [judged EXCEPT ![i.unit] = [left |-> Left(i), undone |-> Undone(i)]]
  /\ UNCHANGED <<type, ac, description, edits, owed, accepted, textOrderly, prose>>

\* The counts are gathered once every problem has been inspected.
Surveyed(s) == /\ run[s].pc = "survey" /\ run[s].todo = {}
               /\ run' = [run EXCEPT ![s].pc = "closed"]
               /\ UNCHANGED <<linear, edits, history>>

Count(s) == /\ run[s].pc \in Query
            /\ run' = [run EXCEPT ![s].counts[run[s].pc] = Answer(run[s].pc),
                                  ![s].pc = NextQuery[run[s].pc]]
            /\ UNCHANGED <<linear, edits, history>>

ReadProject(s) == /\ run[s].pc = "read"
                  /\ run' = [run EXCEPT ![s].pc = "save", ![s].text = description]
                  /\ UNCHANGED <<linear, edits, history>>

SaveProject(s) ==
  /\ run[s].pc = "save"
  /\ description' = Splice(run[s].text, Block(run[s].counts))
  /\ textOrderly' = (textOrderly /\ InOrder(Outside(run[s].text)) = InOrder(Outside(description)))
  /\ run' = Disturb([run EXCEPT ![s] = Idle], s)
  /\ UNCHANGED <<labels, type, ac, edits, owed, orderly, accepted, judged, prose>>

-------------------------------------------------------------------------------
(* what others do meanwhile *)

Edited == edits < MaxEdits /\ edits' = edits + 1

\* review accepts: it has read the unit, moves it to Done and takes
\* manual-pending off the labels it read.
Review(s, u) == /\ run[s] = Idle /\ Problem(u) /\ type[u] = "started"
                /\ Edited
                /\ run' = [run EXCEPT ![s] = [pc |-> "accept", quiet |-> TRUE, issue |-> Issue(u),
                                              todo |-> {}, undone |-> {}, counts |-> NoCounts,
                                              text |-> <<>>]]
                /\ UNCHANGED <<linear, history>>

\* Faulty variant of Accept: the state is named, not resolved by its type.
AcceptByName(s) == /\ run[s].pc = "accept"
                   /\ type' = [type EXCEPT ![run[s].issue.unit] = "Done"]
                   /\ run' = Disturb([run EXCEPT ![s].pc = "clear"], s)
                   /\ UNCHANGED <<labels, ac, description, edits, history>>

\* The product owner accepts: the state whose type is completed, then the label.
Accept(s) == /\ run[s].pc = "accept"
             /\ type' = [type EXCEPT ![run[s].issue.unit] = "completed"]
             /\ run' = Disturb([run EXCEPT ![s].pc = "clear"], s)
             /\ UNCHANGED <<labels, ac, description, edits, history>>

Clear(s) ==
  /\ run[s].pc = "clear"
  /\ LET i == run[s].issue
         writes == "manual-pending" \in i.labels
     IN  /\ labels' = IF writes THEN [labels EXCEPT ![i.unit] = i.labels \ {"manual-pending"}]
                      ELSE labels
         /\ orderly' = [orderly EXCEPT ![i.unit] = @ /\ labels[i.unit] = i.labels]
         /\ accepted' = IF type[i.unit] = "completed" THEN accepted \cup {i.unit} ELSE accepted
  /\ run' = Disturb([run EXCEPT ![s] = Idle], s)
  /\ UNCHANGED <<type, ac, description, edits, owed, textOrderly, judged, prose>>

\* A session is killed, or was a scope or a solve run and goes no further.
Stop(s) == /\ run[s] # Idle
           /\ Edited
           /\ run' = [run EXCEPT ![s] = Idle]
           /\ UNCHANGED <<linear, history>>

Move(u, t) == /\ t # type[u]
              /\ Edited
              /\ type' = [type EXCEPT ![u] = t]
              /\ accepted' = accepted \ {u}
              /\ run' = Disturb(run, None)
              /\ UNCHANGED <<labels, ac, description, owed, orderly, textOrderly, judged, prose>>

Reword(u, c) == /\ c # ac[u]
                /\ Edited
                /\ ac' = [ac EXCEPT ![u] = c]
                /\ run' = Disturb(run, None)
                /\ UNCHANGED <<labels, type, description, history>>

\* Someone puts a label on or takes it off.
Relabel(u, l) == /\ Edited
                 /\ LET flip(S) == IF l \in labels[u] THEN S \ {l} ELSE S \cup {l}
                    IN  /\ labels' = [labels EXCEPT ![u] = flip(@)]
                        /\ owed' = [owed EXCEPT ![u] = flip(@)]
                 /\ accepted' = accepted \ {u}
                 /\ run' = Disturb(run, None)
                 /\ UNCHANGED <<type, ac, description, orderly, textOrderly, judged, prose>>

\* The product owner writes into the description: a section below, a line
\* above, or the block's own body away.
Drafts == {description \o <<Plain("h2"), Plain("text")>>, <<Plain("text")>> \o description}
            \cup {SubSeq(description, 1, k - 1) \o SubSeq(description, k + 1, Len(description)) :
                    k \in {j \in DOMAIN description : description[j].kind = "row"}}
WriteProse(d) == /\ Edited
                 /\ description' = d
                 /\ prose' = InOrder(Outside(d))
                 /\ run' = Disturb(run, None)
                 /\ UNCHANGED <<labels, type, ac, owed, orderly, accepted, textOrderly, judged>>

Step(s) == \/ \E u \in Unit : Inspect(s, u)
           \/ HelpBlocked(s)
           \/ HelpManual(s)
           \/ Surveyed(s)
           \/ Count(s)
           \/ ReadProject(s)
           \/ SaveProject(s)
           \/ Accept(s)
           \/ Clear(s)

People == \E u \in Unit : \/ \E t \in Category : Move(u, t)
                          \/ \E c \in Criteria : Reword(u, c)
                          \/ \E l \in Label : Relabel(u, l)

Next == \/ \E s \in Session : \/ Begin(s)
                              \/ Step(s)
                              \/ Stop(s)
                              \/ \E u \in Unit : Review(s, u)
        \/ People
        \/ \E d \in Drafts : WriteProse(d)

\* status is run again and again, and a session that is not killed goes on: weak
\* fairness of an action that is enabled in every state.
Spec == Init /\ [][Next]_vars /\ \A s \in Session : []<><<Begin(s) \/ Step(s)>>_vars

-------------------------------------------------------------------------------
Session_ == [pc : {"survey", "blocked", "manual", "read", "save", "accept", "clear"} \cup Query,
             quiet : BOOLEAN, issue : IssueRecord \cup {None}, todo : SUBSET Unit,
             undone : SUBSET Unit, counts : Counts, text : Seq(Line)]

TypeOK == /\ labels \in [Unit -> SUBSET Label]
          /\ type \in [Unit -> Category]
          /\ ac \in [Unit -> Criteria]
          /\ description \in Seq(Line)
          /\ edits \in 0 .. MaxEdits
          /\ run \in [Session -> Session_ \cup {Idle}]
          /\ judged \in [Unit -> [left : IssueRecord, undone : BOOLEAN] \cup {None}]

OpenBlocker(u) == \E b \in BlockedBy[u] : type[b] \in {"backlog"} \cup Active

\* A bullet counts as manual when that is what its author tagged it with: in
\* leading brackets, bare or in a code span, followed by a space.
TaggedManual(b) == b.word = "manual" /\ b.wrap # "none" /\ b.spaced

Right(u) == /\ "blocked" \in labels[u] <=> OpenBlocker(u)
            /\ "manual-pending" \in labels[u] <=> \E b \in ac[u] : TaggedManual(b)

\* An active problem that still is as its last evaluation left it shows manual-pending
\* exactly if one of its criteria was tagged [manual], in whatever form Linear stored
\* the tag, and blocked exactly if a blocker is open; when both labels had to change
\* at once, blocked is as it was before, and so exactly wrong.
LabelsTell ==
  \A u \in Unit : Guarded(Issue(u)) /\ judged[u] # None /\ judged[u].left = Issue(u) =>
    /\ "manual-pending" \in labels[u] <=> \E b \in ac[u] : TaggedManual(b)
    /\ "blocked" \in labels[u] <=> (OpenBlocker(u) <=> ~judged[u].undone)

\* However the sessions take turns, the labels people put on a unit stay on it,
\* and a unit that review accepted no longer waits on the product owner, unless
\* a session wrote from a copy of the unit that was no longer current.
UnrelatedKept == \A u \in Unit : orderly[u] =>
  /\ labels[u] \ Signal = owed[u] \ Signal
  /\ u \in accepted => "manual-pending" \notin labels[u]

\* A session nobody disturbed counts as stalled the problems that have an open
\* blocker, except that it has each one wrong whose two labels it changed at once,
\* and its ETA is the nearest half day.
ForecastTells ==
  \A s \in Session : run[s] # Idle /\ run[s].pc \in {"read", "save"} /\ run[s].quiet =>
    LET n == run[s].counts
        queue == n.started + n.unstarted
    IN  /\ n.stalled = Cardinality({u \in Unit : Guarded(Issue(u))
                                             /\ (OpenBlocker(u) <=> u \notin run[s].undone)})
        /\ queue = OtherQueued + Cardinality({u \in Unit : Guarded(Issue(u))})
        /\ n.closed > 0 => LET off == 2 * Eta(n) * n.closed - 28 * queue
                           IN  off <= n.closed /\ -off <= n.closed

\* A refresh changes nothing but the block: the lines people wrote outside it
\* stay, in order, unless it overwrote an edit made since it read the description;
\* a description holds one block at most; and refreshing again changes nothing but
\* the block's own numbers.
OnlyTheBlock ==
  /\ textOrderly => InOrder(Outside(description)) = prose
  /\ Cardinality(Headings(description)) <= 1
  /\ \A s \in Session : run[s] # Idle /\ run[s].pc = "save" =>
       LET block == Block(run[s].counts)
           once == Splice(run[s].text, block)
       IN  /\ Splice(once, block) = once
           /\ Splice(Splice(once, Block(NoCounts)), block) = once

\* Once people leave a problem alone, its labels come to be right and stay so.
LabelsSettle == \A u \in Unit : <>[](Guarded(Issue(u)) => Right(u))
===============================================================================
