----------------------------- MODULE LinearSetup -----------------------------
(***************************************************************************)
(* /backlogd:init (commands/init.md) driving scripts/linear_setup.py: a    *)
(* session audits the Linear workspace, the product owner approves groups  *)
(* of deletions, and the session applies one verb after another.  Each     *)
(* verb is a process of its own that fetches the workspace, plans from     *)
(* what it fetched, and then sends one mutation: the workspace may have    *)
(* changed in between, by another session's verbs.  The workspace itself   *)
(* (Linear) is external and modelled from how the verbs use it.            *)
(***************************************************************************)
EXTENDS Naturals, Sequences, FiniteSets, SequencesExt

CONSTANTS
  Session,     \* the sessions that run /backlogd:init
  Name,        \* label names
  Norm,        \* name |-> its trimmed lowercase form
  Canonical,   \* CANONICAL_LABELS
  Recased,     \* CANONICAL_RECASE
  Deletable,   \* DEFAULT_DELETABLE_LABELS
  Priority,    \* the normalized names that start with PRIORITY_LABEL_PREFIX
  Category,    \* CANONICAL_STATE_CATEGORIES
  StateType,   \* the types Linear gives workflow states
  Template,    \* CANONICAL_TEMPLATES
  Applied,     \* template |-> the label it carries by name, or NoName
  NoName,
  Workspace,   \* what a first session may find: records of labels and states
  Page,        \* nodes(first: 250)
  MaxRuns,     \* bound: audits
  MaxFaults    \* bound: requests that fail, sessions that are killed

ASSUME NamesAssumption ==
  /\ Norm \in [Name -> Name]
  /\ \A n \in Name : Norm[Norm[n]] = Norm[n]
  /\ Canonical \subseteq Name /\ Recased \subseteq Canonical
  /\ \A n \in Canonical : Norm[n] = n
  /\ Deletable \subseteq Name /\ Priority \subseteq Name
  /\ NoName \notin Name /\ Applied \in [Template -> Canonical \cup {NoName}]
ASSUME StatesAssumption == Category \subseteq StateType
ASSUME PageAssumption == Page \in Nat \ {0}
ASSUME WorkspaceAssumption == \A w \in Workspace :
  /\ w.labels \in Seq(Name) /\ w.templates \in Seq(Template)
  /\ w.states \subseteq StateType
ASSUME BoundsAssumption == MaxRuns \in Nat /\ MaxFaults \in Nat

VARIABLES
  labels,      \* the workspace's labels, in the order the API lists them
  states,      \* type |-> how many workflow states have it
  templates,   \* the team's templates, oldest first
  ids,         \* label ids given out so far
  at,          \* session |-> "idle", "confirm", "apply", "write", "done"
  plan,        \* session |-> the plan of its audit
  todo,        \* session |-> the verbs it has still to run
  job,         \* session |-> the mutation its verb is about to send
  failed,      \* session |-> a verb of this run failed
  runs, faults,
  orderly,     \* history: no verb fetched between another's fetch and its mutation
  complete     \* history: every fetch returned the whole list of labels

workspace == <<labels, states, templates, ids>>
progress == <<at, plan, todo, job, failed>>
terms == <<orderly, complete>>
vars == <<workspace, progress, runs, faults, terms>>

Reason == {"priority", "unused"}
NoPlan == [missing |-> {}, recase |-> {}, cruft |-> [r \in Reason |-> {}], review |-> {},
           gaps |-> {}]
NoJob == [verb |-> "none"]

\* What a fetch returns of the labels: the first page.
Fetched == SubSeq(labels, 1, IF Len(labels) < Page THEN Len(labels) ELSE Page)
Present == {t \in StateType : states[t] > 0}

-------------------------------------------------------------------------------
\* The planners: pure functions of what was fetched.

First(places) == CHOOSE i \in places : \A j \in places : i <= j

Matching(n, ls) == {i \in DOMAIN ls : Norm[ls[i].name] = Norm[n]}

\* Faulty variant of Chosen: the first match, whatever its spelling.
ChosenFirst(n, ls) == ls[First(Matching(n, ls))]

\* The label a name stands for, where there is one: the exact match if there is
\* one, else the first label of that normalized name.
Chosen(n, ls) ==
  LET exact == {i \in DOMAIN ls : ls[i].name = n}
  IN  ls[First(IF exact # {} THEN exact ELSE Matching(n, ls))]

\* Faulty variant of Gaps: the types that are present and not canonical.
GapsReversed(present) == present \ Category

Gaps(present) == Category \ present

Entry(l) == [id |-> l.id, name |-> l.name]

PlanAudit(ls) ==
  LET live == ToSet(ls)
      other == {l \in live : Norm[l.name] \notin Canonical}
      prio == {l \in other : Norm[l.name] \in Priority}
      unused == {l \in other \ prio : l.name \in Deletable /\ ~l.used}
  IN [missing |-> {n \in Canonical : Matching(n, ls) = {}},
      recase |-> {Entry(l) : l \in {k \in live : /\ Norm[k.name] \in Recased
                                                 /\ k.name # Norm[k.name]}},
      cruft |-> [priority |-> {Entry(l) : l \in prio}, unused |-> {Entry(l) : l \in unused}],
      review |-> {l.id : l \in other \ (prio \cup unused)},
      gaps |-> Gaps(Present)]

\* Faulty variant of PlanEnsureLabel: the audit has said already that it is missing.
EnsureUnchecked(n, ls) == [verb |-> "create label", name |-> n]

PlanEnsureLabel(n, ls) ==
  IF Matching(n, ls) = {} THEN [verb |-> "create label", name |-> n] ELSE NoJob

PlanRecaseLabel(n, ls) ==
  IF Matching(n, ls) = {} \/ Chosen(n, ls).name = Norm[n] THEN NoJob
  ELSE [verb |-> "rename label", id |-> Chosen(n, ls).id, name |-> Norm[n]]

PlanDeleteLabel(n, ls) ==
  IF Matching(n, ls) = {} THEN NoJob
  ELSE [verb |-> "delete label", id |-> Chosen(n, ls).id]

PlanEnsureState(c) ==
  IF c \in Present THEN NoJob ELSE [verb |-> "create state", type |-> c]

\* The label a template carries is resolved to an id; a label that is not there
\* fails the verb.
Unresolved(t, ls) == Applied[t] # NoName /\ Matching(Applied[t], ls) = {}

PlanEnsureTemplate(t, ls) ==
  LET applied == IF Applied[t] = NoName THEN 0 ELSE Chosen(Applied[t], ls).id
      same == {i \in DOMAIN templates : templates[i].name = t}
  IN IF same = {} THEN [verb |-> "create template", name |-> t, label |-> applied]
                  ELSE [verb |-> "update template", index |-> First(same), label |-> applied]

PlanVerb(v, ls) ==
  CASE v.verb = "ensure-label" -> PlanEnsureLabel(v.on, ls)
    [] v.verb = "recase-label" -> PlanRecaseLabel(v.on.name, ls)
    [] v.verb = "ensure-state" -> PlanEnsureState(v.on)
    [] v.verb = "ensure-template" -> PlanEnsureTemplate(v.on, ls)
    [] v.verb = "delete-label" -> PlanDeleteLabel(v.on.name, ls)

\* The order of the apply.
Order == <<"ensure-label", "recase-label", "ensure-state", "ensure-template", "delete-label">>
Rank(v) == CHOOSE i \in DOMAIN Order : Order[i] = v.verb
Verbs(verb, on) == {[verb |-> verb, on |-> x] : x \in on}

-------------------------------------------------------------------------------
\* The mutations, as Linear carries them out; one on a label that is gone fails.

Exists(id) == \E l \in ToSet(labels) : l.id = id

\* A new label is listed first or last.
CreateLabel(n) ==
  LET l == [id |-> ids + 1, name |-> n, used |-> FALSE]
  IN /\ labels' \in {<<l>> \o labels, Append(labels, l)}
     /\ ids' = ids + 1
     /\ UNCHANGED <<states, templates>>

\* Faulty variant of RenameLabel: a new label takes the place of the old one.
RenameByReplacing(id, n) ==
  /\ labels' = [i \in DOMAIN labels |-> IF labels[i].id = id
                  THEN [id |-> ids + 1, name |-> n, used |-> FALSE] ELSE labels[i]]
  /\ ids' = ids + 1
  /\ UNCHANGED <<states, templates>>

\* A label keeps its id, and with it the issues it is on.
RenameLabel(id, n) ==
  /\ labels' = [i \in DOMAIN labels |-> IF labels[i].id = id
                  THEN [labels[i] EXCEPT !.name = n] ELSE labels[i]]
  /\ UNCHANGED <<states, templates, ids>>

DeleteLabel(id) ==
  /\ \E i \in DOMAIN labels : labels[i].id = id /\ labels' = RemoveAt(labels, i)
  /\ UNCHANGED <<states, templates, ids>>

Perform(j) ==
  \/ j.verb = "create label" /\ CreateLabel(j.name)
  \/ j.verb = "rename label" /\ Exists(j.id) /\ RenameLabel(j.id, j.name)
  \/ j.verb = "delete label" /\ Exists(j.id) /\ DeleteLabel(j.id)
  \/ /\ j.verb = "create state"
     /\ states' = [states EXCEPT ![j.type] = @ + 1]
     /\ UNCHANGED <<labels, templates, ids>>
  \/ /\ j.verb = "create template"
     /\ templates' = Append(templates, [name |-> j.name, label |-> j.label])
     /\ UNCHANGED <<labels, states, ids>>
  \/ /\ j.verb = "update template"
     /\ templates' = [templates EXCEPT ![j.index].label = j.label]
     /\ UNCHANGED <<labels, states, ids>>

-------------------------------------------------------------------------------
Init ==
  /\ \E w \in Workspace :
       /\ labels = [i \in DOMAIN w.labels |->
                      [id |-> i, name |-> w.labels[i], used |-> FALSE]]
       /\ states = [t \in StateType |-> IF t \in w.states THEN 1 ELSE 0]
       /\ templates = [i \in DOMAIN w.templates |-> [name |-> w.templates[i], label |-> 0]]
       /\ ids = Len(w.labels)
  /\ at = [s \in Session |-> "idle"]
  /\ plan = [s \in Session |-> NoPlan]
  /\ todo = [s \in Session |-> {}]
  /\ job = [s \in Session |-> NoJob]
  /\ failed = [s \in Session |-> FALSE]
  /\ runs = 0 /\ faults = 0 /\ orderly = TRUE /\ complete = TRUE

\* A fetch by s, as far as the terms of the promises go.
Observed(s) ==
  /\ orderly' = (orderly /\ \A p \in Session \ {s} : at[p] # "write")
  /\ complete' = (complete /\ Len(labels) <= Page)

\* init.md steps 1-2: the audit is the preflight and the plan.
Audit(s) ==
  /\ at[s] \in {"idle", "done"}
  /\ runs < MaxRuns
  /\ runs' = runs + 1
  /\ plan' = [plan EXCEPT ![s] = PlanAudit(Fetched)]
  /\ at' = [at EXCEPT ![s] = "confirm"]
  /\ failed' = [failed EXCEPT ![s] = FALSE]
  /\ Observed(s)
  /\ UNCHANGED <<workspace, todo, job, faults>>

\* Step 3: the safe verbs run by default, a group of deletions only on a yes.
Confirm(s) ==
  /\ at[s] = "confirm"
  /\ \E yes \in SUBSET {r \in Reason : plan[s].cruft[r] # {}} :
       todo' = [todo EXCEPT ![s] =
         Verbs("ensure-label", plan[s].missing) \cup Verbs("recase-label", plan[s].recase)
           \cup Verbs("ensure-state", plan[s].gaps) \cup Verbs("ensure-template", Template)
           \cup Verbs("delete-label", UNION {plan[s].cruft[r] : r \in yes})]
  /\ at' = [at EXCEPT ![s] = "apply"]
  /\ UNCHANGED <<workspace, plan, job, failed, runs, faults, terms>>

\* Step 4: the next verb fetches and plans; there may be nothing to send.
Fetch(s) ==
  /\ at[s] = "apply"
  /\ \E v \in todo[s] :
       /\ \A w \in todo[s] : Rank(v) <= Rank(w)
       /\ todo' = [todo EXCEPT ![s] = @ \ {v}]
       /\ IF v.verb = "ensure-template" /\ Unresolved(v.on, Fetched)
          THEN failed' = [failed EXCEPT ![s] = TRUE] /\ UNCHANGED <<at, job>>
          ELSE LET j == PlanVerb(v, Fetched)
               IN /\ job' = [job EXCEPT ![s] = j]
                  /\ at' = [at EXCEPT ![s] = IF j = NoJob THEN "apply" ELSE "write"]
                  /\ UNCHANGED failed
  /\ Observed(s)
  /\ UNCHANGED <<workspace, plan, runs, faults>>

\* The mutation is carried out, ...
Write(s) ==
  /\ at[s] = "write"
  /\ Perform(job[s])
  /\ job' = [job EXCEPT ![s] = NoJob]
  /\ at' = [at EXCEPT ![s] = "apply"]
  /\ UNCHANGED <<plan, todo, failed, runs, faults, terms>>

\* ... or refused because its label is gone, or fails; the session goes on with
\* the remaining verbs.
Refused(s) ==
  /\ at[s] = "write"
  /\ \/ /\ job[s].verb \in {"rename label", "delete label"}
        /\ ~Exists(job[s].id)
        /\ UNCHANGED faults
     \/ faults < MaxFaults /\ faults' = faults + 1
  /\ failed' = [failed EXCEPT ![s] = TRUE]
  /\ job' = [job EXCEPT ![s] = NoJob]
  /\ at' = [at EXCEPT ![s] = "apply"]
  /\ UNCHANGED <<workspace, plan, todo, runs, terms>>

\* The mutation is carried out and its answer is lost: the verb reports an error.
AnswerLost(s) ==
  /\ at[s] = "write"
  /\ faults < MaxFaults
  /\ faults' = faults + 1
  /\ Perform(job[s])
  /\ failed' = [failed EXCEPT ![s] = TRUE]
  /\ job' = [job EXCEPT ![s] = NoJob]
  /\ at' = [at EXCEPT ![s] = "apply"]
  /\ UNCHANGED <<plan, todo, runs, terms>>

\* Step 5: the run is reported.
Finish(s) ==
  /\ at[s] = "apply"
  /\ todo[s] = {}
  /\ at' = [at EXCEPT ![s] = "done"]
  /\ UNCHANGED <<workspace, plan, todo, job, failed, runs, faults, terms>>

\* The session is closed before its run is over.
Killed(s) ==
  /\ at[s] \in {"confirm", "apply", "write"}
  /\ faults < MaxFaults
  /\ faults' = faults + 1
  /\ at' = [at EXCEPT ![s] = "idle"]
  /\ todo' = [todo EXCEPT ![s] = {}]
  /\ job' = [job EXCEPT ![s] = NoJob]
  /\ UNCHANGED <<workspace, plan, failed, runs, terms>>

\* A teammate puts a label on an issue; it matters for the deletable ones alone.
Use(id) ==
  /\ \E l \in ToSet(labels) : l.id = id /\ l.name \in Deletable /\ ~l.used
  /\ labels' = [i \in DOMAIN labels |-> IF labels[i].id = id
                  THEN [labels[i] EXCEPT !.used = TRUE] ELSE labels[i]]
  /\ UNCHANGED <<states, templates, ids, progress, runs, faults, terms>>

Next ==
  \/ \E s \in Session : \/ Audit(s) \/ Confirm(s) \/ Fetch(s) \/ Write(s)
                        \/ Refused(s) \/ AnswerLost(s) \/ Finish(s) \/ Killed(s)
  \/ \E id \in 1 .. ids : Use(id)

Spec == Init /\ [][Next]_vars

-------------------------------------------------------------------------------
Entries == [id : 1 .. ids, name : Name]

Plan == [missing : SUBSET Canonical, recase : SUBSET Entries,
         cruft : [Reason -> SUBSET Entries], review : SUBSET (1 .. ids), gaps : SUBSET Category]

Verb == Verbs("ensure-label", Canonical) \cup Verbs("recase-label", Entries)
  \cup Verbs("ensure-state", Category) \cup Verbs("ensure-template", Template)
  \cup Verbs("delete-label", Entries)

Job == {NoJob}
  \cup [verb : {"create label"}, name : Canonical]
  \cup [verb : {"rename label"}, id : 1 .. ids, name : Recased]
  \cup [verb : {"delete label"}, id : 1 .. ids]
  \cup [verb : {"create state"}, type : Category]
  \cup [verb : {"create template"}, name : Template, label : 0 .. ids]
  \cup [verb : {"update template"}, index : DOMAIN templates, label : 0 .. ids]

TypeOK ==
  /\ labels \in Seq([id : 1 .. ids, name : Name, used : BOOLEAN])
  /\ states \in [StateType -> Nat]
  /\ templates \in Seq([name : Template, label : 0 .. ids])
  /\ ids \in Nat
  /\ at \in [Session -> {"idle", "confirm", "apply", "write", "done"}]
  /\ plan \in [Session -> Plan]
  /\ todo \in [Session -> SUBSET Verb]
  /\ job \in [Session -> Job]
  /\ failed \in [Session -> BOOLEAN]
  /\ runs \in 0 .. MaxRuns
  /\ faults \in 0 .. MaxFaults
  /\ orderly \in BOOLEAN /\ complete \in BOOLEAN

Carries(k, n) == \E l \in ToSet(labels) : l.id = k.label /\ Norm[l.name] = n

\* linear_setup.py, plan_audit ("ok"), and init.md: after a run whose verbs all went
\* through, a new audit finds no label missing or mis-cased and no state category
\* empty, and the canonical templates are there, whatever other runs did meanwhile.
Converges ==
  \A s \in Session : at[s] = "done" /\ ~failed[s] /\ complete =>
    /\ PlanAudit(labels).missing = {}
    /\ PlanAudit(labels).recase = {}
    /\ PlanAudit(labels).gaps = {}
    /\ \A t \in Template : \E k \in ToSet(templates) :
         k.name = t /\ (Applied[t] # NoName => Carries(k, Applied[t]))

\* A template's label id is never left dangling: the label it applies is live, and
\* still the canonical one, over renames, deletions and re-runs.
TemplateLabelsLive ==
  \A k \in ToSet(templates) : k.label # 0 => Carries(k, Applied[k.name])

Named(n) == {l.id : l \in {k \in ToSet(labels) : Norm[k.name] = n}}

\* The verbs are idempotent: as long as no two of them overlap and every fetch is
\* complete, a label, a state or a template is created only where there is none.
CreatedOnce ==
  [][orderly /\ complete =>
       /\ \A n \in Canonical : Named(n)' \subseteq Named(n) \/ Named(n) = {}
       /\ \A t \in StateType : states'[t] > states[t] => states[t] = 0
       /\ Len(templates') > Len(templates) =>
            \A k \in ToSet(templates) : k.name # Last(templates').name]_vars

\* init.md:201-202: nothing the audit put in review is ever deleted.
ReviewSpared ==
  \A s \in Session : job[s].verb = "delete label" => job[s].id \notin plan[s].review
===============================================================================
