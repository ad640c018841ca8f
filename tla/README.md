# backlogd: a verification project

backlogd is a Claude Code plugin that takes problems from a Linear backlog to merged pull
requests. Its program text is of two kinds: Python command-line tools (`scripts/*.py`), and the
orchestrator's procedures (`commands/*.md`, `skills/**/*.md`), which an agent executes step by
step and whose wording `scripts/test_*.py` pin. Both are the program. What makes it hard is
the same in both: several sessions and short-lived processes share files, a branch and Linear
issues; none of them holds a lock; any of them may be killed between two steps; and the next run
has to make sense of what is left.

## 1. Inventory

| Component | Source | State it keeps | Operations | Hard behaviour | What makes it correct |
| --- | --- | --- | --- | --- | --- |
| Execution graph | `scripts/graph.py` | one JSON file per session under `.backlogd/graph/` | dispatch-start, dispatch-end, pr-opened, run-end, rework, labeled; reads: run-status, prior-work, metrics, report | read-merge-rewrite of a whole file with no lock; a failed read that passes for an empty file; truncation before the write; clocks derived from an earlier read | recorded edges survive later commands; clocks run from the right start; a writer that dies or cannot read costs one file |
| Solve ledger | `scripts/ledger.py` | `.backlogd/ledger.jsonl` | record-run, read_all, read_runs | appends cut short, a damaged line met by the next append | the read surface returns what was recorded; damage is bounded |
| Claim-lock | `skills/linear/claim-lock.md`, used by `skills/solve/pickup.md`, `dispatch.md`, `capture.md`, `handoff.md`, `ship.md`, `commands/review.md` | one Linear comment per problem | check, acquire, refresh, release, `--steal`; the merge-time re-check | check and acquire are separate calls; the TTL; killed sessions | two sessions do not work one problem; only a reviewed head is merged; no deadlock behind a dead session |
| Solve run | `skills/solve/resume.md`, `walk.md`, `dispatch.md`, `gate.md`, `capture.md`, `handoff.md` | Linear states, graph, ledger, branch, sub-branches, PR; its own memory | reconcile, group, eight dispatch steps, gate, collect, handoff | a kill at any step; parallel groups; lost telemetry; rework | each unit's work lands once and in order; what is dropped and what the PR lacks is only what a reconcile took the graph's word for; a run ends |
| Session identity | `skills/solve/identity.md` | `.backlogd/identity.json` | read, refresh | a stale cache | not modelled yet |
| Linear setup | `scripts/linear_setup.py`, `commands/init.md` | labels, workflow states and templates of the team | audit, ensure-label, recase-label, ensure-state, ensure-template, delete-label; confirm, apply, finish | each verb fetches again and then writes, so plans and approvals are stale; several inits at once; a verb that fails, or fails to answer, in the middle of a run | a run that goes through leaves a canonical workspace; a re-run creates nothing twice; templates keep a live label; only approved labels are deleted |
| Status | `commands/status.md`, `skills/linear/blocked-label.md`, `manual-pending-label.md`, `scripts/forecast.py`, `scripts/ac_parse.py`, the close of `commands/review.md` | label sets on issues, a block in the Project's description | survey, two label helpers, four counts, splice of the block; clear-on-accept | labels and descriptions are read, and written whole in a later call, by several sessions and by two helpers in turn, while people edit them; escaped tags; headings and blank lines around the block | what the labels tell once evaluated, and that they settle; nobody's label or prose is lost; the numbers agree with each other |
| Release | `commands/release.md`, `scripts/release_scan.py` | branches, tags, worktrees, `plugin.json`, "Shipped in" comments | cut, promote, tag, back-merge, scan the range, comment; re-run | kills and hand-overs between seven remote steps, re-runs, two sessions, a checkout behind origin; issue and PR numbers of one form | each issue is told once, by the release that holds its work or from Linear's dates; while versions rise a tag names the tree of its version |
| Standards index | `scripts/standards_index.py`, `test_standards_index.py`, `agents/reviewer.md`, `.github/workflows/ci.yml` | ADR files and `docs/standards/index.json` on every branch | parse, validate, build, write; the drift test; merges | index and files drift apart over racing pull requests; a mapping whose end is implied | a reviewer who reads only the index enforces what the ADRs say; the integration branch never drifts |
| Ops-only path | `skills/solve/ops.md` | Linear only | dispatch without git | reads like the solve run without its branch | not modelled yet |
| Witness, hooks | `scripts/witness.py`, `hooks/` | none | one-shot checks | none of their own | left to their unit tests |
| Agents, templates, styles, docs | `agents/`, `templates/`, `output-styles/`, `docs/` | none | prompts and prose | judgement | agents enter the models as arbitrary reports |

How they interact: a session takes the **claim**, then its **solve run** reads Linear, the
branch and the **graph** (`run-status`), dispatches developers, writes the graph
(`dispatch-start`, `dispatch-end`, `run-end`) and the **ledger** (`record-run`), hands the problem
over for review, and the review or the ship-on-green chain re-checks the claim before merging.
Retro reads the graph's metrics. **Status**, and scope, solve and review at their own points, write
the signal labels, and status reads them back as counts for the forecast. What is merged
accumulates on the integration branch until a **release**; the **standards index** travels with
the pull requests and is read by the reviewer.
Graph and ledger writes are best-effort by design: each may be lost without the caller knowing.

## 2. Modules

| Module | Models | State and actions against the code |
| --- | --- | --- |
| `EdgeMemory` | what `graph.py` promises | a log of edges per session file; recording replaces the edge with the same key; a failure loses one log |
| `GraphStore` | `graph.py`'s write path | `disk` is what `_load` reads of each file; `job[p]` is a CLI process; `Invoke`, `Derive` (`_cmd_dispatch_end`'s read), `LoadFile`, `Truncate`, `Flush`, `Abort` are the steps of one command down to `Path.write_text`'s open and flush; `DeriveBlind`, `LoadFails` and `Overwrite` those of one whose `_load` meets an `OSError` (`graph.py:342-346`) |
| `Ledger` | `ledger.py` | `lines` and `open` are the file; `RecordRun` appends, `RecordRunCutShort` appends part of a line; `ReadAll`, `ReadRuns` are the read surface |
| `ClaimLock` | the claim protocol from pickup to merge | `comment`, `latest` are the Linear comments; `pc[s]` the step of a session; one action per MCP or `gh` call |
| `Delivery` | what `/backlogd:solve` promises | units Done in the order of their blocks, landed once, offered in a PR and handed over; a Done unit may be excused from landing |
| `SolveRun` | the solve loop over several runs | `linear`, `problem`, `starts`, `ends`, `runEnds`, `ledger`, `branch`, `sub`, `pr` survive a crash; `phase`, `group`, `step`, `status`, `rounds` are the orchestrator's memory and do not; `trusted` is a history variable (section 4) |
| `GraphReads` | `run_status`, `metrics` and `_percentile` of `graph.py` | operators over `ReadGraph` of `GraphStore`, compared with `done`, the commands carried out |
| `LinearSetup` | `linear_setup.py` driven by `/backlogd:init` | `labels`, `states`, `templates` are the workspace; `plan[s]`, `todo[s]` a session's audit and what it has still to run; `Fetch` and `Write` are the two requests of a verb, and the planners are pure operators of what was fetched, as in the code |
| `Status` | the label helpers, the forecast and the clear-on-accept | `labels`, `type`, `ac`, `description` are Linear; `run[s]` a session's step and the copy it works from; `StripSpan`, `Unescape`, `ExtractKind` are `ac_parse`; `HalfDays`, `Eta`, `BlockEnd`, `Splice` are `forecast`; `WithBlocked` and `WithManual` what the two helpers save, each of the labels the caller read; one action per MCP call |
| `Release` | `/backlogd:release` and `release_scan` | a branch or a tag is its set of commits, `since[v]` the versions `plugin.json` was set to after `v`; a commit's text is the references in it, each with its place; one action per remote step; `Start` compares with the `plugin.json` of a checkout that may be behind |
| `Standards` | the ADR corpus and its index | `ReadLine`, `Close`, `ParseFrontMatter` fold over the lines as the reader does; `dev` and `pr[p]` are trees of ADRs and an index; `Regenerate`/`Written`/`Killed` are `write_text`; `Ci`, `Merge`, `Update` the life of a pull request |
| `MCGraphStore`, `MCLedger`, `MCClaimLock`, `MCSolveRun`, `MCLinearSetup`, `MCStatus`, `MCRelease`, `MCStandards` | instances for TLC | constants only |
| `ClaimLock_proofs`, `Graph_proofs`, `Ledger_proofs`, `SolveRun_proofs`, `LinearSetup_proofs`, `Status_proofs`, `Release_proofs`, `Standards_proofs` | theorems | section 6 |

A definition whose comment begins "Faulty variant of" is a plausible mistake in the definition
that follows it (a dropped guard, a key without one of its parts, a comparison off by one). It is
used by no specification; each property of a passing run is known to fail once one of them takes
the place of its original, so none of the properties holds by the shape of the model.

### Abstractions

- An edge is its key, its time, its outcome and its latency. `src` is a function of the session,
  and edges of the older `emit` command take the same write path, so both are left out.
- The instance issues every recording command but `labeled`, which takes the path of `pr-opened`.
- Seconds stand for `_now_iso`'s resolution; milliseconds are multiples of it.
- A file that does not parse reads as empty, as `_load` has it, and so does one that cannot be read. Only
  the recording commands meet such a read: those of `run-status` and `metrics` are taken as going through.
- A record of the ledger is two pieces of text, enough to be cut between them; a third kind of
  piece is text cut inside a multi-byte character.
- A commit is the unit it belongs to. `git log --grep` may miss one that is there (`resume.md:102-104`);
  the model has it miss only those that are not, and leaves open whether a missing one pauses the run
  (`resume.md:100`) or is outvoted by the graph (`Doubtful`). A developer's report is "done" or "stopped"; what tells the
  four status words apart matters to nobody but the product owner.
- A claim's age is counted in ticks up to one past the TTL; older than that is all the same.
- A label is its id, its name and whether an issue carries it (which only matters for the default
  labels); a state is its category; a template its name and the label it applies. Linear is
  external: it lists a new label first or last, and refuses a mutation of a label that is gone.
  Whether it refuses a second label of one name is left open; a refusal is among the faults.
- The text of an acceptance criterion is a sequence of the characters that matter to the parser (a
  backtick, a backslash, a bracket, a space), its word and its body. The code of a label helper is
  its skill; scope and solve, which run the same helpers, are sessions that stop after them.
- A description is its lines, each of a kind; a row of the block carries the counts it was rendered
  from. Velocity and ETA are computed in integers: half days, halves up. `forecast.py` divides
  floats, where a tie may fall to the lower half day (section 5).
- A checkout that is behind has the `plugin.json` of any version the branches have had, or of none, and its
  `dev` was once ahead of its `main`. `release.md` does not say what `<prev-tag>` is; it is taken to be the
  greatest tagged version below the new one.
- A commit's references stand for its message; the regexes of `release_scan` are the places they
  accept. `plugin.json` is the only file two branches of a release can conflict in.
- An ADR is the lines of its front matter; text that carries a trailing comment is told apart from
  text that does not. Git merges ADRs file by file and the index entry by entry.

## 3. Runs

| Run | Instance | What it shows |
| --- | --- | --- |
| `GraphStore` | two processes, three sessions of which two share a file, nine command lines, at most one process per file, 4 calls, 3 clock values, 1 failure (a kill or a read that fails) | merged edges survive every later command that can read the file (`EdgesSurvive`), rework events accumulate, latencies whose command could read the file run from the session's latest start before them; `run_status` tells what was done to a unit (`RunStatusTells`), the rates are over what happened, the latencies and their percentiles are of one run each; and the store implements `EdgeMemory` |
| `GraphConcurrent` | two processes on one file, the calls of a parallel group | **violated**: the later rewrite drops the earlier process's edge |
| `LedgerFaults` | five runs of two problems, two writes cut short | without faults reads return exactly what was recorded in order; each fault costs at most one recorded run |
| `ClaimLock` | two solve runs, one manual review, one crash, steals, two pushes, TTL of one tick | on the skill's own terms (`orderly`) the stand-off, the single comment and the reviewed merge hold; Done implies merged in every execution; a session gets past a dead one's claim |
| `SolveRun` | units `a`, `b` in parallel and `c` after `a`, three runs, two crashes, one lost telemetry write | no developer starts without its blockers' commits, a ledger record means a complete PR and the loop implements `Delivery`, each but for units a reconcile took the graph's word for; committed work is dropped in that reconcile only (`NoWorkLost`); every live run ends |
| `SolveUncollected` | two parallel units, two runs, one crash | **violated**: the PR carries every unit; a sub-branch that was not collected is deleted as stale, section 5 |
| `LinearSetup` | two sessions, three audits, one request that fails or goes unanswered or one kill; pages of five labels; four workspaces: bare, both spellings of one label, cruft beside a label in review, more labels than a page | a run that goes through leaves nothing missing, mis-cased or empty (`Converges`), a template's label stays live and canonical, and while verbs do not overlap nothing is created twice |
| `SetupDeletesReview` | the same | **violated**: a delete falls back to a label in review |
| `SolveSentBack` | two units, two runs, no crash | **violated**: a fresh run after a send-back adds commits, section 5 |
| `Status` | two sessions; two problems, one blocking the other; criteria in every stored form of a tag; two workspaces, one where both labels have to change at once, one with a block between other headings; one change by people, review or a kill | an evaluated problem shows `manual-pending` exactly when it should, and `blocked` too unless both had to change at once, when it shows the opposite (`LabelsTell`), nobody's label or accepted problem is spoilt but through a stale copy (`UnrelatedKept`), an undisturbed session's counts and ETA agree with the issues, a refresh touches nothing but the block and is idempotent (`OnlyTheBlock`), and once people stop the labels come right (`LabelsSettle`) |
| `Release` | two sessions, two versions, three invocations, one kill or missing `gh`; three commits whose texts hold every form of reference, with PR numbers in the range of issue numbers; checkouts that are behind origin | the scan of any range is the work in it (`ScanTells`); an issue is told once, exactly by the release that holds its work, or by one that fell back on dates, completed since the last tag (`ShippedExactly`); while versions go up a tag names the tree of its version, a later one holding all of an earlier (`TagNamesTree`) |
| `Standards` | three pull requests, two ADR files, eight front matters in and out of order, three edits | where the tests pass, the index enforces what the ADRs say (`EnforcedAsWritten`), and dev does not drift (`DevInSync`) |

Bounds and why they are enough. Two processes and one file are all a lost update needs; the third
session and the shared file are there because the merge key has to tell sessions apart inside one
file. Four calls suffice for start, start again, end, and one event beside them. Two faults in the
ledger reach a damaged line glued to a damaged line. Three sessions over one claim reach a holder,
one waiting and one passing; TTL = 1 already distinguishes "at the TTL" from "past" it. Three
units give a parallel group followed by a dependent, and three runs give a crash, a crash of the
recovery, and a run after both. Two `init` sessions and three audits give a run that fails, its
repair, and another session beside either; a page of five stands for 250, with one workspace below
it, one at it and one beyond. One change beside two surveys is
enough for a write from a stale copy, and for a label to need a second evaluation. Two versions and
three invocations give a release, the next one, and a re-run or a replacement of a killed one;
three pull requests give a landing, its revert, and one tested in between. `CHECK_DEADLOCK FALSE`
everywhere: the systems stop once every bounded call, run or session is used up.

Fairness. `ClaimLock`: time passes, and a live session takes its next step; nobody is obliged to
crash or to steal (`PickupStealing` and `Crash` carry no fairness). `SolveRun`: the one live run
goes on and the developers it calls report (weak fairness of `Step`); nobody is obliged to pick a
problem up, clean up or send back, and a crash may always come instead. That is the orchestrator's
own loop, which has no other stopping point than those modelled.

`Status`: every session takes a step of its survey, or begins one, again and again: status is a
command people keep running, and the action (`Begin` or `Step`) is enabled in every state, so this
is its weak fairness. Nobody is obliged to edit, to review or to kill.

`LinearSetup`, `Release` and `Standards` have none: their properties are of what a run leaves
behind, not that it ends.

## 4. Terms

`claim-lock.md` says itself that the claim is no mutex. The history variable `orderly` records
whether the sessions have kept to what it asks: no session checks while another is between its own
check and its acquire, no claim passes the TTL while its session is at work, nobody steals. The
model never forbids these; the properties `Exclusive`, `OneClaimComment` and `MergedHeadReviewed`
say what holds as long as none has happened. Without that premise TLC refutes each of them, which
the skill's "Honest scope" concedes for the first. `DoneWasMerged` and `NeverDeadlocked` hold
regardless.

`LinearSetup` has two such terms. `orderly`: no verb fetches while another session's verb is
between its fetch and its write. `complete`: every fetch so far returned the whole list of labels.
`CreatedOnce` needs both (the workspace with more labels than a page makes every run create
labels beyond the page again); `Converges` needs only the second, for the session's neighbours
may do what they like; `TemplateLabelsLive` needs neither.

The same device is used where the code reads, and writes later without looking again:

- `SolveRun`: `trusted` holds the units that a reconcile counted as completed although no commit of
  theirs is on the branch (`Doubtful`: `resume.md:102-104` allows it, line 100 does not). The model may
  do either. `BlockersPresent`, `LedgerMeansHandedOff` and `ImplementsDelivery` are about the other
  units; in `Delivery` these are `excused`. `NoWorkLost` names the one step that loses work: a
  reconcile that finds a unit Done and solved deletes its sub-branch, collected or not
  (`resume.md:133-136`).
- `GraphStore`: a file that a writer died over, or rewrote without being able to read it, is forgotten by
  `done`; `unread` holds the end commands whose read failed, whose latencies are not `LatencyExact`'s.
- `Status`: `orderly[u]` fails once a session has written a unit's labels and the unit was not as the
  session read it, its own first helper's save apart; `textOrderly` once it has saved the description over a person's newer one;
  `quiet` holds of a session's own run while nobody wrote beside it; `undone` are the problems whose two
  labels it changed at once, so that the second save took back the first (`Undone`). These are not set
  aside: `LabelsTell` and `ForecastTells` say that exactly they come out wrong. `UnrelatedKept`, the first part of
  `OnlyTheBlock` and `ForecastTells` need one each; `LabelsTell` and `LabelsSettle` need none.
- `Release`: `orderly` while releases are cut one at a time and each is above the version dev has when it is
  started, which the command does not see to: it looks into a checkout that may be behind. `apart` while
  no two sessions comment on one version at once. `guessed` are the versions whose issues were taken from
  Linear's dates; what they may tell is in `Sources`.
- `Standards`: `tested` while every pull request that landed was tested on that very dev, or had an
  index that belonged to its own ADRs. Without it `DevInSync` fails (section 5).

## 5. Where code and text disagree

Kept as runs:

- `GraphConcurrent`: `write_edges` (`scripts/graph.py:371-387`) against "New edges are merged into
  the session file" (`graph-schema.md:100`), under a parallel group's concurrent commands.
- `SolveUncollected`: units are Done and solved on the graph before their sub-branches are collected
  (`walk.md:132-161`), so after a collect that conflicts, or a kill before it, the next run removes the
  worktree and the sub-branch that hold a unit's only commit as stale (`resume.md:133-136`: "the unit's
  commit is already on the problem branch"), lets the graph outvote the missing commit (102-104) and
  opens the PR without it, against "the final PR carries one commit per sub-issue" (210). A kill
  between transition and commit (`dispatch.md:256-309`) leads there too.
- `SolveSentBack`: after a send-back every unit still classifies completed, against "a fresh
  `/backlogd:solve` adds commits to the same branch" (`review.md:344`).

- `SetupDeletesReview`: `plan_delete_label` falls back from the approved name to the first label
  of the same normalized name (`linear_setup.py:646-648`), so when another session has deleted
  the approved `Bug` first, the verb deletes a `bug` its own audit put in review, against "never
  delete anything in `review`" (`init.md:201-202`).

Seen while modelling, and not kept as runs:

- `record_run` appends after a partial line, so the next record is glued to it and lost with it
  (`scripts/ledger.py:159-160` against "preserves every well-formed record around it", 177).
  `DamageBounded` counts one recorded run per fault for that reason.
- The re-check and the merge are two steps (`review.md:315-329`), and the acquire of a session that
  checked earlier may land between them, after which that session passes its own re-check; "by then
  exactly one claim comment has won" (`claim-lock.md:52-60`).
- A file that exists and cannot be read is `[]` to `_load` (`graph.py:342-346`), and `write_edges` then
  rewrites it with the new edge alone and exits 0, against `graph-schema.md:100` again. In the model
  (`LoadFails`, `Overwrite`); `EdgeMemory` allows the loss of one log.
- A stopped unit has a `dispatch_completed` edge and an In Progress state, which the decision table
  (`resume.md:73-78`) calls inconsistent, so every later run pauses, against "will pick the unit up"
  (`capture.md:115`). In the model (`Classify`, `Pause`, `CleanUp`).
- `graph-schema.md:48` and 87, and `graph.py:676` and 702, have the latencies run from the earliest
  `dispatch_started`; a unit dispatched again in one session replaces that edge, so they run from the
  last.
- Both label helpers are told to use the labels already read (`blocked-label.md:59-68`, 102-104,
  `manual-pending-label.md:76-77`, 96), so when both have to write, the second one's whole-set save takes
  back what the first one did to `blocked`, against its own lines 107-109; the problem is counted wrong
  until a later status run. In the model (`HelpManual`); `LabelsTell`, `ForecastTells` and `LabelsSettle`
  say what is left of the labels.
- A status session with an old copy can put `manual-pending` back on a problem review has just
  closed, and no later run takes it off, for a completed problem is out of scope.
- `_round_to_half` promises half away from zero (`forecast.py:85-87`, `status.md:173`); the quotient
  of two floats may lie just below an exact tie: 36 closed and 9 queued give 1.5 days, where 1.75
  rounds to 2.
- Only the first forecast block is refreshed; text below it without a `## ` heading of its own, a
  level-1 heading included, counts as its body and is replaced (`forecast.py:272-281`).
- The worktree is removed before `git -C "$WT" log` runs in it (`release.md:214`, 236): taken
  literally the stream is empty and every release falls back to Linear's dates, which include what was
  merged after the cut, against "record which problems shipped" (218). The model has both outcomes
  (`ScanRange`).
- The current version is read from the working tree, and that there is something to release checked
  there, before the first fetch (`release.md:92`, 124, 127, 151): from a checkout behind origin a
  version below the released one passes, and is cut, tagged and merged, against "never re-release or move
  a version backwards" (141-142). In the model (`Start`); the properties about versions are then under
  their premise.
- A release killed between its tag and its back-merge leaves dev's version behind: the next one
  conflicts in `plugin.json`, or is cut again and stops at the existing tag, which then does not
  mean "the release was already cut" (`release.md:190`).
- A re-run for an existing tag stops at sections 1, 2 or 5 and never reaches 6.5, against
  `release.md:355`; `Rerun` is the session that is told to do the Linear half.
- After a release dev holds a back-merge commit that main does not, so "nothing to release"
  (`release.md:127-128`) never comes up again.
- CI tests a pull request's merge with dev once. A green check may be out of date when it lands:
  one that edits an ADR without regenerating, while dev happened to hold the same edit and its index,
  drifts dev after that edit is reverted, against `TEMPLATE.md:36-37` ("CI's drift test enforces it").
- `status: Accepted  # note` keeps its comment, so the reviewer's filter skips that ADR
  (`standards_index.py:236-257`, `reviewer.md:80`); the docstring allows block lists (44-45) and the
  reader refuses them; neither a duplicate id nor one that is not its file's is validated.
- `read_all` catches `OSError` only, so a line cut inside a multi-byte character raises
  `UnicodeDecodeError` for the whole file (`ledger.py:183-184` against 174-175). The model has the
  outcome (`Raised`); `DamageBounded` excludes it.
- `str.splitlines` breaks at U+2028 and U+0085, which `json.dumps(ensure_ascii=False)` leaves in
  place, so such a record is never returned (`ledger.py:156`, 188). `Separated` names these
  records; `Owed` excludes them.
- A `dispatch-end` killed while it writes takes `dispatch_started` with it, so the recipe of
  `resume.md:213-216` (delete the orphaned start) meets an empty file.
- A manual review that ends in needs-PO, block or a failed guard does not release its claim
  (`review.md:364-396` against `claim-lock.md:152`): `Stop` in `ClaimLock` sends it to "ended".
- A claim stolen between a release's read and its write is overwritten by the tombstone
  (`claim-lock.md:162` against 174).
- The guard re-checks the claim but not the head: a claim that lapses and comes back may cover a
  head no verdict saw (`review.md:310-327`).
- Two sessions that both list no comment create two (`claim-lock.md:62` against 141-147).
- The label query has no team filter (`linear_setup.py:859`), while `resolve_template_label_ids`
  calls its input "the live team labels" (lines 808-809): another team's label can satisfy
  `ensure-label` or end up in a template.
- A default label is approved for deletion because it has no issues at the audit, and deleted
  later without looking again (`linear_setup.py:534`, 648). `Use` is in the model; the code makes
  no promise to hold it to.
- A mutation answered with `success: false` and no `errors` is reported as done (965, 991, 1040).
- A read that times out raises `TimeoutError`, which `main` does not catch (1167): the verb still
  exits non-zero, with a traceback. `AnswerLost` covers both ways of losing the answer.
- `run-end` and `record-run` are two best-effort writes: a kill between them leaves one store with
  the run and the other without (`handoff.md:61-66`).

## 6. What is proved

For every value of the constants, with TLAPS, from the named `ASSUME`s of the modules (finite
sets where a cardinality is taken, bounds that are natural numbers, lists of lines that are
sequences, descriptions that start with one block at most, values that stand for "nothing", "torn" or
"raised" and are none of the others, what a table of the code says) and two hypotheses that a theorem
states itself: `MaxWriters = 1` for the graph, which `GraphConcurrent` shows to be needed, and
`TextTells` for one theorem about releases. Both hold in the runs.

`ClaimLock_proofs`

- `TypeCorrect`: the type invariant, in four parts, one lemma each.
- `MutualExclusion`: `Exclusive`. Not inductive as it stands: what excludes a second session is
  the comment, so the invariant is `Holding`: a session at work is the holder of the live claim,
  and a session on its way to one is alone. A tick keeps it because an orderly tick takes no
  working session's claim past the TTL.
- `OnlyReviewedMerged`: `MergedHeadReviewed`, by `Accepted` (the head of a session between verdict
  and merge is an accepted one), which needs mutual exclusion: only another session could push.
- `SingleComment`: `OneClaimComment`, by `OneComment` (the only comment is the latest, and a session
  about to save has seen it).
- `DoneOnlyOnceMerged`: `DoneWasMerged`, in every execution, by `MergedFirst`.

`Graph_proofs`

- `TypeCorrect`, for any number of writers and failures.
- `StoreImplementsMemory`: with `MaxWriters = 1`, `Spec => ImplementsMemory`. The invariant
  `OneWriter` says that two processes never work on one file and that the file of a process between
  load and write is as it loaded it, or emptied by itself. Under the mapping (a file being rewritten
  still logs what its writer loaded) a flush records one edge, a kill during it, or the opening of a
  file that could not be read, loses one log, and every other step stutters. `GraphConcurrent` shows the premise is needed.

With the same premise, for any number of sessions, units, calls, crashes and failed reads:

- `EdgesOutlive`, `ReworkIsCounted`, `LatenciesAreExact` (`EdgesSurvive`, `ReworkAccumulates`,
  `LatencyExact`) and `RunStatusIsTrue`, `RatesAreTrue` (`RunStatusTells`, `RatesAreSound`).
- All rest on `LogInvariant`, which ties the files to the commands carried out, whatever step a
  writer has reached: an edge is in its own session's file and alone with its key (`Placed`,
  `OneEdgePerKey`), it is that of a finished command (`FromDone`), a finished command whose file was not lost has an edge at
  least as new for its key (`HasEdge`), and no writer's edge is older than those it loaded (`Aged`). Of a
  file being rewritten this is said of what its writer loaded, the log of `EdgeMemory`; the steps on the
  file are those of `OneWriter`.
- `RatesAreTrue` counts: the units of the denominators are mapped one to one to commands. The latency
  of an end is exact when it is derived (`ExactInv`), and stays so because a start that is recorded
  later is not earlier.
- `ReportsAreTrue`: `LatenciesTell`. A latency of `metrics` is traced by `LogInvariant` to the commands
  of one session; where the latest edge of a session's key is, nothing newer was recorded. For the
  percentiles, `Nth` is the least sample that so many samples do not exceed (`NthIsRight`, `NthGrows`);
  what is interpolated between two of them lies between them (`BetweenTwo`), and the ranks of the 50th
  percentile are not above those of the 90th (`RanksOfPercentile`).

`Ledger_proofs`, for any number of runs, writes cut short and records that hold what a line may break at

- `TypeCorrect`, `ReadsAreExact` (`ReadsWhatWasRecorded`), `DamageIsBounded` (`DamageBounded`).
- Neither property is inductive: a fault costs nothing until the next append is glued to what it left.
  `LedgerInv` therefore charges the unfinished text at the end of the file to a fault of its own beside
  those of the lost runs (`Charged`): an append that is glued on turns that charge into a loss. A run is
  lost if none of the lines is its JSON alone (`Whole`). Without a fault the file is the JSON of what was
  recorded line by line (`Clean`). What a read returns is `Kept`, the values at a set of places in order;
  that it lists every one of them, and in increasing order, is `InOrderIsRight`.

`SolveRun_proofs`, for any number of units, any blocking relation, and any bounds on runs, crashes
and lost writes

- `TypeCorrect`: the type invariant, in six parts.
- `BlockersArePresent`, `LedgerIsHonest`, `WorkIsKept` (`BlockersPresent`, `LedgerMeansHandedOff`,
  `NoWorkLost`) and `SolveImplementsDelivery`: `Spec => ImplementsDelivery`. None is inductive:
  what is on the branch is decided from Linear's states, so the invariant `IInv` ties the two.
  `Sound` says of each unit that a commit implies Done, and that a sub-branch's commit is Done and
  not yet on the branch; `Landed`, that from the reconcile on a Done unit is on the branch or trusted, except
  between its transition and its commit or its commit and its collect; `Cleared`, that a unit being
  dispatched has its blockers Done, and landed or trusted; `Position`, that only units of the group
  being dispatched have a step to take; `Offered`, that the handoff starts with every unit landed or
  trusted. The reconcile establishes `Landed`: what it finds completed without a commit it trusts. The
  theorems therefore say how far a wrong word of the graph reaches: to the units it was said of and those
  that wait for them, and to nothing else.

`LinearSetup_proofs`, for any workspace, page size, number of sessions, audits and faults

- `TypeCorrect`: a planned verb or mutation names labels and templates there have been.
- `TemplatesKeepLabels`: `TemplateLabelsLive`, in every execution. The argument is one relation
  between the list of labels before and after a step, `Moved`: a label keeps its id and its
  normalized name, a new one has a new id and a canonical name, and no canonical one is lost. It holds
  of every mutation that is safe (`SafeJob`) at the moment it is sent; and a mutation planned from an
  old fetch stays safe, because `Moved` is all that others do in between.
- `RunsConverge`: `Converges`. The invariant `Converging` says of each run that has not failed that
  whatever is missing is in its plan (`Planned`), then among the verbs it has still to run or the
  mutation it is about to send (`Underway`). Mis-cased labels are counted: there are no more of
  a name than verbs left to recase that name, for a verb recases one label of it and there may be
  several. Others' steps only take away from what is missing, by `Moved` again.
- `NothingTwice`: `CreatedOnce`. `Alone`: as long as verbs do not overlap and fetches are complete,
  the one session between fetch and mutation has seen that what it creates is not there.

`Status_proofs`, for any problems, blocking relation, criteria, people and sessions

- `TypeCorrect`: what is spliced into the description is a description; the copy a session works
  from is an issue (`Holding`).
- `LabelsAreKept`: `UnrelatedKept`. A helper and the clear-on-accept change no label but their own;
  `Kept` says that an accepted unit is completed and no longer `manual-pending`. The first attempt at
  this proof did not go through and showed the history `accepted` to be wrong: a
  unit reopened between review's accept and its clear counted as accepted. `Clear` now keeps it
  only if it is still completed.
- `LabelsAreRight`: `LabelsTell`. `HelpersLeave` says what the two saves leave of the copy they were made of,
  by cases on which of them writes; the invariant `Evaluated` keeps that of each unit's last evaluation,
  and `LabelsTell` compares it with the unit as it is. It takes from the parser that unescaping a stored tag and reading its kind finds `manual` exactly where it was
  meant (`TagsAreRead`).
- `ForecastIsTrue`: `ForecastTells`. `Sees` says what a session has gathered so far, and which problems it has
  left with the wrong `blocked`, and is carried along as long as nobody has written beside the session
  (`quiet`), until the counts are complete.
- `RefreshTouchesTheBlock`: `OnlyTheBlock`, for descriptions of any length. Whatever the block, a
  splice puts it between the first p lines and those after the q-th (`SpliceShape`), where p and q
  depend on the description alone; this fixes the result line by line (`Around`), has one block in it
  (`AroundHeads`), and is where the next splice cuts again (`SplicedAgain`), so a second refresh
  changes nothing. Kept lines move but stay in order, and two such descriptions have the same prose
  (`SameOrder`, by ranks). The invariants are `Texts` (no session holds a description with two
  blocks), `OneBlock` and `ProseKept`. That a description starts with one block at most is
  `HeadingsAssumption`: the commands never make a second one, and a copy pasted by hand is not modelled.

`Release_proofs`, for any commits, versions, issues, sessions and faults

- `TypeCorrect`, and `TagsNameTheirTrees`: `TagNamesTree`. `Basic` holds whatever overlaps: every
  bump dev has is in main, and a version is not set after itself. While releases are cut one at a time, each above
  dev's version, versions go up with every merge into main (`Upward`), at most the newest is not merged back
  (`AtMostOneAhead`), and the version being cut is above all of them (`CutAbove`).
- `ToldOnce`: no issue is told twice of one version, over kills and re-runs, unless two sessions
  comment on it at once (`Apart`).
- `ToldOfTheirRelease`: `ShippedExactly`, under `TextTells`. `Telling` says of each version, and of each
  session on its way through it, that what is told or about to be is from one of its `Sources`, and that
  these stay what they were once the version is tagged, for no lower one is tagged after it (`NewInKept`,
  `CompletedKept`). `TextTells`: the texts of commits refer to an issue
  where the scan looks for it exactly if the commit is of its work. That this is so of texts in the
  forms the code reads and writes is what `ScanTells` checks.

`Standards_proofs`, for any files, front matters and number of pull requests

- `Invariant`, `TypeCorrect`, `IndexFollowsAdrs` (`DevInSync`). A branch is tied to the dev it was
  tested on: a green check is of the merge with that dev and outlives neither an edit nor a rebuild,
  and what a branch was cut from was in sync (`Kept`, one per pull request in `IInv`). This proof
  looks at entries and not at how the reader gets them from the lines; the next one does.
- `IndexSaysWhatIsWritten`: `EnforcedAsWritten`, for front matter of any length. `Told` says what the
  reader knows after `n` lines: the open mapping is that of the last line at the top, with the entries
  indented below it, and if that mapping were closed now every field would have the value that the
  last line with its key gives it. It is kept by each of the four kinds of line. That the recursion over the
  lines has a solution at all, and that `Told` holds after the last line, are each proved by looking at
  the least line where they fail. A first attempt failed because `ReadLine` was written as a CASE whose
  guards overlap, which leaves open which arm is taken; it is now a chain of IFs, as in the code.

## 7. What is only model-checked

- Liveness (`NeverDeadlocked`, `RunTerminates`, `LabelsSettle`), which needs fairness.
- `ScanTells`, which is about the forms of the texts that the instance lists; the lemmas of
  `Release_proofs` take over from there.
- `DoneWasMerged` and the other safety properties of the claim, the store, the solve run, the setup
  and the release are both checked and proved; the runs keep them because their mutants show that
  each can fail.

## 8. What is not modelled, and the plan

Next:

1. Proofs: `ScanTells` from a grammar of the texts instead of a list of them.
2. `SolveRun`'s other forms: one issue without sub-issues, ops-only units, the identity cache.
3. Recovery across runs: that a problem is handed over in the end, given a product owner who
   answers.

Left out of what is modelled: `emit` (the legacy write, by the same path), `prior_work`, the fanout
and by-area figures and the layout of `report` in `graph.py`; the creation of a missing label on the
team; the Project's health; release notes, and the roll-up comments on Projects and Initiatives,
which take the same list-then-save as an issue's; the head branch as a third field of the scan's
stream; lists in front matter that are not closed, or that have a bracket in their comment.

Left to their unit tests: the witness and the hooks, which keep no state (two pull requests, each
green, of which one removes what the other witnesses, race as in `Standards`); scope and retro,
which present or judge; agents, templates and output styles, which are prompts.
