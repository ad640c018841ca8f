-------------------------------- MODULE Release --------------------------------
(***************************************************************************)
(* /backlogd:release and scripts/release_scan.py: a release branch is cut  *)
(* off the integration branch (dev), merged into the release branch        *)
(* (main), tagged and merged back; then the commits between two tags are   *)
(* classified, and every issue they include is told it has shipped.  A     *)
(* branch or a tag is the set of its commits; beside the commits of        *)
(* features there are version bumps and merges, which name no issue.       *)
(***************************************************************************)
EXTENDS Integers, FiniteSets

CONSTANTS
  Session,     \* orchestrator sessions
  Commit,      \* the commits features are squashed into
  Refs,        \* commit |-> the issue and pull request numbers in its text
  Work,        \* commit |-> the issues whose work it is
  Issue,       \* numbers of Linear issues
  MaxVersion,  \* bound: versions are 1 .. MaxVersion
  MaxRuns,     \* bound: invocations
  MaxFaults,   \* bound: sessions killed, or left without gh
  None         \* an absent value

Version == 1 .. MaxVersion

\* A reference is a number at a place in the commit's text, written NB-N or #N.
Place == {"scope", "subject", "directive", "trailing", "body", "body-directive", "branch"}
Ref == [place : Place, form : {"NB", "#"}, id : Nat]

Bump(v) == <<"bump", v>>
Merged(v) == <<"merge", v>>
BackMerged(v) == <<"back-merge", v>>
Mark == {"bump", "merge", "back-merge"} \X Version
History == SUBSET (Commit \cup Mark)

ASSUME RefsAssumption == /\ Refs \in [Commit -> SUBSET Ref]
                         /\ Work \in [Commit -> SUBSET Issue]
                         /\ Issue \subseteq Nat
ASSUME NoneAssumption == /\ \A commits \in History : commits # None
                         /\ \A versions \in SUBSET Version : versions # None
ASSUME MarkAssumption == Commit \cap Mark = {}
ASSUME BoundsAssumption == /\ MaxVersion \in Nat /\ MaxRuns \in Nat /\ MaxFaults \in Nat
                           /\ IsFiniteSet(Session)

VARIABLES
  dev, main,   \* the commits of the two branches on origin
  tags,        \* version |-> the commits it is a tag of, or None
  trees,       \* the versions whose release worktree and branch exist
  shipped,     \* issue |-> version |-> its "Shipped in" comments
  doneAt,      \* issue |-> the tags there were when it was completed, or None
  since,       \* version |-> those plugin.json was set to since it was set to this one
  run,         \* session |-> the release it is cutting
  runs,        \* invocations so far
  faults,      \* kills and missing tools so far
  orderly,     \* history: releases are cut one at a time, each above dev's version
  apart,       \* history: no two sessions commented on one release at once
  guessed,     \* history: the versions whose issues came from Linear's dates
  said         \* history: the versions whose comments a session has finished

origin == <<dev, main, tags, trees, since>>
linear == <<shipped, doneAt>>
history == <<orderly, apart, guessed, said>>
vars == <<origin, linear, run, runs, faults, history>>

-------------------------------------------------------------------------------
(* release_scan *)

RefsOf(c) == IF c \in Commit THEN Refs[c] ELSE {}
Ids(refs) == {r.id : r \in refs}

\* What git log streams of a commit: it does not know the head branch.
Streamed(c) == {r \in RefsOf(c) : r.place # "branch"}

ScopeIds(refs) == Ids({r \in refs : r.place = "scope" /\ r.form = "#"})
MagicWordIds(refs) == Ids({r \in refs : r.place \in {"directive", "body-directive"}})
BranchIds(refs) == Ids({r \in refs : r.place = "branch"})

\* Faulty variant of BareSubjectIds: the number a squash merge appends counts.
SubjectIdsWithPr(refs) == Ids({r \in refs : r.place \in {"scope", "subject", "directive", "trailing"}})

\* NB-N anywhere in the subject; a bare #N there is a pull request.
BareSubjectIds(refs) ==
  Ids({r \in refs : r.place \in {"scope", "subject", "directive"} /\ r.form = "NB"})

BodyIds(refs) == Ids({r \in refs : r.place \in {"body", "body-directive"} /\ r.form = "NB"})

IncludedBy(c) == LET refs == Streamed(c)
                 IN  ScopeIds(refs) \cup BareSubjectIds(refs) \cup MagicWordIds(refs)
                       \cup BranchIds(refs)

\* scan: inclusion by any commit wins over a mention in any other.
Scan(commits) ==
  LET included == UNION {IncludedBy(c) : c \in commits}
  IN  [included |-> included,
       advisory |-> UNION {BodyIds(Streamed(c)) : c \in commits} \ included]

-------------------------------------------------------------------------------
Idle == [pc |-> "idle"]
Tagged == {v \in Version : tags[v] # None}

\* plugin.json on a branch: the last of the bumps merged into it.
VersionOf(commits) == LET held == {v \in Version : Bump(v) \in commits}
                      IN  IF held = {} THEN 0 ELSE CHOOSE v \in held : since[v] \cap held = {}

\* Two branches merge unless each has changed plugin.json since they parted.
Clean(a, b) == LET base == VersionOf(a \cap b)
               IN  base = VersionOf(a) \/ base = VersionOf(b) \/ VersionOf(a) = VersionOf(b)

\* <prev-tag>..vX.Y.Z
TagRange(v) == LET older == {w \in Tagged : w < v}
            IN  tags[v] \ (IF older = {} THEN {} ELSE tags[CHOOSE w \in older : \A x \in older : x <= w])

\* Faulty variant of Completed: the commits are listed, not their issues.
CompletedCommits(v) == TagRange(v)

\* The issues Linear says were completed between the two tags.
Completed(v) == {i \in Issue : doneAt[i] # None /\ doneAt[i] = {w \in Tagged : w < v}}

Init == /\ dev = {} /\ main = {}
        /\ tags = [v \in Version |-> None]
        /\ trees = {} /\ since = [v \in Version |-> {}]
        /\ shipped = [i \in Issue |-> [v \in Version |-> 0]]
        /\ doneAt = [i \in Issue |-> None]
        /\ run = [s \in Session |-> Idle]
        /\ runs = 0 /\ faults = 0
        /\ orderly = TRUE /\ apart = TRUE /\ guessed = {} /\ said = {}

\* A feature's pull request is squashed onto dev, and its issues are done.
Develop(c) ==
  /\ c \in Commit \ dev
  /\ dev' = dev \cup {c}
  /\ doneAt' = [i \in Issue |-> IF i \in Work[c] /\ doneAt[i] = None THEN Tagged ELSE doneAt[i]]
  /\ UNCHANGED <<main, tags, trees, since, shipped, run, runs, faults, history>>

Cutting(s) == run[s].pc \in {"cut", "merge", "tag", "back-merge"}
Commenting(s, v) == run[s].pc \in {"list", "save"} /\ run[s].version = v

Fresh(v, pc) == [pc |-> pc, version |-> v, head |-> {}, targets |-> {}, issue |-> None, found |-> FALSE]

\* Sections 1 and 2: there is something to release, and the version goes up.  Both
\* are looked up in the checkout the command is run in, before anything is fetched:
\* its plugin.json is of any version the branches have had, and its dev was once
\* ahead of its main.
Start(s, v) ==
  /\ run[s] = Idle /\ runs < MaxRuns
  /\ dev # {}
  /\ \E known \in {0} \cup {w \in Version : Bump(w) \in dev \cup main} : v > known
  /\ run' = [run EXCEPT ![s] = Fresh(v, "cut")]
  /\ runs' = runs + 1
  /\ orderly' = (orderly /\ v > VersionOf(dev) /\ \A t \in Session : ~Cutting(t))
  /\ UNCHANGED <<origin, linear, faults, apart, guessed, said>>

Goes(s, pc) == run' = [run EXCEPT ![s].pc = pc]
Ends(s) == run' = [run EXCEPT ![s] = Idle]

\* Section 3; the branch and the worktree of a killed run are in the way.
Cut(s) ==
  /\ run[s].pc = "cut"
  /\ IF run[s].version \in trees
     THEN Ends(s) /\ UNCHANGED <<trees, since>>
     ELSE /\ run' = [run EXCEPT ![s].pc = "merge", ![s].head = dev \cup {Bump(run[s].version)}]
          /\ since' = [v \in Version |-> IF v = run[s].version THEN {} ELSE since[v] \cup {run[s].version}]
          /\ trees' = trees \cup {run[s].version}
  /\ UNCHANGED <<dev, main, tags, linear, runs, faults, history>>

\* Section 4: a merge commit, or a conflict that is handed over.
MergePr(s) ==
  /\ run[s].pc = "merge"
  /\ IF Clean(main, run[s].head)
     THEN main' = main \cup run[s].head \cup {Merged(run[s].version)} /\ Goes(s, "tag")
     ELSE Ends(s) /\ UNCHANGED main
  /\ UNCHANGED <<dev, tags, trees, since, linear, runs, faults, history>>

\* Faulty variant of TagOf: the integration branch is tagged.
TagOfDev(s) == dev

\* What section 5 tags: wherever the release branch stands by then.
TagOf(s) == main

\* Section 5: a tag that exists is never moved; the run stops.
Tag(s) ==
  /\ run[s].pc = "tag"
  /\ IF run[s].version \in Tagged
     THEN Ends(s) /\ UNCHANGED tags
     ELSE tags' = [tags EXCEPT ![run[s].version] = TagOf(s)] /\ Goes(s, "back-merge")
  /\ UNCHANGED <<dev, main, trees, since, linear, runs, faults, history>>

\* Section 6: main is merged back, or the conflict surfaces and the run stops.
BackMerge(s) ==
  /\ run[s].pc = "back-merge"
  /\ IF Clean(dev, main)
     THEN dev' = dev \cup main \cup {BackMerged(run[s].version)} /\ Goes(s, "scan")
     ELSE Ends(s) /\ UNCHANGED dev
  /\ UNCHANGED <<main, tags, trees, since, linear, runs, faults, history>>

\* Sections 6 and 6.5a: the worktree is removed; git log runs in it, so it
\* streams nothing unless that was put off.  Without an included issue the
\* issues completed between the tags stand in.
ScanRange(s) ==
  /\ run[s].pc = "scan"
  /\ LET v == run[s].version
     IN  \E streamed \in {{}, TagRange(v)} :
           LET included == Scan(streamed).included
           IN  /\ run' = [run EXCEPT ![s].pc = "gh",
                                     ![s].targets = IF included = {} THEN Completed(v) ELSE included]
               /\ guessed' = IF included = {} THEN guessed \cup {v} ELSE guessed
               /\ trees' = trees \ {v}
  /\ UNCHANGED <<dev, main, tags, since, linear, runs, faults, orderly, apart, said>>

\* Section 6.5c: the GitHub Release is there (or gh is missing: see Stop).
GhRelease(s) == /\ run[s].pc = "gh"
                /\ Goes(s, "list")
                /\ apart' = (apart /\ \A t \in Session \ {s} : ~Commenting(t, run[s].version))
                /\ UNCHANGED <<origin, linear, runs, faults, orderly, guessed, said>>

\* Section 6.5d: the comments of an issue are listed, and the marker looked for.
List(s, i) ==
  /\ run[s].pc = "list" /\ i \in run[s].targets
  /\ run' = [run EXCEPT ![s].pc = "save", ![s].issue = i,
                        ![s].found = shipped[i][run[s].version] > 0]
  /\ UNCHANGED <<origin, linear, runs, faults, history>>

\* Faulty variant of Save: the comment is posted without looking for the marker.
SaveAlways(s) ==
  /\ run[s].pc = "save"
  /\ shipped' = [shipped EXCEPT ![run[s].issue][run[s].version] = @ + 1]
  /\ run' = [run EXCEPT ![s].pc = "list", ![s].targets = @ \ {run[s].issue}]
  /\ UNCHANGED <<origin, doneAt, runs, faults, history>>

Save(s) ==
  /\ run[s].pc = "save"
  /\ shipped' = IF run[s].found THEN shipped
                ELSE [shipped EXCEPT ![run[s].issue][run[s].version] = @ + 1]
  /\ run' = [run EXCEPT ![s].pc = "list", ![s].targets = @ \ {run[s].issue}]
  /\ UNCHANGED <<origin, doneAt, runs, faults, history>>

Finish(s) == /\ run[s].pc = "list" /\ run[s].targets = {}
             /\ Ends(s)
             /\ said' = said \cup {run[s].version}
             /\ UNCHANGED <<origin, linear, runs, faults, orderly, apart, guessed>>

\* Section 6.5f: the Linear half is done again for a tag that exists, as after
\* a run that ended without gh.
Rerun(s, v) ==
  /\ run[s] = Idle /\ runs < MaxRuns /\ v \in Tagged
  /\ run' = [run EXCEPT ![s] = Fresh(v, "scan")]
  /\ runs' = runs + 1
  /\ UNCHANGED <<origin, linear, faults, history>>

\* The session is killed, a review blocks its merge, or gh is unavailable.
Stop(s) == /\ run[s] # Idle /\ faults < MaxFaults
           /\ Ends(s)
           /\ faults' = faults + 1
           /\ UNCHANGED <<origin, linear, runs, history>>

\* Someone removes what a killed run left behind.
CleanUp(v) == /\ v \in trees /\ \A s \in Session : run[s] # Idle => run[s].version # v
              /\ trees' = trees \ {v}
              /\ UNCHANGED <<dev, main, tags, since, linear, run, runs, faults, history>>

\* The product owner merges main back after a run that ended before it did.
MergeBackByHand == /\ ~(main \subseteq dev) /\ \A s \in Session : ~Cutting(s)
                   /\ dev' = dev \cup main
                   /\ UNCHANGED <<main, tags, trees, since, linear, run, runs, faults, history>>

Next == \/ MergeBackByHand
        \/ \E c \in Commit : Develop(c)
        \/ \E v \in Version : CleanUp(v)
        \/ \E s \in Session : \/ \E v \in Version : Start(s, v) \/ Rerun(s, v)
                              \/ Cut(s) \/ MergePr(s) \/ Tag(s) \/ BackMerge(s)
                              \/ ScanRange(s) \/ GhRelease(s)
                              \/ \E i \in Issue : List(s, i)
                              \/ Save(s) \/ Finish(s) \/ Stop(s)

Spec == Init /\ [][Next]_vars

-------------------------------------------------------------------------------
Step == [pc : {"cut", "merge", "tag", "back-merge", "scan", "gh", "list", "save"},
         version : Version, head : History, targets : SUBSET Nat,
         issue : Issue \cup {None}, found : BOOLEAN]

TypeOK == /\ dev \in History /\ main \in History
          /\ tags \in [Version -> History \cup {None}]
          /\ trees \subseteq Version /\ since \in [Version -> SUBSET Version]
          /\ shipped \in [Issue -> [Version -> Nat]]
          /\ doneAt \in [Issue -> (SUBSET Version) \cup {None}]
          /\ run \in [Session -> Step \cup {Idle}]
          /\ runs \in 0 .. MaxRuns /\ faults \in 0 .. MaxFaults
          /\ guessed \subseteq Version /\ said \subseteq Version

WorkIn(commits) == UNION {Work[c] : c \in commits \cap Commit}
NamedIn(commits) == UNION {Ids({r \in Refs[c] : r.place \in {"body", "body-directive"}}) :
                             c \in commits \cap Commit}

NewIn(v) == tags[v] \ UNION {tags[w] : w \in {x \in Tagged : x < v}}

\* What is scanned of any release is the work in it: an issue is included if a
\* commit since the previous tag is its work, however its number is written, and
\* a pull request's number or a mention in a body never makes it so; the issues
\* that are only mentioned are the advisory ones.
ScanTells == \A v \in Tagged :
  LET scan == Scan(TagRange(v))
  IN  /\ scan.included = WorkIn(TagRange(v))
      /\ scan.advisory \subseteq NamedIn(TagRange(v)) \ WorkIn(TagRange(v))

\* Where a session may have the issues of a version from: the work the tag is the first
\* to hold, or, if one fell back on Linear's dates, what was completed since the last tag.
Sources(v) == {WorkIn(NewIn(v))} \cup (IF v \in guessed THEN {Completed(v)} ELSE {})

\* As long as releases are cut one at a time, each above dev's version: a version whose
\* issues came from the scan has told, once a session has finished, exactly the issues
\* whose work is in its tag and in no earlier one, and no others before; one that fell
\* back on Linear's dates has told those, or the ones completed since the previous tag,
\* and no others.  Over kills, re-runs and hand-overs an issue is told once, unless two
\* sessions were commenting on that version at the same time.
ShippedExactly ==
  /\ orderly => \A v \in Version :
       LET told == {i \in Issue : shipped[i][v] > 0}
       IN  /\ told # {} => told \subseteq UNION Sources(v)
           /\ v \in said => \E issues \in Sources(v) : issues \subseteq told
  /\ apart => \A i \in Issue, v \in Version : shipped[i][v] <= 1

\* As long as releases are cut one at a time, each above dev's version, the tree a tag
\* names carries that version, and a later version's tag holds all that an earlier one
\* holds, however kills, re-runs and merges by hand fall between them: so every commit
\* on a tag is in exactly one release's range.
TagNamesTree == orderly => \A v \in Tagged :
  /\ VersionOf(tags[v]) = v
  /\ \A w \in Tagged : v <= w => tags[v] \subseteq tags[w]
===============================================================================
