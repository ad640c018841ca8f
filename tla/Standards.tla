------------------------------- MODULE Standards -------------------------------
(***************************************************************************)
(* The standards corpus: scripts/standards_index.py reads the front matter *)
(* of the ADR files and writes the index that a reviewer consults; pull    *)
(* requests edit the ADRs and regenerate the index; CI tests the merge of  *)
(* a pull request with the branch it goes to, which moves on meanwhile.    *)
(* An ADR is the lines of its front matter; a line that is blank or a      *)
(* comment is left out.                                                    *)
(***************************************************************************)
EXTENDS Integers, Sequences

CONSTANTS
  PR,        \* pull requests
  File,      \* ADR files
  Draft,     \* the front matters an ADR may have
  Lines,     \* front matter |-> its lines
  First,     \* file |-> its front matter at first, or None
  MaxEdits,  \* bound: edits of an ADR
  None,      \* an absent value
  Torn       \* an index of which only a part was written

Axis == {"domains", "file-patterns", "decision-types"}
Scalar == {"id", "title", "status", "date", "assertion"}
Required == Scalar \cup {"applies-to"}

\* What follows the colon: nothing, ~, a list, or text; "" is a quoted blank.
Rest == [kind : {"nothing", "null", "text", "list"}, items : SUBSET STRING, comment : BOOLEAN]
Line == [indented : BOOLEAN, key : {None} \cup STRING, rest : Rest]

ASSUME DraftAssumption == First \in [File -> Draft \cup {None}] /\ None \notin Draft
ASSUME BoundsAssumption == MaxEdits \in Nat
ASSUME LinesAssumption == \A d \in Draft : Lines[d] \in Seq(Line)

VARIABLES
  dev,    \* the ADR files and the index of the branch pull requests go to
  pr,     \* pull request |-> its branch
  edits,  \* edits so far
  tested  \* history: what was merged had been tested on that very dev, or was
          \* in sync by itself

vars == <<dev, pr, edits, tested>>

-------------------------------------------------------------------------------
(* The front-matter reader *)

Text(t, comment) == <<"text", [words |-> t, comment |-> comment]>>
List(items) == <<"list", items>>
Null == <<"null", {}>>
Map(entries) == <<"map", entries>>

\* A trailing comment goes with a list and with ~; text keeps it.
CoerceScalarOrList(rest) ==
  CASE rest.kind = "list" -> List(rest.items)
    [] rest.kind = "null" -> Null
    [] rest.kind = "nothing" -> Text({""}, FALSE)
    [] OTHER -> Text(rest.items, rest.comment)

\* An absent value is none that a file can give.
ASSUME NoneAssumption ==
  \A d \in Draft : \A n \in 1 .. Len(Lines[d]) : CoerceScalarOrList(Lines[d][n].rest) # None

NoFields == [k \in Required |-> None]
NoEntries == [a \in Axis \cup {"other"} |-> None]
Start == [ok |-> TRUE, open |-> None, map |-> NoEntries, result |-> NoFields]

\* Keys nothing looks at are one key.
Sub(key) == IF key \in Axis THEN key ELSE "other"
Set(fields, key, value) == [k \in Required |-> IF k = key THEN value ELSE fields[k]]

\* Faulty variant of Close: the next mapping starts with this one's entries.
CloseKeeping(at) ==
  IF at.open = None THEN at
  ELSE [at EXCEPT !.result = Set(@, at.open, Map(at.map)), !.open = None]

Close(at) ==
  IF at.open = None THEN at
  ELSE [at EXCEPT !.result = Set(@, at.open, Map(at.map)), !.open = None, !.map = NoEntries]

ReadLine(at, line) ==
  IF ~at.ok \/ line.key = None \/ (line.indented /\ at.open = None) THEN [at EXCEPT !.ok = FALSE]
  ELSE IF line.indented THEN [at EXCEPT !.map[Sub(line.key)] = CoerceScalarOrList(line.rest)]
  ELSE IF line.rest.kind = "nothing" THEN [Close(at) EXCEPT !.open = line.key]
  ELSE [Close(at) EXCEPT !.result = Set(@, line.key, CoerceScalarOrList(line.rest))]

\* What is known after each number of lines.
ReadLines(lines) ==
  LET read[n \in 0 .. Len(lines)] == IF n = 0 THEN Start ELSE ReadLine(read[n - 1], lines[n])
  IN  read

ParseFrontMatter(lines) == Close(ReadLines(lines)[Len(lines)])

Parsed == [d \in Draft |-> ParseFrontMatter(Lines[d])]

-------------------------------------------------------------------------------
(* validate and build_index *)

ValidAppliesTo(value) ==
  /\ value[1] = "map"
  /\ value[2]["other"] = None
  /\ \A a \in Axis : value[2][a] # None => value[2][a][1] = "list"
  /\ \E a \in Axis : value[2][a] # None /\ value[2][a][2] # {}

Valid(adr) ==
  LET read == Parsed[adr]
  IN  /\ read.ok
      /\ \A k \in Required : read.result[k] # None
      /\ \A k \in Scalar : read.result[k][1] = "text" /\ read.result[k][2].words # {""}
      /\ ValidAppliesTo(read.result["applies-to"])

ValidDrafts == {d \in Draft : Valid(d)}

Present(adrs) == {f \in File : adrs[f] # None}
Validates(adrs) == Present(adrs) # {} /\ \A f \in Present(adrs) : adrs[f] \in ValidDrafts

\* The corpus the repository starts from passes its tests.
ASSUME FirstAssumption == Validates(First)

\* An axis that is text is taken apart into letters.
NormaliseAppliesTo(value) ==
  [a \in Axis |->
     CASE value = None \/ value[1] # "map" -> {}
       [] value[1] = "map" /\ (value[2][a] = None \/ value[2][a][1] = "null") -> {}
       [] value[1] = "map" /\ value[2][a] # None /\ value[2][a][1] = "list" -> value[2][a][2]
       [] OTHER -> {"letter"}]

Entry(adr) ==
  LET fields == Parsed[adr].result
  IN  [id |-> fields["id"], title |-> fields["title"], status |-> fields["status"],
       assertion |-> fields["assertion"], appliesTo |-> NormaliseAppliesTo(fields["applies-to"])]

Entries == [d \in Draft |-> Entry(d)]
Index == [File -> {Entries[d] : d \in Draft} \cup {None}]

ASSUME TornAssumption == Torn \notin Index /\ \A d \in Draft : Entries[d] # None

\* One malformed file is enough for no index to be built.
Buildable(adrs) == \A f \in Present(adrs) : Parsed[adrs[f]].ok
BuildIndex(adrs) == [f \in File |-> IF adrs[f] = None THEN None ELSE Entries[adrs[f]]]

\* What the tests hold a tree against.
Drifted(tree) == ~(Buildable(tree.adrs) /\ tree.index = BuildIndex(tree.adrs))
Passes(tree) == ~Drifted(tree) /\ Validates(tree.adrs)

\* reviewer.md: the entries that are Accepted, and that the change matches.
Enforced(index, axis, name) ==
  {f \in File : /\ index[f] # None
                /\ index[f].status = Text({"Accepted"}, FALSE)
                /\ name \in index[f].appliesTo[axis]}

-------------------------------------------------------------------------------
(* Three-way merges, file by file and entry by entry *)

Clash(base, ours, theirs) == base # ours /\ base # theirs /\ ours # theirs
Pick(base, ours, theirs) == IF theirs = base THEN ours ELSE theirs

\* Faulty variant of MergeIndex: the branch's index replaces the other.
MergeIndexTheirs(base, ours, theirs) == theirs

\* A torn index differs in every line.
MergeIndex(base, ours, theirs) ==
  IF Torn \in {base, ours, theirs} THEN Pick(base, ours, theirs)
  ELSE [f \in File |-> Pick(base[f], ours[f], theirs[f])]

Mergeable(base, ours, theirs) ==
  /\ \A f \in File : ~Clash(base.adrs[f], ours.adrs[f], theirs.adrs[f])
  /\ IF Torn \in {base.index, ours.index, theirs.index}
     THEN ~Clash(base.index, ours.index, theirs.index)
     ELSE \A f \in File : ~Clash(base.index[f], ours.index[f], theirs.index[f])

MergeTrees(base, ours, theirs) ==
  [adrs |-> [f \in File |-> Pick(base.adrs[f], ours.adrs[f], theirs.adrs[f])],
   index |-> MergeIndex(base.index, ours.index, theirs.index)]

-------------------------------------------------------------------------------
Unopened == [state |-> "none"]
IsOpen(p) == pr[p].state = "open"
Branch(tree) == [state |-> "open", base |-> tree, tree |-> tree, writing |-> FALSE,
                 check |-> "none"]

Init == LET tree == [adrs |-> First, index |-> BuildIndex(First)]
        IN  /\ dev = tree
            /\ pr = [p \in PR |-> Unopened]
            /\ edits = 0
            /\ tested = TRUE

Open(p) == /\ pr[p] = Unopened
           /\ pr' = [pr EXCEPT ![p] = Branch(dev)]
           /\ UNCHANGED <<dev, edits, tested>>

\* An ADR is written or changed; a new head has no checks yet.
Edit(p, f, d) ==
  /\ IsOpen(p) /\ ~pr[p].writing /\ edits < MaxEdits
  /\ pr[p].tree.adrs[f] # d
  /\ pr' = [pr EXCEPT ![p].tree.adrs[f] = d, ![p].check = "none"]
  /\ edits' = edits + 1
  /\ UNCHANGED <<dev, tested>>

\* main and write_index: the index is built, and write_text first truncates.
Regenerate(p) ==
  /\ IsOpen(p) /\ ~pr[p].writing
  /\ Buildable(pr[p].tree.adrs)
  /\ pr' = [pr EXCEPT ![p].tree.index = Torn, ![p].writing = TRUE, ![p].check = "none"]
  /\ UNCHANGED <<dev, edits, tested>>

Written(p) == /\ IsOpen(p) /\ pr[p].writing
              /\ pr' = [pr EXCEPT ![p].tree.index = BuildIndex(pr[p].tree.adrs), ![p].writing = FALSE]
              /\ UNCHANGED <<dev, edits, tested>>

\* The script is killed before it has written everything.
Killed(p) == /\ IsOpen(p) /\ pr[p].writing
             /\ pr' = [pr EXCEPT ![p].writing = FALSE]
             /\ UNCHANGED <<dev, edits, tested>>

CanMerge(p) == IsOpen(p) /\ ~pr[p].writing /\ Mergeable(pr[p].base, dev, pr[p].tree)

\* Faulty variant of Ci: the drift test is left out.
CiWithoutDrift(p) ==
  /\ CanMerge(p)
  /\ pr' = [pr EXCEPT ![p].check =
               IF Validates(MergeTrees(pr[p].base, dev, pr[p].tree).adrs) THEN "green" ELSE "none"]
  /\ UNCHANGED <<dev, edits, tested>>

\* CI checks out the merge of the branch with dev as it then is.
Ci(p) == /\ CanMerge(p)
         /\ pr' = [pr EXCEPT ![p].check =
                      IF Passes(MergeTrees(pr[p].base, dev, pr[p].tree)) THEN "green" ELSE "none"]
         /\ UNCHANGED <<dev, edits, tested>>

\* dev is merged into the branch; where they clash, one side is taken.
Update(p) ==
  /\ IsOpen(p) /\ ~pr[p].writing /\ pr[p].base # dev
  /\ \E side \in {"ours", "theirs"} :
       LET Side(ours, theirs) == IF side = "ours" THEN ours ELSE theirs
           Merge1(base, ours, theirs) ==
             IF Clash(base, ours, theirs) THEN Side(ours, theirs) ELSE Pick(base, ours, theirs)
           base == pr[p].base
           tree == pr[p].tree
           whole == Torn \in {base.index, dev.index, tree.index}
       IN  pr' = [pr EXCEPT ![p] = Branch(
             [adrs |-> [f \in File |-> Merge1(base.adrs[f], dev.adrs[f], tree.adrs[f])],
              index |-> IF whole THEN Merge1(base.index, dev.index, tree.index)
                        ELSE [f \in File |-> Merge1(base.index[f], dev.index[f], tree.index[f])]]),
                            ![p].base = dev]
  /\ UNCHANGED <<dev, edits, tested>>

\* A green pull request is squashed onto dev, wherever dev is by now.
Merge(p) ==
  /\ CanMerge(p) /\ pr[p].check # "none"
  /\ dev' = MergeTrees(pr[p].base, dev, pr[p].tree)
  /\ pr' = [q \in PR |-> IF q = p THEN [state |-> "merged"]
                         ELSE IF IsOpen(q) /\ pr[q].check = "green"
                         THEN [pr[q] EXCEPT !.check = "outdated"] ELSE pr[q]]
  /\ tested' = (tested /\ (pr[p].check = "green" \/ Passes(pr[p].tree)))
  /\ UNCHANGED edits

Next == \E p \in PR : \/ Open(p) \/ Regenerate(p) \/ Written(p) \/ Killed(p)
                      \/ Ci(p) \/ Update(p) \/ Merge(p)
                      \/ \E f \in File, d \in Draft : Edit(p, f, d)

Spec == Init /\ [][Next]_vars

-------------------------------------------------------------------------------
Adrs == [File -> Draft \cup {None}]
IsIndex(index) == DOMAIN index = File /\ \A f \in File : index[f] # None => DOMAIN index[f] =
                    {"id", "title", "status", "assertion", "appliesTo"}

\* A torn index stays on the branch it was torn on.
TypeOK == /\ dev.adrs \in Adrs
          /\ dev.index # Torn /\ IsIndex(dev.index)
          /\ \A p \in PR : IsOpen(p) =>
               /\ {pr[p].base.adrs, pr[p].tree.adrs} \subseteq Adrs
               /\ pr[p].base.index # Torn /\ IsIndex(pr[p].base.index)
               /\ pr[p].tree.index # Torn => IsIndex(pr[p].tree.index)
               /\ pr[p].writing \in BOOLEAN /\ pr[p].check \in {"none", "green", "outdated"}
          /\ \A p \in PR : pr[p].state \in {"none", "open", "merged"}
          /\ edits \in 0 .. MaxEdits

\* Read off the lines: where a key is given last at the top, and what stands
\* under it.
At(adr, key) == {n \in 1 .. Len(adr) : ~adr[n].indented /\ adr[n].key = key}
LastOf(places) == CHOOSE n \in places : \A m \in places : m <= n
Under(adr, n) == {m \in n + 1 .. Len(adr) : \A k \in n + 1 .. m : adr[k].indented}

WrittenStatus(adr) == adr[LastOf(At(adr, "status"))].rest
WrittenNames(adr, axis) ==
  LET given == {m \in Under(adr, LastOf(At(adr, "applies-to"))) : adr[m].key = axis}
  IN  IF given = {} THEN {} ELSE adr[LastOf(given)].rest.items

\* Where the tests pass, a reviewer who reads only the index enforces exactly
\* the ADRs that say Accepted and name what the change touches, and reads of each
\* the assertion that stands in its file: nothing that was only proposed,
\* nothing that slid from one key to another, and nothing left out.
EnforcedAsWritten ==
  \A tree \in {dev} \cup {pr[p].tree : p \in {q \in PR : IsOpen(q)}} : Passes(tree) =>
    \A f \in File, axis \in Axis, name \in {"auth", "docs"} :
      LET written == tree.adrs[f] # None
          adr == Lines[tree.adrs[f]]
      IN  /\ f \in Enforced(tree.index, axis, name) <=>
               /\ written
               /\ WrittenStatus(adr) = [kind |-> "text", items |-> {"Accepted"}, comment |-> FALSE]
               /\ name \in WrittenNames(adr, axis)
          /\ written => tree.index[f].assertion[2].words
                             = adr[LastOf(At(adr, "assertion"))].rest.items

\* dev's index never drifts from its ADRs, and dev stays valid, however pull
\* requests race: a green check may be out of date when its branch is merged, as
\* long as that branch carries an index that belongs to its own ADRs.
DevInSync == tested => Passes(dev)
===============================================================================
