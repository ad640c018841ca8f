--------------------------- MODULE MCLinearSetup ---------------------------
(* Instances of LinearSetup for TLC: a bare team, one with both spellings of *)
(* the problem label, one with cruft and a template made by hand, and one    *)
(* with more labels than a page.                                             *)
EXTENDS LinearSetup

Names == {"problem", "Problem", "blocked", "Bug", "bug", "priority:high"}
Lower == [n \in Names |-> CASE n = "Problem" -> "problem" [] n = "Bug" -> "bug" [] OTHER -> n]
Labelled == [t \in {"Problem", "Spec"} |-> IF t = "Problem" THEN "problem" ELSE "none"]

Bare == [labels |-> <<>>, states |-> {"triage", "started"}, templates |-> <<>>]
Cased == [labels |-> <<"problem", "Problem", "blocked">>, states |-> {"backlog", "started"},
          templates |-> <<>>]
Cruft == [labels |-> <<"bug", "Problem", "Bug", "priority:high", "blocked">>,
          states |-> {"backlog", "started"}, templates |-> <<"Problem", "Spec">>]
Crowded == [labels |-> <<"bug", "bug", "bug", "bug", "blocked", "problem">>,
            states |-> {"backlog", "started"}, templates |-> <<>>]
Workspaces == {Bare, Cased, Cruft, Crowded}
=============================================================================
