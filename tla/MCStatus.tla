------------------------------ MODULE MCStatus ------------------------------
(***************************************************************************)
(* Instance of Status for TLC: two sessions over two problems, one blocked *)
(* by the other.  The tags cover each form Linear stores, a mention of     *)
(* [manual] inside a body, a tag without its space and a word that is no   *)
(* kind.                                                                   *)
(***************************************************************************)
EXTENDS Status

CONSTANTS a, b

MCBlockedBy == [u \in Unit |-> IF u = b THEN {a} ELSE {}]

Tagged(word, wrap) == [word |-> word, wrap |-> wrap, spaced |-> TRUE, mention |-> FALSE]
Waiting == {Tagged("manual", "bare"), Tagged("review", "none")}
WaitingToo == {Tagged("manual", "double"), Tagged("test", "span")}
NotWaiting == {[Tagged("test", "bare") EXCEPT !.mention = TRUE],
               [Tagged("manual", "span") EXCEPT !.spaced = FALSE],
               [Tagged("wip", "bare") EXCEPT !.mention = TRUE],
               [Tagged("wip", "none") EXCEPT !.mention = TRUE]}
MCCriteria == {Waiting, WaitingToo, NotWaiting}

Old == [closed |-> 1, started |-> 0, unstarted |-> 0, stalled |-> 0]

Workspace(lab, t, c, d) == [labels |-> lab, type |-> t, ac |-> [u \in Unit |-> c], description |-> d]
Both(x) == [u \in Unit |-> x]
MCWorkspaces ==
  {Workspace([u \in Unit |-> IF u = a THEN {"problem", "other"} ELSE {"problem", "blocked"}],
             Both("started"), Waiting, <<>>),
   Workspace(Both({"problem", "blocked"}), [u \in Unit |-> IF u = a THEN "completed" ELSE "unstarted"],
             NotWaiting,
             <<Plain("text"), Plain("blank")>> \o Block(Old)
               \o <<Plain("h1"), Plain("blank"), Plain("h2"), Plain("text")>>)}
===============================================================================
