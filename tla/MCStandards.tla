----------------------------- MODULE MCStandards -----------------------------
(***************************************************************************)
(* Instance of Standards for TLC: two ADR files, one there from the start, *)
(* and front matter that is in order, proposed, superseded with a comment, *)
(* without a value, out of order, or malformed.                            *)
(***************************************************************************)
EXTENDS Standards, TLC

CONSTANTS a1, a2

R(kind, items) == [kind |-> kind, items |-> items, comment |-> FALSE]
L(key, rest) == [indented |-> FALSE, key |-> key, rest |-> rest]
I(key, rest) == [indented |-> TRUE, key |-> key, rest |-> rest]
T(key, text) == L(key, R("text", {text}))
Noted(line) == [line EXCEPT !.rest.comment = TRUE]
Scope == L("applies-to", R("nothing", {}))
On(axis, names) == I(axis, R("list", names))

Lead(status) == <<T("id", "a"), T("title", "t"), status, T("date", "d")>>
Rule(n) == T("assertion", n)

Accepted == Lead(T("status", "Accepted"))
             \o <<Rule("always"), Scope, On("domains", {"auth"}), On("decision-types", {})>>

MCDraft == {"accepted", "proposed", "commented", "twice", "text", "bare", "block", "blank"}
MCLines == [d \in MCDraft |->
  CASE d = "accepted" -> Accepted
    [] d = "proposed" ->
         Lead(T("status", "Proposed")) \o <<Rule("always"), Scope, On("domains", {"auth"})>>
    \* status: Accepted  # since v2; the mapping stands before the other keys
    [] d = "commented" ->
         <<Scope, Noted(On("file-patterns", {"docs"})), On("domains", {"auth"})>>
           \o Lead(Noted(T("status", "Accepted"))) \o <<Rule("never")>>
    \* another mapping before the one that counts, and an axis given twice
    [] d = "twice" ->
         <<L("related", R("nothing", {})), On("decision-types", {"docs"}),
           Scope, On("domains", {"docs"}), On("domains", {"auth"})>>
           \o Lead(T("status", "Accepted")) \o <<L("supersedes", R("null", {})), Rule("never")>>
    \* domains: auth; a key without a value; a block list; a blank title
    [] d = "text" -> Accepted \o <<Scope, I("domains", R("text", {"auth"}))>>
    [] d = "bare" -> Accepted \o <<L("assertion", R("nothing", {}))>>
    [] d = "block" -> Accepted \o <<Scope, I("domains", R("nothing", {})), I(None, R("nothing", {}))>>
    [] d = "blank" -> Accepted \o <<T("title", "")>>]

MCFirst == [f \in File |-> IF f = a1 THEN "proposed" ELSE None]

CONSTANTS p1, p2, p3
Symmetry == Permutations(PR)
===============================================================================
