------------------------------ MODULE MCRelease ------------------------------
(***************************************************************************)
(* Instance of Release for TLC: two issues, and three commits that name     *)
(* them in every way the scan tells apart.  Pull request numbers run in    *)
(* the same range as issue numbers.                                        *)
(***************************************************************************)
EXTENDS Release, TLC

CONSTANTS scoped, closing, external

R(place, form, id) == [place |-> place, form |-> form, id |-> id]

\* feat(#1): ... NB-2 (#2), cut on nb-1 / fix: ... (#1), closes #2, see NB-1 and #1 /
\* docs: ... #1 (#2), see NB-2
MCRefs == [c \in Commit |->
  CASE c = scoped   -> {R("scope", "#", 1), R("subject", "NB", 2), R("trailing", "#", 2),
                        R("branch", "NB", 1)}
    [] c = closing  -> {R("trailing", "#", 1), R("body-directive", "#", 2),
                        R("body", "NB", 1), R("body", "#", 1)}
    [] c = external -> {R("subject", "#", 1), R("trailing", "#", 2), R("body", "NB", 2)}]
MCWork == [c \in Commit |->
  CASE c = scoped -> {1, 2} [] c = closing -> {2} [] OTHER -> {}]

CONSTANTS s1, s2
Symmetry == Permutations({s1, s2})
===============================================================================
