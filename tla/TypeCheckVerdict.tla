-------------------------- MODULE TypeCheckVerdict --------------------------
(***************************************************************************)
(* What the recursive-type check promises, in one step: it decides, from   *)
(* the field lists alone, whether the objects are recursive.               *)
(***************************************************************************)
CONSTANT Objects
VARIABLES members, verdict

Contains(x, y) == \E i \in DOMAIN members[x] : members[x][i] = y

Recursive ==
  \E C \in SUBSET Objects : C # {} /\ \A x \in C : \E y \in C : Contains(x, y)

Init == verdict = "undecided"

Decide ==
  /\ verdict = "undecided"
  /\ verdict' = IF Recursive THEN "rejected" ELSE "accepted"
  /\ UNCHANGED members

Spec == Init /\ [][Decide]_<<members, verdict>>
============================================================================
