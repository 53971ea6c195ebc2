----------------------------- MODULE Household -----------------------------
(***************************************************************************)
(* What the two Mother Hubbard programs promise (project_2/Pr2README,      *)
(* "Problem 2"): every child of a day is bathed by Mother, then tucked in  *)
(* bed by Father, and Mother starts the next day only when all children of *)
(* this one are in bed.  Counted over all days, children in order.         *)
(***************************************************************************)
EXTENDS Integers

CONSTANTS Kids, Days

VARIABLES
  bathed,   \* baths given so far
  tucked    \* children tucked in bed so far

Init == bathed = 0 /\ tucked = 0

\* A bath of the day that is not over yet.
Bathe ==
  /\ bathed < Kids * Days
  /\ bathed < Kids * (tucked \div Kids + 1)
  /\ bathed' = bathed + 1
  /\ UNCHANGED tucked

Tuck ==
  /\ tucked < bathed
  /\ tucked' = tucked + 1
  /\ UNCHANGED bathed

Next == Bathe \/ Tuck

Spec == Init /\ [][Next]_<<bathed, tucked>>
=============================================================================
