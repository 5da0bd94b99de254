------------------------------ MODULE FreshNames ------------------------------
(***************************************************************************)
(* Random identifiers and counters that are only compared for equality are  *)
(* modelled as names.  Which of the unused names comes next makes no        *)
(* difference, so a specification takes one of them, if there is one.       *)
(***************************************************************************)
OneOf(S) == IF S = {} THEN {} ELSE {CHOOSE x \in S : TRUE}
=============================================================================
