----------------------------- MODULE MCSessions -----------------------------
(***************************************************************************)
(* Sessions for TLC: the group of the safe prime 23, where 2 generates the *)
(* subgroup of order 11.                                                   *)
(***************************************************************************)
EXTENDS Sessions, TLC

Symmetry == Permutations(Name) \cup Permutations(Request)
=============================================================================
