----------------------------- MODULE MCDelivery -----------------------------
(***************************************************************************)
(* TLC instances of Delivery.                                              *)
(***************************************************************************)
EXTENDS Delivery, TLC

Symmetry == Permutations(User) \cup Permutations(Call)
=============================================================================
