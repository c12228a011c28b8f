----------------------------- MODULE MCChannels -----------------------------
(***************************************************************************)
(* Channels for TLC.                                                       *)
(***************************************************************************)
EXTENDS Channels, TLC

Symmetry == Permutations(User \ Client) \cup Permutations(Channel) \cup Permutations(Request)
=============================================================================
