----------------------------- MODULE MCPresence -----------------------------
(***************************************************************************)
(* Presence for TLC.                                                       *)
(***************************************************************************)
EXTENDS Presence
=============================================================================
