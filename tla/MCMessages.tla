----------------------------- MODULE MCMessages -----------------------------
(***************************************************************************)
(* TLC instances of Messages.  Every identifier is interchangeable, so the *)
(* safety runs reduce by symmetry; MCEnds, for liveness, does not.         *)
(***************************************************************************)
EXTENDS Messages, TLC

Symmetry == Permutations(MessageId) \cup Permutations(Handler)
=============================================================================
