----------------------------- MODULE MCReadMarks -----------------------------
(* ReadMarks for TLC: members and calls are interchangeable.               *)
EXTENDS ReadMarks, TLC

Symmetry == Permutations(User) \cup Permutations(Call)
=============================================================================
