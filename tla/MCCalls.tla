------------------------------- MODULE MCCalls -------------------------------
(* Calls for TLC: users, calls and requests are interchangeable.           *)
EXTENDS Calls, TLC

Symmetry == Permutations(User) \cup Permutations(CallId) \cup Permutations(Request)
=============================================================================
