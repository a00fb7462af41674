------------------------------- MODULE MCCalls -------------------------------
(* Small instances of Calls for TLC. *)
EXTENDS Calls, TLC

\* Users and requests are interchangeable.
Symmetry == Permutations(Users) \cup Permutations(Requests)
=============================================================================
