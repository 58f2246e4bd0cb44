---------------------------- MODULE MCInvocation ----------------------------
(* Invocation for TLC: slots and accounts are interchangeable. *)
EXTENDS Invocation, TLC

Symmetry == Permutations(Accounts) \cup Permutations(Invs)
=============================================================================
