----------------------------- MODULE MCRegistry -----------------------------
(* Registry for TLC: names, values and slots are interchangeable. *)
EXTENDS Registry, TLC

Symmetry == Permutations(Apps) \cup Permutations(Invs) \cup Permutations(Entries)
=============================================================================
