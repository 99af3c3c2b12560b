-------------------------- MODULE MCTokenHandover ---------------------------
(* Instances of TokenHandover for TLC. *)
EXTENDS TokenHandover, TLC

Symmetry == Permutations(ProbeID) \cup Permutations(Request)
=============================================================================
