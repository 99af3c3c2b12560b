-------------------------- MODULE MCProbeLifecycle --------------------------
(* Instances of ProbeLifecycle for TLC. *)
EXTENDS ProbeLifecycle, TLC

\* Request slots are interchangeable, and so are probe identifiers.
Symmetry == Permutations(ProbeID) \cup Permutations(PushReq) \cup Permutations(AdminReq)
=============================================================================
