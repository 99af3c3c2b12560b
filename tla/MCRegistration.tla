--------------------------- MODULE MCRegistration ---------------------------
(* Instances of Registration for TLC. *)
EXTENDS Registration, TLC

\* Codes of one kind are interchangeable, and so are the slots of one kind.
Symmetry ==
    Permutations(Campus) \cup Permutations(Building) \cup Permutations(Group)
    \cup Permutations(ProbeID) \cup Permutations(Visitor) \cup Permutations(Admin)
=============================================================================
