---------------------------- MODULE MCExposition ----------------------------
(* Instances of Exposition for TLC. *)
EXTENDS Exposition, TLC
=============================================================================
