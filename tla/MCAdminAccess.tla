--------------------------- MODULE MCAdminAccess ----------------------------
(* Instances of AdminAccess for TLC. *)
EXTENDS AdminAccess
=============================================================================
