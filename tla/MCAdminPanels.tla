---------------------------- MODULE MCAdminPanels ----------------------------
(* Instances of AdminPanels for TLC. *)
EXTENDS AdminPanels

=============================================================================
