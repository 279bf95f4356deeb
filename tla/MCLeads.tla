------------------------------- MODULE MCLeads -------------------------------
(* An instance of Leads for TLC. *)
EXTENDS Leads, TLC

CONSTANTS c1, c2, q1, q2
Symmetry == Permutations(Clients) \cup Permutations(Edits)

=============================================================================
