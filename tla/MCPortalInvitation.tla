------------------------- MODULE MCPortalInvitation -------------------------
(* An instance of PortalInvitation for TLC. *)
EXTENDS PortalInvitation, TLC

CONSTANTS c1, c2, e1, e2

(* Three clicks while one client is invited, one of whose links may expire.*)
(* A second client is invited beside a link of the first: then a click     *)
(* each, and only the second client's address changes.                     *)
Unused(c) == inv[c] = NoRow
Clicks(c) == {q \in Requests : request[q].client = c}
Bounded ==
  \/ Unused(c2) /\ email[c2] = e2 /\ email[c1] # e2 /\ Cardinality(expired) <= 1
  \/ /\ inv[c1].token # None /\ \A c \in Clients : Cardinality(Clicks(c)) <= 1
     /\ expired = {} /\ email[c1] = e1 /\ email[c2] # None

=============================================================================
