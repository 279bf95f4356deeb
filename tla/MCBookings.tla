------------------------------ MODULE MCBookings ------------------------------
(* Instances of Bookings for TLC. *)
EXTENDS Bookings, TLC

(* Whom the other client is assigned to no longer varies once a booking is *)
(* asked for.                                                              *)
OneClientBooks ==
  (\E q \in Requests : request[q] # None) =>
    \A c \in Clients : assignee[c] # None => \E p \in ProposalIds : ClientOf(p) = c

Symmetry ==
  Permutations(Clients) \cup Permutations(Consultants) \cup Permutations(Pages) \cup Permutations(BookingIds)
    \cup Permutations(Requests)

=============================================================================
