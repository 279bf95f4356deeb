------------------------- MODULE BookingTransitions -------------------------
(* The statuses of a booking and the moves between them                     *)
(* (features/bookings/transitions.ts).                                      *)
EXTENDS Naturals

(* TRANSITION_MATRIX *)
Stages ==
  << {"DRAFT"}, {"PENDING_CONFIRMATION"}, {"CONFIRMED"}, {"IN_PREPARATION"},
     {"DOCUMENTS_REQUIRED", "VISA_PROCESSING"}, {"READY_FOR_TRAVEL"},
     {"IN_PROGRESS"}, {"COMPLETED"} >>
Terminal == {"COMPLETED", "CANCELLED"}
BookingStatus == UNION {Stages[i] : i \in DOMAIN Stages} \cup Terminal
Stage(s) == CHOOSE i \in DOMAIN Stages : s \in Stages[i]
Follows(s, t) ==
  \/ Stage(t) = Stage(s) + 1
  \/ Stage(t) = Stage(s) /\ s # t
  \/ s = "IN_PREPARATION" /\ t = "READY_FOR_TRAVEL"
TransitionAllowed(s, t) ==
  /\ s \notin Terminal
  /\ t # "CANCELLED" => Follows(s, t)

=============================================================================
