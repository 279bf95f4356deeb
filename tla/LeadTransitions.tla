--------------------------- MODULE LeadTransitions ---------------------------
(* The statuses of a lead and the moves between them                        *)
(* (features/leads/transitions.ts).                                         *)
EXTENDS Naturals

Pipeline == <<"NEW", "UNDER_REVIEW", "CONTACTED", "CONSULTATION_SCHEDULED", "QUALIFIED">>
Closed == {"NOT_PROCEEDING", "DUPLICATE", "SPAM", "ARCHIVED"}
Open == {Pipeline[i] : i \in DOMAIN Pipeline}
LeadStatus == Open \cup Closed \cup {"CONVERTED_TO_CLIENT"}

(* TRANSITION_MATRIX: forward along the pipeline, out of it to a closed    *)
(* status, back from there to review or on to the archive.  CONVERTED has  *)
(* no successor and is nobody's target.                                    *)
Allowed(s, t) ==
  \/ \E i, j \in DOMAIN Pipeline : i < j /\ s = Pipeline[i] /\ t = Pipeline[j]
  \/ s \in Open /\ t \in Closed
  \/ s \in Closed /\ t = "UNDER_REVIEW"
  \/ s \in Closed \ {"ARCHIVED"} /\ t = "ARCHIVED"

=============================================================================
