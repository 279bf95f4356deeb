------------------------------ MODULE MCPayments ----------------------------
(* An instance of Payments for TLC. *)
EXTENDS Payments, FiniteSetsExt, TLC

(* Total is the community modules' sum of the amount field. *)
SumIsReference ==
  \A S \in SUBSET [key : 1 .. 2, amount : 1 .. 3] :
    Total(S) = MapThenSumSet(LAMBDA r : r.amount, S)
ASSUME SumAssumption == SumIsReference

CONSTANT Other  \* the currency of bookings that no two payments compete for

Few(S, n) == Cardinality(S) <= n

(* Two payments of one booking compete for one installment ... *)
OneBooking ==
  /\ Few({b \in Bookings : financials[b] # NotSet \/ b \in cancelled}, 1)
  /\ \A b \in Bookings : financials[b].currency # Other
  /\ Few({l \in Plans : plan[l] # NoPlan}, 1)
  /\ \A l \in Plans : \A x \in plan[l].installments : x.seq = 1

(* ... or two bookings with plans of up to two installments have one       *)
(* payment between them.                                                   *)
OnePayment ==
  /\ Few({p \in Payments : payment[p] # NoPayment}, 1)
  /\ Few({h \in history : h.key \in StatusKeys}, 2)
  /\ Few(refunds, 1) /\ Few(allocations, 1)

(* Which of its fresh keys or ids a request uses makes no difference: the  *)
(* least.                                                                  *)
LeastFresh(K, used) == \A j \in K \cap used : \A i \in K : i < j => i \in used
InOrder ==
  /\ LeastFresh(StatusKeys, KeysOf(history))
  /\ LeastFresh(RefundKeys, KeysOf(refunds))
  /\ LeastFresh(AllocationKeys, KeysOf(allocations))
  /\ LeastFresh(Payments, {p \in Payments : payment[p] # NoPayment})

Small == InOrder /\ (OnePayment \/ OneBooking)

Symmetry == Permutations(Bookings) \cup Permutations(Plans)

(* Nothing reads the installments of a withdrawn plan.                     *)
PlanInView(l) ==
  IF plan[l].status = "WITHDRAWN" THEN plan[l].booking ELSE plan[l]
WithoutWithdrawn ==
  <<cancelled, financials, [l \in Plans |-> PlanInView(l)], ledgerVars>>

=============================================================================
