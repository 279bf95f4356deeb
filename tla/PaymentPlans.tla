---------------------------- MODULE PaymentPlans ----------------------------
(***************************************************************************)
(* Booking financials and the payment-plan lifecycle:                      *)
(* setBookingFinancials, proposePaymentPlan, approvePaymentPlan and        *)
(* withdrawPaymentPlan.  A request the service refuses, and one it answers *)
(* as a no-op (same financials, a plan already approved or withdrawn),     *)
(* changes no table, so it is a stuttering step.                           *)
(***************************************************************************)
EXTENDS PaymentTables

(* Installment lists the proposal handler accepts: distinct sequence       *)
(* numbers, at least one.                                                  *)
InstallmentLists ==
  {s \in SUBSET Installment : s # {} /\ \A x, y \in s : x.seq = y.seq => x = y}

UpdateFinancials(b, total, cur) ==
  financials' = [financials EXCEPT ![b] = [total |-> total, currency |-> cur]]

(* Finance.  Allowed while no active plan and no payment exists; changing  *)
(* values that were set before also needs a reason, which is input only.   *)
SetBookingFinancials(b, total, cur) ==
  /\ Open(b)
  /\ ~FinancialLock(b)
  /\ UpdateFinancials(b, total, cur)
  /\ UNCHANGED <<cancelled, plan, ledgerVars>>

NewPlan(b, installments) ==
  [status |-> "PROPOSED", booking |-> b, installments |-> installments]

(* Travel Consultant.  The installments need not add up yet. *)
ProposePaymentPlan(l, b, installments) ==
  /\ plan[l].status = "NONE"
  /\ Open(b)
  /\ financials[b] # NotSet
  /\ ~HasActivePlan(b)
  /\ plan' = [plan EXCEPT ![l] = NewPlan(b, installments)]
  /\ UNCHANGED <<cancelled, financials, ledgerVars>>

SumInstallments(l) == Total(plan[l].installments)
Approved(l) == plan' = [plan EXCEPT ![l].status = "APPROVED"]

(* Finance.  Approval requires the installments to add up to the total. *)
ApprovePaymentPlan(l) ==
  /\ plan[l].status = "PROPOSED"
  /\ Open(plan[l].booking)
  /\ SumInstallments(l) = financials[plan[l].booking].total
  /\ Approved(l)
  /\ UNCHANGED <<cancelled, financials, ledgerVars>>

Allocated(l) == \E a \in allocations : a.plan = l
Withdrawn(l) == plan' = [plan EXCEPT ![l].status = "WITHDRAWN"]

(* The proposer or Finance, also on a cancelled booking. *)
WithdrawPaymentPlan(l) ==
  /\ plan[l].status = "PROPOSED"
  /\ ~Allocated(l)
  /\ Withdrawn(l)
  /\ UNCHANGED <<cancelled, financials, ledgerVars>>

PlanStep ==
  \/ \E b \in Bookings, total \in Amounts, cur \in Currencies :
       SetBookingFinancials(b, total, cur)
  \/ \E l \in Plans, b \in Bookings, s \in InstallmentLists :
       ProposePaymentPlan(l, b, s)
  \/ \E l \in Plans : ApprovePaymentPlan(l) \/ WithdrawPaymentPlan(l)

=============================================================================
