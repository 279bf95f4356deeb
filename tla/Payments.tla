------------------------------ MODULE Payments ------------------------------
(***************************************************************************)
(* The payments feature of a set of bookings: plans and ledger over one    *)
(* database, interleaved with the cancellation of bookings, and what its   *)
(* tables promise after any sequence of committed requests.                *)
(***************************************************************************)
EXTENDS PaymentPlans, PaymentLedger

(* updateBookingStatus, seen from payments: a booking becomes CANCELLED    *)
(* once and for all; no handler here distinguishes the other statuses.     *)
CancelBooking(b) ==
  /\ b \notin cancelled
  /\ cancelled' = cancelled \cup {b}
  /\ UNCHANGED <<planVars, ledgerVars>>

Init == TablesInit

Next == PlanStep \/ LedgerStep \/ \E b \in Bookings : CancelBooking(b)

Spec == Init /\ [][Next]_vars
-----------------------------------------------------------------------------
(* At most one plan of a booking is not withdrawn: the proposal's check    *)
(* and the payment_plan_active_booking_key index (D-057).                  *)
OneActivePlan ==
  \A l, m \in Plans :
    Active(l) /\ Active(m) /\ plan[l].booking = plan[m].booking => l = m

(* The installments the client was promised always add up to the booking's *)
(* total: approval checks it and the financial lock keeps the total.       *)
ApprovedPlanReconciles ==
  \A l \in Plans : plan[l].status = "APPROVED" =>
    Total(plan[l].installments) = financials[plan[l].booking].total

(* A receipt shows the payment's amount in the booking's currency, however *)
(* much later it is read and whatever happened to the booking since.       *)
ReceiptsMatchBooking ==
  \A x \in receipts :
    /\ payment[x.payment].amount = x.amount
    /\ payment[x.payment].booking \in Bookings
    /\ financials[payment[x.payment].booking].currency = x.currency

(* Refunds never exceed the payment; the payment is REFUNDED exactly when  *)
(* they reach its amount; a pending or reversed payment has none.          *)
RefundsWithinPayment ==
  \A p \in Payments :
    /\ RefundedTotal(p) <= payment[p].amount
    /\ payment[p].status = "REFUNDED" =>
         RefundedTotal(p) = payment[p].amount
    /\ payment[p].status = "CONFIRMED" =>
         RefundedTotal(p) < payment[p].amount
    /\ payment[p].status \in {"NONE", "PENDING", "REVERSED"} => RefundsOf(p) = {}

(* D-054 section 17 rule 2: what a payment's active allocations still hold *)
(* is covered by what the payment still contributes.                       *)
AllocationsCovered ==
  \A p \in Payments :
    Counted(p) => NetActive(ActiveOf(p)) <= NetContribution(p)

(* D-054 section 17 rule 5: an installment is never over-allocated,        *)
(* through any mix of allocations, reversals, refunds and reversed         *)
(* payments that close and reopen its capacity.                            *)
InstallmentsNotOverpaid ==
  \A l \in Plans : \A x \in plan[l].installments :
    NetActive(ActiveOn(l, x.seq)) <= x.amount

(* Refunds linked to an allocation stay within it, come from the payment   *)
(* that was allocated, and an allocation they touch is never reversed.     *)
LinkedRefundsWithinAllocation ==
  \A a \in allocations :
    /\ Total(LinkedTo({a})) <= a.amount
    /\ \A r \in LinkedTo({a}) : r.payment = a.payment
    /\ IsReversed(a) => LinkedTo({a}) = {}

(* An allocation points at an installment of an approved plan of the       *)
(* payment's own booking, for ever: an approved plan is never withdrawn.   *)
AllocationsOnApprovedPlan ==
  \A a \in allocations :
    /\ plan[a.plan].status = "APPROVED"
    /\ plan[a.plan].booking = payment[a.payment].booking
    /\ \E x \in plan[a.plan].installments : x.seq = a.seq

(* D-056 section 5: once a booking is cancelled its money can only leave.  *)
(* No plan is proposed or approved, no payment recorded or confirmed, no   *)
(* allocation made, and its financials stay.                               *)
CancelledStep ==
  /\ \A b \in cancelled : financials'[b] = financials[b]
  /\ \A l \in Plans : plan'[l].booking \in cancelled =>
       plan'[l] = plan[l] \/ plan'[l].status = "WITHDRAWN"
  /\ \A p \in Payments : payment'[p].booking \in cancelled =>
       payment'[p] = payment[p] \/ payment'[p].status \in {"REVERSED", "REFUNDED"}
  /\ \A a \in allocations' \ allocations : payment[a.payment].booking \notin cancelled
CancelledOnlyPaysOut == [][CancelledStep]_vars

=============================================================================
