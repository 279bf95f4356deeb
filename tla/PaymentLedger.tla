--------------------------- MODULE PaymentLedger ----------------------------
(***************************************************************************)
(* The money handlers: recordPayment, confirmPayment, reversePayment,      *)
(* refundPayment, issueReceipt, createAllocation, reverseAllocation, all   *)
(* by Finance.  Each carries an idempotency key.  Before anything else the *)
(* handler looks the key up: the same request again is answered from the   *)
(* stored row (the ...Replay predicates), another request under that key   *)
(* is refused, and neither writes.  A fresh key passes to the guards.      *)
(***************************************************************************)
EXTENDS PaymentTables

RecordReplay(b, amt, k) ==
  \E h \in history : /\ h.key = k /\ h.status = "PENDING"
                     /\ payment[h.payment].booking = b
                     /\ payment[h.payment].amount = amt

TransitionReplay(p, target, k) ==
  \E h \in history : h.key = k /\ h.payment = p /\ h.status = target

RefundReplay(p, amt, a, k) ==
  \E r \in refunds : /\ r.key = k /\ r.payment = p
                     /\ r.amount = amt /\ r.allocation = a

AllocationReplay(p, l, i, amt, k) ==
  \E a \in allocations : /\ a.key = k /\ a.payment = p /\ a.plan = l
                         /\ a.seq = i /\ a.amount = amt

ReversalReplay(a, k) == \E v \in reversals : v.key = k /\ v.allocation = a
-----------------------------------------------------------------------------
AnyStatusKey(k) == TRUE
FreshStatusKey(k) == k \notin KeysOf(history)

CreatePending(p, b, amt, k) ==
  /\ payment' = [payment EXCEPT ![p] = [status |-> "PENDING", booking |-> b, amount |-> amt]]
  /\ history' = history \cup {[key |-> k, payment |-> p, status |-> "PENDING"]}

RecordPayment(p, b, amt, k) ==
  /\ payment[p].status = "NONE"
  /\ FreshStatusKey(k)
  /\ Open(b)
  /\ financials[b].currency # None
  /\ CreatePending(p, b, amt, k)
  /\ UNCHANGED <<cancelled, planVars, refunds, allocations, reversals, receipts>>

(* transitionPaymentStatus: the payment row and its history row. *)
Transition(p, target, k) ==
  /\ payment' = [payment EXCEPT ![p].status = target]
  /\ history' = history \cup {[key |-> k, payment |-> p, status |-> target]}

Confirmable(p) == payment[p].status = "PENDING"
ConfirmPayment(p, k) ==
  /\ FreshStatusKey(k)
  /\ Open(payment[p].booking)
  /\ Confirmable(p)
  /\ Transition(p, "CONFIRMED", k)
  /\ UNCHANGED <<cancelled, planVars, refunds, allocations, reversals, receipts>>

(* The payment's allocations stay; they stop counting with its status. *)
ReversibleAfterRefund(p) == payment[p].status = "CONFIRMED"
Reversible(p) == payment[p].status = "CONFIRMED" /\ RefundedTotal(p) = 0
ReversePayment(p, k) ==
  /\ FreshStatusKey(k)
  /\ Reversible(p)
  /\ Transition(p, "REVERSED", k)
  /\ UNCHANGED <<cancelled, planVars, refunds, allocations, reversals, receipts>>

(* The allocation a linked refund reopens must be active on this payment   *)
(* and keep the refunds linked to it within its amount.                    *)
AllocationForRefund(p, a) == {x \in ActiveOf(p) : x.key = a}
RefundableLink(p, amt, a) ==
  \E x \in AllocationForRefund(p, a) : Total(LinkedTo({x})) + amt <= x.amount

(* What the payment still contributes after the refund covers what its     *)
(* allocations then hold; only a linked refund lowers both sides.          *)
RefundTakenFromAllocations(p, amt, a) ==
  NetActive(ActiveOf(p)) - amt <= payment[p].amount - (RefundedTotal(p) + amt)
RefundLeavesCovered(p, amt, a) ==
  NetActive(ActiveOf(p)) - (IF a = None THEN 0 ELSE amt)
    <= payment[p].amount - (RefundedTotal(p) + amt)

FreshRefundKey(k) == k \notin KeysOf(refunds)
NewRefund(p, amt, a, k) == [key |-> k, payment |-> p, amount |-> amt, allocation |-> a]

(* a is the linked allocation's key, or None.  Completing the refund moves *)
(* the payment to REFUNDED under the same key.                             *)
RefundPayment(p, amt, a, k) ==
  /\ FreshRefundKey(k) /\ FreshStatusKey(k)
  /\ payment[p].status = "CONFIRMED"
  /\ RefundedTotal(p) + amt <= payment[p].amount
  /\ a # None => RefundableLink(p, amt, a)
  /\ RefundLeavesCovered(p, amt, a)
  /\ refunds' = refunds \cup {NewRefund(p, amt, a, k)}
  /\ IF RefundedTotal(p) + amt = payment[p].amount
     THEN Transition(p, "REFUNDED", k)
     ELSE UNCHANGED <<payment, history>>
  /\ UNCHANGED <<cancelled, planVars, allocations, reversals, receipts>>

HasReceipt(p) == \E x \in receipts : x.payment = p
NewReceipt(p, cur) == [payment |-> p, amount |-> payment[p].amount, currency |-> cur]
IssueReceipt(p) ==
  /\ ~HasReceipt(p)
  /\ payment[p].status = "CONFIRMED"
  /\ LET cur == financials[payment[p].booking].currency IN
       /\ cur # None
       /\ receipts' = receipts \cup {NewReceipt(p, cur)}
  /\ UNCHANGED <<cancelled, planVars, payment, history, refunds, allocations,
                 reversals>>

FitsPayment(p, amt) == NetActive(ActiveOf(p)) + amt <= NetContribution(p)
FitsEmptyInstallment(l, i, amt) ==
  \E x \in plan[l].installments : x.seq = i /\ amt <= x.amount
InstallmentForAllocation(l, i) == {x \in plan[l].installments : x.seq = i}
FitsInstallment(l, i, amt) ==
  \E x \in InstallmentForAllocation(l, i) : NetActive(ActiveOn(l, i)) + amt <= x.amount

(* The installment's plan is approved and of the payment's own booking. *)
AllocatableWhileProposed(p, l) == Active(l) /\ plan[l].booking = payment[p].booking
Allocatable(p, l) ==
  plan[l].status = "APPROVED" /\ plan[l].booking = payment[p].booking

FreshAllocationKey(k) == k \notin KeysOf(allocations)
NewAllocation(p, l, i, amt, k) ==
  [key |-> k, payment |-> p, plan |-> l, seq |-> i, amount |-> amt]
CreateAllocation(p, l, i, amt, k) ==
  /\ FreshAllocationKey(k)
  /\ payment[p].status # "NONE"
  /\ Open(payment[p].booking)
  /\ Allocatable(p, l)
  /\ RefundedTotal(p) <= payment[p].amount
  /\ FitsPayment(p, amt)
  /\ FitsInstallment(l, i, amt)
  /\ allocations' = allocations \cup {NewAllocation(p, l, i, amt, k)}
  /\ UNCHANGED <<cancelled, planVars, payment, history, refunds, reversals,
                 receipts>>

AllocationReversibleAnyway(a) == ~IsReversed(a)
AllocationReversible(a) == ~IsReversed(a) /\ LinkedTo({a}) = {}
FreshReversalKey(k) == k \notin KeysOf(reversals)
NewReversal(a, k) == [key |-> k, allocation |-> a.key]
ReverseAllocation(a, k) ==
  /\ FreshReversalKey(k)
  /\ AllocationReversible(a)
  /\ reversals' = reversals \cup {NewReversal(a, k)}
  /\ UNCHANGED <<cancelled, planVars, payment, history, refunds, allocations,
                 receipts>>

LedgerStep ==
  \/ \E p \in Payments, b \in Bookings, amt \in Amounts, k \in StatusKeys :
       RecordPayment(p, b, amt, k)
  \/ \E p \in Payments, k \in StatusKeys : ConfirmPayment(p, k) \/ ReversePayment(p, k)
  \/ \E p \in Payments, amt \in Amounts, k \in RefundKeys,
        a \in KeysOf(allocations) \cup {None} : RefundPayment(p, amt, a, k)
  \/ \E p \in Payments : IssueReceipt(p)
  \/ \E p \in Payments, l \in Plans, i \in Seqs, amt \in Amounts,
        k \in AllocationKeys : CreateAllocation(p, l, i, amt, k)
  \/ \E a \in allocations, k \in ReversalKeys : ReverseAllocation(a, k)

=============================================================================
