---------------------------- MODULE PaymentTables ---------------------------
(***************************************************************************)
(* The database tables of the payments feature and the quantities its      *)
(* service derives from them.  Every handler in features/payments/service  *)
(* runs in one SERIALIZABLE transaction, so a handler is one step on these *)
(* tables (PaymentPlans, PaymentLedger); Payments composes the handlers.   *)
(*                                                                         *)
(* Tables the code only appends to are sets of rows.  A row of refunds,    *)
(* allocations or reversals is identified by its idempotency key, a unique *)
(* column; an Installment is named by its plan and sequence number.        *)
(***************************************************************************)
EXTENDS Totals

CONSTANTS
  Bookings,        \* Booking ids
  Plans,           \* PaymentPlan ids
  Payments,        \* Payment ids
  Currencies,      \* supported ISO codes (one in the first release)
  Amounts,         \* positive money values, in centavos
  Seqs,            \* installment sequence numbers
  StatusKeys,      \* idempotency keys clients send to record, confirm, reverse
  RefundKeys,      \* ... to refund
  AllocationKeys,  \* ... to allocate
  ReversalKeys,    \* ... to reverse an allocation
  None             \* SQL NULL

Keys == StatusKeys \cup RefundKeys \cup AllocationKeys \cup ReversalKeys

ASSUME AmountsAssumption == Amounts \subseteq Nat \ {0}
ASSUME SeqsAssumption == IsFiniteSet(Seqs)
ASSUME NoneAssumption ==
  None \notin Bookings \cup Plans \cup Currencies \cup Keys

VARIABLES
  cancelled,    \* bookings whose status is CANCELLED
  financials,   \* Booking.totalAmount and currencyCode
  plan,         \* PaymentPlan rows with their Installments
  payment,      \* Payment rows
  history,      \* PaymentStatusHistory rows
  refunds,      \* PaymentRefund rows, with their PaymentRefundAllocation
  allocations,  \* PaymentAllocation rows
  reversals,    \* PaymentAllocationReversal rows
  receipts      \* Receipt rows

planVars == <<financials, plan>>
ledgerVars == <<payment, history, refunds, allocations, reversals, receipts>>
vars == <<cancelled, planVars, ledgerVars>>
-----------------------------------------------------------------------------
(* Rows.  A plan or payment id that has not been used yet has status NONE. *)

Installment == [seq : Seqs, amount : Amounts]
Financials == [total : Amounts, currency : Currencies]
PlanRow == [status : {"PROPOSED", "APPROVED", "WITHDRAWN"}, booking : Bookings,
            installments : SUBSET Installment]
PaymentStatus == {"PENDING", "CONFIRMED", "REVERSED", "REFUNDED"}
PaymentRow == [status : PaymentStatus,
               booking : Bookings, amount : Amounts]
HistoryRow == [key : Keys, payment : Payments, status : PaymentStatus]
RefundRow == [key : Keys, payment : Payments, amount : Amounts,
              allocation : Keys \cup {None}]
AllocationRow == [key : Keys, payment : Payments, plan : Plans, seq : Seqs,
                  amount : Amounts]
ReversalRow == [key : Keys, allocation : Keys]
ReceiptRow == [payment : Payments, amount : Amounts, currency : Currencies]

NotSet == [total |-> 0, currency |-> None]
NoPlan == [status |-> "NONE", booking |-> None, installments |-> {}]
NoPayment == [status |-> "NONE", booking |-> None, amount |-> 0]

(* Every table holds well-formed rows and is finite. *)
TypeOK ==
  /\ cancelled \subseteq Bookings
  /\ financials \in [Bookings -> Financials \cup {NotSet}]
  /\ plan \in [Plans -> PlanRow \cup {NoPlan}]
  /\ \A l \in Plans : IsFiniteSet(plan[l].installments)
  /\ payment \in [Payments -> PaymentRow \cup {NoPayment}]
  /\ history \subseteq HistoryRow
  /\ refunds \subseteq RefundRow /\ IsFiniteSet(refunds)
  /\ allocations \subseteq AllocationRow /\ IsFiniteSet(allocations)
  /\ reversals \subseteq ReversalRow
  /\ receipts \subseteq ReceiptRow

TablesInit ==
  /\ cancelled = {}
  /\ financials = [b \in Bookings |-> NotSet]
  /\ plan = [l \in Plans |-> NoPlan]
  /\ payment = [p \in Payments |-> NoPayment]
  /\ history = {} /\ refunds = {} /\ allocations = {}
  /\ reversals = {} /\ receipts = {}
-----------------------------------------------------------------------------
(* Derived quantities. *)

KeysOf(rows) == {x.key : x \in rows}

(* assertBookingOpenForPayment; the variant forgets the check. *)
OpenAlways(b) == TRUE
Open(b) == b \notin cancelled

(* hasFinancialLock: any plan not withdrawn, or any payment, in any status. *)
(* Three variants of it that a refactoring could introduce precede it.     *)
Active(l) == plan[l].status \in {"PROPOSED", "APPROVED"}
HasApprovedPlan(b) ==
  \E l \in Plans : plan[l].status = "APPROVED" /\ plan[l].booking = b
HasActivePlan(b) == \E l \in Plans : Active(l) /\ plan[l].booking = b
HasPendingPayment(b) ==
  \E p \in Payments : payment[p].status = "PENDING" /\ payment[p].booking = b
HasPayment(b) == \E p \in Payments : payment[p].booking = b
PaymentsOnlyLock(b) == HasPayment(b)
FinancialLock(b) == HasActivePlan(b) \/ HasPayment(b)

RefundsOf(p) == {r \in refunds : r.payment = p}
RefundedTotal(p) == Total(RefundsOf(p))

(* Refunds linked to one of the allocations in the set A. *)
LinkedTo(A) == {r \in refunds : r.allocation \in KeysOf(A)}
NetActive(A) == Total(A) - Total(LinkedTo(A))

IsReversed(a) == \E v \in reversals : v.allocation = a.key
ActiveOf(p) == {a \in allocations : a.payment = p /\ ~IsReversed(a)}
Counted(p) == payment[p].status \in {"CONFIRMED", "REFUNDED"}
ActiveOn(l, i) ==
  {a \in allocations : /\ a.plan = l /\ a.seq = i
                       /\ ~IsReversed(a) /\ Counted(a.payment)}

NetContribution(p) ==
  IF Counted(p) THEN payment[p].amount - RefundedTotal(p) ELSE 0

=============================================================================
