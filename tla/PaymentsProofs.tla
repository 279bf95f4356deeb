--------------------------- MODULE PaymentsProofs ---------------------------
(***************************************************************************)
(* The invariants of Payments, proved for every set of bookings, plans,    *)
(* payments and keys and for every money amount, after what Total computes *)
(* on finite sets of rows: zero on the empty set, additive when a row is   *)
(* inserted or removed, monotone in the set.                               *)
(***************************************************************************)
EXTENDS Payments, FiniteSetTheorems, TLAPS

-----------------------------------------------------------------------------
(* A finite set of rows whose amounts are natural numbers. *)
IsRows(S) == IsFiniteSet(S) /\ \A r \in S : r.amount \in Nat

(* One row contributes exactly its amount: the units of a single row are   *)
(* in bijection with 1 .. amount.                                          *)
LEMMA UnitsOfRow ==
  ASSUME NEW r, r.amount \in Nat
  PROVE  /\ IsFiniteSet({r} \X (1 .. r.amount))
         /\ Cardinality({r} \X (1 .. r.amount)) = r.amount
<1>1. IsFiniteSet({r}) /\ Cardinality({r}) = 1
  BY FS_Singleton
<1>2. IsFiniteSet(1 .. r.amount) /\ Cardinality(1 .. r.amount) = r.amount
  BY FS_Interval
<1>3. QED
  BY <1>1, <1>2, FS_Product

(* The unit rows of a set with one row more are the old ones and the new   *)
(* row's.                                                                  *)
LEMMA UnitsAdd ==
  ASSUME NEW S, NEW r
  PROVE  Units(S \cup {r}) = Units(S) \cup ({r} \X (1 .. r.amount))
BY DEF Units

(* Units of a finite set of rows are finite, so Total is a natural number. *)
LEMMA UnitsFinite ==
  ASSUME NEW S, IsRows(S)
  PROVE  IsFiniteSet(Units(S))
<1> DEFINE F == {{r} \X (1 .. r.amount) : r \in S}
<1>1. IsFiniteSet(F)
  <2> DEFINE f == [r \in S |-> {r} \X (1 .. r.amount)]
  <2>1. f \in Surjection(S, F)
    BY DEF Surjection
  <2>2. QED
    BY <2>1, FS_Surjection DEF IsRows
<1>2. \A T \in F : IsFiniteSet(T)
  BY UnitsOfRow DEF IsRows
<1>3. IsFiniteSet(UNION F)
  BY <1>1, <1>2, FS_UNION
<1>4. QED
  BY <1>3 DEF Units

(* The amount of a finite set of money rows is a natural number. *)
LEMMA TotalType ==
  ASSUME NEW S, IsRows(S)
  PROVE  Total(S) \in Nat
BY UnitsFinite, FS_CardinalityType DEF Total

(* The sum over no rows is zero. *)
LEMMA TotalEmpty == Total({}) = 0
<1>1. Units({}) = {}
  BY DEF Units
<1>2. QED
  BY <1>1, FS_EmptySet DEF Total

(* Inserting a new row adds its amount. *)
LEMMA TotalAdd ==
  ASSUME NEW S, IsRows(S), NEW r, r \notin S, r.amount \in Nat
  PROVE  Total(S \cup {r}) = Total(S) + r.amount
<1> DEFINE U == {r} \X (1 .. r.amount)
<1>1. IsFiniteSet(Units(S))
  BY UnitsFinite
<1>2. IsFiniteSet(U) /\ Cardinality(U) = r.amount
  BY UnitsOfRow
<1>3. Units(S) \cap U = {}
  BY DEF Units
<1>4. Units(S \cup {r}) = Units(S) \cup U
  BY UnitsAdd
<1>5. Cardinality(Units(S) \cap U) = 0
  BY <1>3, FS_EmptySet
<1>6. /\ Cardinality(Units(S)) \in Nat
      /\ Cardinality(U) \in Nat
  BY <1>1, <1>2, FS_CardinalityType
<1> HIDE DEF U
<1>7. Cardinality(Units(S) \cup U)
        = Cardinality(Units(S)) + Cardinality(U) - Cardinality(Units(S) \cap U)
  BY <1>1, <1>2, FS_Union
<1>8. QED
  <2>1. Total(S \cup {r}) = Cardinality(Units(S) \cup U)
    BY <1>4 DEF Total
  <2>2. Cardinality(Units(S) \cup U) = Cardinality(Units(S)) + r.amount
    BY <1>2, <1>5, <1>6, <1>7
  <2>3. QED
    BY <2>1, <2>2 DEF Total

(* Removing a row subtracts its amount. *)
LEMMA TotalRemove ==
  ASSUME NEW S, IsRows(S), NEW r \in S
  PROVE  Total(S \ {r}) = Total(S) - r.amount
<1> DEFINE T == S \ {r}
<1>1. IsRows(T) /\ r \notin T /\ r.amount \in Nat
  BY FS_RemoveElement DEF IsRows
<1>2. T \cup {r} = S
  OBVIOUS
<1> HIDE DEF T
<1>3. Total(S) = Total(T) + r.amount /\ Total(T) \in Nat
  BY <1>1, <1>2, TotalAdd, TotalType
<1>4. QED
  BY <1>1, <1>3 DEF T

(* More rows never have a smaller sum. *)
LEMMA TotalMono ==
  ASSUME NEW S, IsRows(S), NEW T \in SUBSET S
  PROVE  Total(T) <= Total(S)
<1>1. Units(T) \subseteq Units(S)
  BY DEF Units
<1>2. QED
  BY <1>1, UnitsFinite, FS_Subset DEF Total

(* A subset of a set of rows is a set of rows. *)
LEMMA SubRows ==
  ASSUME NEW S, IsRows(S), NEW T \in SUBSET S
  PROVE  IsRows(T)
BY FS_Subset DEF IsRows

(* Rows with positive amounts add up to zero only when there are none. *)
LEMMA TotalZero ==
  ASSUME NEW S, IsRows(S), \A r \in S : r.amount # 0, Total(S) = 0
  PROVE  S = {}
<1> SUFFICES ASSUME NEW r \in S PROVE FALSE
  OBVIOUS
<1>1. Total(S \ {r}) = Total(S) - r.amount
  BY TotalRemove
<1>2. Total(S \ {r}) \in Nat
  BY SubRows, TotalType
<1>3. r.amount \in Nat
  BY DEF IsRows
<1>4. QED
  BY <1>1, <1>2, <1>3

-----------------------------------------------------------------------------

(* The row a handler writes and the rows it looks up are always expanded.  *)
USE DEF UpdateFinancials, NewPlan, SumInstallments, Approved, Allocated, Withdrawn,
        CreatePending, AllocationForRefund, FreshRefundKey, NewRefund, HasReceipt,
        NewReceipt, InstallmentForAllocation, FreshAllocationKey, NewAllocation,
        FreshReversalKey, NewReversal

(* Installments of an accepted list have distinct sequence numbers, so     *)
(* there are finitely many.                                                *)
LEMMA InstallmentListFinite ==
  ASSUME NEW s \in InstallmentLists
  PROVE  s \subseteq Installment /\ IsFiniteSet(s)
<1> DEFINE f == [x \in s |-> x.seq]
<1>1. s \subseteq Installment /\ \A x, y \in s : x.seq = y.seq => x = y
  BY DEF InstallmentLists
<1>2. f \in Injection(s, Seqs)
  BY <1>1 DEF Installment, Injection, IsInjective
<1>3. QED
  BY <1>1, <1>2, SeqsAssumption, FS_Injection

(* The empty database is well typed. *)
LEMMA TypeInit == Init => TypeOK
<1>1. IsFiniteSet({})
  BY FS_EmptySet
<1>2. QED
  BY <1>1 DEF Init, TablesInit, TypeOK, NoPlan

(* A row that is in use holds real values. *)
LEMMA RowsInUse ==
  ASSUME TypeOK
  PROVE  /\ \A l \in Plans : plan[l].status # "NONE" => plan[l] \in PlanRow
         /\ \A p \in Payments : payment[p].status # "NONE" => payment[p] \in PaymentRow
         /\ \A b \in Bookings : financials[b].currency # None => financials[b] \in Financials
BY DEF TypeOK, NoPlan, NoPayment, NotSet

(* Plan handlers write well-formed plans and financials. *)
LEMMA TypePlanStep == TypeOK /\ PlanStep => TypeOK'
<1> SUFFICES ASSUME TypeOK, PlanStep PROVE TypeOK'
  OBVIOUS
<1>1. ASSUME NEW b \in Bookings, NEW total \in Amounts, NEW cur \in Currencies,
             SetBookingFinancials(b, total, cur)
      PROVE  TypeOK'
  BY <1>1 DEF TypeOK, SetBookingFinancials, ledgerVars, Financials
<1>2. ASSUME NEW l \in Plans, NEW b \in Bookings, NEW s \in InstallmentLists,
             ProposePaymentPlan(l, b, s)
      PROVE  TypeOK'
  <2> DEFINE row == [status |-> "PROPOSED", booking |-> b, installments |-> s]
  <2>1. row \in PlanRow
    BY InstallmentListFinite DEF PlanRow
  <2>2. plan' = [plan EXCEPT ![l] = row]
    BY <1>2 DEF ProposePaymentPlan
  <2>3. plan' \in [Plans -> PlanRow \cup {NoPlan}]
    BY <2>1, <2>2 DEF TypeOK
  <2>4. \A m \in Plans : IsFiniteSet(plan'[m].installments)
    BY <2>2, InstallmentListFinite DEF TypeOK
  <2>5. QED
    BY <1>2, <2>3, <2>4 DEF TypeOK, ProposePaymentPlan, ledgerVars
<1>3. ASSUME NEW l \in Plans, ApprovePaymentPlan(l) \/ WithdrawPaymentPlan(l)
      PROVE  TypeOK'
  <2>1. plan[l] \in PlanRow
    BY <1>3, RowsInUse DEF ApprovePaymentPlan, WithdrawPaymentPlan
  <2>2. PICK st \in {"APPROVED", "WITHDRAWN"} : plan' = [plan EXCEPT ![l].status = st]
    BY <1>3 DEF ApprovePaymentPlan, WithdrawPaymentPlan
  <2>3. [plan[l] EXCEPT !.status = st] \in PlanRow
    BY <2>1 DEF PlanRow
  <2>4. plan' \in [Plans -> PlanRow \cup {NoPlan}]
    BY <2>2, <2>3 DEF TypeOK
  <2>5. \A m \in Plans : plan'[m].installments = plan[m].installments
    BY <2>1, <2>2 DEF TypeOK, PlanRow
  <2>6. UNCHANGED <<cancelled, financials, ledgerVars>>
    BY <1>3 DEF ApprovePaymentPlan, WithdrawPaymentPlan
  <2>7. QED
    BY <2>4, <2>5, <2>6 DEF TypeOK, ledgerVars
<1>5. QED
  BY <1>1, <1>2, <1>3 DEF PlanStep

(* The payment and history rows a status transition writes. *)
LEMMA TypeTransition ==
  ASSUME TypeOK, NEW p \in Payments, payment[p].status # "NONE", NEW k \in Keys,
         NEW target \in {"CONFIRMED", "REVERSED", "REFUNDED"},
         Transition(p, target, k)
  PROVE  /\ payment' \in [Payments -> PaymentRow \cup {NoPayment}]
         /\ history' \subseteq HistoryRow
<1>1. payment[p] \in PaymentRow
  BY RowsInUse
<1>2. [payment[p] EXCEPT !.status = target] \in PaymentRow
  BY <1>1 DEF PaymentRow, PaymentStatus
<1>3. payment' \in [Payments -> PaymentRow \cup {NoPayment}]
  BY <1>2 DEF TypeOK, Transition
<1>4. [key |-> k, payment |-> p, status |-> target] \in HistoryRow
  BY DEF HistoryRow, PaymentStatus
<1>5. QED
  BY <1>3, <1>4 DEF TypeOK, Transition

(* Ledger handlers write well-formed rows. *)
LEMMA TypeLedgerStep == TypeOK /\ LedgerStep => TypeOK'
<1> SUFFICES ASSUME TypeOK, LedgerStep PROVE TypeOK'
  OBVIOUS
<1>1. ASSUME NEW p \in Payments, NEW b \in Bookings, NEW amt \in Amounts,
             NEW k \in StatusKeys, RecordPayment(p, b, amt, k)
      PROVE  TypeOK'
  <2>1. [status |-> "PENDING", booking |-> b, amount |-> amt] \in PaymentRow
    BY DEF PaymentRow, PaymentStatus
  <2>2. [key |-> k, payment |-> p, status |-> "PENDING"] \in HistoryRow
    BY DEF HistoryRow, PaymentStatus, Keys
  <2>3. payment' \in [Payments -> PaymentRow \cup {NoPayment}]
    BY <1>1, <2>1 DEF TypeOK, RecordPayment
  <2>4. history' \subseteq HistoryRow
    BY <1>1, <2>2 DEF TypeOK, RecordPayment
  <2>5. QED
    BY <1>1, <2>3, <2>4 DEF TypeOK, RecordPayment, planVars
<1>2. ASSUME NEW p \in Payments, NEW k \in StatusKeys, ConfirmPayment(p, k)
      PROVE  TypeOK'
  <2>1. k \in Keys /\ payment[p].status # "NONE"
    BY <1>2 DEF Keys, ConfirmPayment, Confirmable
  <2>2. QED
    BY <1>2, <2>1, TypeTransition DEF TypeOK, ConfirmPayment, planVars
<1>3. ASSUME NEW p \in Payments, NEW k \in StatusKeys, ReversePayment(p, k)
      PROVE  TypeOK'
  <2>1. k \in Keys /\ payment[p].status # "NONE"
    BY <1>3 DEF Keys, ReversePayment, Reversible
  <2>2. QED
    BY <1>3, <2>1, TypeTransition DEF TypeOK, ReversePayment, planVars
<1>4. ASSUME NEW p \in Payments, NEW amt \in Amounts, NEW k \in RefundKeys,
             NEW a \in KeysOf(allocations) \cup {None}, RefundPayment(p, amt, a, k)
      PROVE  TypeOK'
  <2>1. k \in Keys /\ a \in Keys \cup {None}
    BY DEF Keys, KeysOf, TypeOK, AllocationRow
  <2>2. payment' \in [Payments -> PaymentRow \cup {NoPayment}] /\ history' \subseteq HistoryRow
    <3>1. payment[p].status # "NONE"
      BY <1>4 DEF RefundPayment
    <3>2. CASE Transition(p, "REFUNDED", k)
      BY <2>1, <3>1, <3>2, TypeTransition
    <3>3. CASE UNCHANGED <<payment, history>>
      BY <3>3 DEF TypeOK
    <3>4. QED
      BY <1>4, <3>2, <3>3 DEF RefundPayment
  <2> DEFINE row == [key |-> k, payment |-> p, amount |-> amt, allocation |-> a]
  <2>3. refunds' = refunds \cup {row}
    BY <1>4 DEF RefundPayment
  <2>4. row \in RefundRow
    BY <2>1 DEF RefundRow
  <2> HIDE DEF row
  <2>5. refunds' \subseteq RefundRow
    BY <2>3, <2>4 DEF TypeOK
  <2>6. IsFiniteSet(refunds')
    BY <2>3, FS_AddElement DEF TypeOK
  <2>7. QED
    BY <1>4, <2>2, <2>5, <2>6 DEF TypeOK, RefundPayment, planVars
<1>5. ASSUME NEW p \in Payments, IssueReceipt(p)
      PROVE  TypeOK'
  <2>1. payment[p] \in PaymentRow
    BY <1>5, RowsInUse DEF IssueReceipt
  <2> DEFINE cur == financials[payment[p].booking].currency
  <2>2. cur \in Currencies
    BY <1>5, <2>1, RowsInUse DEF IssueReceipt, PaymentRow, Financials
  <2>3. receipts' \subseteq ReceiptRow
    BY <1>5, <2>1, <2>2 DEF TypeOK, IssueReceipt, ReceiptRow, PaymentRow
  <2>4. QED
    BY <1>5, <2>3 DEF TypeOK, IssueReceipt, planVars
<1>6. ASSUME NEW p \in Payments, NEW l \in Plans, NEW i \in Seqs,
             NEW amt \in Amounts, NEW k \in AllocationKeys,
             CreateAllocation(p, l, i, amt, k)
      PROVE  TypeOK'
  <2>1. k \in Keys
    BY DEF Keys
  <2> DEFINE row == [key |-> k, payment |-> p, plan |-> l, seq |-> i, amount |-> amt]
  <2>2. allocations' = allocations \cup {row}
    BY <1>6 DEF CreateAllocation
  <2>3. row \in AllocationRow
    BY <2>1 DEF AllocationRow
  <2> HIDE DEF row
  <2>4. allocations' \subseteq AllocationRow
    BY <2>2, <2>3 DEF TypeOK
  <2>5. IsFiniteSet(allocations')
    BY <2>2, FS_AddElement DEF TypeOK
  <2>6. QED
    BY <1>6, <2>4, <2>5 DEF TypeOK, CreateAllocation, planVars
<1>7. ASSUME NEW a \in allocations, NEW k \in ReversalKeys, ReverseAllocation(a, k)
      PROVE  TypeOK'
  BY <1>7 DEF TypeOK, ReverseAllocation, planVars, ReversalRow, AllocationRow, Keys
<1>8. QED
  BY <1>1, <1>2, <1>3, <1>4, <1>5, <1>6, <1>7 DEF LedgerStep

(* Every step keeps the tables well typed. *)
LEMMA TypeStep == TypeOK /\ [Next]_vars => TypeOK'
<1> SUFFICES ASSUME TypeOK, [Next]_vars PROVE TypeOK'
  OBVIOUS
<1>1. CASE \E b \in Bookings : CancelBooking(b)
  BY <1>1 DEF TypeOK, CancelBooking, planVars, ledgerVars
<1>2. CASE UNCHANGED vars
  BY <1>2 DEF TypeOK, vars, planVars, ledgerVars
<1>3. QED
  BY <1>1, <1>2, TypePlanStep, TypeLedgerStep DEF Next

(* Type correctness of every reachable state. *)
THEOREM TypeCorrect == Spec => []TypeOK
BY TypeInit, TypeStep, PTL DEF Spec

-----------------------------------------------------------------------------
(* The plan side: what the financial lock protects. *)

PlanInv == TypeOK /\ OneActivePlan /\ ApprovedPlanReconciles /\ ReceiptsMatchBooking

(* Payment rows keep their booking and amount once they exist. *)
PaymentsKept ==
  \A p \in Payments : payment[p].status # "NONE" =>
    /\ payment'[p].status # "NONE"
    /\ payment'[p].booking = payment[p].booking
    /\ payment'[p].amount = payment[p].amount

(* transitionPaymentStatus changes a payment's status and nothing else of  *)
(* it.                                                                     *)
LEMMA TransitionKeeps ==
  ASSUME TypeOK, NEW p \in Payments, payment[p].status # "NONE", NEW k, NEW target,
         target # "NONE", Transition(p, target, k)
  PROVE  PaymentsKept
<1>1. payment[p] \in PaymentRow
  BY RowsInUse
<1>2. /\ payment' = [payment EXCEPT ![p].status = target]
      /\ payment \in [Payments -> PaymentRow \cup {NoPayment}]
  BY DEF Transition, TypeOK
<1>3. QED
  BY <1>1, <1>2 DEF PaymentsKept, PaymentRow

(* No ledger handler touches financials, plans, or the booking and amount  *)
(* of a payment that exists.                                               *)
LEMMA LedgerKeepsPayments ==
  ASSUME TypeOK, LedgerStep
  PROVE  PaymentsKept /\ UNCHANGED planVars
<1>1. ASSUME NEW p \in Payments, NEW b \in Bookings, NEW amt \in Amounts,
             NEW k \in StatusKeys, RecordPayment(p, b, amt, k)
      PROVE  PaymentsKept /\ UNCHANGED planVars
  BY <1>1 DEF RecordPayment, PaymentsKept, TypeOK
<1>2. ASSUME NEW p \in Payments, NEW k \in StatusKeys,
             ConfirmPayment(p, k) \/ ReversePayment(p, k)
      PROVE  PaymentsKept /\ UNCHANGED planVars
  BY <1>2, TransitionKeeps
     DEF ConfirmPayment, ReversePayment, Confirmable, Reversible
<1>3. ASSUME NEW p \in Payments, NEW amt \in Amounts, NEW k \in RefundKeys,
             NEW a \in KeysOf(allocations) \cup {None}, RefundPayment(p, amt, a, k)
      PROVE  PaymentsKept /\ UNCHANGED planVars
  <2>1. CASE Transition(p, "REFUNDED", k)
    BY <1>3, <2>1, TransitionKeeps DEF RefundPayment
  <2>2. CASE UNCHANGED <<payment, history>>
    BY <1>3, <2>2 DEF RefundPayment, PaymentsKept
  <2>3. QED
    BY <1>3, <2>1, <2>2 DEF RefundPayment
<1>4. ASSUME NEW p \in Payments, IssueReceipt(p)
      PROVE  PaymentsKept /\ UNCHANGED planVars
  BY <1>4 DEF IssueReceipt, PaymentsKept
<1>5. ASSUME NEW p \in Payments, NEW l \in Plans, NEW i \in Seqs,
             NEW amt \in Amounts, NEW k \in AllocationKeys,
             CreateAllocation(p, l, i, amt, k)
      PROVE  PaymentsKept /\ UNCHANGED planVars
  BY <1>5 DEF CreateAllocation, PaymentsKept
<1>6. ASSUME NEW a \in allocations, NEW k \in ReversalKeys, ReverseAllocation(a, k)
      PROVE  PaymentsKept /\ UNCHANGED planVars
  BY <1>6 DEF ReverseAllocation, PaymentsKept
<1>7. QED
  BY <1>1, <1>2, <1>3, <1>4, <1>5, <1>6 DEF LedgerStep

(* Only issueReceipt writes receipts, from the row and currency it reads. *)
LEMMA LedgerReceipts ==
  ASSUME TypeOK, LedgerStep, NEW x \in receipts' \ receipts
  PROVE  /\ payment[x.payment] \in PaymentRow
         /\ x.payment \in Payments
         /\ payment[x.payment].amount = x.amount
         /\ financials[payment[x.payment].booking].currency = x.currency
<1>1. PICK p \in Payments : IssueReceipt(p)
  BY DEF LedgerStep, RecordPayment, ConfirmPayment, ReversePayment, RefundPayment,
         CreateAllocation, ReverseAllocation
<1>2. /\ payment[p].status = "CONFIRMED"
      /\ x.payment = p /\ x.amount = payment[p].amount
      /\ x.currency = financials[payment[p].booking].currency
  BY <1>1 DEF IssueReceipt
<1>3. QED
  BY <1>2, RowsInUse

(* The empty database satisfies the plan invariant. *)
LEMMA PlanInvInit == Init => PlanInv
<1> SUFFICES ASSUME Init PROVE PlanInv
  OBVIOUS
<1>1. \A l \in Plans : plan[l].status = "NONE"
  BY DEF Init, TablesInit, NoPlan
<1>2. QED
  BY <1>1, TypeInit DEF Init, TablesInit, PlanInv, OneActivePlan, Active,
     ApprovedPlanReconciles, ReceiptsMatchBooking

(* Ledger handlers preserve the plan invariant: only a new receipt can     *)
(* disturb it.                                                             *)
LEMMA PlanInvLedger == PlanInv /\ LedgerStep => PlanInv'
<1> SUFFICES ASSUME PlanInv, LedgerStep PROVE PlanInv'
  OBVIOUS
<1>1. TypeOK /\ PaymentsKept /\ UNCHANGED <<financials, plan>>
  BY LedgerKeepsPayments DEF PlanInv, planVars
<1>2. OneActivePlan' /\ ApprovedPlanReconciles'
  BY <1>1 DEF PlanInv, OneActivePlan, Active, ApprovedPlanReconciles
<1>3. ASSUME NEW x \in receipts'
      PROVE  /\ payment'[x.payment].amount = x.amount
             /\ payment'[x.payment].booking \in Bookings
             /\ financials'[payment'[x.payment].booking].currency = x.currency
  <2>1. /\ x.payment \in Payments /\ payment[x.payment] \in PaymentRow
        /\ payment[x.payment].amount = x.amount
        /\ financials[payment[x.payment].booking].currency = x.currency
    <3>1. CASE x \in receipts
      <4>1. x.payment \in Payments /\ payment[x.payment].booking \in Bookings
        BY <1>1, <3>1 DEF PlanInv, ReceiptsMatchBooking, TypeOK, ReceiptRow
      <4>2. payment[x.payment] \in PaymentRow
        BY <1>1, <4>1, NoneAssumption DEF TypeOK, NoPayment
      <4>3. QED
        BY <3>1, <4>1, <4>2 DEF PlanInv, ReceiptsMatchBooking
    <3>2. CASE x \notin receipts
      BY <1>1, <3>2, LedgerReceipts
    <3>3. QED
      BY <3>1, <3>2
  <2>2. payment[x.payment].status # "NONE" /\ payment[x.payment].booking \in Bookings
    BY <2>1 DEF PaymentRow, PaymentStatus
  <2>3. QED
    BY <1>1, <2>1, <2>2 DEF PaymentsKept
<1>4. ReceiptsMatchBooking'
  BY <1>3 DEF ReceiptsMatchBooking
<1>5. QED
  BY <1>1, <1>2, <1>4, TypeLedgerStep DEF PlanInv

(* Plan handlers preserve the plan invariant: the financial lock keeps     *)
(* what plans and receipts rely on.                                        *)
LEMMA PlanInvPlan == PlanInv /\ PlanStep => PlanInv'
<1> SUFFICES ASSUME PlanInv, PlanStep PROVE PlanInv'
  OBVIOUS
<1>1. TypeOK /\ TypeOK'
  BY TypePlanStep DEF PlanInv
<1>2. UNCHANGED <<payment, receipts>>
  BY DEF PlanStep, SetBookingFinancials, ProposePaymentPlan, ApprovePaymentPlan,
         WithdrawPaymentPlan, ledgerVars
<1>3. ASSUME NEW b \in Bookings, NEW total \in Amounts, NEW cur \in Currencies,
             SetBookingFinancials(b, total, cur)
      PROVE  OneActivePlan' /\ ApprovedPlanReconciles' /\ ReceiptsMatchBooking'
  <2>1. /\ plan' = plan
        /\ \A c \in Bookings \ {b} : financials'[c] = financials[c]
        /\ \A l \in Plans : plan[l].status = "APPROVED" => plan[l].booking # b
        /\ \A p \in Payments : payment[p].booking # b
    BY <1>1, <1>3 DEF SetBookingFinancials, FinancialLock, HasActivePlan, HasPayment,
       Active, TypeOK
  <2>2. OneActivePlan'
    BY <2>1 DEF PlanInv, OneActivePlan, Active
  <2>3. \A l \in Plans : plan[l].status = "APPROVED" => plan[l].booking \in Bookings \ {b}
    BY <1>1, <2>1, RowsInUse DEF PlanRow
  <2>4. ApprovedPlanReconciles'
    BY <2>1, <2>3 DEF PlanInv, ApprovedPlanReconciles
  <2>5. \A x \in receipts : payment[x.payment].booking \in Bookings \ {b}
    BY <1>1, <2>1 DEF PlanInv, ReceiptsMatchBooking, TypeOK, ReceiptRow
  <2>6. ReceiptsMatchBooking'
    BY <1>2, <2>1, <2>5 DEF PlanInv, ReceiptsMatchBooking
  <2>7. QED
    BY <2>2, <2>4, <2>6
<1>4. ASSUME NEW l \in Plans, NEW b \in Bookings, NEW s \in InstallmentLists,
             ProposePaymentPlan(l, b, s)
      PROVE  OneActivePlan' /\ ApprovedPlanReconciles' /\ ReceiptsMatchBooking'
  <2>1. /\ financials' = financials
        /\ plan'[l].booking = b /\ plan'[l].status = "PROPOSED"
        /\ \A m \in Plans \ {l} : plan'[m] = plan[m]
        /\ \A m \in Plans : Active(m) => plan[m].booking # b
    BY <1>1, <1>4 DEF ProposePaymentPlan, HasActivePlan, TypeOK
  <2>2. OneActivePlan'
    BY <2>1 DEF PlanInv, OneActivePlan, Active
  <2>3. ApprovedPlanReconciles'
    BY <2>1 DEF PlanInv, ApprovedPlanReconciles
  <2>4. ReceiptsMatchBooking'
    BY <1>2, <2>1 DEF PlanInv, ReceiptsMatchBooking
  <2>5. QED
    BY <2>2, <2>3, <2>4
<1>5. ASSUME NEW l \in Plans, ApprovePaymentPlan(l) \/ WithdrawPaymentPlan(l)
      PROVE  OneActivePlan' /\ ApprovedPlanReconciles' /\ ReceiptsMatchBooking'
  <2>1. plan[l] \in PlanRow /\ plan[l].status = "PROPOSED"
    BY <1>1, <1>5, RowsInUse DEF ApprovePaymentPlan, WithdrawPaymentPlan
  <2>2. PICK st \in {"APPROVED", "WITHDRAWN"} :
          /\ plan' = [plan EXCEPT ![l].status = st]
          /\ st = "APPROVED" =>
               Total(plan[l].installments) = financials[plan[l].booking].total
    BY <1>5 DEF ApprovePaymentPlan, WithdrawPaymentPlan
  <2>3. financials' = financials
    BY <1>5 DEF ApprovePaymentPlan, WithdrawPaymentPlan
  <2>4. /\ plan'[l].status = st
        /\ \A m \in Plans : /\ plan'[m].booking = plan[m].booking
                            /\ plan'[m].installments = plan[m].installments
                            /\ m # l => plan'[m] = plan[m]
    BY <1>1, <2>1, <2>2 DEF TypeOK, PlanRow
  <2>5. \A m \in Plans : Active(m)' => Active(m)
    BY <2>1, <2>4 DEF Active
  <2>6. OneActivePlan'
    BY <2>4, <2>5 DEF PlanInv, OneActivePlan
  <2>7. ApprovedPlanReconciles'
    BY <2>2, <2>3, <2>4 DEF PlanInv, ApprovedPlanReconciles
  <2>8. ReceiptsMatchBooking'
    BY <1>2, <2>3 DEF PlanInv, ReceiptsMatchBooking
  <2>9. QED
    BY <2>6, <2>7, <2>8
<1>6. QED
  BY <1>1, <1>3, <1>4, <1>5 DEF PlanStep, PlanInv

(* The plan invariant is inductive. *)
LEMMA PlanInvStep == PlanInv /\ [Next]_vars => PlanInv'
<1> SUFFICES ASSUME PlanInv, [Next]_vars PROVE PlanInv'
  OBVIOUS
<1>1. CASE (\E b \in Bookings : CancelBooking(b)) \/ UNCHANGED vars
  <2>1. UNCHANGED <<planVars, ledgerVars>>
    BY <1>1 DEF CancelBooking, vars
  <2>2. TypeOK'
    BY TypeStep DEF PlanInv
  <2>3. QED
    BY <2>1, <2>2 DEF PlanInv, planVars, ledgerVars, OneActivePlan, Active,
       ApprovedPlanReconciles, ReceiptsMatchBooking
<1>2. QED
  BY <1>1, PlanInvLedger, PlanInvPlan DEF Next

(* A booking never has two plans that are not withdrawn. *)
THEOREM AtMostOneActivePlan == Spec => []OneActivePlan
<1>1. PlanInv => OneActivePlan
  BY DEF PlanInv
<1>2. QED
  BY <1>1, PlanInvInit, PlanInvStep, PTL DEF Spec

(* The installments of an approved plan add up to the booking's total in   *)
(* every later state.                                                      *)
THEOREM ApprovedPlansReconcile == Spec => []ApprovedPlanReconciles
<1>1. PlanInv => ApprovedPlanReconciles
  BY DEF PlanInv
<1>2. QED
  BY <1>1, PlanInvInit, PlanInvStep, PTL DEF Spec

(* A receipt never disagrees with its payment or its booking's currency. *)
THEOREM ReceiptsStayTrue == Spec => []ReceiptsMatchBooking
<1>1. PlanInv => ReceiptsMatchBooking
  BY DEF PlanInv
<1>2. QED
  BY <1>1, PlanInvInit, PlanInvStep, PTL DEF Spec

-----------------------------------------------------------------------------
(* Cancelled bookings: what each kind of step may still do to their rows. *)
LEMMA CancelledPlanStep ==
  ASSUME TypeOK, PlanStep
  PROVE  CancelledStep
<1>1. UNCHANGED <<payment, allocations>>
  BY DEF PlanStep, SetBookingFinancials, ProposePaymentPlan, ApprovePaymentPlan,
         WithdrawPaymentPlan, ledgerVars
<1>2. ASSUME NEW b \in Bookings, NEW total \in Amounts, NEW cur \in Currencies,
             SetBookingFinancials(b, total, cur)
      PROVE  CancelledStep
  BY <1>1, <1>2 DEF SetBookingFinancials, Open, CancelledStep, TypeOK
<1>3. ASSUME NEW l \in Plans, NEW b \in Bookings, NEW s \in InstallmentLists,
             ProposePaymentPlan(l, b, s)
      PROVE  CancelledStep
  BY <1>1, <1>3 DEF ProposePaymentPlan, Open, CancelledStep, TypeOK
<1>4. ASSUME NEW l \in Plans, ApprovePaymentPlan(l) \/ WithdrawPaymentPlan(l)
      PROVE  CancelledStep
  <2>1. plan[l] \in PlanRow
    BY <1>4, RowsInUse DEF ApprovePaymentPlan, WithdrawPaymentPlan
  <2>2. QED
    BY <1>1, <1>4, <2>1 DEF ApprovePaymentPlan, WithdrawPaymentPlan, Open,
       CancelledStep, TypeOK, PlanRow
<1>5. QED
  BY <1>2, <1>3, <1>4 DEF PlanStep

(* Every ledger handler that takes money in checks that the booking is     *)
(* open.                                                                   *)
LEMMA CancelledLedgerStep ==
  ASSUME TypeOK, LedgerStep
  PROVE  CancelledStep
<1>1. UNCHANGED planVars
  BY LedgerKeepsPayments
<1> SUFFICES /\ \A p \in Payments : payment'[p].booking \in cancelled =>
                  payment'[p] = payment[p] \/ payment'[p].status \in {"REVERSED", "REFUNDED"}
             /\ \A a \in allocations' \ allocations :
                  payment[a.payment].booking \notin cancelled
  BY <1>1 DEF CancelledStep, planVars
<1> DEFINE Pays == \A p \in Payments : payment'[p].booking \in cancelled =>
              payment'[p] = payment[p] \/ payment'[p].status \in {"REVERSED", "REFUNDED"}
<1>2. ASSUME NEW p \in Payments, NEW b \in Bookings, NEW amt \in Amounts,
             NEW k \in StatusKeys, RecordPayment(p, b, amt, k)
      PROVE  Pays /\ allocations' = allocations
  BY <1>2 DEF RecordPayment, Open, TypeOK
<1>3. ASSUME NEW p \in Payments, NEW k \in StatusKeys, ConfirmPayment(p, k)
      PROVE  Pays /\ allocations' = allocations
  <2>1. payment[p] \in PaymentRow
    BY <1>3, RowsInUse DEF ConfirmPayment, Confirmable
  <2>2. QED
    BY <1>3, <2>1 DEF ConfirmPayment, Transition, Open, TypeOK, PaymentRow
<1>4. ASSUME NEW p \in Payments, NEW k \in StatusKeys, ReversePayment(p, k)
      PROVE  Pays /\ allocations' = allocations
  <2>1. payment[p] \in PaymentRow
    BY <1>4, RowsInUse DEF ReversePayment, Reversible
  <2>2. QED
    BY <1>4, <2>1 DEF ReversePayment, Transition, TypeOK, PaymentRow
<1>5. ASSUME NEW p \in Payments, NEW amt \in Amounts, NEW k \in RefundKeys,
             NEW a \in KeysOf(allocations) \cup {None}, RefundPayment(p, amt, a, k)
      PROVE  Pays /\ allocations' = allocations
  <2>1. payment[p] \in PaymentRow
    BY <1>5, RowsInUse DEF RefundPayment
  <2>2. QED
    BY <1>5, <2>1 DEF RefundPayment, Transition, TypeOK, PaymentRow
<1>6. ASSUME NEW p \in Payments, IssueReceipt(p)
      PROVE  Pays /\ allocations' = allocations
  BY <1>6 DEF IssueReceipt
<1>7. ASSUME NEW p \in Payments, NEW l \in Plans, NEW i \in Seqs,
             NEW amt \in Amounts, NEW k \in AllocationKeys,
             CreateAllocation(p, l, i, amt, k)
      PROVE  Pays /\ \A a \in allocations' \ allocations :
                       payment[a.payment].booking \notin cancelled
  BY <1>7 DEF CreateAllocation, Open
<1>8. ASSUME NEW a \in allocations, NEW k \in ReversalKeys, ReverseAllocation(a, k)
      PROVE  Pays /\ allocations' = allocations
  BY <1>8 DEF ReverseAllocation
<1>9. QED
  BY <1>2, <1>3, <1>4, <1>5, <1>6, <1>7, <1>8 DEF LedgerStep

(* After cancellation no plan is proposed or approved, no payment recorded *)
(* or confirmed and no allocation made.                                    *)
THEOREM CancelledBookingsOnlyPayOut == Spec => CancelledOnlyPaysOut
<1>1. TypeOK /\ [Next]_vars => [CancelledStep]_vars
  <2> SUFFICES ASSUME TypeOK, [Next]_vars, vars' # vars PROVE CancelledStep
    OBVIOUS
  <2>1. CASE \E b \in Bookings : CancelBooking(b)
    BY <2>1 DEF CancelBooking, planVars, ledgerVars, CancelledStep
  <2>2. QED
    BY <2>1, CancelledPlanStep, CancelledLedgerStep DEF Next
<1>2. QED
  BY <1>1, TypeCorrect, PTL DEF Spec, CancelledOnlyPaysOut

-----------------------------------------------------------------------------
(* The money invariants of Payments.  None of them is inductive alone: a   *)
(* refund is safe because the allocation it reopens is the payment's own,  *)
(* a reversal because nothing was refunded, an allocation because pending  *)
(* payments hold none.  LedgerInv joins them with what the rows of one     *)
(* table promise about the rows they refer to.                             *)

(* What a set of allocations still holds, as a function of the refunds.    *)
Linked(R, A) == {r \in R : r.allocation \in KeysOf(A)}
Net(R, A) == Total(A) - Total(Linked(R, A))

(* No allocations hold nothing. *)
LEMMA NetEmpty == ASSUME NEW R PROVE Net(R, {}) = 0
<1>1. Linked(R, {}) = {}
  BY DEF Linked, KeysOf
<1>2. QED
  BY <1>1, TotalEmpty DEF Net

(* What a set of allocations holds is an integer. *)
LEMMA NetType ==
  ASSUME NEW R, NEW A, IsRows(R), IsRows(A)
  PROVE  /\ Total(A) \in Nat /\ Total(Linked(R, A)) \in Nat
         /\ Net(R, A) \in Int
<1>1. IsRows(Linked(R, A))
  BY SubRows DEF Linked
<1>2. QED
  BY <1>1, TotalType DEF Net

(* A refund of other allocations, or of none, changes nothing. *)
LEMMA NetRefundElsewhere ==
  ASSUME NEW R, NEW A, NEW r, r.allocation \notin KeysOf(A)
  PROVE  Net(R \cup {r}, A) = Net(R, A)
<1>1. Linked(R \cup {r}, A) = Linked(R, A)
  BY DEF Linked
<1>2. QED
  BY <1>1 DEF Net

(* A refund lowers what a set of allocations holds by its amount if it is  *)
(* linked to one of them.                                                  *)
LEMMA NetRefund ==
  ASSUME NEW R, NEW A, NEW r, IsRows(R), IsRows(A), r \notin R, r.amount \in Nat,
         r.allocation \in KeysOf(A)
  PROVE  Net(R \cup {r}, A) = Net(R, A) - r.amount
<1>1. Linked(R \cup {r}, A) = Linked(R, A) \cup {r} /\ r \notin Linked(R, A)
  BY DEF Linked
<1>2. IsRows(Linked(R, A))
  BY SubRows DEF Linked
<1>3. Total(Linked(R, A) \cup {r}) = Total(Linked(R, A)) + r.amount
  BY <1>1, <1>2, TotalAdd
<1>4. QED
  BY <1>1, <1>3, NetType DEF Net

(* An allocation with a fresh key adds its amount to the sets it joins. *)
LEMMA NetAllocate ==
  ASSUME NEW R, NEW A, NEW x, IsRows(R), IsRows(A), x \notin A, x.amount \in Nat,
         \A r \in R : r.allocation # x.key
  PROVE  Net(R, A \cup {x}) = Net(R, A) + x.amount
<1>1. Linked(R, A \cup {x}) = Linked(R, A)
  BY DEF Linked, KeysOf
<1>2. Total(A \cup {x}) = Total(A) + x.amount
  BY TotalAdd
<1>3. QED
  BY <1>1, <1>2, NetType DEF Net

(* Dropping allocations nothing was refunded from never holds more. *)
LEMMA NetDrop ==
  ASSUME NEW R, NEW A, IsRows(R), IsRows(A), NEW B \in SUBSET A,
         \A x \in A \ B : \A r \in R : r.allocation # x.key
  PROVE  Net(R, B) <= Net(R, A)
<1>1. Linked(R, B) = Linked(R, A)
  BY DEF Linked, KeysOf
<1>2. IsRows(B) /\ Total(B) <= Total(A)
  BY SubRows, TotalMono
<1>3. QED
  BY <1>1, <1>2, NetType DEF Net

-----------------------------------------------------------------------------
(* What rows promise about the rows they refer to. *)
RowsSound ==
  /\ \A l \in Plans : \A x, y \in plan[l].installments : x.seq = y.seq => x = y
  /\ \A a, c \in allocations : a.key = c.key => a = c
  /\ \A a \in allocations : payment[a.payment].status \notin {"NONE", "PENDING"}
  /\ \A r \in refunds : r.allocation \in KeysOf(allocations) \cup {None}
  /\ \A v \in reversals : v.allocation \in KeysOf(allocations)

LedgerInv ==
  /\ TypeOK /\ RowsSound
  /\ RefundsWithinPayment /\ LinkedRefundsWithinAllocation
  /\ AllocationsCovered /\ InstallmentsNotOverpaid /\ AllocationsOnApprovedPlan

(* The money conjuncts in terms of Net. *)
LEMMA Nets ==
  /\ \A A : LinkedTo(A) = Linked(refunds, A) /\ NetActive(A) = Net(refunds, A)
  /\ AllocationsCovered <=> \A p \in Payments : Counted(p) =>
       Net(refunds, ActiveOf(p)) <= payment[p].amount - Total(RefundsOf(p))
  /\ InstallmentsNotOverpaid <=> \A l \in Plans : \A x \in plan[l].installments :
       Net(refunds, ActiveOn(l, x.seq)) <= x.amount
<1>1. \A A : LinkedTo(A) = Linked(refunds, A) /\ NetActive(A) = Net(refunds, A)
  BY DEF LinkedTo, Linked, NetActive, Net
<1>2. QED
  BY <1>1 DEF AllocationsCovered, InstallmentsNotOverpaid, NetContribution, RefundedTotal

(* Net describes NetActive in the current state and, primed, in the next. *)
LEMMA NetsNext ==
  /\ AllocationsCovered' <=> \A p \in Payments : Counted(p)' =>
       Net(refunds', ActiveOf(p)') <= payment'[p].amount - Total(RefundsOf(p)')
  /\ InstallmentsNotOverpaid' <=> \A l \in Plans : \A x \in plan'[l].installments :
       Net(refunds', ActiveOn(l, x.seq)') <= x.amount
<1>1. \A A : Net(refunds', A) = Total(A) - Total({r \in refunds' : r.allocation \in KeysOf(A)})
  BY DEF Linked, Net
<1>2. QED
  BY <1>1 DEF AllocationsCovered, InstallmentsNotOverpaid, NetContribution, RefundedTotal,
     NetActive, LinkedTo

(* The refund and allocation tables are finite sets of money rows. *)
LEMMA TablesAreRows ==
  ASSUME TypeOK
  PROVE  /\ IsRows(refunds) /\ IsRows(allocations)
         /\ \A r \in refunds : r.amount \in Nat \ {0}
         /\ \A a \in allocations : a.amount \in Nat \ {0}
         /\ \A p : IsRows(RefundsOf(p)) /\ IsRows(ActiveOf(p))
         /\ \A l, i : IsRows(ActiveOn(l, i))
         /\ \A A : IsRows(Linked(refunds, A))
<1>1. /\ \A r \in refunds : r.amount \in Nat \ {0}
      /\ \A a \in allocations : a.amount \in Nat \ {0}
  BY AmountsAssumption DEF TypeOK, RefundRow, AllocationRow
<1>2. IsRows(refunds) /\ IsRows(allocations)
  BY <1>1 DEF IsRows, TypeOK
<1>3. \A p : RefundsOf(p) \subseteq refunds /\ ActiveOf(p) \subseteq allocations
  BY DEF RefundsOf, ActiveOf
<1>4. \A l, i : ActiveOn(l, i) \subseteq allocations
  BY DEF ActiveOn
<1>5. \A A : Linked(refunds, A) \subseteq refunds
  BY DEF Linked
<1>6. QED
  BY <1>1, <1>2, <1>3, <1>4, <1>5, SubRows

(* The empty ledger satisfies the ledger invariant. *)
LEMMA LedgerInvInit == Init => LedgerInv
<1> SUFFICES ASSUME Init PROVE LedgerInv
  OBVIOUS
<1>1. /\ refunds = {} /\ allocations = {} /\ reversals = {}
      /\ \A l \in Plans : plan[l].installments = {}
      /\ \A p \in Payments : payment[p].status = "NONE" /\ payment[p].amount = 0
  BY DEF Init, TablesInit, NoPlan, NoPayment
<1>2. \A p \in Payments : RefundsOf(p) = {} /\ RefundedTotal(p) = 0
  BY <1>1, TotalEmpty DEF RefundsOf, RefundedTotal
<1>3. QED
  BY <1>1, <1>2, TypeInit DEF LedgerInv, RowsSound, RefundsWithinPayment,
     LinkedRefundsWithinAllocation, AllocationsCovered, Counted,
     InstallmentsNotOverpaid, AllocationsOnApprovedPlan

(* Steps that leave the money rows alone keep what they alone promise. *)
LEMMA MoneyRowsFrame ==
  ASSUME LedgerInv, UNCHANGED <<payment, refunds, allocations, reversals>>
  PROVE  /\ RefundsWithinPayment' /\ LinkedRefundsWithinAllocation' /\ AllocationsCovered'
         /\ \A l, i : ActiveOn(l, i)' = ActiveOn(l, i)
<1>1. RefundsWithinPayment'
  BY DEF LedgerInv, RefundsWithinPayment, RefundedTotal, RefundsOf
<1>2. LinkedRefundsWithinAllocation'
  BY DEF LedgerInv, LinkedRefundsWithinAllocation, LinkedTo, IsReversed
<1>3. AllocationsCovered'
  <2>1. \A p : ActiveOf(p)' = ActiveOf(p) /\ RefundsOf(p)' = RefundsOf(p)
    BY DEF ActiveOf, IsReversed, RefundsOf
  <2>2. \A p : Counted(p)' = Counted(p)
    BY DEF Counted
  <2>3. QED
    BY <2>1, <2>2, Nets, NetsNext DEF LedgerInv
<1>4. \A l, i : ActiveOn(l, i)' = ActiveOn(l, i)
  BY DEF ActiveOn, IsReversed, Counted
<1>5. QED
  BY <1>1, <1>2, <1>3, <1>4

(* Nothing the invariant reads changes. *)
LEMMA LedgerInvFrame ==
  ASSUME LedgerInv, TypeOK', UNCHANGED <<plan, payment, refunds, allocations, reversals>>
  PROVE  LedgerInv'
<1>1. RowsSound'
  BY DEF LedgerInv, RowsSound, KeysOf
<1>2. InstallmentsNotOverpaid'
  BY MoneyRowsFrame, Nets, NetsNext DEF LedgerInv
<1>3. AllocationsOnApprovedPlan'
  BY DEF LedgerInv, AllocationsOnApprovedPlan
<1>4. QED
  BY <1>1, <1>2, <1>3, MoneyRowsFrame DEF LedgerInv

(* Plans change only while no allocation refers to them. *)
LEMMA LedgerInvPlanChange ==
  ASSUME LedgerInv, TypeOK', UNCHANGED <<payment, refunds, allocations, reversals>>,
         NEW l \in Plans, plan[l].status # "APPROVED",
         \A m \in Plans \ {l} : plan'[m] = plan[m],
         plan'[l].installments = plan[l].installments
           \/ plan'[l].installments \in InstallmentLists
  PROVE  LedgerInv'
<1>1. \A a \in allocations : a.plan \in Plans \ {l}
  BY DEF LedgerInv, AllocationsOnApprovedPlan, TypeOK, AllocationRow
<1>2. RowsSound'
  <2>1. \A m \in Plans : \A x, y \in plan'[m].installments : x.seq = y.seq => x = y
    BY DEF LedgerInv, RowsSound, InstallmentLists
  <2>2. QED
    BY <2>1 DEF LedgerInv, RowsSound, KeysOf
<1>3. AllocationsOnApprovedPlan'
  BY <1>1 DEF LedgerInv, AllocationsOnApprovedPlan
<1>4. ASSUME NEW m \in Plans, NEW x \in plan'[m].installments
      PROVE  Net(refunds, ActiveOn(m, x.seq)) <= x.amount
  <2>1. CASE m = l
    <3>1. ActiveOn(l, x.seq) = {}
      BY <1>1 DEF ActiveOn
    <3>2. plan'[m] \in PlanRow \cup {NoPlan}
      BY DEF TypeOK
    <3>3. x.amount \in Amounts
      BY <3>2 DEF PlanRow, NoPlan, Installment
    <3>4. Net(refunds, {}) = 0
      BY NetEmpty
    <3>5. Net(refunds, ActiveOn(m, x.seq)) = 0
      BY <2>1, <3>1, <3>4
    <3>6. x.amount \in Nat
      BY <3>3, AmountsAssumption
    <3>7. QED
      BY <3>5, <3>6
  <2>2. CASE m # l
    BY <2>2, Nets DEF LedgerInv
  <2>3. QED
    BY <2>1, <2>2
<1>5. InstallmentsNotOverpaid'
  BY <1>4, MoneyRowsFrame, NetsNext
<1>6. QED
  BY <1>2, <1>3, <1>5, MoneyRowsFrame DEF LedgerInv

-----------------------------------------------------------------------------
(* Steps of one payment's status. *)

(* Only p's row changes and nothing was refunded from p: what the refunds  *)
(* and allocations of the other payments promise is untouched.             *)
LEMMA StatusChange ==
  ASSUME LedgerInv, TypeOK', UNCHANGED <<plan, refunds, allocations, reversals>>,
         NEW p \in Payments, RefundsOf(p) = {},
         \A q \in Payments \ {p} : payment'[q] = payment[q],
         payment'[p].status \in {"PENDING", "CONFIRMED", "REVERSED"},
         payment'[p].status = "REVERSED" => payment[p].status = "CONFIRMED"
           /\ payment'[p].booking = payment[p].booking,
         payment'[p].status # "REVERSED" => payment[p].status \in {"NONE", "PENDING"}
  PROVE  LedgerInv'
<1>1. payment'[p] \in PaymentRow /\ payment'[p].amount \in Nat \ {0}
  <2>1. payment'[p] \in PaymentRow
    BY DEF TypeOK, NoPayment
  <2>2. payment'[p].amount \in Amounts
    BY <2>1 DEF PaymentRow
  <2>3. QED
    BY <2>1, <2>2, AmountsAssumption
<1>2. \A a \in allocations : a.payment \in Payments
        /\ (payment'[p].status # "REVERSED" => a.payment # p)
  BY DEF LedgerInv, RowsSound, TypeOK, AllocationRow
<1>3. RowsSound'
  BY <1>2 DEF LedgerInv, RowsSound, KeysOf
<1>4. RefundsWithinPayment'
  <2>1. RefundedTotal(p) = 0
    BY TotalEmpty DEF RefundedTotal
  <2>2. \A q : RefundsOf(q)' = RefundsOf(q) /\ RefundedTotal(q)' = RefundedTotal(q)
    BY DEF RefundsOf, RefundedTotal
  <2>3. QED
    BY <1>1, <2>1, <2>2 DEF LedgerInv, RefundsWithinPayment
<1>5. LinkedRefundsWithinAllocation'
  BY DEF LedgerInv, LinkedRefundsWithinAllocation, LinkedTo, IsReversed
<1>6. AllocationsOnApprovedPlan'
  BY <1>2 DEF LedgerInv, AllocationsOnApprovedPlan
<1>7. AllocationsCovered'
  <2>1. \A q : ActiveOf(q)' = ActiveOf(q) /\ RefundsOf(q)' = RefundsOf(q)
    BY DEF ActiveOf, IsReversed, RefundsOf
  <2>2. ASSUME NEW q \in Payments, Counted(q)'
        PROVE  Net(refunds, ActiveOf(q)) <= payment'[q].amount - Total(RefundsOf(q))
    <3>1. CASE q = p
      <4>1. payment'[p].status = "CONFIRMED"
        BY <2>2, <3>1 DEF Counted
      <4>2. ActiveOf(p) = {}
        BY <1>2, <4>1 DEF ActiveOf
      <4>3. Net(refunds, ActiveOf(p)) = 0 /\ Total(RefundsOf(p)) = 0
        BY <4>2, NetEmpty, TotalEmpty
      <4>4. QED
        BY <1>1, <3>1, <4>3
    <3>2. CASE q # p
      BY <2>2, <3>2, Nets DEF LedgerInv, Counted
    <3>3. QED
      BY <3>1, <3>2
  <2>3. QED
    BY <2>1, <2>2, NetsNext
<1>8. InstallmentsNotOverpaid'
  <2>1. ASSUME NEW l \in Plans, NEW x \in plan[l].installments
        PROVE  Net(refunds, ActiveOn(l, x.seq)') <= x.amount
    <3> DEFINE A == ActiveOn(l, x.seq)
               B == ActiveOn(l, x.seq)'
    <3>1. B \subseteq A /\ \A a \in A \ B : a.payment = p
      BY <1>2 DEF ActiveOn, IsReversed, Counted
    <3>2. \A a \in A \ B : \A r \in refunds : r.allocation # a.key
      <4> SUFFICES ASSUME NEW a \in A \ B, NEW r \in refunds, r.allocation = a.key
                   PROVE  FALSE
        OBVIOUS
      <4>1. a \in allocations /\ r \in LinkedTo({a})
        BY DEF ActiveOn, LinkedTo, KeysOf
      <4>2. r.payment = a.payment
        BY <4>1 DEF LedgerInv, LinkedRefundsWithinAllocation
      <4>3. r \in RefundsOf(p)
        BY <3>1, <4>2 DEF RefundsOf
      <4>4. QED
        BY <4>3
    <3>3. IsRows(refunds) /\ IsRows(A)
      BY TablesAreRows DEF LedgerInv
    <3>4. Net(refunds, A) <= x.amount
      BY Nets DEF LedgerInv
    <3>5. Net(refunds, B) <= Net(refunds, A)
      <4> HIDE DEF A, B
      <4>1. QED
        BY <3>1, <3>2, <3>3, NetDrop
    <3>6. Net(refunds, A) \in Int /\ Net(refunds, B) \in Int /\ x.amount \in Int
      <4>1. IsRows(B)
        <5> HIDE DEF A, B
        <5>1. QED
          BY <3>1, <3>3, SubRows
      <4>2. plan[l] \in PlanRow \cup {NoPlan}
        BY DEF LedgerInv, TypeOK
      <4>3. x.amount \in Amounts
        BY <4>2 DEF PlanRow, NoPlan, Installment
      <4>4. x.amount \in Int
        BY <4>3, AmountsAssumption
      <4> HIDE DEF A, B
      <4>5. QED
        BY <3>3, <4>1, <4>4, NetType
    <3>7. QED
      <4> HIDE DEF A
      <4>1. Net(refunds, B) <= x.amount
        <5> HIDE DEF B
        <5>1. QED
          BY <3>4, <3>5, <3>6
      <4>2. QED
        BY <4>1
  <2>2. QED
    BY <2>1, NetsNext
<1>9. QED
  BY <1>3, <1>4, <1>5, <1>6, <1>7, <1>8 DEF LedgerInv

(* A new pending payment has no refunds, allocations or reversals yet. *)
LEMMA LedgerInvRecord ==
  ASSUME LedgerInv, NEW p \in Payments, NEW b \in Bookings, NEW amt \in Amounts,
         NEW k \in StatusKeys, RecordPayment(p, b, amt, k), TypeOK'
  PROVE  LedgerInv'
<1>1. /\ payment[p].status = "NONE" /\ payment'[p].status = "PENDING"
      /\ \A q \in Payments \ {p} : payment'[q] = payment[q]
      /\ UNCHANGED <<plan, refunds, allocations, reversals>>
  BY DEF RecordPayment, LedgerInv, TypeOK, planVars
<1>2. RefundsOf(p) = {}
  BY <1>1 DEF LedgerInv, RefundsWithinPayment
<1>3. QED
  BY <1>1, <1>2, StatusChange

(* Confirming a payment changes only which payments count. *)
LEMMA LedgerInvConfirm ==
  ASSUME LedgerInv, NEW p \in Payments, NEW k \in StatusKeys, ConfirmPayment(p, k), TypeOK'
  PROVE  LedgerInv'
<1>1. payment[p].status = "PENDING"
  BY DEF ConfirmPayment, Confirmable
<1>2. payment[p] \in PaymentRow
  BY <1>1, RowsInUse DEF LedgerInv
<1>3. /\ payment'[p].status = "CONFIRMED"
      /\ \A q \in Payments \ {p} : payment'[q] = payment[q]
      /\ UNCHANGED <<plan, refunds, allocations, reversals>>
  BY <1>2 DEF ConfirmPayment, Transition, LedgerInv, TypeOK, planVars, PaymentRow
<1>4. RefundsOf(p) = {}
  BY <1>1 DEF LedgerInv, RefundsWithinPayment
<1>5. QED
  BY <1>1, <1>3, <1>4, StatusChange

(* A payment with no refunded amount has no refund rows, so reversing it   *)
(* releases its allocations whole.                                         *)
LEMMA LedgerInvReverse ==
  ASSUME LedgerInv, NEW p \in Payments, NEW k \in StatusKeys, ReversePayment(p, k), TypeOK'
  PROVE  LedgerInv'
<1>1. payment[p].status = "CONFIRMED" /\ RefundedTotal(p) = 0
  BY DEF ReversePayment, Reversible
<1>2. payment[p] \in PaymentRow
  BY <1>1, RowsInUse DEF LedgerInv
<1>3. /\ payment'[p].status = "REVERSED" /\ payment'[p].booking = payment[p].booking
      /\ \A q \in Payments \ {p} : payment'[q] = payment[q]
      /\ UNCHANGED <<plan, refunds, allocations, reversals>>
  BY <1>2 DEF ReversePayment, Transition, LedgerInv, TypeOK, planVars, PaymentRow
<1>4. RefundsOf(p) = {}
  <2>1. IsRows(RefundsOf(p)) /\ \A r \in RefundsOf(p) : r.amount # 0
    BY TablesAreRows DEF LedgerInv, RefundsOf
  <2>2. QED
    BY <1>1, <2>1, TotalZero DEF RefundedTotal
<1>5. QED
  BY <1>1, <1>3, <1>4, StatusChange
-----------------------------------------------------------------------------
(* A refund leaves enough of the payment to cover its allocations. *)
LEMMA LedgerInvRefund ==
  ASSUME LedgerInv, NEW p \in Payments, NEW amt \in Amounts, NEW k \in RefundKeys,
         NEW a \in KeysOf(allocations) \cup {None}, RefundPayment(p, amt, a, k), TypeOK'
  PROVE  LedgerInv'
<1> DEFINE row == [key |-> k, payment |-> p, amount |-> amt, allocation |-> a]
<1>1. /\ UNCHANGED <<plan, allocations, reversals>>
      /\ refunds' = refunds \cup {row} /\ row \notin refunds
  BY DEF RefundPayment, planVars, KeysOf
<1>2. /\ row.payment = p /\ row.amount = amt /\ row.allocation = a
      /\ amt \in Nat \ {0}
  BY AmountsAssumption
<1>3. /\ payment[p].status = "CONFIRMED" /\ RefundedTotal(p) + amt <= payment[p].amount
      /\ Net(refunds, ActiveOf(p)) - (IF a = None THEN 0 ELSE amt)
           <= payment[p].amount - (RefundedTotal(p) + amt)
      /\ a # None => \E x \in ActiveOf(p) :
                       x.key = a /\ Total(Linked(refunds, {x})) + amt <= x.amount
  BY Nets DEF RefundPayment, RefundLeavesCovered, RefundableLink
<1>4. payment[p] \in PaymentRow /\ payment[p].amount \in Nat
  <2>1. payment[p] \in PaymentRow
    BY <1>3, RowsInUse DEF LedgerInv
  <2>2. payment[p].amount \in Amounts
    BY <2>1 DEF PaymentRow
  <2>3. QED
    BY <2>1, <2>2, AmountsAssumption
<1>5. /\ \A q \in Payments : /\ payment'[q].booking = payment[q].booking
                             /\ payment'[q].amount = payment[q].amount
                             /\ q # p => payment'[q].status = payment[q].status
      /\ payment'[p].status = IF RefundedTotal(p) + amt = payment[p].amount
                              THEN "REFUNDED" ELSE "CONFIRMED"
  BY <1>3, <1>4 DEF RefundPayment, Transition, LedgerInv, TypeOK, PaymentRow
<1>6. IsRows(refunds) /\ IsRows(allocations) /\ RefundedTotal(p) \in Nat
  BY TablesAreRows, TotalType DEF LedgerInv, RefundedTotal
<1>7. /\ \A q : ActiveOf(q)' = ActiveOf(q)
      /\ \A q \in Payments : Counted(q)' <=> Counted(q)
      /\ \A l, i : ActiveOn(l, i)' = ActiveOn(l, i)
  <2>1. \A q \in Payments : Counted(q)' <=> Counted(q)
    BY <1>3, <1>5 DEF Counted
  <2>2. \A x \in allocations : x.payment \in Payments
    BY DEF LedgerInv, TypeOK, AllocationRow
  <2>3. QED
    BY <1>1, <2>1, <2>2 DEF ActiveOf, ActiveOn, IsReversed
<1> HIDE DEF row
<1>8. \A q \in Payments : /\ q # p => RefundsOf(q)' = RefundsOf(q)
                          /\ RefundsOf(p)' = RefundsOf(p) \cup {row}
  BY <1>1, <1>2 DEF RefundsOf
<1>9. Total(RefundsOf(p)') = RefundedTotal(p) + amt
  <2>1. IsRows(RefundsOf(p)) /\ row \notin RefundsOf(p)
    BY <1>1, TablesAreRows DEF LedgerInv, RefundsOf
  <2>2. QED
    BY <1>2, <1>8, <2>1, TotalAdd DEF RefundedTotal
<1>10. RowsSound'
  <2>1. \A r \in refunds' : r.allocation \in KeysOf(allocations) \cup {None}
    BY <1>1, <1>2 DEF LedgerInv, RowsSound
  <2>2. \A x \in allocations : payment'[x.payment].status \notin {"NONE", "PENDING"}
    <3>1. \A x \in allocations : x.payment \in Payments
      BY DEF LedgerInv, TypeOK, AllocationRow
    <3>2. QED
      BY <1>5, <3>1 DEF LedgerInv, RowsSound
  <2>3. QED
    BY <1>1, <2>1, <2>2 DEF LedgerInv, RowsSound, KeysOf
<1>11. RefundsWithinPayment'
  <2>1. \A q \in Payments \ {p} : RefundsOf(q)' = RefundsOf(q) /\ RefundedTotal(q)' = RefundedTotal(q)
    BY <1>8 DEF RefundedTotal
  <2>2. RefundedTotal(p)' = RefundedTotal(p) + amt
    BY <1>9 DEF RefundedTotal
  <2>3. /\ RefundedTotal(p)' <= payment'[p].amount
        /\ payment'[p].status = "REFUNDED" => RefundedTotal(p)' = payment'[p].amount
        /\ payment'[p].status = "CONFIRMED" => RefundedTotal(p)' < payment'[p].amount
        /\ payment'[p].status \notin {"NONE", "PENDING", "REVERSED"}
    <3>1. payment'[p].amount = payment[p].amount
      BY <1>5
    <3>2. CASE RefundedTotal(p) + amt = payment[p].amount
      <4>1. payment'[p].status = "REFUNDED"
        BY <1>5, <3>2
      <4>2. QED
        BY <1>4, <2>2, <3>1, <3>2, <4>1
    <3>3. CASE RefundedTotal(p) + amt # payment[p].amount
      <4>1. payment'[p].status = "CONFIRMED"
        BY <1>5, <3>3
      <4>2. RefundedTotal(p) + amt < payment[p].amount
        BY <1>2, <1>3, <1>4, <1>6, <3>3
      <4>3. QED
        BY <1>3, <2>2, <3>1, <4>1, <4>2
    <3>4. QED
      BY <3>2, <3>3
  <2>4. QED
    BY <1>5, <2>1, <2>3 DEF LedgerInv, RefundsWithinPayment
<1>12. ASSUME NEW x \in allocations, x.key = a
       PROVE  x \in ActiveOf(p) /\ Total(Linked(refunds, {x})) + amt <= x.amount
  <2>1. a # None
    BY <1>12, NoneAssumption DEF LedgerInv, TypeOK, AllocationRow
  <2>2. PICK y \in ActiveOf(p) : y.key = a /\ Total(Linked(refunds, {y})) + amt <= y.amount
    BY <1>3, <2>1
  <2>3. x = y
    BY <1>12, <2>2 DEF LedgerInv, RowsSound, ActiveOf
  <2>4. QED
    BY <2>2, <2>3
<1>13. LinkedRefundsWithinAllocation'
  <2>1. ASSUME NEW x \in allocations
        PROVE  /\ Total(Linked(refunds', {x})) <= x.amount
               /\ \A r \in Linked(refunds', {x}) : r.payment = x.payment
               /\ IsReversed(x) => Linked(refunds', {x}) = {}
    <3>1. /\ Total(Linked(refunds, {x})) <= x.amount
          /\ \A r \in Linked(refunds, {x}) : r.payment = x.payment
          /\ IsReversed(x) => Linked(refunds, {x}) = {}
      BY Nets DEF LedgerInv, LinkedRefundsWithinAllocation
    <3>2. CASE x.key = a
      <4>1. x.payment = p /\ ~IsReversed(x) /\ Total(Linked(refunds, {x})) + amt <= x.amount
        BY <1>12, <3>2 DEF ActiveOf
      <4>2. Linked(refunds', {x}) = Linked(refunds, {x}) \cup {row}
        BY <1>1, <1>2, <3>2 DEF Linked, KeysOf
      <4>3. IsRows(Linked(refunds, {x})) /\ row \notin Linked(refunds, {x})
        BY <1>1, TablesAreRows DEF LedgerInv, Linked
      <4>4. Total(Linked(refunds', {x})) = Total(Linked(refunds, {x})) + amt
        BY <1>2, <4>2, <4>3, TotalAdd
      <4>5. QED
        BY <1>2, <3>1, <4>1, <4>2, <4>4
    <3>3. CASE x.key # a
      <4>1. Linked(refunds', {x}) = Linked(refunds, {x})
        BY <1>1, <1>2, <3>3 DEF Linked, KeysOf
      <4>2. QED
        BY <3>1, <4>1
    <3>4. QED
      BY <3>2, <3>3
  <2>2. QED
    BY <1>1, <2>1 DEF LinkedRefundsWithinAllocation, LinkedTo, Linked, IsReversed
<1>14. ASSUME NEW A \in SUBSET allocations
       PROVE  /\ a \notin KeysOf(A) => Net(refunds', A) = Net(refunds, A)
              /\ a \in KeysOf(A) => Net(refunds', A) = Net(refunds, A) - amt
              /\ Net(refunds, A) \in Int
  <2>1. IsRows(A)
    BY <1>6, SubRows
  <2>2. CASE a \notin KeysOf(A)
    BY <1>1, <1>2, <1>6, <2>1, <2>2, NetRefundElsewhere, NetType
  <2>3. CASE a \in KeysOf(A)
    <3>1. row.allocation \in KeysOf(A) /\ row.amount \in Nat /\ row \notin refunds
      BY <1>1, <1>2, <2>3
    <3>2. IsRows(refunds)
      BY <1>6
    <3>3. Net(refunds \cup {row}, A) = Net(refunds, A) - row.amount
      BY <2>1, <3>1, <3>2, NetRefund
    <3>4. QED
      BY <1>1, <1>2, <1>6, <2>1, <2>3, <3>3, NetType
  <2>4. QED
    BY <2>2, <2>3
<1>15. AllocationsCovered'
  <2>1. ASSUME NEW q \in Payments, Counted(q)
        PROVE  Net(refunds', ActiveOf(q)) <= payment[q].amount - Total(RefundsOf(q)')
    <3>1. ActiveOf(q) \subseteq allocations
      BY DEF ActiveOf
    <3>2. CASE q = p
      <4>1. a \in KeysOf(ActiveOf(p)) <=> a # None
        <5>1. a # None => a \in KeysOf(ActiveOf(p))
          BY <1>3 DEF KeysOf
        <5>2. None \notin KeysOf(allocations)
          BY NoneAssumption DEF LedgerInv, TypeOK, AllocationRow, KeysOf
        <5>3. QED
          BY <5>1, <5>2 DEF KeysOf, ActiveOf
      <4>2. Net(refunds', ActiveOf(p))
              = Net(refunds, ActiveOf(p)) - (IF a = None THEN 0 ELSE amt)
        BY <1>14, <3>1, <3>2, <4>1
      <4>3. QED
        BY <1>3, <1>9, <3>2, <4>2
    <3>3. CASE q # p
      <4>1. a \notin KeysOf(ActiveOf(q))
        BY <1>12, <3>3 DEF KeysOf, ActiveOf
      <4>2. Net(refunds', ActiveOf(q)) = Net(refunds, ActiveOf(q))
        BY <1>14, <3>1, <4>1
      <4>3. RefundsOf(q)' = RefundsOf(q)
        BY <1>8, <3>3
      <4>4. QED
        BY <2>1, <4>2, <4>3, Nets DEF LedgerInv
    <3>4. QED
      BY <3>2, <3>3
  <2>2. QED
    BY <1>5, <1>7, <2>1, NetsNext
<1>16. InstallmentsNotOverpaid'
  <2>1. ASSUME NEW l \in Plans, NEW x \in plan[l].installments
        PROVE  Net(refunds', ActiveOn(l, x.seq)) <= x.amount
    <3>1. ActiveOn(l, x.seq) \subseteq allocations
      BY DEF ActiveOn
    <3>2. Net(refunds', ActiveOn(l, x.seq)) <= Net(refunds, ActiveOn(l, x.seq))
          /\ Net(refunds', ActiveOn(l, x.seq)) \in Int
          /\ Net(refunds, ActiveOn(l, x.seq)) \in Int
      BY <1>2, <1>14, <3>1
    <3>3. plan[l] \in PlanRow \cup {NoPlan}
      BY DEF LedgerInv, TypeOK
    <3>4. x.amount \in Amounts
      BY <3>3 DEF PlanRow, NoPlan, Installment
    <3>5. x.amount \in Nat
      BY <3>4, AmountsAssumption
    <3>6. Net(refunds, ActiveOn(l, x.seq)) <= x.amount
      BY Nets DEF LedgerInv
    <3>7. QED
      BY <3>2, <3>5, <3>6
  <2>2. QED
    BY <1>1, <1>7, <2>1, NetsNext
<1>17. AllocationsOnApprovedPlan'
  <2>1. \A x \in allocations : x.payment \in Payments
    BY DEF LedgerInv, TypeOK, AllocationRow
  <2>2. QED
    BY <1>1, <1>5, <2>1 DEF LedgerInv, AllocationsOnApprovedPlan
<1>18. QED
  BY <1>10, <1>11, <1>13, <1>15, <1>16, <1>17 DEF LedgerInv

(* An allocation fits the payment and the installment it joins. *)
LEMMA LedgerInvAllocate ==
  ASSUME LedgerInv, NEW p \in Payments, NEW l \in Plans, NEW i \in Seqs,
         NEW amt \in Amounts, NEW k \in AllocationKeys,
         CreateAllocation(p, l, i, amt, k), TypeOK'
  PROVE  LedgerInv'
<1> DEFINE row == [key |-> k, payment |-> p, plan |-> l, seq |-> i, amount |-> amt]
<1>1. /\ UNCHANGED <<plan, payment, refunds, reversals>>
      /\ allocations' = allocations \cup {row} /\ row \notin allocations
      /\ k \notin KeysOf(allocations)
  BY DEF CreateAllocation, planVars, KeysOf
<1>2. /\ row.key = k /\ row.payment = p /\ row.plan = l /\ row.seq = i /\ row.amount = amt
      /\ amt \in Nat \ {0} /\ k \in Keys
  BY AmountsAssumption DEF Keys
<1>3. /\ payment[p].status # "NONE"
      /\ plan[l].status = "APPROVED" /\ plan[l].booking = payment[p].booking
      /\ Net(refunds, ActiveOf(p)) + amt <= NetContribution(p)
      /\ \E x \in plan[l].installments :
           x.seq = i /\ Net(refunds, ActiveOn(l, i)) + amt <= x.amount
  BY Nets DEF CreateAllocation, Allocatable, FitsPayment, FitsInstallment
<1>4. IsRows(refunds) /\ IsRows(allocations)
  BY TablesAreRows DEF LedgerInv
<1>5. /\ \A r \in refunds : r.allocation # k
      /\ \A v \in reversals : v.allocation # k
  BY <1>1, <1>2, NoneAssumption DEF LedgerInv, RowsSound
<1>6. payment[p].status # "PENDING"
  <2> SUFFICES ASSUME payment[p].status = "PENDING" PROVE FALSE
    OBVIOUS
  <2>1. NetContribution(p) = 0 /\ ActiveOf(p) = {}
    BY DEF NetContribution, Counted, ActiveOf, LedgerInv, RowsSound
  <2>2. Net(refunds, ActiveOf(p)) = 0
    BY <2>1, NetEmpty
  <2>3. QED
    BY <1>2, <1>3, <2>1, <2>2
<1> HIDE DEF row
<1>7. /\ \A q \in Payments : ActiveOf(q)' = IF q = p THEN ActiveOf(p) \cup {row} ELSE ActiveOf(q)
      /\ \A m \in Plans, j \in Seqs :
           ActiveOn(m, j)' = IF m = l /\ j = i /\ Counted(p)
                             THEN ActiveOn(l, i) \cup {row} ELSE ActiveOn(m, j)
  BY <1>1, <1>2, <1>5 DEF ActiveOf, ActiveOn, IsReversed, Counted
<1>8. /\ IsRows(ActiveOf(p)) /\ row \notin ActiveOf(p)
      /\ IsRows(ActiveOn(l, i)) /\ row \notin ActiveOn(l, i)
  <2>1. row \notin ActiveOf(p) /\ row \notin ActiveOn(l, i)
    BY <1>1 DEF ActiveOf, ActiveOn
  <2>2. QED
    BY <2>1, TablesAreRows DEF LedgerInv
<1>9. /\ Net(refunds, ActiveOf(p) \cup {row}) = Net(refunds, ActiveOf(p)) + amt
      /\ Net(refunds, ActiveOn(l, i) \cup {row}) = Net(refunds, ActiveOn(l, i)) + amt
  <2>1. (\A r \in refunds : r.allocation # row.key) /\ row.amount \in Nat
    BY <1>2, <1>5
  <2>2. Net(refunds, ActiveOf(p) \cup {row}) = Net(refunds, ActiveOf(p)) + row.amount
    BY <1>4, <1>8, <2>1, NetAllocate
  <2>3. Net(refunds, ActiveOn(l, i) \cup {row}) = Net(refunds, ActiveOn(l, i)) + row.amount
    BY <1>4, <1>8, <2>1, NetAllocate
  <2>4. QED
    BY <1>2, <2>2, <2>3
<1>10. RowsSound'
  <2>1. \A a, c \in allocations' : a.key = c.key => a = c
    BY <1>1, <1>2 DEF LedgerInv, RowsSound, KeysOf
  <2>2. \A a \in allocations' : payment[a.payment].status \notin {"NONE", "PENDING"}
    BY <1>1, <1>2, <1>3, <1>6 DEF LedgerInv, RowsSound
  <2>3. KeysOf(allocations) \subseteq KeysOf(allocations')
    BY <1>1 DEF KeysOf
  <2>4. QED
    BY <1>1, <2>1, <2>2, <2>3 DEF LedgerInv, RowsSound, KeysOf
<1>11. RefundsWithinPayment'
  BY <1>1 DEF LedgerInv, RefundsWithinPayment, RefundedTotal, RefundsOf
<1>12. LinkedRefundsWithinAllocation'
  <2>1. Linked(refunds, {row}) = {} /\ Total({}) = 0
    BY <1>2, <1>5, TotalEmpty DEF Linked, KeysOf
  <2>2. \A a \in allocations' :
          /\ Total(Linked(refunds, {a})) <= a.amount
          /\ \A r \in Linked(refunds, {a}) : r.payment = a.payment
          /\ IsReversed(a) => Linked(refunds, {a}) = {}
    <3>1. \A a \in allocations :
            /\ Total(Linked(refunds, {a})) <= a.amount
            /\ \A r \in Linked(refunds, {a}) : r.payment = a.payment
            /\ IsReversed(a) => Linked(refunds, {a}) = {}
      BY Nets DEF LedgerInv, LinkedRefundsWithinAllocation
    <3>2. Total(Linked(refunds, {row})) <= row.amount
      BY <1>2, <2>1
    <3>3. QED
      BY <1>1, <2>1, <3>1, <3>2
  <2>3. QED
    BY <1>1, <2>2 DEF LinkedRefundsWithinAllocation, LinkedTo, Linked, IsReversed
<1>13. AllocationsCovered'
  <2>1. ASSUME NEW q \in Payments, Counted(q)
        PROVE  Net(refunds, ActiveOf(q)') <= payment[q].amount - Total(RefundsOf(q))
    <3>1. CASE q = p
      <4>1. NetContribution(p) = payment[p].amount - Total(RefundsOf(p))
        BY <2>1, <3>1 DEF NetContribution, RefundedTotal
      <4>2. Net(refunds, ActiveOf(p)') = Net(refunds, ActiveOf(p)) + amt
        BY <1>7, <1>9
      <4>3. QED
        BY <1>3, <3>1, <4>1, <4>2
    <3>2. CASE q # p
      BY <1>7, <2>1, <3>2, Nets DEF LedgerInv
    <3>3. QED
      BY <3>1, <3>2
  <2>2. \A q \in Payments : (Counted(q)' <=> Counted(q)) /\ RefundsOf(q)' = RefundsOf(q)
    BY <1>1 DEF Counted, RefundsOf
  <2>3. QED
    BY <1>1, <2>1, <2>2, NetsNext
<1>14. InstallmentsNotOverpaid'
  <2>1. ASSUME NEW m \in Plans, NEW x \in plan[m].installments
        PROVE  Net(refunds, ActiveOn(m, x.seq)') <= x.amount
    <3>1. x.seq \in Seqs
      <4>1. plan[m] \in PlanRow \cup {NoPlan}
        BY DEF LedgerInv, TypeOK
      <4>2. QED
        BY <4>1 DEF PlanRow, NoPlan, Installment
    <3>2. CASE m = l /\ x.seq = i /\ Counted(p)
      <4>1. PICK y \in plan[l].installments :
              y.seq = i /\ Net(refunds, ActiveOn(l, i)) + amt <= y.amount
        BY <1>3
      <4>2. x = y
        BY <3>2, <4>1 DEF LedgerInv, RowsSound
      <4>3. QED
        BY <1>7, <1>9, <3>1, <3>2, <4>1, <4>2
    <3>3. CASE ~(m = l /\ x.seq = i /\ Counted(p))
      <4>1. ActiveOn(m, x.seq)' = ActiveOn(m, x.seq)
        BY <1>7, <3>1, <3>3
      <4>2. QED
        BY <4>1, Nets DEF LedgerInv
    <3>4. QED
      BY <3>2, <3>3
  <2>2. QED
    BY <1>1, <2>1, NetsNext
<1>15. AllocationsOnApprovedPlan'
  <2>1. \E x \in plan[l].installments : x.seq = i
    BY <1>3
  <2>2. QED
    BY <1>1, <1>2, <1>3, <2>1 DEF LedgerInv, AllocationsOnApprovedPlan
<1>16. QED
  BY <1>10, <1>11, <1>12, <1>13, <1>14, <1>15 DEF LedgerInv

(* Reversing an allocation only frees capacity. *)
LEMMA LedgerInvReverseAllocation ==
  ASSUME LedgerInv, NEW a \in allocations, NEW k \in ReversalKeys,
         ReverseAllocation(a, k), TypeOK'
  PROVE  LedgerInv'
<1> DEFINE v == [key |-> k, allocation |-> a.key]
<1>1. /\ UNCHANGED <<plan, payment, refunds, allocations>>
      /\ reversals' = reversals \cup {v} /\ v.allocation = a.key
      /\ Linked(refunds, {a}) = {}
  BY Nets DEF ReverseAllocation, AllocationReversible, planVars
<1> HIDE DEF v
<1>2. \A c \in allocations : IsReversed(c)' <=> IsReversed(c) \/ c = a
  BY <1>1 DEF IsReversed, LedgerInv, RowsSound
<1>3. /\ \A q : ActiveOf(q)' = ActiveOf(q) \ {a}
      /\ \A m, j : ActiveOn(m, j)' = ActiveOn(m, j) \ {a}
  BY <1>1, <1>2 DEF ActiveOf, ActiveOn, Counted
<1>4. ASSUME NEW A \in SUBSET allocations
      PROVE  /\ Net(refunds, A \ {a}) <= Net(refunds, A)
             /\ Net(refunds, A \ {a}) \in Int /\ Net(refunds, A) \in Int
  <2>1. IsRows(refunds) /\ IsRows(A)
    BY TablesAreRows, SubRows DEF LedgerInv
  <2>2. IsRows(A \ {a})
    BY <2>1, SubRows
  <2>3. \A r \in refunds : r.allocation # a.key
    BY <1>1 DEF Linked, KeysOf
  <2>4. QED
    BY <2>1, <2>2, <2>3, NetDrop, NetType
<1>5. RowsSound'
  <2>1. a.key \in KeysOf(allocations)
    BY DEF KeysOf
  <2>2. QED
    BY <1>1, <2>1 DEF LedgerInv, RowsSound, KeysOf
<1>6. RefundsWithinPayment'
  BY <1>1 DEF LedgerInv, RefundsWithinPayment, RefundedTotal, RefundsOf
<1>7. LinkedRefundsWithinAllocation'
  <2>1. \A c \in allocations :
          /\ Total(Linked(refunds, {c})) <= c.amount
          /\ \A r \in Linked(refunds, {c}) : r.payment = c.payment
          /\ IsReversed(c) \/ c = a => Linked(refunds, {c}) = {}
    BY <1>1, Nets DEF LedgerInv, LinkedRefundsWithinAllocation
  <2>2. \A A : LinkedTo(A)' = Linked(refunds, A)
    BY <1>1 DEF LinkedTo, Linked
  <2>3. QED
    BY <1>1, <1>2, <2>1, <2>2 DEF LinkedRefundsWithinAllocation, LinkedTo, Linked
<1>8. AllocationsCovered'
  <2>1. ASSUME NEW q \in Payments, Counted(q)
        PROVE  Net(refunds, ActiveOf(q) \ {a}) <= payment[q].amount - Total(RefundsOf(q))
    <3>1. ActiveOf(q) \subseteq allocations
      BY DEF ActiveOf
    <3>2. Net(refunds, ActiveOf(q)) <= payment[q].amount - Total(RefundsOf(q))
      BY <2>1, Nets DEF LedgerInv
    <3>3. payment[q].amount \in Nat /\ Total(RefundsOf(q)) \in Nat
      <4>1. payment[q] \in PaymentRow
        BY <2>1, RowsInUse DEF LedgerInv, Counted
      <4>2. payment[q].amount \in Amounts
        BY <4>1 DEF PaymentRow
      <4>3. payment[q].amount \in Nat
        BY <4>2, AmountsAssumption
      <4>4. QED
        BY <4>3, TablesAreRows, TotalType DEF LedgerInv
    <3>4. QED
      BY <1>4, <3>1, <3>2, <3>3
  <2>2. \A q \in Payments : (Counted(q)' <=> Counted(q)) /\ RefundsOf(q)' = RefundsOf(q)
    BY <1>1 DEF Counted, RefundsOf
  <2>3. QED
    BY <1>1, <1>3, <2>1, <2>2, NetsNext
<1>9. InstallmentsNotOverpaid'
  <2>1. ASSUME NEW m \in Plans, NEW x \in plan[m].installments
        PROVE  Net(refunds, ActiveOn(m, x.seq) \ {a}) <= x.amount
    <3>1. ActiveOn(m, x.seq) \subseteq allocations
      BY DEF ActiveOn
    <3>2. Net(refunds, ActiveOn(m, x.seq)) <= x.amount
      BY Nets DEF LedgerInv
    <3>3. plan[m] \in PlanRow \cup {NoPlan}
      BY DEF LedgerInv, TypeOK
    <3>4. x.amount \in Amounts
      BY <3>3 DEF PlanRow, NoPlan, Installment
    <3>5. x.amount \in Nat
      BY <3>4, AmountsAssumption
    <3>6. QED
      BY <1>4, <3>1, <3>2, <3>5
  <2>2. QED
    BY <1>1, <1>3, <2>1, NetsNext
<1>10. AllocationsOnApprovedPlan'
  BY <1>1 DEF LedgerInv, AllocationsOnApprovedPlan
<1>11. QED
  BY <1>5, <1>6, <1>7, <1>8, <1>9, <1>10 DEF LedgerInv

-----------------------------------------------------------------------------
(* Plan handlers leave the ledger alone and never change an approved plan. *)
LEMMA LedgerInvPlanStep == LedgerInv /\ PlanStep => LedgerInv'
<1> SUFFICES ASSUME LedgerInv, PlanStep PROVE LedgerInv'
  OBVIOUS
<1>1. TypeOK /\ TypeOK'
  BY TypePlanStep DEF LedgerInv
<1>2. UNCHANGED <<payment, refunds, allocations, reversals>>
  BY DEF PlanStep, SetBookingFinancials, ProposePaymentPlan, ApprovePaymentPlan,
         WithdrawPaymentPlan, ledgerVars
<1>3. ASSUME NEW b \in Bookings, NEW total \in Amounts, NEW cur \in Currencies,
             SetBookingFinancials(b, total, cur)
      PROVE  LedgerInv'
  BY <1>1, <1>2, <1>3, LedgerInvFrame DEF SetBookingFinancials
<1>4. ASSUME NEW l \in Plans, NEW b \in Bookings, NEW s \in InstallmentLists,
             ProposePaymentPlan(l, b, s)
      PROVE  LedgerInv'
  <2>1. /\ plan[l].status = "NONE" /\ plan'[l].installments = s
        /\ \A m \in Plans \ {l} : plan'[m] = plan[m]
    BY <1>1, <1>4 DEF ProposePaymentPlan, TypeOK
  <2>2. QED
    BY <1>1, <1>2, <2>1, LedgerInvPlanChange
<1>5. ASSUME NEW l \in Plans, ApprovePaymentPlan(l) \/ WithdrawPaymentPlan(l)
      PROVE  LedgerInv'
  <2>1. plan[l].status = "PROPOSED"
    BY <1>5 DEF ApprovePaymentPlan, WithdrawPaymentPlan
  <2>2. plan[l] \in PlanRow
    BY <1>1, <2>1, RowsInUse
  <2>3. /\ plan'[l].installments = plan[l].installments
        /\ \A m \in Plans \ {l} : plan'[m] = plan[m]
    BY <1>1, <1>5, <2>2 DEF ApprovePaymentPlan, WithdrawPaymentPlan, TypeOK, PlanRow
  <2>4. QED
    BY <1>1, <1>2, <2>1, <2>3, LedgerInvPlanChange
<1>6. QED
  BY <1>3, <1>4, <1>5 DEF PlanStep

(* The ledger invariant is inductive. *)
LEMMA LedgerInvStep == LedgerInv /\ [Next]_vars => LedgerInv'
<1> SUFFICES ASSUME LedgerInv, [Next]_vars PROVE LedgerInv'
  OBVIOUS
<1>1. TypeOK'
  BY TypeStep DEF LedgerInv
<1>2. CASE PlanStep
  BY <1>2, LedgerInvPlanStep
<1>3. CASE LedgerStep
  <2>1. ASSUME NEW p \in Payments, IssueReceipt(p) PROVE LedgerInv'
    BY <1>1, <2>1, LedgerInvFrame DEF IssueReceipt, planVars
  <2>2. QED
    BY <1>1, <1>3, <2>1, LedgerInvRecord, LedgerInvConfirm, LedgerInvReverse,
       LedgerInvRefund, LedgerInvAllocate, LedgerInvReverseAllocation DEF LedgerStep
<1>4. CASE (\E b \in Bookings : CancelBooking(b)) \/ UNCHANGED vars
  <2>1. UNCHANGED <<plan, payment, refunds, allocations, reversals>>
    BY <1>4 DEF CancelBooking, vars, planVars, ledgerVars
  <2>2. QED
    BY <1>1, <2>1, LedgerInvFrame
<1>5. QED
  BY <1>2, <1>3, <1>4 DEF Next

(* The ledger invariant holds in every reachable state, for all constants. *)
THEOREM LedgerInvariant == Spec => []LedgerInv
BY LedgerInvInit, LedgerInvStep, PTL DEF Spec

(* Refunds never exceed their payment, in whatever mix of partial refunds. *)
THEOREM RefundsNeverExceedPayment == Spec => []RefundsWithinPayment
<1>1. LedgerInv => RefundsWithinPayment
  BY DEF LedgerInv
<1>2. QED
  BY <1>1, LedgerInvariant, PTL

(* D-054 section 17 rule 2 in every reachable state. *)
THEOREM AllocationsStayCovered == Spec => []AllocationsCovered
<1>1. LedgerInv => AllocationsCovered
  BY DEF LedgerInv
<1>2. QED
  BY <1>1, LedgerInvariant, PTL

(* D-054 section 17 rule 5 in every reachable state. *)
THEOREM InstallmentsNeverOverpaid == Spec => []InstallmentsNotOverpaid
<1>1. LedgerInv => InstallmentsNotOverpaid
  BY DEF LedgerInv
<1>2. QED
  BY <1>1, LedgerInvariant, PTL

(* Refunds linked to an allocation stay within it. *)
THEOREM LinkedRefundsStayWithin == Spec => []LinkedRefundsWithinAllocation
<1>1. LedgerInv => LinkedRefundsWithinAllocation
  BY DEF LedgerInv
<1>2. QED
  BY <1>1, LedgerInvariant, PTL

(* Every allocation stays on an approved plan of the payment's booking. *)
THEOREM AllocationsStayOnApprovedPlan == Spec => []AllocationsOnApprovedPlan
<1>1. LedgerInv => AllocationsOnApprovedPlan
  BY DEF LedgerInv
<1>2. QED
  BY <1>1, LedgerInvariant, PTL

=============================================================================
