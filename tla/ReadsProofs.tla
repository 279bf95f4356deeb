----------------------------- MODULE ReadsProofs -----------------------------
(***************************************************************************)
(* What readers of the payments are told, proved for every set of          *)
(* bookings, payments, readers and commits meanwhile: a page for the       *)
(* client shows approved plans only, and an export meets sound data, has   *)
(* its audit entry, and says nothing is due only where nothing is owed.    *)
(***************************************************************************)
EXTENDS PaymentReads, PaymentsProofs

(* The row a handler writes is always expanded. *)
USE DEF UpdateFinancials, NewPlan, Approved, Withdrawn, CreatePending

-----------------------------------------------------------------------------
(* Sums over finite sets. *)

(* Induction over a finite set, for the property of being in the family F: *)
(* a smallest subset without it is not empty, and one element less has it. *)
LEMMA SetInduction ==
  ASSUME NEW S, IsFiniteSet(S), NEW F, {} \in F,
         \A T \in SUBSET S : T \in F => \A x \in S \ T : T \cup {x} \in F
  PROVE  S \in F
<1> DEFINE Bad == {T \in SUBSET S : T \notin F}
<1> SUFFICES ASSUME S \notin F PROVE FALSE
  OBVIOUS
<1>1. Bad \subseteq FiniteSubsetsOf(S) /\ Bad # {}
  BY FS_Subset DEF FiniteSubsetsOf
<1>2. PICK T \in Bad : \A U \in Bad : <<U, T>> \notin StrictSubsetOrdering(S)
  <2> HIDE DEF Bad
  <2>1. IsWellFoundedOn(StrictSubsetOrdering(S), FiniteSubsetsOf(S))
    BY FS_StrictSubsetOrderingWellFounded
  <2>2. QED
    BY <1>1, <2>1, WFMin
<1>3. PICK x \in T : TRUE
  BY <1>2
<1> DEFINE U == T \ {x}
<1>4. U \in SUBSET S /\ x \in S \ U /\ U \cup {x} = T /\ U # T
  BY <1>2, <1>3
<1>5. <<U, T>> \in StrictSubsetOrdering(S)
  BY <1>2, <1>4 DEF StrictSubsetOrdering
<1>6. U \in F
  BY <1>2, <1>4, <1>5
<1>7. QED
  BY <1>2, <1>4, <1>6

(* The sum over two disjoint sets of rows is the sum of their sums. *)
LEMMA TotalUnion ==
  ASSUME NEW S, NEW T, IsRows(S), IsRows(T), S \cap T = {}
  PROVE  Total(S \cup T) = Total(S) + Total(T)
<1>1. Units(S \cup T) = Units(S) \cup Units(T) /\ Units(S) \cap Units(T) = {}
  BY DEF Units
<1>2. IsFiniteSet(Units(S)) /\ IsFiniteSet(Units(T))
  BY UnitsFinite
<1>3. Cardinality(Units(S)) \in Nat /\ Cardinality(Units(T)) \in Nat
  BY <1>2, FS_CardinalityType
<1>4. Cardinality(Units(S) \cap Units(T)) = 0
  BY <1>1, FS_EmptySet
<1>5. Cardinality(Units(S) \cup Units(T)) = Cardinality(Units(S)) + Cardinality(Units(T))
  <2>1. Cardinality(Units(S) \cup Units(T))
          = Cardinality(Units(S)) + Cardinality(Units(T)) - Cardinality(Units(S) \cap Units(T))
    BY <1>2, FS_Union
  <2>2. QED
    BY <1>3, <1>4, <2>1
<1>6. QED
  BY <1>1, <1>5 DEF Total

(* What two disjoint sets of allocations hold adds up. *)
LEMMA NetUnion ==
  ASSUME TypeOK, RowsSound, NEW A \in SUBSET allocations, NEW B \in SUBSET allocations,
         A \cap B = {}
  PROVE  Net(refunds, A \cup B) = Net(refunds, A) + Net(refunds, B)
<1>1. IsRows(A) /\ IsRows(B) /\ IsRows(refunds)
  BY TablesAreRows, SubRows
<1>2. /\ Linked(refunds, A \cup B) = Linked(refunds, A) \cup Linked(refunds, B)
      /\ Linked(refunds, A) \cap Linked(refunds, B) = {}
  BY DEF Linked, KeysOf, RowsSound
<1>3. IsRows(Linked(refunds, A)) /\ IsRows(Linked(refunds, B))
  BY TablesAreRows
<1>4. Total(A \cup B) = Total(A) + Total(B)
  BY <1>1, TotalUnion
<1>5. Total(Linked(refunds, A \cup B)) = Total(Linked(refunds, A)) + Total(Linked(refunds, B))
  BY <1>2, <1>3, TotalUnion
<1>6. QED
  BY <1>1, <1>4, <1>5, NetType DEF Net

(* No set of allocations holds less than nothing. *)
LEMMA NetNatural ==
  ASSUME LedgerInv, NEW A \in SUBSET allocations
  PROVE  Net(refunds, A) \in Nat
<1> DEFINE F == {B \in SUBSET A : Net(refunds, B) \in Nat}
<1>1. IsFiniteSet(A)
  BY FS_Subset DEF LedgerInv, TypeOK
<1>2. {} \in F
  BY NetEmpty
<1>3. ASSUME NEW B \in SUBSET A, B \in F, NEW x \in A \ B
      PROVE  B \cup {x} \in F
  <2>1. IsRows({x}) /\ Total({x}) = x.amount /\ x.amount \in Nat
    <3>1. x.amount \in Nat
      BY AmountsAssumption DEF LedgerInv, TypeOK, AllocationRow
    <3>2. IsRows({}) /\ {} \cup {x} = {x}
      BY FS_EmptySet DEF IsRows
    <3>3. IsRows({x})
      BY <3>1, FS_Singleton DEF IsRows
    <3>4. QED
      BY <3>1, <3>2, <3>3, TotalAdd, TotalEmpty
  <2>2. Total(LinkedTo({x})) <= x.amount
    BY DEF LedgerInv, LinkedRefundsWithinAllocation
  <2>3. LinkedTo({x}) = Linked(refunds, {x}) /\ IsRows(Linked(refunds, {x}))
    BY TablesAreRows, Nets DEF LedgerInv
  <2>4. Net(refunds, {x}) \in Nat
    BY <2>1, <2>2, <2>3, TotalType DEF Net
  <2>5. Net(refunds, B \cup {x}) = Net(refunds, B) + Net(refunds, {x})
    BY <1>3, NetUnion DEF LedgerInv
  <2>6. QED
    BY <1>3, <2>4, <2>5
<1> HIDE DEF F
<1>4. A \in F
  BY <1>1, <1>2, <1>3, SetInduction
<1>5. QED
  BY <1>4 DEF F

-----------------------------------------------------------------------------
(* What the figures need of the tables beyond the money rules: finitely    *)
(* many payments were recorded, and whatever is of a booking is in a       *)
(* currency of it.                                                         *)
Recorded == {p \in Payments : payment[p].status # "NONE"}
Priced ==
  /\ \A p \in Recorded : financials[payment[p].booking].currency # None
  /\ \A l \in Plans : plan[l].status # "NONE" => financials[plan[l].booking].currency # None
BooksInv == PlanInv /\ LedgerInv /\ IsFiniteSet(Recorded) /\ Priced

(* A booking's currency is replaced and never taken away. *)
CurrenciesKept ==
  \A b \in Bookings : financials[b].currency # None => financials'[b].currency # None

(* A plan step writes priced plans and keeps the payments. *)
LEMMA PlansStayPriced ==
  ASSUME TypeOK, Priced, PlanStep
  PROVE  Priced' /\ UNCHANGED payment
<1>1. UNCHANGED payment
  BY DEF PlanStep, SetBookingFinancials, ProposePaymentPlan, ApprovePaymentPlan, WithdrawPaymentPlan,
     ledgerVars
<1>2. ASSUME NEW b \in Bookings, NEW total \in Amounts, NEW cur \in Currencies,
             SetBookingFinancials(b, total, cur)
      PROVE  Priced'
  <2>1. CurrenciesKept /\ UNCHANGED plan
    BY <1>2, NoneAssumption DEF SetBookingFinancials, CurrenciesKept, TypeOK
  <2>2. /\ \A p \in Recorded : payment[p].booking \in Bookings
        /\ \A l \in Plans : plan[l].status # "NONE" => plan[l].booking \in Bookings
    BY RowsInUse DEF Recorded, PaymentRow, PlanRow
  <2>3. QED
    BY <1>1, <2>1, <2>2 DEF Priced, Recorded, CurrenciesKept
<1>3. ASSUME NEW l \in Plans, NEW b \in Bookings, NEW s \in InstallmentLists,
             ProposePaymentPlan(l, b, s)
      PROVE  Priced'
  <2>1. financials[b].currency # None
    BY <1>3, NoneAssumption DEF ProposePaymentPlan, TypeOK, Financials
  <2>2. QED
    BY <1>1, <1>3, <2>1 DEF ProposePaymentPlan, Priced, Recorded, TypeOK
<1>4. ASSUME NEW l \in Plans, ApprovePaymentPlan(l) \/ WithdrawPaymentPlan(l)
      PROVE  Priced'
  <2>1. plan[l].status = "PROPOSED" /\ plan[l] \in PlanRow /\ UNCHANGED financials
    BY <1>4, RowsInUse DEF ApprovePaymentPlan, WithdrawPaymentPlan
  <2>2. \A m \in Plans : plan'[m].booking = plan[m].booking
                         /\ (plan'[m].status # "NONE" => plan[m].status # "NONE")
    BY <1>4, <2>1 DEF ApprovePaymentPlan, WithdrawPaymentPlan, TypeOK, PlanRow
  <2>3. QED
    BY <1>1, <2>1, <2>2 DEF Priced, Recorded
<1>5. QED
  BY <1>1, <1>2, <1>3, <1>4 DEF PlanStep

(* A ledger step records at most one payment, of a booking with a currency.*)
LEMMA RecordedGrows ==
  ASSUME TypeOK, LedgerStep
  PROVE  \/ Recorded' \subseteq Recorded
         \/ \E p \in Payments : /\ Recorded' = Recorded \cup {p}
                               /\ financials[payment'[p].booking].currency # None
<1>1. ASSUME NEW p \in Payments, NEW b \in Bookings, NEW amt \in Amounts,
             NEW k \in StatusKeys, RecordPayment(p, b, amt, k)
      PROVE  /\ Recorded' = Recorded \cup {p}
             /\ financials[payment'[p].booking].currency # None
  BY <1>1 DEF RecordPayment, Recorded, TypeOK
<1>2. ASSUME NEW p \in Payments, NEW target, NEW k, payment[p].status = "PENDING" \/ payment[p].status = "CONFIRMED",
             Transition(p, target, k)
      PROVE  Recorded' \subseteq Recorded
  BY <1>2 DEF Transition, Recorded, TypeOK
<1>3. CASE UNCHANGED payment
  BY <1>3 DEF Recorded
<1>4. QED
  BY <1>1, <1>2, <1>3 DEF LedgerStep, ConfirmPayment, ReversePayment, Confirmable, Reversible,
     RefundPayment, IssueReceipt, CreateAllocation, ReverseAllocation

(* Before anything is recorded there is nothing to be priced. *)
LEMMA BooksInit == Init => BooksInv
<1> SUFFICES ASSUME Init PROVE BooksInv
  OBVIOUS
<1>1. Recorded = {} /\ Priced
  BY DEF Init, TablesInit, NoPayment, NoPlan, Recorded, Priced
<1>2. QED
  BY <1>1, PlanInvInit, LedgerInvInit, FS_EmptySet DEF BooksInv

(* Every step on the payments keeps the books. *)
LEMMA BooksStep == BooksInv /\ [Next]_vars => BooksInv'
<1> SUFFICES ASSUME BooksInv, [Next]_vars PROVE BooksInv'
  OBVIOUS
<1>1. TypeOK /\ Priced /\ IsFiniteSet(Recorded) /\ PlanInv' /\ LedgerInv'
  BY PlanInvStep, LedgerInvStep DEF BooksInv, PlanInv
<1>2. CASE PlanStep
  <2>1. Recorded' = Recorded /\ Priced'
    BY <1>1, <1>2, PlansStayPriced DEF Recorded
  <2>2. QED
    BY <1>1, <2>1 DEF BooksInv
<1>3. CASE LedgerStep
  <2>1. PaymentsKept /\ UNCHANGED <<financials, plan>>
    BY <1>1, <1>3, LedgerKeepsPayments DEF planVars
  <2>2. IsFiniteSet(Recorded')
    BY <1>1, <1>3, RecordedGrows, FS_AddElement, FS_Subset
  <2>3. Priced'
    <3>1. ASSUME NEW p \in Recorded' PROVE financials'[payment'[p].booking].currency # None
      <4>1. CASE p \in Recorded
        BY <1>1, <2>1, <4>1 DEF Priced, PaymentsKept, Recorded
      <4>2. CASE p \notin Recorded
        BY <1>1, <1>3, <2>1, <3>1, <4>2, RecordedGrows
      <4>3. QED
        BY <4>1, <4>2
    <3>2. QED
      BY <1>1, <2>1, <3>1 DEF Priced
  <2>4. QED
    BY <1>1, <2>2, <2>3 DEF BooksInv
<1>4. CASE (\E b \in Bookings : CancelBooking(b)) \/ UNCHANGED vars
  <2>1. UNCHANGED <<financials, plan, payment>>
    BY <1>4 DEF CancelBooking, planVars, ledgerVars, vars
  <2>2. Recorded' = Recorded /\ Priced'
    BY <1>1, <2>1 DEF Recorded, Priced
  <2>3. QED
    BY <1>1, <2>2 DEF BooksInv
<1>5. QED
  BY <1>2, <1>3, <1>4 DEF Next

-----------------------------------------------------------------------------
(* The figures of a snapshot are the quantities of the tables. *)

(* Allocations that count: not reversed, of a payment that counts. *)
Held(A) == {a \in A : ~IsReversed(a) /\ Counted(a.payment)}

(* A snapshot has every table as it is. *)
LEMMA DatabaseIs ==
  /\ Database["bookings"] = financials /\ Database["plans"] = plan
  /\ Database["allocations"] = allocations /\ Database["reversals"] = reversals
  /\ Database["statuses"] = [p \in Payments |-> payment[p].status]
  /\ Database["links"] = {r \in refunds : r.allocation # None}
  /\ Database["payments"] = payment /\ Database["refunds"] = refunds
BY DEF Database, Statements

(* Refunds, contributions and the refund check of a payment. *)
LEMMA PaymentFigures ==
  ASSUME LedgerInv, NEW p \in Payments
  PROVE  /\ RefundedOf(Database, p) = RefundedTotal(p)
         /\ RefundsWithin(Database, p)
         /\ ContributionOf(Database, p) = NetContribution(p)
         /\ NetContribution(p) \in Nat
<1>1. RefundedOf(Database, p) = RefundedTotal(p) /\ RefundedTotal(p) \in Nat
  BY DatabaseIs, TablesAreRows, TotalType DEF RefundedOf, RefundedTotal, RefundsOf, LedgerInv
<1>2. RefundedTotal(p) <= payment[p].amount
  BY DEF LedgerInv, RefundsWithinPayment
<1>3. payment[p].amount \in Nat
  <2>1. payment[p] \in PaymentRow \cup {NoPayment}
    BY DEF LedgerInv, TypeOK
  <2>2. CASE payment[p] \in PaymentRow
    BY <2>2, AmountsAssumption DEF PaymentRow
  <2>3. CASE payment[p] = NoPayment
    BY <2>3 DEF NoPayment
  <2>4. QED
    BY <2>1, <2>2, <2>3
<1>4. RefundsWithin(Database, p)
  BY <1>1, <1>2, DatabaseIs DEF RefundsWithin
<1>5. AtLeastZero(payment[p].amount - RefundedTotal(p)) = payment[p].amount - RefundedTotal(p)
  BY <1>1, <1>2, <1>3 DEF AtLeastZero
<1>6. QED
  BY <1>1, <1>2, <1>3, <1>4, <1>5, DatabaseIs DEF ContributionOf, NetContribution, Counted, Counting

(* What a set of allocations holds is what those of it that count hold. *)
LEMMA NetFigure ==
  ASSUME LedgerInv, NEW A \in SUBSET allocations
  PROVE  /\ NetOf(Database, A) = Net(refunds, Held(A))
         /\ NetOf(Database, A) \in Nat
<1>1. ActiveAmong(Database, A) = Held(A)
  <2>1. \A a \in A : a.payment \in Payments
    BY DEF LedgerInv, TypeOK, AllocationRow
  <2>2. \A a \in A : Database["statuses"][a.payment] = payment[a.payment].status
    BY <2>1, DatabaseIs
  <2>3. QED
    BY <2>2, DatabaseIs DEF ActiveAmong, Held, IsReversed, Counted, Counting
<1>2. Held(A) \in SUBSET allocations
  BY DEF Held
<1>3. {r \in Database["links"] : r.allocation \in KeysOf(Held(A))} = Linked(refunds, Held(A))
  <2>1. None \notin KeysOf(Held(A))
    BY <1>2, NoneAssumption DEF LedgerInv, TypeOK, AllocationRow, KeysOf
  <2>2. QED
    BY <2>1, DatabaseIs DEF Linked
<1>4. NetOf(Database, A) = Net(refunds, Held(A))
  BY <1>1, <1>3 DEF NetOf, GrossOf, Net
<1>5. QED
  BY <1>2, <1>4, NetNatural

(* The allocations of a payment that counts hold no more than it still     *)
(* contributes; those of another hold nothing.                             *)
LEMMA HeldByPayment ==
  ASSUME LedgerInv, NEW p \in Payments
  PROVE  Net(refunds, Held({a \in allocations : a.payment = p})) <= NetContribution(p)
<1> DEFINE A == {a \in allocations : a.payment = p}
<1>1. CASE Counted(p)
  <2>1. Held(A) = ActiveOf(p)
    BY <1>1 DEF Held, ActiveOf
  <2>2. NetActive(ActiveOf(p)) <= NetContribution(p)
    BY <1>1 DEF LedgerInv, AllocationsCovered
  <2>3. QED
    BY <2>1, <2>2, Nets
<1>2. CASE ~Counted(p)
  <2>1. Held(A) = {} /\ NetContribution(p) = 0
    BY <1>2 DEF Held, NetContribution
  <2>2. QED
    BY <2>1, NetEmpty
<1>3. QED
  BY <1>1, <1>2

(* So the allocations of any recorded payments hold no more than these     *)
(* payments contribute together, as the page adds them up.                 *)
Contributions(Q) == {[payment |-> p, amount |-> NetContribution(p)] : p \in Q}
HeldBy(Q) == Held({a \in allocations : a.payment \in Q})

LEMMA HeldByPayments ==
  ASSUME LedgerInv, NEW Q \in SUBSET Payments, IsFiniteSet(Q)
  PROVE  /\ IsRows(Contributions(Q))
         /\ Net(refunds, HeldBy(Q)) <= Total(Contributions(Q))
<1> DEFINE F == {S \in SUBSET Q : /\ IsRows(Contributions(S))
                                  /\ Net(refunds, HeldBy(S)) <= Total(Contributions(S))}
<1>1. {} \in F
  <2>1. Contributions({}) = {} /\ HeldBy({}) = {}
    BY DEF Contributions, HeldBy, Held
  <2>2. QED
    BY <2>1, NetEmpty, TotalEmpty, FS_EmptySet DEF IsRows
<1>2. ASSUME NEW S \in SUBSET Q, S \in F, NEW p \in Q \ S
      PROVE  S \cup {p} \in F
  <2> DEFINE row == [payment |-> p, amount |-> NetContribution(p)]
  <2>1. row.amount \in Nat /\ row.amount = NetContribution(p)
    BY PaymentFigures
  <2>2. Contributions(S \cup {p}) = Contributions(S) \cup {row} /\ row \notin Contributions(S)
    <3>1. \A q \in S : [payment |-> q, amount |-> NetContribution(q)] # row
      BY <1>2
    <3>2. QED
      BY <3>1 DEF Contributions
  <2>3. IsRows(Contributions(S)) /\ Net(refunds, HeldBy(S)) <= Total(Contributions(S))
    BY <1>2
  <2> HIDE DEF row
  <2>4. Total(Contributions(S \cup {p})) = Total(Contributions(S)) + NetContribution(p)
    BY <2>1, <2>2, <2>3, TotalAdd
  <2>5. IsRows(Contributions(S \cup {p}))
    <3>1. IsFiniteSet(Contributions(S) \cup {row})
      BY <2>3, FS_AddElement DEF IsRows
    <3>2. \A r \in Contributions(S) \cup {row} : r.amount \in Nat
      BY <2>1, <2>3 DEF IsRows
    <3>3. QED
      BY <2>2, <3>1, <3>2 DEF IsRows
  <2>6. Net(refunds, HeldBy(S \cup {p})) = Net(refunds, HeldBy(S)) + Net(refunds, HeldBy({p}))
    <3>1. /\ HeldBy(S \cup {p}) = HeldBy(S) \cup HeldBy({p})
          /\ HeldBy(S) \cap HeldBy({p}) = {}
          /\ HeldBy(S) \subseteq allocations /\ HeldBy({p}) \subseteq allocations
      BY <1>2 DEF HeldBy, Held
    <3>2. QED
      BY <3>1, NetUnion DEF LedgerInv
  <2>7. Net(refunds, HeldBy({p})) <= NetContribution(p)
    <3>1. HeldBy({p}) = Held({a \in allocations : a.payment = p})
      BY DEF HeldBy
    <3>2. QED
      BY <3>1, HeldByPayment
  <2>8. /\ Net(refunds, HeldBy(S)) \in Nat /\ Net(refunds, HeldBy({p})) \in Nat
        /\ NetContribution(p) \in Nat /\ Total(Contributions(S)) \in Nat
    <3>1. HeldBy(S) \subseteq allocations /\ HeldBy({p}) \subseteq allocations
      BY DEF HeldBy, Held
    <3>2. QED
      BY <2>3, <3>1, NetNatural, PaymentFigures, TotalType
  <2>9. QED
    BY <2>3, <2>4, <2>5, <2>6, <2>7, <2>8
<1> HIDE DEF F
<1>3. Q \in F
  BY <1>1, <1>2, SetInduction
<1>4. QED
  BY <1>3 DEF F

-----------------------------------------------------------------------------
(* The figures of a booking. *)

HeldOn(b) == Held({a \in allocations : payment[a.payment].booking = b})

(* The page reads the payments of a booking and what was recorded of them. *)
LEMMA BookingFigures ==
  ASSUME BooksInv, NEW b \in Bookings
  PROVE  /\ PaidOn(Database, b) \in Nat
         /\ HeldOn(b) \subseteq allocations
         /\ Net(refunds, HeldOn(b)) <= PaidOn(Database, b)
<1> DEFINE Q == {p \in Payments : payment[p].booking = b}
<1>1. IsFiniteSet(Q)
  <2>1. Q \subseteq Recorded
    <3>1. ASSUME NEW p \in Payments, payment[p].status = "NONE" PROVE payment[p] = NoPayment
      BY <3>1 DEF BooksInv, LedgerInv, TypeOK, PaymentRow, PaymentStatus
    <3>2. QED
      BY <3>1, NoneAssumption DEF NoPayment, Recorded
  <2>2. QED
    BY <2>1, FS_Subset DEF BooksInv
<1>2. PaymentsOn(Database, b) = Q
  BY DatabaseIs DEF PaymentsOn
<1>3. PaidOn(Database, b) = Total(Contributions(Q))
  <2>1. \A p \in Q : ContributionOf(Database, p) = NetContribution(p)
    BY PaymentFigures DEF BooksInv
  <2>2. {[payment |-> p, amount |-> ContributionOf(Database, p)] : p \in PaymentsOn(Database, b)}
          = Contributions(Q)
    BY <1>2, <2>1 DEF Contributions
  <2>3. QED
    BY <2>2 DEF PaidOn
<1>4. HeldBy(Q) = HeldOn(b)
  <2>1. \A a \in allocations : a.payment \in Payments
    BY DEF BooksInv, LedgerInv, TypeOK, AllocationRow
  <2>2. {a \in allocations : a.payment \in Q} = {a \in allocations : payment[a.payment].booking = b}
    BY <2>1
  <2>3. QED
    BY <2>2 DEF HeldBy, HeldOn
<1>5. IsRows(Contributions(Q)) /\ Net(refunds, HeldBy(Q)) <= Total(Contributions(Q))
  BY <1>1, HeldByPayments DEF BooksInv
<1>6. QED
  BY <1>3, <1>4, <1>5, TotalType DEF HeldOn, Held

(* A booking's unapplied credit is never negative. *)
LEMMA CreditNatural ==
  ASSUME BooksInv, NEW b \in Bookings
  PROVE  Credit(Database, b) >= 0
<1> DEFINE A == UNION {AllocatedOn(Database, l) : l \in PlansOn(Database, b)}
<1>1. A = {a \in allocations : payment[a.payment].booking = b}
  <2>1. \A a \in allocations : /\ a.plan \in Plans /\ plan[a.plan].status = "APPROVED"
                               /\ plan[a.plan].booking = payment[a.payment].booking
    BY DEF BooksInv, LedgerInv, TypeOK, AllocationRow, AllocationsOnApprovedPlan
  <2>2. PlansOn(Database, b) = {l \in Plans : plan[l].booking = b /\ plan[l].status \in {"PROPOSED", "APPROVED"}}
    BY DatabaseIs DEF PlansOn
  <2>3. \A l : AllocatedOn(Database, l) = {a \in allocations : a.plan = l}
    BY DatabaseIs DEF AllocatedOn
  <2>4. A = UNION {{a \in allocations : a.plan = l} : l \in PlansOn(Database, b)}
    BY <2>3
  <2>5. A = {a \in allocations : a.plan \in PlansOn(Database, b)}
    BY <2>4
  <2>6. QED
    BY <2>1, <2>2, <2>5
<1>2. NetOf(Database, A) = Net(refunds, HeldOn(b)) /\ NetOf(Database, A) \in Nat
  BY <1>1, NetFigure DEF HeldOn, BooksInv
<1>3. QED
  BY <1>2, BookingFigures DEF Credit

(* What the allocations of some installments of a plan hold. *)
HeldFor(l, X) == Held({a \in allocations : a.plan = l /\ \E x \in X : x.seq = a.seq})

(* If nothing is outstanding on some installments, what their allocations  *)
(* hold adds up to the amounts of the installments.                        *)
LEMMA NothingOutstanding ==
  ASSUME LedgerInv, NEW l \in Plans, NEW X \in SUBSET plan[l].installments,
         \A x \in X : ~(Outstanding(Database, l, x) > 0)
  PROVE  Total(X) <= Net(refunds, HeldFor(l, X))
<1> DEFINE F == {S \in SUBSET X : Total(S) <= Net(refunds, HeldFor(l, S))}
<1>1. IsRows(plan[l].installments)
  <2>1. plan[l].installments \subseteq Installment /\ IsFiniteSet(plan[l].installments)
    BY DEF LedgerInv, TypeOK, PlanRow, NoPlan
  <2>2. QED
    BY <2>1, AmountsAssumption DEF IsRows, Installment
<1>2. {} \in F
  <2>1. HeldFor(l, {}) = {}
    BY DEF HeldFor, Held
  <2>2. QED
    BY <2>1, NetEmpty, TotalEmpty
<1>3. ASSUME NEW S \in SUBSET X, S \in F, NEW x \in X \ S
      PROVE  S \cup {x} \in F
  <2>1. IsRows(S) /\ x.amount \in Nat
    BY <1>1, SubRows DEF IsRows
  <2>2. Total(S \cup {x}) = Total(S) + x.amount /\ Total(S) \in Nat
    BY <2>1, TotalAdd, TotalType
  <2>3. x.amount <= Net(refunds, HeldFor(l, {x})) /\ Net(refunds, HeldFor(l, {x})) \in Nat
    <3> DEFINE A == {a \in AllocatedOn(Database, l) : a.seq = x.seq}
    <3>1. A = {a \in allocations : a.plan = l /\ \E y \in {x} : y.seq = a.seq}
      BY DatabaseIs DEF AllocatedOn
    <3>2. NetOf(Database, A) = Net(refunds, HeldFor(l, {x})) /\ NetOf(Database, A) \in Nat
      BY <3>1, NetFigure DEF HeldFor
    <3>3. Outstanding(Database, l, x) = AtLeastZero(x.amount - NetOf(Database, A))
      BY DEF Outstanding
    <3>4. ~(AtLeastZero(x.amount - NetOf(Database, A)) > 0)
      BY <3>3
    <3> HIDE DEF A
    <3>5. QED
      BY <2>1, <3>2, <3>4 DEF AtLeastZero
  <2>4. Net(refunds, HeldFor(l, S \cup {x})) = Net(refunds, HeldFor(l, S)) + Net(refunds, HeldFor(l, {x}))
    <3>1. \A y \in S : y.seq # x.seq
      BY <1>3 DEF LedgerInv, RowsSound
    <3>2. /\ HeldFor(l, S \cup {x}) = HeldFor(l, S) \cup HeldFor(l, {x})
          /\ HeldFor(l, S) \cap HeldFor(l, {x}) = {}
          /\ HeldFor(l, S) \subseteq allocations /\ HeldFor(l, {x}) \subseteq allocations
      BY <3>1 DEF HeldFor, Held
    <3>3. QED
      BY <3>2, NetUnion DEF LedgerInv
  <2>5. Net(refunds, HeldFor(l, S)) \in Nat
    <3>1. HeldFor(l, S) \subseteq allocations
      BY DEF HeldFor, Held
    <3>2. QED
      BY <3>1, NetNatural
  <2>6. Total(S) <= Net(refunds, HeldFor(l, S))
    BY <1>3
  <2>7. Total(S \cup {x}) <= Net(refunds, HeldFor(l, S \cup {x}))
    BY <2>1, <2>2, <2>3, <2>4, <2>5, <2>6
  <2>8. QED
    BY <1>3, <2>7
<1> HIDE DEF F
<1>4. IsFiniteSet(X)
  BY <1>1, FS_Subset DEF IsRows
<1>5. X \in F
  BY <1>2, <1>3, <1>4, SetInduction
<1>6. QED
  BY <1>5 DEF F

(* Then nothing remains to be paid of the booking: its one plan adds up to *)
(* its total, and all its allocations are of that plan.                    *)
LEMMA NothingRemains ==
  ASSUME BooksInv, NEW b \in Bookings, PlanApproved(Database, b), ~SomethingDue(Database, b)
  PROVE  Remaining(Database, b) = 0
<1>1. PICK l \in Plans : plan[l].booking = b /\ plan[l].status = "APPROVED" /\ l \in PlansOn(Database, b)
  BY DatabaseIs DEF PlanApproved, PlansOn
<1>2. Total(plan[l].installments) <= Net(refunds, HeldFor(l, plan[l].installments))
  <2>1. \A x \in plan[l].installments : ~(Outstanding(Database, l, x) > 0)
    BY <1>1, DatabaseIs DEF SomethingDue
  <2>2. QED
    BY <2>1, NothingOutstanding DEF BooksInv
<1>3. HeldFor(l, plan[l].installments) = HeldOn(b)
  <2>1. \A a \in allocations : /\ a.plan \in Plans /\ plan[a.plan].status = "APPROVED"
                               /\ plan[a.plan].booking = payment[a.payment].booking
                               /\ \E x \in plan[a.plan].installments : x.seq = a.seq
    BY DEF BooksInv, LedgerInv, TypeOK, AllocationRow, AllocationsOnApprovedPlan
  <2>2. \A m \in Plans : plan[m].status = "APPROVED" /\ plan[m].booking = b => m = l
    BY <1>1 DEF BooksInv, PlanInv, OneActivePlan, Active
  <2>3. {a \in allocations : a.plan = l /\ \E x \in plan[l].installments : x.seq = a.seq}
          = {a \in allocations : payment[a.payment].booking = b}
    BY <1>1, <2>1, <2>2
  <2>4. QED
    BY <2>3 DEF HeldFor, HeldOn
<1>4. Total(plan[l].installments) = financials[b].total
  BY <1>1 DEF BooksInv, PlanInv, ApprovedPlanReconciles
<1>5. financials[b].total \in Nat
  <2>1. financials[b] \in Financials \cup {NotSet}
    BY DEF BooksInv, LedgerInv, TypeOK
  <2>2. CASE financials[b] \in Financials
    BY <2>2, AmountsAssumption DEF Financials
  <2>3. CASE financials[b] = NotSet
    BY <2>3 DEF NotSet
  <2>4. QED
    BY <2>1, <2>2, <2>3
<1>6. Net(refunds, HeldOn(b)) <= PaidOn(Database, b) /\ PaidOn(Database, b) \in Nat
  BY BookingFigures
<1>7. Net(refunds, HeldOn(b)) \in Nat
  BY BookingFigures, NetNatural DEF BooksInv
<1>8. Remaining(Database, b) = AtLeastZero(financials[b].total - PaidOn(Database, b))
  BY DatabaseIs DEF Remaining
<1>9. QED
  BY <1>2, <1>3, <1>4, <1>5, <1>6, <1>7, <1>8 DEF AtLeastZero

-----------------------------------------------------------------------------
(* A snapshot whose rows all pass the checks of an export, and whose       *)
(* bookings tell the truth about what is due.                              *)
SoundRows(d) == \A set \in Datasets : \A row \in Candidates(d, set) : RowIsSound(d, set, row)
SoundDue(d) ==
  \A b \in Bookings : PlanApproved(d, b) /\ ~SomethingDue(d, b) => Remaining(d, b) = 0

(* The rows of every dataset are of a booking with a currency. *)
LEMMA RowsAreOfBookings ==
  ASSUME BooksInv, NEW set \in Datasets, NEW row \in Candidates(Database, set)
  PROVE  CurrencySet(Database, set, row)
<1>1. CASE set = "bookings"
  <2>1. row \in Bookings /\ financials[row] # NotSet
    BY <1>1, DatabaseIs DEF Candidates
  <2>2. financials[row] \in Financials
    BY <2>1 DEF BooksInv, LedgerInv, TypeOK
  <2>3. financials[row].currency # None
    BY <2>2, NoneAssumption DEF Financials
  <2>4. QED
    BY <1>1, <2>3, DatabaseIs DEF CurrencySet, BookingOf
<1>2. ASSUME NEW p \in Payments, payment[p].status # "NONE"
      PROVE  financials[payment[p].booking].currency # None
  BY <1>2 DEF BooksInv, Priced, Recorded
<1>3. CASE set = "payments"
  <2>1. row \in Payments /\ payment[row].status # "NONE"
    BY <1>3, DatabaseIs DEF Candidates
  <2>2. QED
    BY <1>2, <1>3, <2>1, DatabaseIs DEF CurrencySet, BookingOf
<1>4. CASE set = "refunds"
  <2>1. row \in refunds /\ row.payment \in Payments
    BY <1>4, DatabaseIs DEF Candidates, BooksInv, LedgerInv, TypeOK, RefundRow
  <2>2. payment[row.payment].status # "NONE"
    BY <2>1 DEF BooksInv, LedgerInv, RefundsWithinPayment, RefundsOf
  <2>3. QED
    BY <1>2, <1>4, <2>1, <2>2, DatabaseIs DEF CurrencySet, BookingOf
<1>5. CASE set = "allocations"
  <2>1. row \in allocations /\ row.payment \in Payments
    BY <1>5, DatabaseIs DEF Candidates, BooksInv, LedgerInv, TypeOK, AllocationRow
  <2>2. payment[row.payment].status # "NONE"
    BY <2>1 DEF BooksInv, LedgerInv, RowsSound
  <2>3. QED
    BY <1>2, <1>5, <2>1, <2>2, DatabaseIs DEF CurrencySet, BookingOf
<1>6. CASE set = "installments"
  <2>1. PICK l \in Plans : plan[l].status = "APPROVED" /\ row \in {l} \X plan[l].installments
    BY <1>6, DatabaseIs DEF Candidates
  <2>2. financials[plan[l].booking].currency # None /\ row[1] = l
    BY <2>1 DEF BooksInv, Priced
  <2>3. QED
    BY <1>6, <2>2, DatabaseIs DEF CurrencySet, BookingOf
<1>7. QED
  BY <1>1, <1>3, <1>4, <1>5, <1>6 DEF Datasets

(* No row of a database the handlers wrote fails an integrity check. *)
LEMMA SnapshotIsSound == BooksInv => SoundRows(Database) /\ SoundDue(Database)
<1> SUFFICES ASSUME BooksInv PROVE SoundRows(Database) /\ SoundDue(Database)
  OBVIOUS
<1>1. SoundDue(Database)
  BY NothingRemains DEF SoundDue
<1>2. ASSUME NEW set \in Datasets, NEW row \in Candidates(Database, set)
      PROVE  RowIsSound(Database, set, row)
  <2>1. CurrencySet(Database, set, row)
    BY <1>2, RowsAreOfBookings
  <2>2. CASE set = "bookings"
    <3>1. row \in Bookings
      BY <1>2, <2>2 DEF Candidates
    <3>2. BookingIsSound(Database, row)
      BY <3>1, CreditNatural, PaymentFigures DEF BookingIsSound, PaymentsOn, BooksInv
    <3>3. QED
      BY <2>1, <2>2, <3>2 DEF RowIsSound
  <2>3. CASE set = "payments"
    <3>1. row \in Payments
      BY <1>2, <2>3 DEF Candidates
    <3> DEFINE A == {a \in Database["allocations"] : a.payment = row}
    <3>2. A = {a \in allocations : a.payment = row}
      BY DatabaseIs
    <3>3. NetOf(Database, A) = Net(refunds, Held(A)) /\ NetOf(Database, A) \in Nat
      BY <3>2, NetFigure DEF BooksInv
    <3>4. NetOf(Database, A) <= ContributionOf(Database, row) /\ ContributionOf(Database, row) \in Nat
      BY <3>1, <3>2, <3>3, HeldByPayment, PaymentFigures DEF BooksInv
    <3>5. PaymentIsSound(Database, row)
      BY <3>1, <3>3, <3>4, PaymentFigures DEF PaymentIsSound, BooksInv
    <3>6. QED
      BY <2>1, <2>3, <3>5 DEF RowIsSound
  <2>4. CASE set = "allocations"
    <3>1. {row} \subseteq allocations
      BY <1>2, <2>4, DatabaseIs DEF Candidates
    <3>2. AllocationIsSound(Database, row)
      BY <3>1, NetFigure DEF AllocationIsSound, BooksInv
    <3>3. QED
      BY <2>1, <2>4, <3>2 DEF RowIsSound
  <2>5. CASE set = "installments"
    <3>1. {a \in AllocatedOn(Database, row[1]) : a.seq = row[2].seq} \subseteq allocations
      BY DatabaseIs DEF AllocatedOn
    <3>2. InstallmentIsSound(Database, row[1], row[2])
      BY <3>1, NetFigure DEF InstallmentIsSound, BooksInv
    <3>3. QED
      BY <2>1, <2>5, <3>2 DEF RowIsSound
  <2>6. CASE set = "refunds"
    BY <2>1, <2>6 DEF RowIsSound
  <2>7. QED
    BY <2>2, <2>3, <2>4, <2>5, <2>6 DEF Datasets
<1>3. QED
  BY <1>1, <1>2 DEF SoundRows
-----------------------------------------------------------------------------
(* What an export has read of its snapshot: the figures of a row depend    *)
(* only on the statements of its dataset.                                  *)

Same(d, e, W) == \A s \in W : d[s] = e[s]

(* Tables that agree on allocations and refunds hold the same. *)
LEMMA SameNet ==
  ASSUME NEW d, NEW e, NEW A, Same(d, e, {"statuses", "reversals", "links"})
  PROVE  NetOf(d, A) = NetOf(e, A)
<1>1. ActiveAmong(d, A) = ActiveAmong(e, A)
  BY DEF ActiveAmong, Same
<1>2. QED
  BY <1>1 DEF NetOf, GrossOf, Same

(* Tables that agree on payments and refunds say the same of a payment. *)
LEMMA SamePayment ==
  ASSUME NEW d, NEW e, NEW p, Same(d, e, {"payments", "refunds"})
  PROVE  /\ RefundsWithin(d, p) = RefundsWithin(e, p)
         /\ ContributionOf(d, p) = ContributionOf(e, p)
<1>1. RefundedOf(d, p) = RefundedOf(e, p)
  BY DEF RefundedOf, Same
<1>2. QED
  BY <1>1 DEF RefundsWithin, ContributionOf, Same

(* The bookings dataset reads everything there is. *)
LEMMA SameWhole ==
  ASSUME NEW d, NEW e, d = [s \in Statements |-> e[s]], e = [s \in Statements |-> e[s]]
  PROVE  d = e
OBVIOUS

(* Tables that agree on what an export reads give it the same rows. *)
LEMMA SameRowsOf ==
  ASSUME NEW d, NEW e, NEW set \in Datasets \ {"bookings"},
         Same(d, e, {Queries[set][i] : i \in DOMAIN Queries[set]})
  PROVE  /\ Candidates(d, set) = Candidates(e, set)
         /\ \A row : BookingOf(d, set, row) = BookingOf(e, set, row)
         /\ \A row : RowIsSound(d, set, row) = RowIsSound(e, set, row)
<1>1. CASE set = "payments"
  <2>1. Same(d, e, {"payments", "statuses", "bookings", "refunds", "allocations", "reversals", "links"})
    BY <1>1 DEF Same, Queries, PaymentQueries, Datasets
  <2>2. \A p : PaymentIsSound(d, p) = PaymentIsSound(e, p)
    <3>1. Same(d, e, {"statuses", "reversals", "links"}) /\ Same(d, e, {"payments", "refunds"})
      BY <2>1 DEF Same
    <3>2. d["allocations"] = e["allocations"]
      BY <2>1 DEF Same
    <3>3. QED
      BY <3>1, <3>2, SameNet, SamePayment DEF PaymentIsSound
  <2>3. d["payments"] = e["payments"] /\ d["bookings"] = e["bookings"]
    BY <2>1 DEF Same
  <2>4. QED
    BY <1>1, <2>2, <2>3 DEF Candidates, BookingOf, RowIsSound, CurrencySet
<1>2. CASE set = "refunds"
  <2>1. Same(d, e, {"refunds", "payments", "bookings", "links"})
    BY <1>2 DEF Same, Queries, RefundQueries, Datasets
  <2>2. d["payments"] = e["payments"] /\ d["bookings"] = e["bookings"] /\ d["refunds"] = e["refunds"]
    BY <2>1 DEF Same
  <2>3. QED
    BY <1>2, <2>2 DEF Candidates, BookingOf, RowIsSound, CurrencySet
<1>3. CASE set = "allocations"
  <2>1. Same(d, e, {"allocations", "statuses", "payments", "bookings", "reversals", "links"})
    BY <1>3 DEF Same, Queries, AllocationQueries, Datasets
  <2>2. \A a : AllocationIsSound(d, a) = AllocationIsSound(e, a)
    <3>1. Same(d, e, {"statuses", "reversals", "links"})
      BY <2>1 DEF Same
    <3>2. QED
      BY <3>1, SameNet DEF AllocationIsSound
  <2>3. d["payments"] = e["payments"] /\ d["bookings"] = e["bookings"] /\ d["allocations"] = e["allocations"]
    BY <2>1 DEF Same
  <2>4. QED
    BY <1>3, <2>2, <2>3 DEF Candidates, BookingOf, RowIsSound, CurrencySet
<1>4. CASE set = "installments"
  <2>1. Same(d, e, {"plans", "bookings", "allocations", "statuses", "reversals", "links"})
    BY <1>4 DEF Same, Queries, InstallmentQueries, Datasets
  <2>2. \A l, x : InstallmentIsSound(d, l, x) = InstallmentIsSound(e, l, x)
    <3>1. Same(d, e, {"statuses", "reversals", "links"})
      BY <2>1 DEF Same
    <3>2. d["allocations"] = e["allocations"]
      BY <2>1 DEF Same
    <3>3. QED
      BY <3>1, <3>2, SameNet DEF InstallmentIsSound, AllocatedOn
  <2>3. d["plans"] = e["plans"] /\ d["bookings"] = e["bookings"]
    BY <2>1 DEF Same
  <2>4. QED
    BY <1>4, <2>2, <2>3 DEF Candidates, BookingOf, RowIsSound, CurrencySet
<1>5. QED
  BY <1>1, <1>2, <1>3, <1>4 DEF Datasets

-----------------------------------------------------------------------------
(* What a read knows at each of its stages. *)

(* The fields a read under way has. *)
ReadingFields(x) ==
  InStage(x, "reading") =>
    /\ {"stage", "kind", "seen"} \subseteq DOMAIN read[x]
    /\ read[x].kind = "client" => "booking" \in DOMAIN read[x]
    /\ read[x].kind = "export" => {"set", "scope", "who", "at"} \subseteq DOMAIN read[x]

(* An export asks for one of the datasets. *)
Asked(x) == InStage(x, "asked") => read[x].set \in Datasets

(* The booking of a client's page keeps an approved plan. *)
ClientReading(x) ==
  InStage(x, "reading") /\ read[x].kind = "client" =>
    /\ HasApprovedPlan(read[x].booking)
    /\ "plans" \in DOMAIN read[x].seen => PlanApproved(read[x].seen, read[x].booking)
ClientShown(x) ==
  InStage(x, "shown") /\ read[x].kind = "client" => read[x].summary.approved

(* An export reads one snapshot, a sound one, for the scope of the account *)
(* in it.                                                                  *)
ExportReading(x) ==
  InStage(x, "reading") /\ IsExport(x) =>
    /\ read[x].set \in Datasets
    /\ read[x].at = [s \in Statements |-> read[x].at[s]]
    /\ SoundRows(read[x].at) /\ SoundDue(read[x].at)
    /\ read[x].seen = [s \in DOMAIN read[x].seen |-> read[x].at[s]]
    /\ read[x].scope = Visible(read[x].who)

(* A committed file has its entry, and what it says of its bookings is so. *)
FileTrue(x) ==
  InStage(x, "committed") \/ Saved(x) =>
    LET f == read[x].file IN
      /\ \A row \in f.rows : BookingOf(f.seen, f.set, row) \in Visible(f.who)
      /\ \E e \in entries : /\ e.read = x /\ e.set = f.set /\ e.role = f.who.role
                           /\ e.count = Cardinality(f.rows)
      /\ f.set = "bookings" => f.rows \subseteq Bookings /\ SoundDue(f.seen)

After == {"committed", "shown", "lost"}
EntriesCommitted == \A e \in entries : e.read \in Reads /\ read[e.read].stage \in After

ReadKnows(x) ==
  /\ ReadingFields(x) /\ Asked(x) /\ ClientReading(x) /\ ClientShown(x)
  /\ ExportReading(x) /\ FileTrue(x)
ReadsInv ==
  /\ BooksInv
  /\ read = [x \in Reads |-> read[x]]
  /\ \A x \in Reads : ReadKnows(x)
  /\ EntriesCommitted

(* No read knows anything at first. *)
LEMMA ReadsInitially == ReadsInit => ReadsInv
<1> SUFFICES ASSUME ReadsInit PROVE ReadsInv
  OBVIOUS
<1>1. read = [x \in Reads |-> NoRead] /\ entries = {} /\ BooksInv
  BY BooksInit DEF ReadsInit
<1>2. \A x \in Reads : read[x].stage = "idle"
  BY <1>1 DEF NoRead
<1>3. QED
  BY <1>1, <1>2 DEF ReadsInv, ReadKnows, ReadingFields, Asked, ClientReading, ClientShown, ExportReading,
     FileTrue, Saved, InStage, EntriesCommitted

(* An approved plan is neither withdrawn nor moved to another booking.     *)
LEMMA ApprovedStays ==
  ASSUME TypeOK, [Next]_vars, NEW b, HasApprovedPlan(b)
  PROVE  HasApprovedPlan(b)'
<1>1. PICK l \in Plans : plan[l].status = "APPROVED" /\ plan[l].booking = b
  BY DEF HasApprovedPlan
<1>2. SUFFICES plan'[l] = plan[l]
  BY <1>1 DEF HasApprovedPlan
<1>3. CASE PlanStep
  BY <1>1, <1>3 DEF PlanStep, SetBookingFinancials, ProposePaymentPlan, ApprovePaymentPlan,
     WithdrawPaymentPlan, TypeOK
<1>4. CASE LedgerStep
  BY <1>4, LedgerKeepsPayments DEF planVars
<1>5. CASE (\E c \in Bookings : CancelBooking(c)) \/ UNCHANGED vars
  BY <1>5 DEF CancelBooking, planVars, vars
<1>6. QED
  BY <1>3, <1>4, <1>5 DEF Next

(* A step of one read leaves what the others know as it is. *)
LEMMA OneReadMoves ==
  ASSUME ReadsInv, NEW x \in Reads, NEW r, Step(x, r), entries \subseteq entries',
         \A e \in entries' : e \in entries \/ e.read = x,
         (\E e \in entries' : e.read = x) => r.stage \in After,
         ReadKnows(x)'
  PROVE  ReadsInv'
<1>1. /\ read' = [read EXCEPT ![x] = r] /\ UNCHANGED vars
      /\ read = [y \in Reads |-> read[y]]
  BY DEF Step, ReadsInv
<1>2. BooksInv'
  BY <1>1, BooksStep DEF ReadsInv
<1>3. /\ read' = [y \in Reads |-> read'[y]] /\ read'[x] = r
      /\ \A y \in Reads \ {x} : read'[y] = read[y]
  BY <1>1
<1>4. ASSUME NEW y \in Reads \ {x}
      PROVE  ReadKnows(y)'
  <2>1. ReadKnows(y) /\ read'[y] = read[y] /\ UNCHANGED plan
    BY <1>1, <1>3 DEF ReadsInv, vars, planVars
  <2>2. ReadingFields(y)' /\ Asked(y)' /\ ClientReading(y)' /\ ClientShown(y)' /\ ExportReading(y)'
    BY <2>1 DEF ReadKnows, ReadingFields, Asked, ClientReading, ClientShown, ExportReading, InStage,
       IsExport, HasApprovedPlan
  <2>3. FileTrue(y)'
    BY <2>1 DEF ReadKnows, FileTrue, Saved, InStage, IsExport
  <2>4. QED
    BY <2>2, <2>3 DEF ReadKnows
<1>5. EntriesCommitted'
  BY <1>3 DEF ReadsInv, EntriesCommitted
<1>6. QED
  BY <1>2, <1>3, <1>4, <1>5 DEF ReadsInv

(* A stage in which a read knows nothing yet, or no longer. *)
LEMMA KnowsNothing ==
  ASSUME ReadsInv, NEW x \in Reads, NEW r, Step(x, r), UNCHANGED entries,
         \/ r.stage = "asked" /\ r.set \in Datasets
         \/ r.stage \in {"ended", "lost"}
         \/ r.stage = "shown" /\ r.kind = "staff",
         InStage(x, "committed") \/ ~\E e \in entries : e.read = x,
         r.stage = "lost" \/ ~InStage(x, "committed")
  PROVE  ReadsInv'
<1>1. read'[x] = r
  BY DEF Step, ReadsInv
<1>2. ReadKnows(x)'
  BY <1>1 DEF ReadKnows, ReadingFields, Asked, ClientReading, ClientShown, ExportReading, FileTrue, Saved,
     InStage, IsExport
<1>3. QED
  BY <1>2, OneReadMoves DEF After

(* A read that has not committed has no entry. *)
LEMMA NoEntryYet ==
  ASSUME ReadsInv, NEW x \in Reads, InStage(x, "idle") \/ InStage(x, "asked") \/ InStage(x, "reading")
  PROVE  ~\E e \in entries : e.read = x
BY DEF ReadsInv, EntriesCommitted, After, InStage

(* A page that opens has read nothing yet, and is of an approved plan if a *)
(* client opens it.                                                        *)
LEMMA OpenPageKeeps ==
  ASSUME ReadsInv, NEW x \in Reads, NEW b \in Bookings, OpenClientPage(x, b) \/ OpenStaffPage(x, b)
  PROVE  ReadsInv'
<1>1. PICK k \in {"client", "staff"} :
        /\ Idle(x) /\ (k = "client" => HasApprovedPlan(b)) /\ UNCHANGED entries
        /\ Step(x, [stage |-> "reading", kind |-> k, booking |-> b, seen |-> <<>>])
  BY DEF OpenClientPage, OpenStaffPage, Listed
<1> DEFINE r == [stage |-> "reading", kind |-> k, booking |-> b, seen |-> <<>>]
<1>2. read'[x] = r /\ UNCHANGED plan
  BY <1>1 DEF Step, ReadsInv, vars, planVars
<1>3. ReadKnows(x)'
  <2>1. ReadingFields(x)' /\ Asked(x)' /\ ClientShown(x)' /\ ExportReading(x)' /\ FileTrue(x)'
    BY <1>1, <1>2 DEF ReadingFields, Asked, ClientShown, ExportReading, FileTrue, Saved, InStage, IsExport
  <2>2. "plans" \notin DOMAIN <<>>
    OBVIOUS
  <2>3. HasApprovedPlan(b)' = HasApprovedPlan(b)
    BY <1>2 DEF HasApprovedPlan
  <2>4. ClientReading(x)'
    BY <1>1, <1>2, <2>2, <2>3 DEF ClientReading, InStage
  <2>5. QED
    BY <2>1, <2>4 DEF ReadKnows
<1>4. QED
  BY <1>1, <1>3, NoEntryYet, OneReadMoves DEF Idle

(* The snapshot an export takes with its re-read session is sound. *)
LEMMA RecheckKeeps ==
  ASSUME ReadsInv, NEW x \in Reads, Recheck(x)
  PROVE  ReadsInv'
<1> DEFINE r == [stage |-> "reading", kind |-> "export", set |-> read[x].set,
                 scope |-> StoredScope(x), who |-> account, at |-> Database, seen |-> <<>>]
<1>1. Step(x, r) /\ InStage(x, "asked") /\ UNCHANGED entries /\ read[x].set \in Datasets
  BY DEF Recheck, ReadsInv, ReadKnows, Asked
<1>2. read'[x] = r
  BY <1>1 DEF Step, ReadsInv
<1>3. ReadKnows(x)'
  <2>1. ReadingFields(x)' /\ Asked(x)' /\ ClientReading(x)' /\ ClientShown(x)' /\ FileTrue(x)'
    BY <1>2 DEF ReadingFields, Asked, ClientReading, ClientShown, FileTrue, Saved, InStage, IsExport
  <2>2. SoundRows(Database) /\ SoundDue(Database)
    BY SnapshotIsSound DEF ReadsInv
  <2>3. Database = [s \in Statements |-> Database[s]]
    BY DEF Database, Statements
  <2>4. <<>> = [s \in DOMAIN <<>> |-> Database[s]]
    OBVIOUS
  <2>5. ExportReading(x)'
    BY <1>1, <1>2, <2>2, <2>3, <2>4 DEF ExportReading, InStage, IsExport, StoredScope
  <2>6. QED
    BY <2>1, <2>5 DEF ReadKnows
<1>4. QED
  BY <1>1, <1>3, NoEntryYet, OneReadMoves

(* A query adds one table as it stands: now for a page, in the snapshot    *)
(* for an export.                                                          *)
LEMMA FetchKeeps ==
  ASSUME ReadsInv, NEW x \in Reads, NEW s \in Statements, Fetch(x, s)
  PROVE  ReadsInv'
<1> DEFINE seen == [t \in DOMAIN read[x].seen \cup {s} |->
                      IF t = s THEN Source(x)[s] ELSE read[x].seen[t]]
           r == [read[x] EXCEPT !.seen = seen]
<1>1. /\ InStage(x, "reading") /\ UNCHANGED entries /\ Step(x, r)
      /\ s \notin DOMAIN read[x].seen /\ ReadKnows(x)
  BY DEF Fetch, ReadsInv
<1>2. /\ read'[x] = r /\ UNCHANGED plan
  BY <1>1 DEF Step, ReadsInv, vars, planVars
<1>3. /\ {"stage", "kind", "seen"} \subseteq DOMAIN read[x]
      /\ read[x].kind = "client" => "booking" \in DOMAIN read[x]
      /\ read[x].kind = "export" => {"set", "scope", "who", "at"} \subseteq DOMAIN read[x]
  BY <1>1 DEF ReadKnows, ReadingFields
<1> HIDE DEF seen
<1>4. /\ DOMAIN r = DOMAIN read[x] /\ r.stage = "reading" /\ r.kind = read[x].kind /\ r.seen = seen
      /\ read[x].kind = "client" => r.booking = read[x].booking
      /\ read[x].kind = "export" => /\ r.set = read[x].set /\ r.scope = read[x].scope
                                    /\ r.who = read[x].who /\ r.at = read[x].at
  BY <1>1, <1>3 DEF InStage
<1> HIDE DEF r
<1>5. ReadKnows(x)'
  <2>1. ReadingFields(x)' /\ Asked(x)' /\ ClientShown(x)' /\ FileTrue(x)'
    BY <1>2, <1>3, <1>4 DEF ReadingFields, Asked, ClientShown, FileTrue, Saved, InStage
  <2>2. ASSUME read[x].kind = "client" PROVE ClientReading(x)'
    <3>1. /\ HasApprovedPlan(read[x].booking)
          /\ "plans" \in DOMAIN read[x].seen => PlanApproved(read[x].seen, read[x].booking)
      BY <1>1, <2>2 DEF ReadKnows, ClientReading
    <3>2. "plans" \in DOMAIN seen => PlanApproved(seen, read[x].booking)
      <4>1. CASE s = "plans"
        <5>1. Source(x)["plans"] = plan
          BY <2>2, DatabaseIs DEF Source, IsExport
        <5>2. seen["plans"] = plan
          BY <4>1, <5>1 DEF seen
        <5>3. QED
          BY <3>1, <5>2 DEF PlanApproved, PlansOn, HasApprovedPlan
      <4>2. CASE s # "plans"
        <5>1. "plans" \in DOMAIN seen =>
                "plans" \in DOMAIN read[x].seen /\ seen["plans"] = read[x].seen["plans"]
          BY <4>2 DEF seen
        <5>2. QED
          BY <3>1, <5>1 DEF PlanApproved, PlansOn
      <4>3. QED
        BY <4>1, <4>2
    <3>4. HasApprovedPlan(read[x].booking)'
      BY <1>2, <1>4, <2>2, <3>1 DEF HasApprovedPlan
    <3>5. QED
      BY <1>2, <1>4, <2>2, <3>2, <3>4 DEF ClientReading
  <2>3. ASSUME read[x].kind = "export" PROVE ExportReading(x)'
    <3>1. ExportReading(x) /\ IsExport(x)
      BY <1>1, <2>3 DEF ReadKnows, IsExport
    <3>2. seen = [t \in DOMAIN seen |-> read[x].at[t]]
      BY <1>1, <3>1 DEF seen, ExportReading, Source
    <3>3. QED
      BY <1>1, <1>2, <1>4, <2>3, <3>1, <3>2 DEF ExportReading, InStage, IsExport
  <2>4. QED
    <3>1. read[x].kind # "client" => ClientReading(x)'
      BY <1>2, <1>4 DEF ClientReading
    <3>2. read[x].kind # "export" => ExportReading(x)'
      BY <1>2, <1>4 DEF ExportReading, IsExport
    <3>3. QED
      BY <2>1, <2>2, <2>3, <3>1, <3>2 DEF ReadKnows
<1>6. QED
  BY <1>1, <1>5, NoEntryYet, OneReadMoves

(* When all is read, an export's rows are those of its snapshot, and they  *)
(* are sound.                                                              *)
LEMMA AllOfSnapshot ==
  ASSUME ReadsInv, NEW x \in Reads, AllRead(x), IsExport(x)
  PROVE  /\ Sound(x)
         /\ read[x].set = "bookings" => Rows(x) \subseteq Bookings /\ SoundDue(read[x].seen)
<1> DEFINE d == read[x].seen
           e == read[x].at
           set == read[x].set
<1>1. /\ set \in Datasets /\ e = [s \in Statements |-> e[s]]
      /\ SoundRows(e) /\ SoundDue(e)
      /\ d = [s \in DOMAIN d |-> e[s]]
      /\ DOMAIN d = {Queries[set][i] : i \in DOMAIN Queries[set]}
  BY DEF AllRead, ReadsInv, ReadKnows, ExportReading, Wanted
<1> HIDE DEF d, e, set
<1>2. CASE set = "bookings"
  <2>1. {Queries["bookings"][i] : i \in DOMAIN Queries["bookings"]} = Statements
    <3>1. Queries["bookings"] = BookingQueries
      BY DEF Queries, Datasets
    <3>2. {BookingQueries[i] : i \in DOMAIN BookingQueries} = Statements
      BY DEF BookingQueries, Statements
    <3>3. QED
      BY <3>1, <3>2
  <2>2. d = e
    BY <1>1, <1>2, <2>1, SameWhole
  <2>3. Candidates(d, set) \subseteq Bookings
    BY <1>2 DEF Candidates
  <2>4. QED
    BY <1>1, <2>2, <2>3 DEF Sound, Rows, RowsOf, SoundRows, d, set
<1>3. CASE set # "bookings"
  <2>1. Same(d, e, {Queries[set][i] : i \in DOMAIN Queries[set]})
    <3>1. \A s \in DOMAIN d : d[s] = e[s]
      BY <1>1
    <3>2. QED
      BY <1>1, <3>1 DEF Same
  <2>2. /\ Candidates(d, set) = Candidates(e, set)
        /\ \A row : RowIsSound(d, set, row) = RowIsSound(e, set, row)
    <3>1. set \in Datasets \ {"bookings"}
      BY <1>1, <1>3
    <3>2. QED
      BY <2>1, <3>1, SameRowsOf
  <2>3. Rows(x) \subseteq Candidates(d, set)
    BY DEF Rows, RowsOf, d, set
  <2>4. QED
    BY <1>1, <1>3, <2>2, <2>3 DEF Sound, SoundRows, d, set
<1>4. QED
  BY <1>2, <1>3

(* Its entry is committed with the file. *)
LEMMA CommitExportKeeps ==
  ASSUME ReadsInv, NEW x \in Reads, CommitExport(x)
  PROVE  ReadsInv'
<1> DEFINE f == [rows |-> Rows(x), who |-> read[x].who, seen |-> read[x].seen, set |-> read[x].set]
           r == [stage |-> "committed", file |-> f]
<1>1. /\ InStage(x, "reading") /\ AllRead(x) /\ IsExport(x) /\ Step(x, r)
      /\ entries' = entries \cup {Entry(x)}
  BY DEF CommitExport, AllRead
<1>2. read'[x] = r /\ r.stage = "committed" /\ r.file = f
  BY <1>1 DEF Step, ReadsInv
<1>3. \A row \in Rows(x) : BookingOf(f.seen, f.set, row) \in Visible(f.who)
  BY <1>1 DEF Rows, RowsOf, ReadsInv, ReadKnows, ExportReading, AllRead
<1>4. /\ Entry(x).read = x /\ Entry(x).set = f.set /\ Entry(x).role = f.who.role
      /\ Entry(x).count = Cardinality(f.rows)
  BY DEF Entry
<1>5. f.set = "bookings" => f.rows \subseteq Bookings /\ SoundDue(f.seen)
  BY <1>1, AllOfSnapshot
<1>6. \A row \in f.rows : BookingOf(f.seen, f.set, row) \in Visible(f.who)
  BY <1>3
<1> HIDE DEF f
<1>7. FileTrue(x)'
  <2>1. read'[x].file = f
    BY <1>2
  <2>2. \E e \in entries' : /\ e.read = x /\ e.set = f.set /\ e.role = f.who.role
                            /\ e.count = Cardinality(f.rows)
    BY <1>1, <1>4
  <2>3. QED
    BY <1>5, <1>6, <2>1, <2>2 DEF FileTrue
<1>8. ReadKnows(x)'
  BY <1>2, <1>7 DEF ReadKnows, ReadingFields, Asked, ClientReading, ClientShown, ExportReading,
     InStage
<1>9. \A e \in entries' : e \in entries \/ e.read = x
  BY <1>1, <1>4
<1>10. QED
  BY <1>1, <1>2, <1>8, <1>9, OneReadMoves DEF After

(* The file that reaches the form is the committed one. *)
LEMMA SaveFileKeeps ==
  ASSUME ReadsInv, NEW x \in Reads, SaveFile(x)
  PROVE  ReadsInv'
<1> DEFINE r == [stage |-> "shown", kind |-> "export", file |-> read[x].file]
<1>1. InStage(x, "committed") /\ Step(x, r) /\ UNCHANGED entries /\ FileTrue(x)
  BY DEF SaveFile, ReadsInv, ReadKnows
<1>2. read'[x] = r /\ r.stage = "shown" /\ r.kind = "export" /\ r.file = read[x].file
  BY <1>1 DEF Step, ReadsInv
<1> HIDE DEF r
<1>3. FileTrue(x)'
  BY <1>1, <1>2 DEF FileTrue
<1>4. ReadKnows(x)'
  BY <1>2, <1>3 DEF ReadKnows, ReadingFields, Asked, ClientReading, ClientShown, ExportReading, InStage
<1>5. QED
  BY <1>1, <1>2, <1>4, OneReadMoves DEF After

(* The client's page is shown from all it has read, the plans included. *)
LEMMA ShowClientPageKeeps ==
  ASSUME ReadsInv, NEW x \in Reads, ShowClientPage(x)
  PROVE  ReadsInv'
<1> DEFINE s == Summary(read[x].seen, read[x].booking)
           r == [stage |-> "shown", kind |-> "client", summary |-> s]
<1>1. /\ InStage(x, "reading") /\ read[x].kind = "client" /\ Step(x, r) /\ UNCHANGED entries
      /\ DOMAIN read[x].seen = Statements
  BY DEF ShowClientPage, AllRead, Wanted, IsExport
<1>2. read'[x] = r
  BY <1>1 DEF Step, ReadsInv
<1>3. s.approved
  <2>1. ClientReading(x)
    BY DEF ReadsInv, ReadKnows
  <2>2. PlanApproved(read[x].seen, read[x].booking)
    BY <1>1, <2>1 DEF ClientReading, Statements
  <2>3. s.approved = PlanApproved(read[x].seen, read[x].booking)
    BY DEF Summary
  <2>4. QED
    BY <2>2, <2>3
<1> HIDE DEF s
<1>4. ReadKnows(x)'
  BY <1>2, <1>3 DEF ReadKnows, ReadingFields, Asked, ClientReading, ClientShown, ExportReading,
     FileTrue, Saved, InStage, IsExport
<1>5. QED
  BY <1>1, <1>4, NoEntryYet, OneReadMoves

(* Every step of the reads keeps what they know, and is one of Payments or *)
(* leaves the payments alone.                                              *)
LEMMA ReadsStep == ReadsInv /\ [ReadsNext]_<<vars, readVars>> => ReadsInv' /\ [Next]_vars
<1> SUFFICES ASSUME ReadsInv, [ReadsNext]_<<vars, readVars>> PROVE ReadsInv' /\ [Next]_vars
  OBVIOUS
<1>1. ASSUME NEW x \in Reads, NEW b \in Bookings, OpenClientPage(x, b) \/ OpenStaffPage(x, b)
      PROVE  ReadsInv' /\ UNCHANGED vars
  BY <1>1, OpenPageKeeps DEF OpenClientPage, OpenStaffPage, Step
<1>2. ASSUME NEW x \in Reads, NEW set \in Datasets, AskExport(x, set)
      PROVE  ReadsInv' /\ UNCHANGED vars
  <2> DEFINE r == [stage |-> "asked", set |-> set, session |-> account]
  <2>1. InStage(x, "idle") /\ Step(x, r) /\ UNCHANGED entries /\ r.stage = "asked" /\ r.set = set
    BY <1>2 DEF AskExport, Idle
  <2>2. QED
    BY <2>1, NoEntryYet, KnowsNothing DEF Step, InStage
<1>3. ASSUME NEW x \in Reads, Recheck(x)
      PROVE  ReadsInv' /\ UNCHANGED vars
  BY <1>3, RecheckKeeps DEF Recheck, Step
<1>4. ASSUME NEW x \in Reads, RefuseExport(x) \/ Abort(x)
      PROVE  ReadsInv' /\ UNCHANGED vars
  <2> DEFINE r == [stage |-> "ended"]
  <2>1. /\ InStage(x, "asked") \/ InStage(x, "reading")
        /\ Step(x, r) /\ UNCHANGED entries /\ r.stage = "ended"
    BY <1>4 DEF RefuseExport, Abort, End
  <2>2. QED
    BY <2>1, NoEntryYet, KnowsNothing DEF Step, InStage
<1>5. ASSUME NEW x \in Reads, NEW s \in Statements, Fetch(x, s)
      PROVE  ReadsInv' /\ UNCHANGED vars
  BY <1>5, FetchKeeps DEF Fetch, Step
<1>6. ASSUME NEW x \in Reads, ShowStaffPage(x)
      PROVE  ReadsInv' /\ UNCHANGED vars
  <2>1. PICK r : /\ InStage(x, "reading") /\ Step(x, r) /\ UNCHANGED entries
                 /\ r.stage = "shown" /\ r.kind = "staff"
    BY <1>6 DEF ShowStaffPage, AllRead
  <2>2. QED
    BY <2>1, NoEntryYet, KnowsNothing DEF Step, InStage
<1>7. ASSUME NEW x \in Reads, ShowClientPage(x) \/ CommitExport(x) \/ SaveFile(x)
      PROVE  ReadsInv' /\ UNCHANGED vars
  BY <1>7, ShowClientPageKeeps, CommitExportKeeps, SaveFileKeeps
     DEF ShowClientPage, CommitExport, SaveFile, Step
<1>8. ASSUME NEW x \in Reads, LoseFile(x)
      PROVE  ReadsInv' /\ UNCHANGED vars
  <2> DEFINE r == [stage |-> "lost"]
  <2>1. InStage(x, "committed") /\ Step(x, r) /\ UNCHANGED entries /\ r.stage = "lost"
    BY <1>8 DEF LoseFile
  <2>2. QED
    BY <2>1, KnowsNothing DEF Step
<1>9. ASSUME [Next]_vars, UNCHANGED <<read, entries>>
      PROVE  ReadsInv'
  <2>1. BooksInv' /\ EntriesCommitted' /\ read' = [x \in Reads |-> read'[x]]
    BY <1>9, BooksStep DEF ReadsInv, EntriesCommitted
  <2>2. ASSUME NEW x \in Reads PROVE ReadKnows(x)'
    <3>1. ReadKnows(x) /\ TypeOK
      BY DEF ReadsInv, BooksInv, LedgerInv
    <3>2. HasApprovedPlan(read[x].booking) => HasApprovedPlan(read[x].booking)'
      <4>1. ASSUME NEW b, HasApprovedPlan(b) PROVE HasApprovedPlan(b)'
        BY <1>9, <3>1, <4>1, ApprovedStays
      <4>2. QED
        BY <1>9, <4>1 DEF HasApprovedPlan
    <3>3. QED
      BY <1>9, <3>1, <3>2 DEF ReadKnows, ReadingFields, Asked, ClientReading, ClientShown,
         ExportReading, FileTrue, Saved, InStage, IsExport
  <2>3. QED
    BY <2>1, <2>2 DEF ReadsInv
<1>10. CASE OthersWrite \/ OthersDecide \/ UNCHANGED <<vars, readVars>>
  BY <1>9, <1>10 DEF OthersWrite, OthersDecide, readVars
<1>11. QED
  BY <1>1, <1>2, <1>3, <1>4, <1>5, <1>6, <1>7, <1>8, <1>10 DEF ReadsNext
-----------------------------------------------------------------------------
(* Whatever is read and committed meanwhile, snapshots are sound, client   *)
(* pages are of bookings with an approved plan and files have an entry.    *)
THEOREM ReadsInvariant == ReadsSpec => []ReadsInv
BY ReadsInitially, ReadsStep, PTL DEF ReadsSpec

(* Reading writes nothing: the ledger under the reads is that of Payments. *)
THEOREM ReadsKeepLedger == ReadsSpec => Spec
<1>1. ReadsInit => Init
  BY DEF ReadsInit
<1>2. QED
  BY <1>1, ReadsStep, ReadsInvariant, PTL DEF ReadsSpec, Spec

(* No export of what the handlers wrote is refused as corrupt. *)
THEOREM ExportsAreSound == ReadsSpec => []ExportMeetsNoCorruption
<1>1. ReadsInv => ExportMeetsNoCorruption
  BY AllOfSnapshot DEF ExportMeetsNoCorruption
<1>2. QED
  BY <1>1, ReadsInvariant, PTL

(* A file that reports nothing due is of a booking fully paid. *)
THEOREM NothingDueIsPaid == ReadsSpec => []NothingDueMeansNothingOwed
<1>1. ReadsInv => NothingDueMeansNothingOwed
  BY DEF ReadsInv, ReadKnows, FileTrue, SoundDue, NothingDueMeansNothingOwed
<1>2. QED
  BY <1>1, ReadsInvariant, PTL

(* Files and audit entries agree, and files stay within their reader's     *)
(* bookings.                                                               *)
THEOREM FilesAreAudited == ReadsSpec => []FilesMatchEntries
<1>1. ReadsInv => FilesMatchEntries
  BY DEF ReadsInv, ReadKnows, FileTrue, EntriesCommitted, After, FilesMatchEntries
<1>2. QED
  BY <1>1, ReadsInvariant, PTL

(* A client never sees a plan that is only proposed. *)
THEOREM ClientsSeeApproved == ReadsSpec => []ClientSeesApprovedPlans
<1>1. ReadsInv => ClientSeesApprovedPlans
  BY DEF ReadsInv, ReadKnows, ClientShown, ClientSeesApprovedPlans
<1>2. QED
  BY <1>1, ReadsInvariant, PTL

=============================================================================
