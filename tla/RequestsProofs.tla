---------------------------- MODULE RequestsProofs ----------------------------
(***************************************************************************)
(* What module PaymentRequests promises, proved for every set of forms,    *)
(* requests, keys and operations and every number of attempts.             *)
(***************************************************************************)
EXTENDS PaymentRequests, PaymentsProofs

(* The row a handler writes and the rows it looks up are always expanded.  *)
USE DEF CreatePending, FreshRefundKey, NewRefund

(* A form that was filled in, and a request, hold an operation and a key.  *)
Filled(f) == form[f].op \in Operations /\ form[f].key \in StatusKeys
RequestsWellFormed ==
  /\ form \in [Forms -> [op : Operations \cup {None}, key : StatusKeys \cup {None},
                         phase : {"ready", "sending", "failed", "done"}]]
  /\ request \in [RequestIds -> [form : Forms \cup {None}, op : Operations \cup {None},
                                 key : StatusKeys \cup {None}, attempt : Nat,
                                 phase : {"free", "running", "reread", "success", "error"},
                                 payment : Payments \cup {None}]]
  /\ \A f \in Forms : form[f].phase # "done" => Filled(f)
  /\ \A q \in RequestIds :
       /\ request[q].phase # "free" => request[q].op \in Operations /\ request[q].key \in StatusKeys
       /\ request[q].form # None => request[q].phase # "free" /\ Filled(request[q].form)

(* Status changes are of payments that exist. *)
HistoryOfPayments == \A h \in history : h.payment \in Payments /\ payment[h.payment].status # "NONE"
-----------------------------------------------------------------------------
(* A ledger step writes no history and no refund, or the row of a new      *)
(* payment, or of a status change, or of a refund, under a key nobody used.*)
HistoryRowOf(p, target, k) == [key |-> k, payment |-> p, status |-> target]
Writes(p, target, k) ==
  k \notin KeysOf(history) /\ history' = history \cup {HistoryRowOf(p, target, k)}
Refunds(p, amt, a, k) ==
  k \notin KeysOf(refunds) /\ refunds' = refunds \cup {NewRefund(p, amt, a, k)}

LEMMA LedgerWrites ==
  ASSUME TypeOK, LedgerStep
  PROVE  /\ \/ UNCHANGED history
            \/ \E p \in Payments : \E target, k :
                 Writes(p, target, k) /\ payment'[p].status # "NONE"
         /\ \/ UNCHANGED refunds
            \/ \E p, amt, a, k : Refunds(p, amt, a, k)
<1>1. ASSUME NEW p \in Payments, NEW b \in Bookings, NEW amt \in Amounts,
             NEW k \in StatusKeys, RecordPayment(p, b, amt, k)
      PROVE  UNCHANGED refunds /\ Writes(p, "PENDING", k) /\ payment'[p].status # "NONE"
  <2>1. UNCHANGED refunds /\ Writes(p, "PENDING", k)
    BY <1>1 DEF RecordPayment, FreshStatusKey, Writes, HistoryRowOf
  <2>2. payment'[p].status = "PENDING"
    BY <1>1 DEF RecordPayment, TypeOK
  <2>3. QED
    BY <2>1, <2>2
<1>2. ASSUME NEW p \in Payments, NEW k, NEW target, target # "NONE", payment[p].status # "NONE",
             FreshStatusKey(k), Transition(p, target, k)
      PROVE  Writes(p, target, k) /\ payment'[p].status # "NONE"
  <2>1. PaymentsKept
    BY <1>2, TransitionKeeps
  <2>2. QED
    BY <1>2, <2>1 DEF PaymentsKept, Transition, FreshStatusKey, Writes, HistoryRowOf
<1>3. ASSUME NEW p \in Payments, NEW k \in StatusKeys, ConfirmPayment(p, k)
      PROVE  UNCHANGED refunds /\ Writes(p, "CONFIRMED", k) /\ payment'[p].status # "NONE"
  BY <1>2, <1>3 DEF ConfirmPayment, Confirmable
<1>4. ASSUME NEW p \in Payments, NEW k \in StatusKeys, ReversePayment(p, k)
      PROVE  UNCHANGED refunds /\ Writes(p, "REVERSED", k) /\ payment'[p].status # "NONE"
  BY <1>2, <1>4 DEF ReversePayment, Reversible
<1>5. ASSUME NEW p \in Payments, NEW amt \in Amounts, NEW k \in RefundKeys,
             NEW a \in KeysOf(allocations) \cup {None}, RefundPayment(p, amt, a, k)
      PROVE  /\ Refunds(p, amt, a, k)
             /\ UNCHANGED history \/ (Writes(p, "REFUNDED", k) /\ payment'[p].status # "NONE")
  <2>1. Refunds(p, amt, a, k) /\ FreshStatusKey(k) /\ payment[p].status # "NONE"
    BY <1>5 DEF RefundPayment, Refunds
  <2>2. Transition(p, "REFUNDED", k) \/ UNCHANGED <<payment, history>>
    BY <1>5 DEF RefundPayment
  <2>3. QED
    BY <1>2, <2>1, <2>2
<1>6. CASE UNCHANGED <<history, refunds>>
  BY <1>6
<1>7. CASE \E p \in Payments, b \in Bookings, amt \in Amounts, k \in StatusKeys :
             RecordPayment(p, b, amt, k)
  BY <1>1, <1>7
<1>8. CASE \E p \in Payments, k \in StatusKeys : ConfirmPayment(p, k) \/ ReversePayment(p, k)
  BY <1>3, <1>4, <1>8
<1>9. CASE \E p \in Payments, amt \in Amounts, k \in RefundKeys,
              a \in KeysOf(allocations) \cup {None} : RefundPayment(p, amt, a, k)
  BY <1>5, <1>9
<1>10. QED
  BY <1>6, <1>7, <1>8, <1>9 DEF LedgerStep, IssueReceipt, CreateAllocation, ReverseAllocation

LEMMA OtherStepsWriteNothing ==
  ASSUME [Next]_vars, ~LedgerStep
  PROVE  UNCHANGED <<payment, history, refunds>>
BY DEF Next, PlanStep, SetBookingFinancials, ProposePaymentPlan, ApprovePaymentPlan,
       WithdrawPaymentPlan, CancelBooking, vars, ledgerVars

(* The ledger uses a key once. *)
LEMMA KeysUsedOnce ==
  ASSUME TypeOK, AppliedOnce, [Next]_vars
  PROVE  AppliedOnce'
<1>1. \A g, h \in history' : g.key = h.key => g = h
  <2>1. CASE UNCHANGED history
    BY <2>1 DEF AppliedOnce
  <2>2. ASSUME NEW p \in Payments, NEW target, NEW k, Writes(p, target, k)
        PROVE  \A g, h \in history' : g.key = h.key => g = h
    <3>1. HistoryRowOf(p, target, k).key = k /\ \A h \in history : h.key # k
      BY <2>2 DEF Writes, HistoryRowOf, KeysOf
    <3>2. QED
      BY <2>2, <3>1 DEF Writes, AppliedOnce
  <2>3. QED
    BY <2>1, <2>2, LedgerWrites, OtherStepsWriteNothing
<1>2. \A r, s \in refunds' : r.key = s.key => r = s
  <2>1. CASE UNCHANGED refunds
    BY <2>1 DEF AppliedOnce
  <2>2. ASSUME NEW p, NEW amt, NEW a, NEW k, Refunds(p, amt, a, k)
        PROVE  \A r, s \in refunds' : r.key = s.key => r = s
    <3>1. \A r \in refunds : r.key # k
      BY <2>2 DEF Refunds, KeysOf
    <3>2. refunds' = refunds \cup {NewRefund(p, amt, a, k)}
      BY <2>2 DEF Refunds
    <3>3. NewRefund(p, amt, a, k).key = k
      OBVIOUS
    <3>4. QED
      BY <3>1, <3>2, <3>3 DEF AppliedOnce
  <2>3. QED
    BY <2>1, <2>2, LedgerWrites, OtherStepsWriteNothing
<1>3. QED
  BY <1>1, <1>2 DEF AppliedOnce

(* No ledger step takes a status change or a refund back, or changes what  *)
(* a payment is of.                                                        *)
LEMMA LedgerGrows ==
  ASSUME TypeOK, HistoryOfPayments, [Next]_vars
  PROVE  history \subseteq history' /\ refunds \subseteq refunds' /\ PaymentsKept /\ HistoryOfPayments'
<1>1. PaymentsKept
  BY LedgerKeepsPayments, OtherStepsWriteNothing DEF PaymentsKept
<1>2. history \subseteq history' /\ refunds \subseteq refunds'
  BY LedgerWrites, OtherStepsWriteNothing DEF Writes, Refunds
<1>3. HistoryOfPayments'
  <2>1. ASSUME NEW p \in Payments, NEW target, NEW k, Writes(p, target, k), payment'[p].status # "NONE"
        PROVE  HistoryOfPayments'
    <3>1. HistoryRowOf(p, target, k).payment = p
      BY DEF HistoryRowOf
    <3>2. QED
      BY <1>1, <2>1, <3>1 DEF Writes, HistoryOfPayments, PaymentsKept
  <2>2. CASE UNCHANGED history
    BY <1>1, <2>2 DEF HistoryOfPayments, PaymentsKept
  <2>3. QED
    BY <2>1, <2>2, LedgerWrites, OtherStepsWriteNothing
<1>4. QED
  BY <1>1, <1>2, <1>3
-----------------------------------------------------------------------------
(* The ledger holds the operation under the key, and p is the payment it   *)
(* is of: what a success answers.                                          *)
OutcomeIs(o, k, p) ==
  /\ Applied(o, k)
  /\ IF o.op = "record" THEN \E h \in history : h.key = k /\ h.payment = p ELSE p = o.payment

RequestsAnswered ==
  \A q \in RequestIds :
    request[q].phase = "success" => OutcomeIs(request[q].op, request[q].key, request[q].payment)
FormsTold ==
  \A t \in told : t.op \in Operations /\ t.key \in StatusKeys /\ OutcomeIs(t.op, t.key, t.payment)

LedgerPart == TypeOK /\ HistoryOfPayments /\ AppliedOnce
RequestsInv == LedgerPart /\ RequestsWellFormed /\ RequestsAnswered /\ FormsTold

LEMMA LedgerPartStep ==
  ASSUME LedgerPart, [Next]_vars
  PROVE  LedgerPart'
BY TypeStep, KeysUsedOnce, LedgerGrows DEF LedgerPart

(* What applied stays applied, whatever the ledger does next. *)
LEMMA OutcomeStays ==
  ASSUME LedgerPart, [Next]_vars, NEW o \in Operations, NEW k, NEW p, OutcomeIs(o, k, p)
  PROVE  OutcomeIs(o, k, p)'
<1>1. /\ history \subseteq history' /\ refunds \subseteq refunds' /\ PaymentsKept
      /\ HistoryOfPayments
  BY LedgerGrows DEF LedgerPart
<1>2. CASE o.op = "record"
  <2>1. PICK h \in history : /\ h.key = k /\ h.status = "PENDING" /\ payment[h.payment].booking = o.booking
                             /\ payment[h.payment].amount = o.amount
    BY <1>2 DEF OutcomeIs, Applied, RecordReplay
  <2>2. h \in history' /\ payment'[h.payment].booking = o.booking /\ payment'[h.payment].amount = o.amount
    BY <1>1, <2>1 DEF PaymentsKept, HistoryOfPayments
  <2>3. \E g \in history' : g.key = k /\ g.payment = p
    BY <1>1, <1>2 DEF OutcomeIs
  <2>4. QED
    BY <1>2, <2>1, <2>2, <2>3 DEF OutcomeIs, Applied, RecordReplay
<1>3. CASE o.op \in {"confirm", "reverse"}
  BY <1>1, <1>3 DEF OutcomeIs, Applied, TransitionReplay
<1>4. CASE o.op = "refund"
  BY <1>1, <1>4 DEF OutcomeIs, Applied, RefundReplay
<1>5. QED
  BY <1>2, <1>3, <1>4, OperationsAssumption

(* A replay answers with the payment that was applied to. *)
LEMMA ReplayIsOutcome ==
  ASSUME LedgerPart, NEW o \in Operations, NEW k \in StatusKeys, Applied(o, k)
  PROVE  OutcomeIs(o, k, Replayed(o, k)) /\ Replayed(o, k) \in Payments
<1>1. CASE o.op = "record"
  <2>1. \E h \in history : h.key = k
    BY <1>1 DEF Applied, RecordReplay
  <2>2. PICK h \in history : h = (CHOOSE g \in history : g.key = k) /\ h.key = k
    BY <2>1
  <2>3. QED
    BY <1>1, <2>2 DEF OutcomeIs, Replayed, LedgerPart, HistoryOfPayments
<1>2. CASE o.op # "record"
  BY <1>2, OperationsAssumption DEF OutcomeIs, Replayed
<1>3. QED
  BY <1>1, <1>2

(* A step of one request that changes neither form nor what was told. *)
LEMMA RequestStep ==
  ASSUME RequestsInv, [Next]_vars, RequestsWellFormed', UNCHANGED told,
         NEW q \in RequestIds, NEW o \in Operations, NEW k \in StatusKeys, NEW p,
         \A r \in RequestIds \ {q} :
           /\ request'[r].phase = request[r].phase /\ request'[r].op = request[r].op
           /\ request'[r].key = request[r].key /\ request'[r].payment = request[r].payment,
         request'[q].phase = "success" =>
           /\ request'[q].op = o /\ request'[q].key = k /\ request'[q].payment = p
           /\ OutcomeIs(o, k, p)'
  PROVE  RequestsInv'
<1>1. LedgerPart'
  BY LedgerPartStep DEF RequestsInv
<1>2. RequestsAnswered'
  <2>1. ASSUME NEW r \in RequestIds, request'[r].phase = "success"
        PROVE  OutcomeIs(request[r].op, request[r].key, request[r].payment)'
    <3>1. CASE r = q
      BY <2>1, <3>1 DEF OutcomeIs
    <3>2. CASE r # q
      <4>1. PICK oo, kk, pp : oo \in Operations /\ oo = request[r].op /\ kk = request[r].key /\ pp = request[r].payment
        BY <2>1, <3>2 DEF RequestsInv, RequestsWellFormed
      <4>2. OutcomeIs(oo, kk, pp)
        BY <2>1, <3>2, <4>1 DEF RequestsInv, RequestsAnswered
      <4>3. OutcomeIs(oo, kk, pp)'
        BY <4>1, <4>2, OutcomeStays DEF RequestsInv
      <4>4. QED
        BY <3>2, <4>1, <4>3 DEF OutcomeIs
    <3>3. QED
      BY <3>1, <3>2
  <2>2. QED
    BY <2>1 DEF RequestsAnswered
<1>3. FormsTold'
  <2>1. ASSUME NEW t \in told
        PROVE  t.op \in Operations /\ t.key \in StatusKeys /\ OutcomeIs(t.op, t.key, t.payment)'
    BY OutcomeStays DEF RequestsInv, FormsTold
  <2>2. QED
    BY <2>1 DEF FormsTold
<1>4. QED
  BY <1>1, <1>2, <1>3 DEF RequestsInv
-----------------------------------------------------------------------------
(* The handler of one request. *)
LEMMA InHandling ==
  ASSUME RequestsInv, NEW q \in RequestIds, request[q].phase \in {"running", "reread"}
  PROVE  request[q].op \in Operations /\ request[q].key \in StatusKeys
BY DEF RequestsInv, RequestsWellFormed

(* Answering, retrying and rereading keep requests well formed. *)
LEMMA HandledWellFormed ==
  ASSUME RequestsInv, NEW q \in RequestIds, request[q].phase \in {"running", "reread"},
         NEW row, request' = [request EXCEPT ![q] = row],
         row.form = request[q].form, row.op = request[q].op, row.key = request[q].key,
         row.phase \in {"running", "reread", "success", "error"},
         row \in [form : Forms \cup {None}, op : Operations \cup {None},
                 key : StatusKeys \cup {None}, attempt : Nat,
                 phase : {"free", "running", "reread", "success", "error"},
                 payment : Payments \cup {None}],
         UNCHANGED form
  PROVE  RequestsWellFormed'
BY DEF RequestsInv, RequestsWellFormed, Filled

LEMMA AnswerStep ==
  ASSUME RequestsInv, [Next]_vars, NEW q \in RequestIds, request[q].phase \in {"running", "reread"},
         NEW result \in {"success", "error"}, NEW p \in Payments \cup {None}, Answer(q, result, p),
         UNCHANGED <<form, told>>, NEW o \in Operations, NEW k \in StatusKeys,
         o = request[q].op, k = request[q].key,
         result = "success" => OutcomeIs(o, k, p)'
  PROVE  RequestsInv'
<1>1. /\ request \in [RequestIds -> [form : Forms \cup {None}, op : Operations \cup {None},
                                     key : StatusKeys \cup {None}, attempt : Nat,
                                     phase : {"free", "running", "reread", "success", "error"},
                                     payment : Payments \cup {None}]]
  BY DEF RequestsInv, RequestsWellFormed
<1>2. PICK row : row = [request[q] EXCEPT !.phase = result, !.payment = p]
  OBVIOUS
<1>3. /\ row \in [form : Forms \cup {None}, op : Operations \cup {None},
                  key : StatusKeys \cup {None}, attempt : Nat,
                  phase : {"free", "running", "reread", "success", "error"},
                  payment : Payments \cup {None}]
      /\ row.form = request[q].form /\ row.op = o /\ row.key = k
      /\ row.phase = result /\ row.payment = p
  BY <1>1, <1>2
<1>4. request' = [request EXCEPT ![q] = row]
  BY <1>1, <1>2 DEF Answer
<1>5. RequestsWellFormed'
  BY <1>3, <1>4, HandledWellFormed
<1>6. request'[q] = row /\ \A r \in RequestIds \ {q} : request'[r] = request[r]
  BY <1>1, <1>4
<1>7. QED
  BY <1>3, <1>5, <1>6, RequestStep

(* A commit applies the operation of its request under its key. *)
LEMMA CommitStep ==
  ASSUME RequestsInv, NEW q \in RequestIds, Commit(q)
  PROVE  RequestsInv' /\ [Next]_vars
<1>1. PICK o \in Operations, k \in StatusKeys : o = request[q].op /\ k = request[q].key
  BY InHandling DEF Commit
<1>2. PICK p : p = (IF o.op = "record" THEN NewPayment ELSE o.payment)
  OBVIOUS
<1>3. /\ request[q].phase = "running" /\ Apply(o, k) /\ Answer(q, "success", p)
      /\ UNCHANGED <<form, issued, told>>
  BY <1>1, <1>2 DEF Commit
<1>4. TypeOK
  BY DEF RequestsInv, LedgerPart
<1>5. CASE o.op = "record"
  <2>1. p \in Payments /\ RecordPayment(p, o.booking, o.amount, k)
    BY <1>2, <1>3, <1>5 DEF Apply, NewPayment, FreshPayments
  <2>2. o.booking \in Bookings /\ o.amount \in Amounts
    BY <1>5, OperationsAssumption
  <2>3. LedgerStep
    BY <2>1, <2>2 DEF LedgerStep
  <2> DEFINE h == [key |-> k, payment |-> p, status |-> "PENDING"]
  <2>4. h \in history' /\ h.key = k /\ h.payment = p /\ h.status = "PENDING"
    BY <2>1 DEF RecordPayment
  <2>5. payment'[p].booking = o.booking /\ payment'[p].amount = o.amount
    BY <1>4, <2>1 DEF RecordPayment, TypeOK
  <2>6. OutcomeIs(o, k, p)'
    BY <1>5, <2>4, <2>5 DEF OutcomeIs, Applied, RecordReplay
  <2>7. QED
    BY <1>1, <1>3, <2>1, <2>3, <2>6, AnswerStep DEF Next
<1>6. CASE o.op \in {"confirm", "reverse"}
  <2>1. p \in Payments /\ p = o.payment
    BY <1>2, <1>6, OperationsAssumption
  <2>2. \/ o.op = "confirm" /\ ConfirmPayment(p, k)
        \/ o.op = "reverse" /\ ReversePayment(p, k)
    BY <1>3, <1>6, <2>1 DEF Apply
  <2>3. LedgerStep
    BY <2>1, <2>2 DEF LedgerStep
  <2>4. PICK target : /\ target = (IF o.op = "confirm" THEN "CONFIRMED" ELSE "REVERSED")
                      /\ HistoryRowOf(p, target, k) \in history'
    BY <2>2 DEF ConfirmPayment, ReversePayment, Transition, HistoryRowOf
  <2>5. OutcomeIs(o, k, p)'
    BY <1>6, <2>1, <2>4 DEF OutcomeIs, Applied, TransitionReplay, HistoryRowOf
  <2>6. QED
    BY <1>1, <1>3, <2>1, <2>3, <2>5, AnswerStep DEF Next
<1>7. CASE o.op = "refund"
  <2>1. p \in Payments /\ p = o.payment /\ o.amount \in Amounts /\ k \in RefundKeys
    BY <1>2, <1>7, OperationsAssumption, KeysAssumption
  <2>2. RefundPayment(p, o.amount, None, k)
    BY <1>3, <1>7, <2>1 DEF Apply
  <2>3. LedgerStep
    BY <2>1, <2>2 DEF LedgerStep
  <2>4. PICK r : r = NewRefund(p, o.amount, None, k) /\ r \in refunds'
    BY <2>2 DEF RefundPayment
  <2>5. OutcomeIs(o, k, p)'
    BY <1>7, <2>1, <2>4 DEF OutcomeIs, Applied, RefundReplay
  <2>6. QED
    BY <1>1, <1>3, <2>1, <2>3, <2>5, AnswerStep DEF Next
<1>8. QED
  BY <1>5, <1>6, <1>7, OperationsAssumption

(* A replay answers what is there. *)
LEMMA ReplayStep ==
  ASSUME RequestsInv, NEW q \in RequestIds, request[q].phase \in {"running", "reread"},
         Applied(request[q].op, request[q].key),
         Answer(q, "success", Replayed(request[q].op, request[q].key)),
         UNCHANGED <<vars, form, told>>
  PROVE  RequestsInv'
<1>1. PICK o \in Operations, k \in StatusKeys : o = request[q].op /\ k = request[q].key
  BY InHandling
<1>2. PICK p \in Payments : p = Replayed(o, k) /\ OutcomeIs(o, k, p)
  BY <1>1, ReplayIsOutcome DEF RequestsInv
<1>3. OutcomeIs(o, k, p)'
  BY <1>2, OutcomeStays DEF RequestsInv
<1>4. QED
  BY <1>1, <1>2, <1>3, AnswerStep

LEMMA ErrorStep ==
  ASSUME RequestsInv, NEW q \in RequestIds, request[q].phase \in {"running", "reread"},
         Answer(q, "error", None), UNCHANGED <<vars, form, told>>
  PROVE  RequestsInv'
BY InHandling, AnswerStep

(* Another attempt, or another look. *)
LEMMA RetryStep ==
  ASSUME RequestsInv, NEW q \in RequestIds, request[q].phase = "running",
         \/ request' = [request EXCEPT ![q].attempt = @ + 1]
         \/ request' = [request EXCEPT ![q].phase = "reread"],
         UNCHANGED <<vars, form, told>>
  PROVE  RequestsInv'
<1>1. /\ request \in [RequestIds -> [form : Forms \cup {None}, op : Operations \cup {None},
                                     key : StatusKeys \cup {None}, attempt : Nat,
                                     phase : {"free", "running", "reread", "success", "error"},
                                     payment : Payments \cup {None}]]
  BY DEF RequestsInv, RequestsWellFormed
<1>2. PICK row : /\ request' = [request EXCEPT ![q] = row]
                 /\ \/ row = [request[q] EXCEPT !.attempt = @ + 1]
                    \/ row = [request[q] EXCEPT !.phase = "reread"]
  BY <1>1
<1>3. /\ row \in [form : Forms \cup {None}, op : Operations \cup {None},
                  key : StatusKeys \cup {None}, attempt : Nat,
                  phase : {"free", "running", "reread", "success", "error"},
                  payment : Payments \cup {None}]
      /\ row.form = request[q].form /\ row.op = request[q].op /\ row.key = request[q].key
      /\ row.phase \in {"running", "reread"}
  BY <1>1, <1>2
<1>4. RequestsWellFormed'
  BY <1>2, <1>3, HandledWellFormed
<1>5. request'[q] = row /\ \A r \in RequestIds \ {q} : request'[r] = request[r]
  BY <1>1, <1>2
<1>6. QED
  BY <1>3, <1>4, <1>5, InHandling, RequestStep

LEMMA HandleStep ==
  ASSUME RequestsInv, NEW q \in RequestIds, Handle(q)
  PROVE  RequestsInv' /\ [Next]_vars
<1>1. CASE Commit(q)
  BY <1>1, CommitStep
<1>2. CASE Replay(q)
  BY <1>2, ReplayStep DEF Replay
<1>3. CASE Refuse(q)
  BY <1>3, ErrorStep DEF Refuse
<1>4. CASE LoseConflict(q)
  BY <1>4, ErrorStep, RetryStep DEF LoseConflict, GiveUp
<1>5. CASE LoseDuplicate(q)
  BY <1>5, RetryStep DEF LoseDuplicate
<1>6. CASE Reread(q)
  BY <1>6, ReplayStep, ErrorStep DEF Reread
<1>7. QED
  BY <1>1, <1>2, <1>3, <1>4, <1>5, <1>6 DEF Handle
-----------------------------------------------------------------------------
(* Steps of the forms and of the network. *)
LEMMA SubmitStep ==
  ASSUME RequestsInv, NEW f \in Forms, Submit(f)
  PROVE  RequestsInv'
<1>1. PICK q \in RequestIds : q = (CHOOSE r \in FreeRequests : TRUE) /\ request[q].phase = "free"
  BY DEF Submit, FreeRequests
<1>2. /\ form[f].phase \in {"ready", "failed"} /\ form' = [form EXCEPT ![f].phase = "sending"]
      /\ request' = [request EXCEPT ![q] = [form |-> f, op |-> form[f].op, key |-> form[f].key,
                                            attempt |-> 1, phase |-> "running", payment |-> None]]
      /\ UNCHANGED <<vars, told>>
  BY <1>1 DEF Submit
<1>3. form[f].op \in Operations /\ form[f].key \in StatusKeys
  BY <1>2 DEF RequestsInv, RequestsWellFormed, Filled
<1>4. RequestsWellFormed'
  BY <1>2, <1>3 DEF RequestsInv, RequestsWellFormed, Filled
<1>5. request'[q].phase = "running" /\ \A r \in RequestIds \ {q} : request'[r] = request[r]
  BY <1>2 DEF RequestsInv, RequestsWellFormed
<1>6. QED
  BY <1>2, <1>3, <1>4, <1>5, RequestStep

LEMMA EditStep ==
  ASSUME RequestsInv, NEW f \in Forms, NEW o \in Operations, Edit(f, o)
  PROVE  RequestsInv'
<1>1. PICK k \in StatusKeys : k = (CHOOSE x \in StatusKeys : x \notin issued)
  BY DEF Edit
<1>2. /\ form' = [form EXCEPT ![f] = [op |-> o, key |-> k, phase |-> "ready"]]
      /\ UNCHANGED <<vars, request, told>>
  BY <1>1 DEF Edit
<1>3. RequestsWellFormed'
  BY <1>2 DEF RequestsInv, RequestsWellFormed, Filled
<1>4. LedgerPart'
  BY <1>2, LedgerPartStep DEF RequestsInv
<1>5. RequestsAnswered' /\ FormsTold'
  BY <1>2 DEF RequestsInv, RequestsAnswered, FormsTold, OutcomeIs, Applied, RecordReplay,
              TransitionReplay, RefundReplay, vars, ledgerVars
<1>6. QED
  BY <1>3, <1>4, <1>5 DEF RequestsInv

(* Answers given stay true. *)
LEMMA AnswersStay ==
  ASSUME RequestsInv, [Next]_vars,
         \A r \in RequestIds :
           /\ request'[r].phase = request[r].phase /\ request'[r].op = request[r].op
           /\ request'[r].key = request[r].key /\ request'[r].payment = request[r].payment
  PROVE  RequestsAnswered'
<1>1. ASSUME NEW q \in RequestIds, request'[q].phase = "success"
      PROVE  OutcomeIs(request[q].op, request[q].key, request[q].payment)'
  <2>1. PICK o, k, p : o \in Operations /\ o = request[q].op /\ k = request[q].key /\ p = request[q].payment
    BY <1>1 DEF RequestsInv, RequestsWellFormed
  <2>2. OutcomeIs(o, k, p)'
    BY <1>1, <2>1, OutcomeStays DEF RequestsInv, RequestsAnswered
  <2>3. QED
    BY <2>1, <2>2 DEF OutcomeIs
<1>2. QED
  BY <1>1 DEF RequestsAnswered

(* A success that is shown is the answer of its request. *)
LEMMA ReceiveStep ==
  ASSUME RequestsInv, NEW q \in RequestIds, Receive(q) \/ LoseAnswer(q)
  PROVE  RequestsInv'
<1>1. PICK f \in Forms : f = request[q].form /\ Filled(f)
  BY DEF Receive, LoseAnswer, RequestsInv, RequestsWellFormed
<1>2. PICK phase \in {"done", "failed"} : form' = [form EXCEPT ![f].phase = phase]
  BY <1>1 DEF Receive, LoseAnswer, AfterError
<1>3. request' = [request EXCEPT ![q].form = None] /\ UNCHANGED vars
  BY DEF Receive, LoseAnswer
<1>4. \/ UNCHANGED told
      \/ /\ request[q].phase = "success"
         /\ told' = told \cup {[op |-> request[q].op, key |-> request[q].key,
                                payment |-> request[q].payment]}
  BY DEF Receive, LoseAnswer
<1>5. RequestsWellFormed'
  BY <1>1, <1>2, <1>3 DEF RequestsInv, RequestsWellFormed, Filled
<1>6. LedgerPart'
  BY <1>3, LedgerPartStep DEF RequestsInv
<1>7. \A r \in RequestIds :
        /\ request'[r].phase = request[r].phase /\ request'[r].op = request[r].op
        /\ request'[r].key = request[r].key /\ request'[r].payment = request[r].payment
  BY <1>3 DEF RequestsInv, RequestsWellFormed
<1>8. RequestsAnswered'
  BY <1>3, <1>7, AnswersStay
<1>9. FormsTold'
  <2>1. \A t \in told' : t.op \in Operations /\ t.key \in StatusKeys /\ OutcomeIs(t.op, t.key, t.payment)
    <3>1. CASE UNCHANGED told
      BY <3>1 DEF RequestsInv, FormsTold
    <3>2. CASE request[q].phase = "success" /\ ~UNCHANGED told
      <4>1. PICK t : t = [op |-> request[q].op, key |-> request[q].key, payment |-> request[q].payment]
        OBVIOUS
      <4>2. t.op \in Operations /\ t.key \in StatusKeys /\ OutcomeIs(t.op, t.key, t.payment)
        BY <3>2, <4>1 DEF RequestsInv, RequestsWellFormed, RequestsAnswered
      <4>3. told' = told \cup {t}
        BY <1>4, <3>2, <4>1
      <4>4. QED
        BY <4>2, <4>3 DEF RequestsInv, FormsTold
    <3>3. QED
      BY <1>4, <3>1, <3>2
  <2>2. QED
    BY <1>3, <2>1 DEF FormsTold, OutcomeIs, Applied, RecordReplay, TransitionReplay, RefundReplay,
                      vars, ledgerVars
<1>10. QED
  BY <1>5, <1>6, <1>8, <1>9 DEF RequestsInv

(* The booking's own steps leave requests alone. *)
LEMMA BookingStep ==
  ASSUME RequestsInv, [Next]_vars, UNCHANGED requestVars
  PROVE  RequestsInv'
<1>1. UNCHANGED <<form, request, told>>
  BY DEF requestVars
<1>2. LedgerPart' /\ RequestsWellFormed'
  BY <1>1, LedgerPartStep DEF RequestsInv, RequestsWellFormed, Filled
<1>3. RequestsAnswered'
  BY <1>1, AnswersStay
<1>4. FormsTold'
  <2>1. ASSUME NEW t \in told
        PROVE  t.op \in Operations /\ t.key \in StatusKeys /\ OutcomeIs(t.op, t.key, t.payment)'
    BY OutcomeStays DEF RequestsInv, FormsTold
  <2>2. QED
    BY <1>1, <2>1 DEF FormsTold
<1>5. QED
  BY <1>2, <1>3, <1>4 DEF RequestsInv
-----------------------------------------------------------------------------
LEMMA RequestsInitially == RequestsInit => RequestsInv
<1> SUFFICES ASSUME RequestsInit PROVE RequestsInv
  OBVIOUS
<1>1. TypeOK
  BY TypeInit DEF RequestsInit, Init
<1>2. HistoryOfPayments /\ AppliedOnce
  BY DEF RequestsInit, TablesInit, HistoryOfPayments, AppliedOnce
<1>3. RequestsWellFormed
  BY DEF RequestsInit, RequestsWellFormed
<1>4. RequestsAnswered /\ FormsTold
  BY DEF RequestsInit, RequestsAnswered, FormsTold
<1>5. QED
  BY <1>1, <1>2, <1>3, <1>4 DEF RequestsInv, LedgerPart

(* Whatever the forms and the network do, the ledger sees handlers' steps. *)
LEMMA RequestsStep ==
  ASSUME RequestsInv, [RequestsNext]_allVars
  PROVE  RequestsInv' /\ [Next]_vars
<1>1. ASSUME NEW f \in Forms, Submit(f) \/ \E o \in Operations : Edit(f, o)
      PROVE  RequestsInv' /\ UNCHANGED vars
  BY <1>1, SubmitStep, EditStep DEF Submit, Edit
<1>2. ASSUME NEW q \in RequestIds, Receive(q) \/ LoseAnswer(q)
      PROVE  RequestsInv' /\ UNCHANGED vars
  BY <1>2, ReceiveStep DEF Receive, LoseAnswer
<1>3. ASSUME NEW q \in RequestIds, Handle(q)
      PROVE  RequestsInv' /\ [Next]_vars
  BY <1>3, HandleStep
<1>4. ASSUME NEW b \in Bookings, Cancel(b) \/ SetFinancials(b)
      PROVE  RequestsInv' /\ [Next]_vars
  <2>1. Next /\ UNCHANGED requestVars
    BY <1>4 DEF Cancel, SetFinancials, Next, PlanStep
  <2>2. QED
    BY <2>1, BookingStep
<1>5. CASE UNCHANGED allVars
  BY <1>5, BookingStep DEF allVars
<1>6. QED
  BY <1>1, <1>2, <1>3, <1>4, <1>5 DEF RequestsNext

(* However requests are repeated, delayed and answered, every success a    *)
(* handler answered and every one a form was told is in the ledger, with   *)
(* the payment it is of.                                                   *)
THEOREM RequestsInvariant == RequestsSpec => []RequestsInv
BY RequestsInitially, RequestsStep, PTL DEF RequestsSpec

(* Requests implement the ledger: retries and replays make no step that a  *)
(* single committed handler does not, so all that holds of the ledger      *)
(* holds of the tables behind the requests.                                *)
THEOREM RequestsKeepLedger == RequestsSpec => Spec
<1>1. RequestsInit => Init
  BY DEF RequestsInit, Init
<1>2. QED
  BY <1>1, RequestsStep, RequestsInvariant, PTL DEF RequestsSpec, Spec

(* In particular, the money rules hold behind the requests. *)
THEOREM RequestsKeepLedgerInv == RequestsSpec => []LedgerInv
BY RequestsKeepLedger, LedgerInvariant, PTL

(* However often an operation is sent, its key is used once. *)
THEOREM OperationsAppliedOnce == RequestsSpec => []AppliedOnce
<1>1. RequestsInv => AppliedOnce
  BY DEF RequestsInv, LedgerPart
<1>2. QED
  BY <1>1, RequestsInvariant, PTL

(* What a form was told is true for ever. *)
THEOREM ToldIsApplied == RequestsSpec => []ToldMeansApplied
<1>1. RequestsInv => ToldMeansApplied
  BY DEF RequestsInv, FormsTold, OutcomeIs, ToldMeansApplied
<1>2. QED
  BY <1>1, RequestsInvariant, PTL

(* Every request of an operation is answered alike: one key, one payment.  *)
ToldAlike ==
  \A s, t \in told : s.op = t.op /\ s.key = t.key => s.payment = t.payment

(* The handler that records and every one that replays name the same row.  *)
THEOREM AnswersAlike == RequestsSpec => []ToldAlike
<1>1. RequestsInv => ToldAlike
  BY DEF RequestsInv, LedgerPart, AppliedOnce, FormsTold, OutcomeIs, ToldAlike
<1>2. QED
  BY <1>1, RequestsInvariant, PTL

(* A retry of what was applied is never refused while attempts are left.   *)
THEOREM AppliedIsNotRefused == RequestsSpec => NeverRefusedOnceApplied
<1> DEFINE NotRefused ==
      \A q \in RequestIds :
        request[q].attempt < MaxAttempts /\ request[q].phase # "error" /\ request'[q].phase = "error"
          => ~Applied(request[q].op, request[q].key)
<1>1. ASSUME RequestsInv, [RequestsNext]_allVars
      PROVE  [NotRefused]_allVars
  <2>1. request \in [RequestIds -> [form : Forms \cup {None}, op : Operations \cup {None},
                                   key : StatusKeys \cup {None}, attempt : Nat,
                                   phase : {"free", "running", "reread", "success", "error"},
                                   payment : Payments \cup {None}]]
    BY <1>1 DEF RequestsInv, RequestsWellFormed
  <2>2. ASSUME NEW q \in RequestIds, Handle(q)
        PROVE  NotRefused
    <3>1. CASE Answer(q, "error", None) /\ ~Applied(request[q].op, request[q].key)
      BY <2>1, <3>1 DEF Answer
    <3>2. CASE Answer(q, "error", None) /\ ~(request[q].attempt < MaxAttempts)
      BY <2>1, <3>2 DEF Answer
    <3>3. CASE \E p : Answer(q, "success", p)
      BY <2>1, <3>3 DEF Answer
    <3>4. CASE request' = [request EXCEPT ![q].attempt = @ + 1]
      BY <2>1, <3>4
    <3>5. CASE request' = [request EXCEPT ![q].phase = "reread"]
      BY <2>1, <3>5
    <3>6. QED
      BY <2>2, <3>1, <3>2, <3>3, <3>4, <3>5 DEF Handle, Commit, Replay, Refuse, LoseConflict, GiveUp,
         LoseDuplicate, Reread
  <2>3. ASSUME NEW q \in RequestIds, Receive(q) \/ LoseAnswer(q)
        PROVE  NotRefused
    BY <2>1, <2>3 DEF Receive, LoseAnswer
  <2>4. ASSUME NEW f \in Forms, Submit(f)
        PROVE  NotRefused
    BY <2>1, <2>4 DEF Submit
  <2>5. CASE UNCHANGED request
    BY <2>5
  <2>6. QED
    BY <1>1, <2>2, <2>3, <2>4, <2>5 DEF RequestsNext, Edit, Cancel, SetFinancials, requestVars, allVars
<1>2. QED
  BY <1>1, RequestsInvariant, PTL DEF RequestsSpec, NeverRefusedOnceApplied

=============================================================================
