--------------------------- MODULE PaymentRequests --------------------------
(***************************************************************************)
(* How an operation reaches the ledger: a form in a browser, requests over *)
(* a network that may lose the answer, and handlers that run the ledger's  *)
(* transaction up to MaxAttempts times.  A form keeps its idempotency key  *)
(* while the user retries it unchanged, so the same operation may be in    *)
(* several requests at once; the handlers' replay checks must apply it     *)
(* once and answer every request alike.                                    *)
(***************************************************************************)
EXTENDS Payments

CONSTANTS
  Forms,         \* AmountForm and PaymentAction instances on screen
  RequestIds,    \* HTTP requests; bounds how often the forms submit
  MaxAttempts,   \* MAX_SERIALIZABLE_RETRIES
  Operations     \* what the forms can ask for, see Apply

ASSUME MaxAttemptsAssumption == MaxAttempts \in Nat \ {0}
(* Forms act on rows that are shown, with amounts the schemas accept, and  *)
(* generate their keys alike whatever the operation.                       *)
ASSUME OperationsAssumption ==
  \A o \in Operations :
    \/ o.op = "record" /\ o.booking \in Bookings /\ o.amount \in Amounts
    \/ o.op \in {"confirm", "reverse"} /\ o.payment \in Payments
    \/ o.op = "refund" /\ o.payment \in Payments /\ o.amount \in Amounts
ASSUME KeysAssumption == StatusKeys \subseteq RefundKeys

VARIABLES
  form,     \* [Forms -> [op, key, phase]]
  request,  \* [RequestIds -> [form, op, key, attempt, phase, payment]]
  issued,   \* keys generated so far; crypto.randomUUID never repeats one
  told      \* successes reported to a form: [op, key, payment]

requestVars == <<form, request, issued, told>>
allVars == <<vars, requestVars>>
-----------------------------------------------------------------------------
(* The ledger handlers, by operation. *)

Applied(o, k) ==
  CASE o.op = "record"  -> RecordReplay(o.booking, o.amount, k)
    [] o.op = "confirm" -> TransitionReplay(o.payment, "CONFIRMED", k)
    [] o.op = "reverse" -> TransitionReplay(o.payment, "REVERSED", k)
    [] o.op = "refund"  -> RefundReplay(o.payment, o.amount, None, k)

FreshPayments == {p \in Payments : payment[p].status = "NONE"}
NewPayment == CHOOSE p \in FreshPayments : TRUE
Apply(o, k) ==
  \/ o.op = "record"  /\ FreshPayments # {} /\ RecordPayment(NewPayment, o.booking, o.amount, k)
  \/ o.op = "confirm" /\ ConfirmPayment(o.payment, k)
  \/ o.op = "reverse" /\ ReversePayment(o.payment, k)
  \/ o.op = "refund"  /\ RefundPayment(o.payment, o.amount, None, k)

(* The payment a replay answers with. *)
Replayed(o, k) ==
  IF o.op = "record" THEN (CHOOSE h \in history : h.key = k).payment ELSE o.payment
-----------------------------------------------------------------------------
(* The form.  Editing renews the key: a changed request is a new one.      *)
(* Which unused key or request slot is taken next tells nothing apart.     *)
Edit(f, o) ==
  /\ form[f].phase \in {"ready", "failed", "done"}
  /\ StatusKeys \ issued # {}
  /\ LET k == CHOOSE k \in StatusKeys : k \notin issued IN
       /\ form' = [form EXCEPT ![f] = [op |-> o, key |-> k, phase |-> "ready"]]
       /\ issued' = issued \cup {k}
  /\ UNCHANGED <<vars, request, told>>

(* handleSubmit; submittingRef lets one submission run at a time. *)
FreeRequests == {q \in RequestIds : request[q].phase = "free"}
Submit(f) ==
  /\ form[f].phase \in {"ready", "failed"}
  /\ FreeRequests # {}
  /\ form' = [form EXCEPT ![f].phase = "sending"]
  /\ request' = [request EXCEPT ![CHOOSE q \in FreeRequests : TRUE] =
       [form |-> f, op |-> form[f].op, key |-> form[f].key, attempt |-> 1,
        phase |-> "running", payment |-> None]]
  /\ UNCHANGED <<vars, issued, told>>

(* The answer arrives.  Success clears the form; an error leaves it, with  *)
(* its key, for another try.                                               *)
StuckOnError(f) == "sending"
AfterError(f) == "failed"
Receive(q) ==
  /\ request[q].form # None /\ request[q].phase \in {"success", "error"}
  /\ LET f == request[q].form IN
       IF request[q].phase = "success"
       THEN /\ form' = [form EXCEPT ![f].phase = "done"]
            /\ told' = told \cup {[op |-> request[q].op, key |-> request[q].key,
                                   payment |-> request[q].payment]}
       ELSE /\ form' = [form EXCEPT ![f].phase = AfterError(f)]
            /\ UNCHANGED told
  /\ request' = [request EXCEPT ![q].form = None]
  /\ UNCHANGED <<vars, issued>>

(* fetch rejects: the form fails, while the handler may still be running. *)
LoseAnswer(q) ==
  /\ request[q].form # None
  /\ form' = [form EXCEPT ![request[q].form].phase = "failed"]
  /\ request' = [request EXCEPT ![q].form = None]
  /\ UNCHANGED <<vars, issued, told>>
-----------------------------------------------------------------------------
(* The handler of request q. *)

Answer(q, result, p) ==
  request' = [request EXCEPT ![q].phase = result, ![q].payment = p]

Commit(q) ==
  LET o == request[q].op
      p == IF o.op = "record" THEN NewPayment ELSE o.payment
  IN
  /\ request[q].phase = "running"
  /\ Apply(o, request[q].key)
  /\ Answer(q, "success", p)
  /\ UNCHANGED <<form, issued, told>>

(* resolve...Replay inside the transaction. *)
Replay(q) ==
  /\ request[q].phase = "running"
  /\ Applied(request[q].op, request[q].key)
  /\ Answer(q, "success", Replayed(request[q].op, request[q].key))
  /\ UNCHANGED <<vars, form, issued, told>>

(* A guard fails, or the key belongs to another request.  The replay check *)
(* comes first; the variant looks at the guards first.                     *)
RefuseFirst(q) ==
  /\ request[q].phase = "running"
  /\ ~ENABLED Apply(request[q].op, request[q].key)
  /\ Answer(q, "error", None)
  /\ UNCHANGED <<vars, form, issued, told>>
Refuse(q) ==
  /\ request[q].phase = "running"
  /\ ~Applied(request[q].op, request[q].key)
  /\ ~ENABLED Apply(request[q].op, request[q].key)
  /\ Answer(q, "error", None)
  /\ UNCHANGED <<vars, form, issued, told>>

(* A serialization failure commits nothing; the last one is answered with  *)
(* a conflict.                                                             *)
SwallowConflict(q) == Answer(q, "success", None)
GiveUp(q) == Answer(q, "error", None)
LoseConflict(q) ==
  /\ request[q].phase = "running"
  /\ IF request[q].attempt < MaxAttempts
     THEN request' = [request EXCEPT ![q].attempt = @ + 1]
     ELSE GiveUp(q)
  /\ UNCHANGED <<vars, form, issued, told>>

(* The insert loses to a duplicate that committed after this attempt's     *)
(* snapshot (P2002): the handler looks the key up again, outside the       *)
(* rolled-back transaction.                                                *)
LoseDuplicate(q) ==
  /\ request[q].phase = "running"
  /\ request[q].key \in KeysOf(history) \cup KeysOf(refunds)
  /\ request' = [request EXCEPT ![q].phase = "reread"]
  /\ UNCHANGED <<vars, form, issued, told>>

Reread(q) ==
  /\ request[q].phase = "reread"
  /\ IF Applied(request[q].op, request[q].key)
     THEN Answer(q, "success", Replayed(request[q].op, request[q].key))
     ELSE Answer(q, "error", None)
  /\ UNCHANGED <<vars, form, issued, told>>

Handle(q) ==
  \/ Commit(q) \/ Replay(q) \/ Refuse(q)
  \/ LoseConflict(q) \/ LoseDuplicate(q) \/ Reread(q)
-----------------------------------------------------------------------------
(* No form is filled in yet. *)
RequestsInit ==
  /\ TablesInit
  /\ form = [f \in Forms |-> [op |-> None, key |-> None, phase |-> "done"]]
  /\ request = [q \in RequestIds |-> [form |-> None, op |-> None, key |-> None,
                                      attempt |-> 0, phase |-> "free", payment |-> None]]
  /\ issued = {} /\ told = {}

Cancel(b) == CancelBooking(b) /\ UNCHANGED requestVars
SetFinancials(b) ==
  /\ \E total \in Amounts, cur \in Currencies : SetBookingFinancials(b, total, cur)
  /\ UNCHANGED requestVars

RequestsNext ==
  \/ \E f \in Forms : Submit(f) \/ \E o \in Operations : Edit(f, o)
  \/ \E q \in RequestIds : Handle(q) \/ Receive(q) \/ LoseAnswer(q)
  \/ \E b \in Bookings : Cancel(b) \/ SetFinancials(b)

(* The server finishes what it runs, and a fetch ends with an answer or an *)
(* error.  Users owe nothing.                                              *)
RequestsSpec ==
  /\ RequestsInit /\ [][RequestsNext]_allVars
  /\ \A q \in RequestIds :
       WF_allVars(Handle(q)) /\ WF_allVars(Receive(q) \/ LoseAnswer(q))
-----------------------------------------------------------------------------
(* However often an operation is sent, its key is used once: one payment   *)
(* recorded, one status change or one refund.                              *)
AppliedOnce ==
  /\ \A g, h \in history : g.key = h.key => g = h
  /\ \A r, s \in refunds : r.key = s.key => r = s

(* A form that showed success shows the truth for ever: the operation is   *)
(* in the ledger with the values the form held.                            *)
ToldMeansApplied == \A t \in told : Applied(t.op, t.key)

(* A retry of an operation that was applied is answered with its result,   *)
(* also when its guards no longer hold: the payment has moved on, or the   *)
(* booking was cancelled in between.                                       *)
NeverRefusedOnceApplied ==
  [][\A q \in RequestIds :
       request[q].attempt < MaxAttempts /\ request[q].phase # "error" /\ request'[q].phase = "error"
         => ~Applied(request[q].op, request[q].key)]_allVars

(* No form waits for ever. *)
FormsAnswered ==
  \A f \in Forms : form[f].phase = "sending" ~> form[f].phase # "sending"

=============================================================================
