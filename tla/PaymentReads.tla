---------------------------- MODULE PaymentReads ----------------------------
(***************************************************************************)
(* Reading the payments of a booking while others write them.  The staff   *)
(* and client summaries are read statement by statement outside any        *)
(* transaction; a finance export reads everything on the snapshot of its   *)
(* one Repeatable Read transaction and leaves an audit entry there.  Dates *)
(* (due dates, date filters, times) are left out: a filter only chooses    *)
(* rows and never changes a figure, so here every row is wanted.           *)
(***************************************************************************)
EXTENDS Payments

CONSTANTS
  Reads,     \* reads; bounds how many there are
  MaxMoves,  \* bound on what others commit while one is under way
  RowLimit   \* FINANCE_EXPORT_ROW_LIMIT

ASSUME ReadsAssumption == MaxMoves \in Nat /\ RowLimit \in Nat

VARIABLES
  read,     \* the reads
  account,  \* the reader's stored role (OUT: not active) and assigned bookings
  entries,  \* FINANCE_EXPORT_GENERATED audit entries
  moves     \* what others have committed since the read began

readVars == <<read, account, entries, moves>>
-----------------------------------------------------------------------------
Exporting == {"ADMIN_MANAGER", "FINANCE_ACCOUNTING"}
Roles == Exporting \cup {"OUT"}
Account == [role : Roles, desk : SUBSET Bookings]
Datasets == {"bookings", "payments", "refunds", "allocations", "installments"}

Visible(who) ==
  CASE who.role = "ADMIN_MANAGER" -> Bookings
    [] who.role = "FINANCE_ACCOUNTING" -> who.desk
    [] OTHER -> {}

(* What one statement returns.  statuses is the status of the payment of   *)
(* each allocation; links are the PaymentRefundAllocation rows.            *)
Statements == {"bookings", "plans", "allocations", "statuses", "reversals",
               "links", "payments", "refunds"}
Database ==
  [bookings |-> financials, plans |-> plan, allocations |-> allocations,
   statuses |-> [p \in Payments |-> payment[p].status],
   reversals |-> reversals, links |-> {r \in refunds : r.allocation # None},
   payments |-> payment, refunds |-> refunds]

(* findBookingPaymentSummaryData is one nested read, which Prisma sends as *)
(* one statement per relation: a relation after the rows it hangs on,      *)
(* sibling relations in any order.                                         *)
Parents == [s \in Statements |->
  CASE s = "bookings" -> {}
    [] s \in {"plans", "payments"} -> {"bookings"}
    [] s = "allocations" -> {"bookings", "plans"}
    [] s = "refunds" -> {"bookings", "payments"}
    [] OTHER -> {"bookings", "plans", "allocations"}]

(* The queries of each dataset, awaited one after another and joined in    *)
(* memory.                                                                 *)
BookingQueries == <<"bookings", "plans", "allocations", "statuses", "reversals", "links",
                    "payments", "refunds">>
PaymentQueries == <<"payments", "statuses", "bookings", "refunds", "allocations",
                    "reversals", "links">>
RefundQueries == <<"refunds", "payments", "bookings", "links">>
AllocationQueries == <<"allocations", "statuses", "payments", "bookings", "reversals", "links">>
InstallmentQueries == <<"plans", "bookings", "allocations", "statuses", "reversals", "links">>
Queries == [x \in Datasets |->
  CASE x = "bookings" -> BookingQueries
    [] x = "payments" -> PaymentQueries
    [] x = "refunds" -> RefundQueries
    [] x = "allocations" -> AllocationQueries
    [] x = "installments" -> InstallmentQueries]
-----------------------------------------------------------------------------
(* calculations.ts and the summary built with it, on the rows d a read has *)
(* seen: the formulas of PaymentTables, here on possibly unrelated tables. *)
AtLeastZero(n) == IF n < 0 THEN 0 ELSE n
Counting == {"CONFIRMED", "REFUNDED"}

RefundedOf(d, p) == Total({r \in d["refunds"] : r.payment = p})
ContributionOf(d, p) ==
  IF d["payments"][p].status \in Counting
  THEN AtLeastZero(d["payments"][p].amount - RefundedOf(d, p)) ELSE 0
PaymentsOn(d, b) == {p \in Payments : d["payments"][p].booking = b}
PaidOn(d, b) ==
  Total({[payment |-> p, amount |-> ContributionOf(d, p)] : p \in PaymentsOn(d, b)})

ActiveAmong(d, A) ==
  {a \in A : /\ ~\E v \in d["reversals"] : v.allocation = a.key
             /\ d["statuses"][a.payment] \in Counting}
GrossOf(d, A) == Total(ActiveAmong(d, A))
NetOf(d, A) ==
  GrossOf(d, A) - Total({r \in d["links"] : r.allocation \in KeysOf(ActiveAmong(d, A))})

PlansOn(d, b) == {l \in Plans : /\ d["plans"][l].booking = b
                                /\ d["plans"][l].status \in {"PROPOSED", "APPROVED"}}
PlanApproved(d, b) == \E l \in PlansOn(d, b) : d["plans"][l].status = "APPROVED"
AllocatedOn(d, l) == {a \in d["allocations"] : a.plan = l}
OutstandingGross(d, l, x) ==
  AtLeastZero(x.amount - GrossOf(d, {a \in AllocatedOn(d, l) : a.seq = x.seq}))
Outstanding(d, l, x) ==
  AtLeastZero(x.amount - NetOf(d, {a \in AllocatedOn(d, l) : a.seq = x.seq}))

(* Some installment is next due: computeNextPaymentDue is not null. *)
SomethingDue(d, b) ==
  \E l \in PlansOn(d, b) : \E x \in d["plans"][l].installments : Outstanding(d, l, x) > 0
Remaining(d, b) == AtLeastZero(d["bookings"][b].total - PaidOn(d, b))
Overpayment(d, b) == AtLeastZero(PaidOn(d, b) - d["bookings"][b].total)
Credit(d, b) == PaidOn(d, b) - NetOf(d, UNION {AllocatedOn(d, l) : l \in PlansOn(d, b)})

RefundsWithin(d, p) == RefundedOf(d, p) <= d["payments"][p].amount
Summary(d, b) ==
  [approved |-> PlanApproved(d, b), paid |-> PaidOn(d, b), remaining |-> Remaining(d, b),
   over |-> Overpayment(d, b), credit |-> Credit(d, b), due |-> SomethingDue(d, b)]
-----------------------------------------------------------------------------
(* The rows of an export: those of the bookings B, whose figures must pass *)
(* the integrity checks of D-062 clause 7 and D-067.                       *)
BookingOf(d, set, row) ==
  CASE set = "bookings" -> row
    [] set = "payments" -> d["payments"][row].booking
    [] set \in {"refunds", "allocations"} -> d["payments"][row.payment].booking
    [] set = "installments" -> d["plans"][row[1]].booking
Candidates(d, set) ==
  CASE set = "bookings" -> {b \in Bookings : d["bookings"][b] # NotSet}
    [] set = "payments" -> {p \in Payments : d["payments"][p].status # "NONE"}
    [] set \in {"refunds", "allocations"} -> d[set]
    [] set = "installments" ->
         UNION {{l} \X d["plans"][l].installments :
                  l \in {m \in Plans : d["plans"][m].status = "APPROVED"}}
RowsOf(d, set, B) == {row \in Candidates(d, set) : BookingOf(d, set, row) \in B}

CurrencySet(d, set, row) == d["bookings"][BookingOf(d, set, row)].currency # None
BookingIsSound(d, b) == (\A p \in PaymentsOn(d, b) : RefundsWithin(d, p)) /\ Credit(d, b) >= 0
PaymentIsSound(d, p) ==
  /\ RefundsWithin(d, p)
  /\ NetOf(d, {a \in d["allocations"] : a.payment = p}) \in 0 .. ContributionOf(d, p)
AllocationIsSound(d, a) == NetOf(d, {a}) >= 0
InstallmentIsSound(d, l, x) == NetOf(d, {a \in AllocatedOn(d, l) : a.seq = x.seq}) >= 0
RowIsSound(d, set, row) ==
  /\ CurrencySet(d, set, row)
  /\ CASE set = "bookings" -> BookingIsSound(d, row)
       [] set = "payments" -> PaymentIsSound(d, row)
       [] set = "allocations" -> AllocationIsSound(d, row)
       [] set = "installments" -> InstallmentIsSound(d, row[1], row[2])
       [] OTHER -> TRUE
-----------------------------------------------------------------------------
NoRead == [stage |-> "idle"]
InStage(x, s) == read[x].stage = s
UnderWay(x) == ~InStage(x, "idle") /\ ~InStage(x, "ended") /\ ~InStage(x, "shown")
Step(x, r) == read' = [read EXCEPT ![x] = r] /\ UNCHANGED <<vars, account, moves>>
End(x) == Step(x, [stage |-> "ended"]) /\ UNCHANGED entries

(* One read at a time: a page renders once, the export form waits for its  *)
(* answer (submittingRef).                                                 *)
Idle(x) == InStage(x, "idle") /\ \A y \in Reads : ~UnderWay(y)

(* The list of the client's bookings with an approved plan.  Each of them  *)
(* is then read by itself; the one read here stands for any.               *)
ListedWithAnyPlan(b) == HasActivePlan(b)
Listed(b) == HasApprovedPlan(b)
OpenClientPage(x, b) ==
  /\ Idle(x) /\ Listed(b)
  /\ Step(x, [stage |-> "reading", kind |-> "client", booking |-> b, seen |-> <<>>])
  /\ UNCHANGED entries

(* The staff page: whether the booking is the reader's is asked first. *)
OpenStaffPage(x, b) ==
  /\ Idle(x) /\ b \in Visible(account)
  /\ Step(x, [stage |-> "reading", kind |-> "staff", booking |-> b, seen |-> <<>>])
  /\ UNCHANGED entries

(* The export form, the route and the checks before the transaction. *)
AskExport(x, set) ==
  /\ Idle(x) /\ account.role \in Exporting
  /\ Step(x, [stage |-> "asked", set |-> set, session |-> account])
  /\ UNCHANGED entries

(* The transaction's first statement takes the snapshot with the stored    *)
(* account in it; the count follows on the same snapshot.                  *)
SessionScope(x) == Visible([role |-> read[x].session.role, desk |-> account.desk])
StoredScope(x) == Visible(account)
Recheck(x) ==
  /\ InStage(x, "asked") /\ account.role \in Exporting
  /\ Cardinality(RowsOf(Database, read[x].set, StoredScope(x))) <= RowLimit
  /\ Step(x, [stage |-> "reading", kind |-> "export", set |-> read[x].set,
              scope |-> StoredScope(x), who |-> account, at |-> Database, seen |-> <<>>])
  /\ UNCHANGED entries
RefuseExport(x) ==
  /\ InStage(x, "asked")
  /\ \/ account.role \notin Exporting
     \/ Cardinality(RowsOf(Database, read[x].set, StoredScope(x))) > RowLimit
  /\ End(x)

(* One statement of a read. *)
IsExport(x) == read[x].kind = "export"
SourceNow(x) == Database
Source(x) == IF IsExport(x) THEN read[x].at ELSE Database
Wanted(x) ==
  IF IsExport(x)
  THEN {Queries[read[x].set][i] : i \in DOMAIN Queries[read[x].set]} ELSE Statements
Ready(x, s) ==
  IF IsExport(x)
  THEN LET Q == Queries[read[x].set] IN
         \E i \in DOMAIN Q : /\ Q[i] = s
                             /\ \A j \in 1 .. i - 1 : Q[j] \in DOMAIN read[x].seen
  ELSE Parents[s] \subseteq DOMAIN read[x].seen
Fetch(x, s) ==
  /\ InStage(x, "reading")
  /\ s \in Wanted(x) \ DOMAIN read[x].seen /\ Ready(x, s)
  /\ Step(x, [read[x] EXCEPT !.seen =
                [t \in DOMAIN @ \cup {s} |-> IF t = s THEN Source(x)[s] ELSE @[t]]])
  /\ UNCHANGED entries

(* All is read.  A summary is shown; an export's rows are shaped, and the  *)
(* audit entry is committed with them.  An unsound row would refuse the    *)
(* whole export; there is none (ExportMeetsNoCorruption).                  *)
AllRead(x) == InStage(x, "reading") /\ DOMAIN read[x].seen = Wanted(x)
(* What the staff page lets an assigned Finance user do with the booking's *)
(* payments and its plan.                                                  *)
PlanControls(d, b) ==
  [approve |-> {l \in PlansOn(d, b) : d["plans"][l].status = "PROPOSED"},
   release |-> {a \in UNION {AllocatedOn(d, l) : l \in PlansOn(d, b)} :
                  ~\E v \in d["reversals"] : v.allocation = a.key}]
PaymentControls(d, b) ==
  LET stands(s) == {p \in PaymentsOn(d, b) : d["payments"][p].status = s} IN
  [confirm |-> stands("PENDING"), refund |-> stands("CONFIRMED"),
   record |-> d["bookings"][b].currency # None,
   allocate |-> PlanApproved(d, b) /\ stands("CONFIRMED") # {}]
RefundsStored(x) ==
  \A p \in PaymentsOn(read[x].seen, read[x].booking) : RefundsWithin(read[x].seen, p)
ShowStaffPage(x) ==
  LET d == read[x].seen  b == read[x].booking IN
  /\ AllRead(x) /\ read[x].kind = "staff" /\ RefundsStored(x)
  /\ Step(x, [stage |-> "shown", kind |-> "staff",
              summary |-> Summary(d, b),
              plans |-> PlanControls(d, b), payments |-> PaymentControls(d, b)])
  /\ UNCHANGED entries
ShowClientPage(x) ==
  /\ AllRead(x) /\ read[x].kind = "client" /\ RefundsStored(x)
  /\ Step(x, [stage |-> "shown", kind |-> "client",
              summary |-> Summary(read[x].seen, read[x].booking)])
  /\ UNCHANGED entries
Rows(x) == RowsOf(read[x].seen, read[x].set, read[x].scope)
(* What was asked for and how much was read, never a row of it. *)
Entry(x) ==
  [read |-> x, set |-> read[x].set, role |-> read[x].who.role, count |-> Cardinality(Rows(x)),
   bookings |-> Cardinality({BookingOf(read[x].seen, read[x].set, row) : row \in Rows(x)})]
Sound(x) == \A row \in Rows(x) : RowIsSound(read[x].seen, read[x].set, row)
CommitExport(x) ==
  /\ AllRead(x) /\ IsExport(x) /\ Sound(x)
  /\ Step(x, [stage |-> "committed", file |->
       [rows |-> Rows(x), who |-> read[x].who, seen |-> read[x].seen, set |-> read[x].set]])
  /\ entries' = entries \cup {Entry(x)}

(* The transaction times out or loses its connection: it is rolled back    *)
(* and leaves no entry.                                                    *)
Abort(x) == InStage(x, "reading") /\ IsExport(x) /\ End(x)

(* The file is assembled and saved by the form, or lost on the way. *)
SaveFile(x) ==
  /\ InStage(x, "committed")
  /\ Step(x, [stage |-> "shown", kind |-> "export", file |-> read[x].file])
  /\ UNCHANGED entries
LoseFile(x) == InStage(x, "committed") /\ Step(x, [stage |-> "lost"]) /\ UNCHANGED entries

(* Meanwhile others write, and the reader's account is changed.  A change  *)
(* after the statement that reads the account alters nothing here.         *)
Meanwhile ==
  IF \E x \in Reads : UnderWay(x)
  THEN moves < MaxMoves /\ moves' = moves + 1
  ELSE moves' = 0
OthersWrite == Meanwhile /\ Next /\ UNCHANGED <<read, account, entries>>
OthersDecide ==
  /\ \E x \in Reads : InStage(x, "asked")
  /\ Meanwhile
  /\ \/ \E r \in Roles \ {account.role} : account' = [account EXCEPT !.role = r]
     \/ \E b \in Bookings :
          account' = [account EXCEPT !.desk = IF b \in @ THEN @ \ {b} ELSE @ \cup {b}]
  /\ UNCHANGED <<vars, read, entries>>

ReadsInit ==
  /\ Init
  /\ read = [x \in Reads |-> NoRead]
  /\ account \in [role : Exporting, desk : {Bookings}]
  /\ entries = {} /\ moves = 0
ReadsNext ==
  \/ \E x \in Reads :
       \/ \E b \in Bookings : OpenClientPage(x, b) \/ OpenStaffPage(x, b)
       \/ \E set \in Datasets : AskExport(x, set)
       \/ Recheck(x) \/ RefuseExport(x)
       \/ \E s \in Statements : Fetch(x, s)
       \/ ShowStaffPage(x) \/ ShowClientPage(x) \/ CommitExport(x)
       \/ Abort(x) \/ SaveFile(x) \/ LoseFile(x)
  \/ OthersWrite \/ OthersDecide
ReadsSpec == ReadsInit /\ [][ReadsNext]_<<vars, readVars>>
-----------------------------------------------------------------------------
Saved(x) == InStage(x, "shown") /\ IsExport(x)

(* D-062 clause 7: an export is refused for its data only when the stored  *)
(* data is corrupt, which the handlers never leave it, so never.           *)
ExportMeetsNoCorruption == \A x \in Reads : AllRead(x) /\ IsExport(x) => Sound(x)

(* A bookings row of an approved plan with no next due date, which says    *)
(* nothing is due, is one with no remaining balance.                       *)
NothingDueMeansNothingOwed ==
  \A x \in Reads : Saved(x) /\ read[x].file.set = "bookings" =>
    LET d == read[x].file.seen IN
      \A b \in read[x].file.rows :
        PlanApproved(d, b) /\ ~SomethingDue(d, b) => Remaining(d, b) = 0

(* D-061 sections 6 and 8: every file has its audit entry, with its number *)
(* of rows; an entry stands for a committed read; and a file has the rows  *)
(* of the bookings its reader's stored role could see, no others.          *)
FilesMatchEntries ==
  /\ \A x \in Reads : Saved(x) =>
       LET f == read[x].file IN
         /\ \A row \in f.rows : BookingOf(f.seen, f.set, row) \in Visible(f.who)
         /\ \E e \in entries : /\ e.read = x /\ e.set = f.set /\ e.role = f.who.role
                              /\ e.count = Cardinality(f.rows)
  /\ \A e \in entries : read[e.read].stage \in {"committed", "shown", "lost"}

(* D-054 section 7: a plan that is only proposed is never shown to the     *)
(* client, also when plans change between the list and the summary.        *)
ClientSeesApprovedPlans ==
  \A x \in Reads :
    InStage(x, "shown") /\ read[x].kind = "client" => read[x].summary.approved

=============================================================================
