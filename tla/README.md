# Heritage Philippines V3: a TLA+ verification project

TLA+ modules, TLC runs and TLAPS proofs about the transactional core of the
operations platform in `src/apps/web`: the conversion of leads to clients, the
proposal a client answers, the booking made from it, the booking's money and
its reports, the portal invitation that becomes a client account, staff accounts
and what assignments let them do, and the admin panels all of it is used from.
Every definition is translated from the TypeScript services, their
repositories, the admin forms and the Prisma schema; `PROJECT.json` maps each
one to its lines.

## 1. The system

A Next.js application. Route handlers parse a request and call one *service*
function per operation; a service runs its reads, checks and writes in one
PostgreSQL transaction through a *repository*. All state that matters is in the
database. Two mechanisms recur:

- **`runSerializableWithRetry`** (`lib/serializable-transaction.ts`) runs a
  transaction at SERIALIZABLE and tries again, up to `MAX_SERIALIZABLE_RETRIES`
  = 3 times, on a serialization failure. A handler that does everything inside
  is one step of the models. A handler that reads or calls something *outside*
  its transaction is several steps, and that is where the interesting
  behaviour is.
- **Idempotency keys**, random UUIDs made by a form or click, unique columns in
  the database. A handler first looks its key up and answers a repeated request
  from the stored row.

### Inventory

| Component | State | Operations | Hard behaviour | What makes it correct |
|---|---|---|---|---|
| Payment plans (`features/payments`) | `Booking.totalAmount/currencyCode`, `PaymentPlan`, `Installment` | set financials, propose, approve, withdraw | totals checked against rows other requests change | one active plan; an approved plan adds up to the total, for ever |
| Payment ledger (`features/payments`) | `Payment`, its status history, refunds, allocations, reversals, receipts | record, confirm, reverse, refund, receipt, allocate, reverse allocation | sums over rows of four tables; refunds that reopen allocations; a reversed payment that silently frees capacity | D-054 section 17: nothing refunded, allocated or owed twice |
| Payment requests (`payments/[bookingId]/_components`) | the form's key, requests in flight | submit, edit, retry | lost answers, duplicates, serialization conflicts | applied once; retries told the truth |
| Payment reads and exports (`features/payments`) | none; an export leaves an audit entry | staff and client summaries, client list, six export datasets | several statements, in a transaction or not; the reader's access changes meanwhile | a sound ledger is never refused as corrupt; a file agrees with its entry; nothing due means nothing owed |
| Leads (`features/leads`) | `Lead`, status history, conversion audit | create with duplicate search, edit, move, convert | `updateLead` reads before its transaction; creation has no key | conversion final, unique, replayable; contact details kept; duplicates announced |
| Clients (`features/clients`) | `Client` | edit | shared contact details | at least one contact value |
| Assignments (`features/assignments`) | active assignment per entity and role | set, end | accounts change while one is assigned; authorization ends while a request runs | one assignee per post; no write by somebody unassigned |
| Portal invitations (`features/invitations`) | `PortalInvitation` | prepare, send, resend, confirm manual send, revoke, provider webhooks | no transaction across the provider call; late, repeated, reordered webhooks and clicks | the delivery evidence belongs to the link it is shown for |
| Activation (`features/activation`) | `User`, `ClientProfile` | continue, activate | races with resend, revoke, expiry and other clients | one-time links; accounts match the redeemed link |
| Activation rate limit | window counters | hit, clean up | window boundaries; checks that wait; a cleanup meanwhile | never more than twice the limit in a window's time |
| Proposals (`features/proposals`) | `Proposal`, `ProposalVersion`, `ProposalAcceptance` | create, revise, publish, record a response, respond in the portal | pages and forms older than the version they act on; racing publications and responses | publications and responses concern the version their author saw |
| Bookings (`features/bookings`) | `Booking`, status history | create from an accepted version, change status | duplicate creation, re-read outside the transaction after a unique violation | one booking per accepted version; everybody is told the same one |
| Staff, sessions (`features/staff`, `lib/auth`) | user, session | create, change role, deactivate, reactivate, sign in and out | two administrators at once; a sign-in racing a deactivation | an administrator always remains; a deactivated account has no session (it may: finding 3) |
| Conversations (`features/conversations`) | conversation, participants, messages | open, list, read, reply | participation and assignment are two records; authorization outside any transaction | staff who see a conversation may answer it, and clients too (they may not: finding 4) |
| Admin panels (`app/admin/**/_components`) | form fields, baselines, confirmed copies, locks | edit, assign, move, convert, publish, book, respond, invite, take in a lead, refresh | lost and late answers; props older than the server; others changing the same row | nothing unseen overwritten, nothing done twice, the refresh it asked for opens what a panel has closed |
| Marketing pages, routes | none | parsing, static content | none | not modelled |

Interactions: cancelling a booking blocks most payment operations on it;
converting a lead creates the client whom proposals and an invitation are made
for; an accepted proposal version is what a booking is made from; an assignment
gates every consultant action and adds conversation participants; account
changes decide who may be assigned and who may sign in; the client's email is
frozen into each link; activation consumes the invitation. Staff actions reach
the services through panels over HTTP, the email provider through an SDK call
and through webhooks.

The hazards this list leads to, each at its line and with the property that
would catch it, are in `PROJECT.json` under `hazards`.

## 2. Modules

```
Totals ── PaymentTables ─┬─ PaymentPlans ──┐
                         └─ PaymentLedger ─┴─ Payments ─┬─ MCPayments
                                                        ├─ PaymentReads ── MCPaymentReads
                                                        ├─ PaymentRequests ── MCPaymentRequests
                                                        └─ PaymentsProofs ─┬─ RequestsProofs
                                                                           └─ ReadsProofs

Leads ─┬─ MCLeads
       └─ LeadsProofs
Proposals ── Bookings ─┬─ MCBookings                       Offers ◁─ Bookings
                       └─ BookingsProofs
PortalInvitation ─┬─ MCPortalInvitation                    OneTimeLink ◁─ PortalInvitation
                  └─ InvitationProofs

StaffAccounts ── Conversations ─┬─ Access ─┬─ MCAccess
RateLimit ──────────────────────┘          └─ AccessProofs

AdminPage ─┬─ EditForms ───────┐
           ├─ LocalCopies ─────┤
           ├─ ActionPanels ────┼─ AdminPanels ─┬─ MCAdminPanels
           ├─ InvitationPanel ─┤               └─ PanelsProofs
           └─ LeadIntake ──────┘
```

(lines are EXTENDS; `RequestsProofs` and `ReadsProofs` also extend
`PaymentRequests` and `PaymentReads`; `Offers ◁─ Bookings` is an INSTANCE and reads "Bookings
implements Offers". `LeadTransitions` belongs to `Leads`, `BookingTransitions` to
`Bookings`, and `LocalCopies` has an INSTANCE of both.)

| Module | Models | Correspondence |
|---|---|---|
| `Totals` | the sums of money columns | `Total(S)` adds the `amount` of a finite set of rows. It counts unit pairs instead of recursing, so that it can be proved about; TLC compares it with the community modules' `MapThenSumSet` (`SumAssumption` in `MCPayments`). |
| `PaymentTables` | the tables and what is derived from them | one variable per table; `FinancialLock`, `NetActive`, `ActiveOn`, `NetContribution` are the repository and `calculations.ts` functions of similar name. |
| `PaymentPlans` | financials and plans | one action per service function; refused and no-op requests change no table and are stuttering steps. |
| `PaymentLedger` | the seven money handlers | one action each. The `...Replay` predicates are the `resolve...Replay` lookups; a handler whose key is taken writes nothing. |
| `Payments` | their composition with booking cancellation | states the money properties. |
| `PaymentReads` | staff and client summaries, the client's list, exports | a read runs one statement at a time; the statements of Prisma's nested reads come in any order their relations allow. An export reads on the snapshot taken by its first statement, rechecks the reader's role and booking assignments there, and leaves an audit entry and a file. |
| `PaymentRequests` | forms, network and retry loop over the ledger | a request is in a form, on its way, running (attempt 1..MaxAttempts), re-reading after a lost insert, or answered; `Commit` is the same ledger action as in `Payments`. |
| `LeadTransitions`, `BookingTransitions` | the two status matrices | shared by the services' modules and by the panels that offer only what a matrix allows. |
| `Leads` | leads, clients, assignments, conversion | `updateLead` is two steps, `LoadLead` (reads and checks before its transaction) and `WriteLead` (the transaction, which reads only the assignment again). Every other handler is one. |
| `PortalInvitation` | invitation row, provider, webhooks, activation | sending is `Reserve` (its transaction), the provider's `Accept`/`Reject` (which the handler may never hear of), then `RecordOutcome`. `Click` makes a request that the server may handle late or again; `fresh` says that the row has not been written since the click, which is what `expectedUpdatedAt` and `expectedCurrentSendOperationId` compare. |
| `OneTimeLink` | what activation promises | abstract specification: a client has at most one live link, dead links stay dead, an account is made at most once and with the live link. |
| `Proposals` | proposals, versions, responses, assignments | a proposal row holds its versions' states by number: `clientVisibleAt` and `supersededAt` make draft, current and superseded. `OpenPage`/`Publish` are the rendered history with its `expectedCurrentVersionId` and the request it sends later; `OpenForm`/`SubmitClientProposalResponse` are My Journey and the server action that keeps the version it was rendered with, whoever is signed in when it runs. |
| `Bookings` | bookings over proposals | `createBooking` is `BeginBooking` or `FindBooking` (the transaction's reads), `InsertBooking` (its write, valid only while those reads hold), `RestartBooking` (a serialization conflict), `LoseRace` (the unique index) and `Reread` (outside any transaction). Answers stay in `request`. |
| `Offers` | what the sales process promises | abstract specification: one standing version per proposal, answered once, never reinstated; booked once and only if accepted. |
| `StaffAccounts` | accounts, sessions, the staff service | a role change or deactivation is `Ask` (the request), `Check` or `Decline` (the transaction's reads and checks) and a `Commit` that is serializable with them, or a `Conflict`; a sign-in is `BeginSignIn` (the `session.create` hook) and `EndSignIn` (the insert), with no lock or transaction that spans the two. |
| `Conversations` | assignments, conversations, participants of one client | `setAssignment` is its reads and its commit, which is serializable with the assignment rows it read but not with the account (see below); creating a conversation is the separate statements it is. `Visible`, `MayReply` and their client counterparts are the list's and the reply's own queries. |
| `RateLimit` | the activation routes' buckets | a check takes the time and increments the count of that window later; some checks then clean up. Both routes check the shared unknown source before their token. |
| `Access` | the three together | `part` chooses which of them a behaviour explores; accounts change in all but the gate. |
| `AdminPage` | fetch, `router.refresh`, other people | `row` is the record on the server with the version of its last change, `props` what the page was rendered from. A request is served at some time or never and answered once or never; a page read may be slow, its render comes later. |
| `EditForms` | `EditClientForm`, `EditLeadForm` | `fields`, `baseline`, `token` and `lock` are the components' state; the handlers' optimistic check is `updateClient`'s, and the lead form's want of one `updateLead`'s. |
| `LocalCopies` | the status panels and the assignment panels | `copy` is the confirmed result that a panel shows until the page catches up; `lastProp` and `left` are the two guards that decide when it does. `Select...` and `Submit...` are separate events: `selected` is kept while the page moves on under it, and is sent with the status shown then. |
| `ActionPanels` | convert, publish, book, respond, propose, revise | each with the aim it sends, the handler's answer to a repetition, and the message the panel shows (`told`). |
| `InvitationPanel` | `PortalInvitationPanel` | the displayed copy, the key of the last adopted prop, the lock of the resend, the one-time link on show, and whether an error is: the button that lifts the lock is part of the error. |
| `LeadIntake` | `NewLeadForm` over `createLead` | `findDuplicateMatches` is its statements: leads, clients, and the reader's access to each match. |
| `AdminPanels` | one page with one panel | `kind` chooses the panel; states the fairness. |

Data is abstracted to what the properties tell apart: ids, addresses, keys and
currencies are model values; money is in the currency's smallest unit; an
expiry is membership in `expired`; a provider message is named by the token it
carried; `updatedAt` is the number of the change. Keys and UUIDs are never
reused, as `crypto.randomUUID` promises.

A SERIALIZABLE transaction that is split in two steps (its reads and its
commit) keeps what it read and may commit only as if it had run at that moment
(`SameRows`, `Serializable` in the modules): the database aborts it otherwise and
the retry loop starts it again. PostgreSQL does so for a *cycle* of
dependencies. Where the other transaction reads nothing this one writes, there
is no cycle, and both commit: a deactivation does not abort an assignment that
had found the account eligible, and `WriteAssignment` does not ask again. What a transaction reads and writes in *one*
step of a model is the same abstraction. Read Committed statements, Better
Auth's and the conversation service's, get no such protection in the models.

## 3. Runs

Twelve runs: eight pass, four show a disagreement with the documents.

| Run | Question | Instance, and why it is enough | Shows |
|---|---|---|---|
| `payments` | do the money rules of D-054, plans, receipts and cancellation survive any sequence of handlers? | 2 bookings, 2 plans of up to 2 installments, 2 payments of 1 or 2 units, 5 status keys, 2 refunds, 3 allocations, 1 reversal, 2 currencies, in the two corners of `Small`. One booking and one installment (`OneBooking`): two payments compete for it, an allocation can be reversed and made again, refunds can be partial, linked or complete, and the status keys let one payment reach REFUNDED or REVERSED while the other is confirmed. One payment (`OnePayment`): a plan withdrawn and replaced, one booking cancelled while the other goes on, a financial lock of two tables. The code accepts one currency (PHP); the second stands for the list growing. 400 thousand states | `RefundsWithinPayment`, `AllocationsCovered`, `InstallmentsNotOverpaid`, `LinkedRefundsWithinAllocation`, `ApprovedPlanReconciles`, `ReceiptsMatchBooking`, `AllocationsOnApprovedPlan`, `CancelledOnlyPaysOut` |
| `payment_requests` | are operations applied once and retries told the truth? | 2 forms, 2 keys, 3 requests, up to 2 attempts (the code allows 3), record, confirm and refund: one operation can be in two requests while the other form moves the payment on. 328 thousand states | `AppliedOnce`, `ToldMeansApplied`, `NeverRefusedOnceApplied`, liveness `FormsAnswered` |
| `payment_reads` | what can a reader of a changing ledger be told? | 1 booking with 1 plan, 1 payment, 2 allocations, 1 refund, 1 reversal; one read, with at most `MaxMoves` = 2 commits while it is under way, and exports of at most `RowLimit` = 1 row, so that the limit is met: two commits are enough to undo and redo anything between two statements. 1.06 million states | `ExportMeetsNoCorruption`, `NothingDueMeansNothingOwed`, `FilesMatchEntries`, `ClientSeesApprovedPlans` |
| `leads` | is conversion replayable, and does it reuse clients? | 2 leads, 2 clients, 2 consultants and a manager, 1 address and 1 number to collide on, 1 edit in flight. 190 thousand states | `ConversionReplayable`, `NoDuplicateClient` |
| `leads_contact` | does a lead keep a contact value? | 1 lead, 2 edits in flight | violated: finding 1 |
| `invitation` | is the row always truthful, does it implement `OneTimeLink`, and do clients who share an address get separate accounts? | 2 clients, 2 addresses, 3 links: three clicks when one client is invited (a send, a resend and a confirmation or third link, each of whose outcomes and webhooks may come late), one each when both are. 244 thousand states | `RowsPassChecks`, `EvidenceIsCurrent`, `RotatesOnce`, `AccountsMatch`, `NoRegression`, refinement `LinksAreOneTime` |
| `invitation_manual` | was every verified address really emailed the link that was redeemed? | 1 client, 3 clicks, 2 links | violated: finding 2 |
| `sales` | does everybody act on the version they saw, do concurrent requests make one booking, and is the promise to the client kept? | 1 proposal of 2 versions on 2 pages of different age, 2 clients with a form each, 2 consultants, accept or decline, 2 bookings, 2 requests: two publications, a response to a version being replaced, a hand-over in between, two racing bookings. 171 thousand states | `PublicationsAreInformed`, `ResponsesAreInformed`, `BookingsMatchAcceptances`, `AnswersNeedAccess`, refinement `SalesKeepOffers` |
| `admin_panels` | what do panels do with lost, late and stale answers? | one page with one panel of each kind; 2 requests and 2 changes of the record, by the panel, by a request it has given up on, or by others: a request lost and sent again, with somebody else's change before, between or after. 881 thousand states | `DoneOnceAndTrulyTold`, `OverwritesOnlyWhatWasSeen`, `SavesOnlyWhatWasTyped`, `OwnResultSurvives`, liveness `RefreshLiftsConflict`, `RefreshReopens` |
| `access` | who may act, at any moment? | 3 accounts of any role with 2 requests about them; 1 client, 2 assignments under way, 1 conversation; 2 activation requests against limits of 1 in windows of 1 and 2 ticks, with delays of up to 1. 287 thousand states | `AdministratorRemains`, `ReplyAndReadAgree`, `NeverMoreThanTwice` |
| `deactivation` | does a deactivated account have no session? | 2 accounts, 1 request | violated: finding 3 |
| `conversation_answers` | may a client answer what the client sees? | as `access`, 1 request each | violated: finding 4 |

**Bounds.** Every counter of the models is the size of a constant set (keys,
requests, tokens, payments, plans, calls, moves, visits) except: the attempt
count (`MaxAttempts`), the versions of a proposal (`MaxVersions`), the changes
of a panel's record (`MaxVersion`), the commits during a read (`MaxMoves`) and
the clock of the rate limit (`MaxTime`, `MaxDelay`, `Retention`). Five runs
have state constraints. `Small` keeps `payments` in one of its two corners, and has
a request use the least of its fresh keys or ids (`InOrder`), as the others
behave alike; the view `WithoutWithdrawn` leaves out the installments of
withdrawn plans, which nothing reads. `Bounded` limits the clicks of `invitation` as the
table says, lets one link expire, and invites the second client beside a link
of the first. `OneClientBooks` ends, in `sales`, the assignments of the client
who has no proposal when a booking is asked for: no later step reads them.
`UntilTheLastRead` stops `payment_reads` when its read is over: its
properties speak of reads only. `ApartFromFinance` keeps the finance post of a
booking out of behaviours in which a conversation is opened, because nothing of
a conversation reads it, and `MostAreActive` has at most one of the three
accounts missing or inactive beside a conversation. The view `LastWindows` of
the same run leaves out of a state the counts and passes of windows so old that
no check to come can share an interval with them. In `LeadIntake` the last version is left to a lead,
and what the search of an abandoned request has found is forgotten, since
nobody will be told. Fields of a form and contact details of a new lead are
interchangeable, so the initial states name one of them.

Bounded sets of keys and requests run out, so the payment, panel and access
runs do not check deadlock: there it would only mean that the instance is used
up. `Leads`, `Bookings` and `PortalInvitation` are checked for deadlock.
Symmetry is used only for constants that no `CHOOSE` and no definition tells
apart (the one row that `FindFirst` chooses from is at most one, and proved to
be: `AtMostOneAssigned`), and never in a run with a liveness property.

**Mutants.** Each property of a passing run has a variant of some definition that a
plausible bug would produce (a forgotten check, a column not reset, a check of
only part of the lock), written beside the definition it varies; with it the
same run finds the property violated.

### Fairness

`PaymentRequests`: weak fairness of each request's handler, because the server
finishes what it runs, in at most `MaxAttempts` attempts, the loop's bound.
Weak fairness of the answer *or its loss*: a `fetch` ends one way or the other,
and both reach the form (`sendJson` turns a rejection into a failure). The
network may lose every answer. Users owe nothing, they may never retry.

`AdminPanels`: weak fairness of `ReadPage`, and of `RenderForm`, `RenderPanel` and
`RenderInvitation`. A refresh that `router.refresh()` was asked for is read and
rendered by Next.js and React, which need nobody else. Neither requests nor
their answers are assumed, so `RefreshLiftsConflict` says that the refresh alone
unlocks a form, and `RefreshReopens` that the refresh a panel asked for with its
own success, or by its button, opens the control it had closed. `RefreshReopens`
excepts a refresh that has nothing new to show (`NothingNew`); what that leaves
out is listed below.

The other modules state safety only: what else should happen waits for people.

### Findings

1. **A lead can lose both contact values** (`leads_contact`,
   `features/leads/service.ts:360`). `updateLead` checks email and phone on a row
   it read before its transaction; two edits that each clear one both pass.
   `updateClient` makes the same check inside its transaction. The status is
   read in the same early read, so an edit loaded before a conversion is
   written after it; it never undoes the conversion (`ConversionReplayable`).
2. **A manually confirmed address may not have received the redeemed link**
   (`invitation_manual`, `features/invitations/service.ts:488`; D-034 section 7).
   `confirmManualSend` confirms whatever link the row holds. If another click
   replaced the link between emailing it and confirming, the new link is
   confirmed, and redeeming it sets `emailVerified`.
3. **A deactivated account can have a session** (`deactivation`,
   `lib/auth/auth.ts:71`; `features/staff/service.ts:244-247`). The hook that checks
   `isActive` and the insert of the session are separate statements, and a
   deactivation that runs in between deletes only the sessions there are. The
   guards look at session and role and never at `isActive`, so the session is
   admitted; deactivating once more returns early and does not end it.
4. **A client may see a conversation and never answer it**
   (`conversation_answers`, `features/conversations/service.ts:95`; D-051
   section 7). The client participant is added only if the client has an account
   when the conversation is opened, and nothing adds one later, while the list
   shows every conversation of the client.

Two more disagreements are recorded in the hazards' notes and are what
`NothingNew` excepts in `RefreshReopens`:

- `PortalInvitationPanel.tsx:288-293` promises that the resend unlocks once its
  button was clicked and a row came that differs from the rejected one. When the
  fresh row had come before the click, as another panel's success brings it, or
  the next action has put the error and its button away, it stays locked until a
  reload.
- `BookingStatusTransitionPanel.tsx:123-131` says that the guard "never
  permanently blocks further transitions". Once the booking is back at the
  status the panel left (visa to documents), or a kept choice was the current
  status already and is answered as done, the page's status equals `left`, and
  the panel is disabled until a reload or until others move the booking.

Behaviours recorded there that contradict no document: an error
answered to a resend can be overtaken by the late commit of the abandoned first
request (the key lets a further retry learn the truth), and a page reload
forgets the key; a summary read between two commits can show a negative
unapplied credit for one rendering; two creations of the same lead at once, or a
retried one, may both succeed (the second of the latter is announced); the
invitation panel keeps a dead one-time link on show; a status panel submits an
earlier choice with the status shown since, and leaves it to the server whether
the two go together; an assignment can commit after its assignee was
deactivated or changed roles.

## 4. Proofs

TLAPS proves these for every value of the constants. Plans, payments, bookings,
keys, users, clients, tokens, clicks and requests may be infinitely many. What
is assumed of the constants, and nothing else, is named in the module that
declares them, and TLC evaluates it in the runs:

| Assumption | Why the code justifies it |
|---|---|
| `PaymentTables`: `AmountsAssumption`, `SeqsAssumption`, `NoneAssumption` | the schemas accept positive amounts in smallest units; a plan has finitely many installments; NULL is no id |
| `PaymentRequests`: `MaxAttemptsAssumption`, `OperationsAssumption`, `KeysAssumption` | the retry loop runs at least once; a form acts on a row it was rendered from, with an amount its schema accepts; every form generates its key by the same `crypto.randomUUID` |
| `Leads`: `RolesAssumption`, `NoneIsNoValue`, `NoAddressIsCalledNone` | a user has one role; NULL is neither an id nor a value; the code "NONE" by which the models say "no row" is no address |
| `Proposals`, `Bookings`: `RolesAssumption`, `VersionsAssumption`, `TargetsAssumption`, `NoneIsNoBooking` | one role per user; versions are numbered from 1; the targets of a transition are statuses; NULL is no booking |
| `PortalInvitation`: `TerminalAssumption`, `NoneIsNoId`, `NoneIsNoChannel` | the final webhook events are among the schema's states; NULL is no id, address or delivery method |
| `StaffAccounts`, `Conversations`: `AccountsAssumption`, `PostsAssumption` | the roles include those the code names; NULL is no role |
| `RateLimit`: `LimitsAssumption`, `RetentionAssumption` | limits, windows and the retention are positive constants of the file; rows are kept 24 hours, and a check of a window of at most one hour reaches its upsert within the other 23 |
| `PaymentReads`: `ReadsAssumption` | the bounds of the models are numbers |
| `AdminPage`, `EditForms`, `ActionPanels`: `NoneIsNoCall`, `NoneIsNoForm`, `NoneIsNoAim` | null is no request, no panel and nothing a panel asks for |

| Theorem | Says |
|---|---|
| `PaymentsProofs!TypeCorrect` | `Spec => []TypeOK` |
| `AtMostOneActivePlan`, `ApprovedPlansReconcile`, `ReceiptsStayTrue` | the plan and receipt invariants |
| `CancelledBookingsOnlyPayOut` | the action property `CancelledOnlyPaysOut` |
| `LedgerInvariant` | the inductive invariant of the ledger |
| `RefundsNeverExceedPayment`, `AllocationsStayCovered`, `InstallmentsNeverOverpaid`, `LinkedRefundsStayWithin`, `AllocationsStayOnApprovedPlan` | the money rules |
| `AccessProofs!AccessInvariant` | the inductive invariant of accounts, assignments and conversations |
| `AdministratorAlwaysRemains`, `RepliesMatchLists` | `AdministratorRemains` and `ReplyAndReadAgree` |
| `LimitHolds` | `NeverMoreThanTwice` |
| `LeadsProofs!LeadsInvariant`, `ConversionsStayReplayable` | `ConversionReplayable`, from the inductive invariant of leads and edits |
| `ConversionsFinal` | no step takes a conversion back or gives it to another client |
| `NoDuplicateClients` | the action property `NoDuplicateClient` |
| `BookingsProofs!SalesInvariant`, `BookingsMatch` | `BookingsMatchAcceptances`, from the inductive invariant of the sales process |
| `Publications`, `Responses`, `AnswersKeepScope` | the action properties `PublicationsAreInformed`, `ResponsesAreInformed`, `AnswersNeedAccess` |
| `SalesImplementOffers` | `Proposals` with `Bookings` implements `Offers` |
| `InvitationProofs!InvitationInvariant` | the inductive invariant of rows, clicks, links, mail and accounts |
| `RowsAreWritable`, `Evidence`, `Rotations`, `Accounts` | `RowsPassChecks`, `EvidenceIsCurrent`, `RotatesOnce`, `AccountsMatch` |
| `FinalWordsStand` | the action property `NoRegression` |
| `InvitationsImplementLinks` | `PortalInvitation` implements `OneTimeLink` |
| `RequestsProofs!RequestsInvariant`, `OperationsAppliedOnce`, `ToldIsApplied` | `AppliedOnce`, `ToldMeansApplied` |
| `RequestsKeepLedger`, `RequestsKeepLedgerInv` | `PaymentRequests` implements `Payments`, so the money rules hold behind the requests |
| `AnswersAlike`, `AppliedIsNotRefused` | all answers to one operation name one payment; the action property `NeverRefusedOnceApplied` |
| `ReadsProofs!ReadsInvariant`, `ExportsAreSound`, `NothingDueIsPaid` | the inductive invariant of the reads; `ExportMeetsNoCorruption`, `NothingDueMeansNothingOwed` |
| `FilesAreAudited`, `ClientsSeeApproved` | `FilesMatchEntries`, `ClientSeesApprovedPlans` |
| `ReadsKeepLedger` | `PaymentReads` implements `Payments` |
| `PanelsProofs!PanelsInvariant`, `ActionsAreDoneOnce` | `DoneOnceAndTrulyTold`, from the inductive invariant of the page and its panel |
| `SavesOverwriteTheSeen`, `SavesAreTyped` | the action properties of the forms, `OverwritesOnlyWhatWasSeen` and `SavesOnlyWhatWasTyped` |
| `OwnResultsStay` | the action property `OwnResultSurvives` |

**Payments.** `PlanInv` joins type correctness with the three plan and receipt
invariants. A total can only change while no plan is active and no payment
exists, so it cannot change under an approved plan or an issued receipt.

The money rules are not inductive one by one. A refund is safe for rule 2
because the allocation it reopens belongs to the same payment and its linked
refunds stay within it; reversing a payment is safe because nothing was
refunded; confirming one is safe for rule 5 only because pending payments have
no allocations, so nothing starts to count. `LedgerInv` therefore joins the money
rules with `RowsSound`: allocation keys and installment numbers identify their
rows, allocations belong to payments past PENDING, refunds and reversals refer to
allocations that exist. `Net(R, A)` writes "what a set of allocations holds" as
a function of the refunds and the allocations, and six lemmas say how it changes
when a refund, an allocation or a reversal is added. The step proof then has one
lemma per handler.

The type invariant carries the finiteness of the tables (of `refunds`,
`allocations` and each plan's installments): sums of infinite sets mean nothing,
and each handler adds one row. `TotalAdd` and the lemmas beside it say what a
row more or less does to a sum.

**Access.** `AccessInv` joins the types with `AdministratorRemains` and
`AtMostOneAssigned` (a post has one active assignee). That an administrator
remains follows because a commit is serializable with its count: of two
administrators who demote each other, the second to commit counts one too few.
`RepliesMatchLists` needs `AtMostOneAssigned`: the reply asks for the first
active row of the client's assignment, the list for any.

**Rate limit.** What passes is within the limit in each window (`Counted`),
because a check only passes with a count the row has after it. That needs the
row to have counted all that passed before, which is false once it was cleaned
up; but a row is only deleted when every check of its window has been counted
(`ClockNear`, `RetentionAssumption`). An interval of a window's length meets two
windows at most (`SameOrNext`), hence twice the limit.

**Requests.** `RequestsInv` says that every success a handler has answered, and
every one a form was told, is in the ledger with the payment it names
(`OutcomeIs`). It holds because no ledger step takes anything back: history and
refunds only grow and a payment keeps its booking and amount (`LedgerGrows`).
`AppliedOnce` is about the ledger alone: a handler whose key is taken writes
nothing. It gives `AnswersAlike`, for with one row per key a replay can only
find the row the first handler wrote. `RequestsKeepLedger` is a refinement by
inclusion: every step of the requests is a ledger step or leaves the tables
alone, so every theorem of the ledger transfers.

**Reads.** `BooksInv` adds to `PlanInv` and `LedgerInv` what the figures need:
finitely many payments are recorded, and every row's booking has a currency. An
export computes its figures from a snapshot, with the repository's own sums.
The proof shows them equal to the quantities of the ledger's rules, and then the
integrity checks are those rules, except one: that allocations hold no more than
the payments contribute is a sum over payments, and that nothing remains where
every installment is settled is a sum over installments. `SetInduction` proves
both. It is induction over a finite set stated for membership in a family of sets,
which needs no operator parameter, from the well-foundedness of the strict
subset relation. `ReadsInv` says what a read knows at each stage. A page has no
snapshot, so of the client's page only what cannot change is known: an approved
plan stays one. `ReadsKeepLedger` says that reading writes nothing.

**Leads.** `LeadsInv` joins the types with `ConversionReplayable` and
`EditsOfLeads` (an edit that has read its lead is of one that exists). The
interesting step is `WriteLead`, which writes what `LoadLead` checked earlier:
it touches contact columns and the status the matrix allowed then, which is
never the converted one. `ConversionsFinal` follows without another invariant:
audit entries are only added, and the replay needs exactly one of them.

**Sales.** `SalesInv` says what pages, forms and requests know and cannot
unlearn: the versions they show exist (`PagesShowVersions`, `FormsShowOwn`), a
version a request books was accepted (`RequestsAccepted`), at most one version
of a proposal stands (`OneOffer`) and it is answered once (`OneResponse`). That a
version is booked once comes from the unique index, which is the guard of
`InsertBooking`; that the booking is the accepting client's from `RequestsAccepted`.
The refinement maps a step to one of `Offers` by its effect on the rows
(`SalesStepKinds`): a publication, a response, an inserted booking, or nothing.

**Invitations.** The properties are not inductive: what protects the evidence of
a row is that its link, its message and its operation were made for one another
(`RowsHold`), and what protects a link from being rotated twice is that the
click behind every link ever made is spent (`TokensSpent`). `TokensIssued` and
`MailTaken` say that only links that exist are mailed or expire, and that a
webhook is about mail that was taken. Most handlers change no link: they are
`Quiet`, and the proofs of `NoRegression` and of `OneTimeLink` need only look at
them once. The other steps are the reservation of a new link, a revocation, an
expiry and an activation, one action of `OneTimeLink` each.

**Panels.** A page has one panel, so `PanelsInv` is one invariant for each of three
kinds, about what requests on their way and answers not yet shown know of the record.

- *Forms* (`FormInv`): what a form has seen (its baseline, its props, a request's
  token, an answer's row) is the record itself, or its version is lower than the
  record's (`SeenAs`). So a save that finds its token current overwrites what was
  seen. The patch names only fields that were typed in, and `Merged` keeps the
  others; that needs no token and holds for leads too.
- *Copies and invitations* need none: `OwnResultSurvives` holds of every single step.
- *Actions* (`ActionInv`): a success a request was answered with is what was
  done, and but for a conversion also what was asked for. It stays true because
  what was done is never undone or done again (`Once`), whoever did it. A
  conversion may be answered with another client than asked for (its message
  names the answer's), which is why the two cases are told apart.
- *Intake* (`IntakeInv`): somebody who has matched since the request was sent is
  among those found once the search has looked through their type (`Noticed`),
  as ids are unique and types never change. After the check of the user's access
  all of them are named, or the search says that some are not. The new lead's id
  is above every id the search can know, so it is never its own duplicate.

**Only model-checked:** liveness (`FormsAnswered`, `RefreshLiftsConflict`,
`RefreshReopens`), which
with `ENABLED` is outside the prover's reach.

## 5. Not modelled

- *Who may act on payments* (actor scoping of bookings, Finance and consultant
  roles, except at an export). It only refuses requests.
- *Due dates and date filters, CSV encoding, the export route's origin check*: a
  filter chooses rows and changes no figure.
- *The duplicate search of an edit*, which warns like the one of a creation;
  *names, notes and audit rows* that no handler reads.
- *The contents of messages*: sending one changes neither who may read nor who
  may answer.
- *Webhook signature checks, token generation, password hashing, Better Auth.*
  Tokens are unique and a handler knows one or does not.
- *`INVITATION_EXPIRED`*: declared in the schema and never written; expiry is
  the date checked by `isEligible`, the set `expired`.
- *Proposal contents, response methods and evidence, a manager's proposal pages,
  booking references and descriptive fields*: no check reads them. A response is
  only refused, never changed, by the checks made before its transaction, all of
  which the transaction repeats.
- *Labels, field messages and focus of the panels*, and the payment panels other
  than the forms of `PaymentRequests`, which submit the same way.
- *Regional tours, marketing pages, HTTP routes and page rendering*: static
  content, parsing and markup.

## 6. Plan

Every safety property and action property of the passing runs is proved. What is
left is **composition**: conversations with activation, so that the account a
participant needs is the one `PortalInvitation` makes, and the panels over the
services' own modules instead of their summaries in `ActionPanels` and
`InvitationPanel`.

## 7. Running

In this directory: `tlc -config MCLeads.cfg MCLeads` (likewise the other
configurations, each for the module named in `PROJECT.json`), and
`tlapm PaymentsProofs.tla`, `tlapm AccessProofs.tla`, `tlapm LeadsProofs.tla`,
`tlapm BookingsProofs.tla`, `tlapm InvitationProofs.tla`,
`tlapm RequestsProofs.tla`, `tlapm ReadsProofs.tla`, `tlapm PanelsProofs.tla`.
