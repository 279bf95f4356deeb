--------------------------- MODULE InvitationProofs ---------------------------
(***************************************************************************)
(* What module PortalInvitation promises, proved for every set of clients, *)
(* clicks, links and addresses.                                            *)
(***************************************************************************)
EXTENDS PortalInvitation, TLAPS

(* The CHECK constraints on one row: the body of RowsPassChecks. *)
RowPasses(r) ==
  /\ (r.token = None) = (r.to = None)
  /\ r.status \in Redeemable \cup {"ACCOUNT_ACTIVATED"} => r.token # None
  /\ (r.method = None) = (r.state = "NOT_ATTEMPTED")
  /\ (r.op = None) = (r.state = "NOT_ATTEMPTED")
  /\ r.state \in TerminalStates \cup {"AUTOMATED_UNCONFIRMED", "AUTOMATED_ACCEPTED"}
       => r.method = "AUTOMATED_EMAIL"
  /\ r.message # None => r.method = "AUTOMATED_EMAIL"
  /\ r.state \in (TerminalStates \ {"PROVIDER_FAILED"}) \cup {"AUTOMATED_ACCEPTED"}
       => r.message # None
  /\ r.confirmed = (r.state = "MANUALLY_CONFIRMED")
  /\ r.state = "MANUALLY_CONFIRMED" => r.method = "MANUAL_EMAIL"

(* What client c's row says of its link, its message and its operation is  *)
(* what was made for c: the link by the operation, the message of the link.*)
HoldsToken(c, r) ==
  r.token # None =>
    /\ token[r.token] # NoToken
    /\ token[r.token].client = c /\ token[r.token].to = r.to
    /\ r.method = "AUTOMATED_EMAIL" => token[r.token].by = r.op
HoldsMessage(c, r) ==
  r.message # None =>
    /\ r.message \in emailed
    /\ token[r.message].client = c /\ token[r.message].by = r.op
    /\ r.token # None => r.message = r.token
HoldsOperation(c, r) ==
  r.op # None =>
    /\ request[r.op].client = c
    /\ r.method = "MANUAL_EMAIL" => request[r.op].kind = "confirm"
Holds(c, r) == HoldsToken(c, r) /\ HoldsMessage(c, r) /\ HoldsOperation(c, r)
RowsHold == \A c \in Clients : Holds(c, inv[c])

(* The click behind a link is spent: it cannot rotate the link again. *)
Early == {"NONE", "INVITATION_PREPARED"}
TokensSpent ==
  \A t \in Tokens : token[t] # NoToken =>
    /\ request[token[t].by].kind \in {"send", "resend"} /\ ~request[token[t].by].fresh
    /\ request[token[t].by].client = token[t].client
    /\ inv[token[t].client].status \notin Early

(* Only links that were made are mailed, taken by the provider or expire.  *)
TokensIssued ==
  \A t \in Tokens : mail[t] # "none" \/ t \in emailed \cup expired => token[t] # NoToken
MailTaken == \A t \in Tokens : mail[t] = "accepted" => t \in emailed

InvitationInv ==
  /\ TypeOK
  /\ RowsPassChecks /\ RowsHold
  /\ TokensSpent /\ RotatesOnce
  /\ TokensIssued /\ MailTaken
  /\ AccountsMatch

(* What no step takes back: links keep their click, channel and address,   *)
(* clicks their kind and client, and what was emailed stays emailed.       *)
RequestsKept ==
  \A q \in Requests : request[q] # NoRequest =>
    /\ request'[q].kind = request[q].kind /\ request'[q].client = request[q].client
    /\ request'[q].fresh => request[q].fresh
TokensKept == \A t \in Tokens : token[t] # NoToken => token'[t] = token[t]
-----------------------------------------------------------------------------
(* Rows, links and clicks that exist have values in all their columns. *)
LEMMA TokenInUse ==
  ASSUME TypeOK, NEW t \in Tokens, token[t] # NoToken
  PROVE  /\ token[t].client \in Clients /\ token[t].by \in Requests
         /\ token[t].channel \in Channel /\ token[t].to \in Emails
         /\ token[t] \in [client : Clients, by : Requests, channel : Channel, to : Emails]
BY DEF TypeOK

LEMMA RequestInUse ==
  ASSUME TypeOK, NEW q \in Requests, request[q] # NoRequest
  PROVE  /\ request[q].kind \in {"send", "resend", "confirm"} /\ request[q].client \in Clients
         /\ request[q].channel \in Channel /\ request[q].fresh \in BOOLEAN
         /\ request[q] = [kind |-> request[q].kind, client |-> request[q].client,
                          channel |-> request[q].channel, fresh |-> request[q].fresh]
BY DEF TypeOK

(* A click of somebody, or of a kind, is a click. *)
LEMMA RequestOf ==
  ASSUME NEW q \in Requests,
         request[q].client \in Clients \/ request[q].kind \in {"send", "resend", "confirm"}
  PROVE  request[q] # NoRequest
BY NoneIsNoId DEF NoRequest

LEMMA RowTypes ==
  ASSUME TypeOK, NEW c \in Clients
  PROVE  /\ inv[c].status \in Status \cup {"NONE"}
         /\ inv[c].token \in Tokens \cup {None} /\ inv[c].to \in Emails \cup {None}
         /\ inv[c].method \in Channel \cup {None} /\ inv[c].state \in State
         /\ inv[c].op \in Requests \cup {None} /\ inv[c].message \in Tokens \cup {None}
         /\ inv[c].confirmed \in BOOLEAN
         /\ inv[c].status # "NONE" => inv[c] \in Row
<1>1. CASE inv[c] = NoRow
  <2>1. /\ NoRow.status = "NONE" /\ NoRow.token = None /\ NoRow.to = None
        /\ NoRow.method = None /\ NoRow.state = "NOT_ATTEMPTED"
        /\ NoRow.op = None /\ NoRow.message = None /\ NoRow.confirmed = FALSE
    BY DEF NoRow, Prepared
  <2>2. QED
    BY <1>1, <2>1 DEF State
<1>2. CASE inv[c] \in Row
  BY <1>2 DEF Row
<1>3. QED
  BY <1>1, <1>2 DEF TypeOK

(* A write of one client's row spends every click made on it. *)
LEMMA WriteIs ==
  ASSUME TypeOK, NEW c \in Clients, NEW row \in Row, Write(c, row)
  PROVE  /\ inv' \in [Clients -> Row \cup {NoRow}]
         /\ inv'[c] = row /\ \A d \in Clients \ {c} : inv'[d] = inv[d]
         /\ request' \in [Requests -> [kind : {"send", "resend", "confirm"}, client : Clients,
                                       channel : Channel, fresh : BOOLEAN] \cup {NoRequest}]
         /\ RequestsKept
         /\ \A q \in Requests : request[q].client = c => ~request'[q].fresh
<1>1. /\ inv' = [inv EXCEPT ![c] = row]
      /\ inv \in [Clients -> Row \cup {NoRow}]
  BY DEF Write, TypeOK
<1>2. ASSUME NEW q \in Requests
      PROVE  /\ request'[q] \in [kind : {"send", "resend", "confirm"}, client : Clients,
                                 channel : Channel, fresh : BOOLEAN] \cup {NoRequest}
             /\ request[q] # NoRequest =>
                  /\ request'[q].kind = request[q].kind /\ request'[q].client = request[q].client
                  /\ request'[q].fresh => request[q].fresh
             /\ request[q].client = c => ~request'[q].fresh
  <2>1. CASE request[q].client = c
    <3>1. request'[q] = [request[q] EXCEPT !.fresh = FALSE]
      BY <2>1 DEF Write
    <3>2. request[q] # NoRequest
      BY <2>1, RequestOf
    <3>3. request'[q] = [kind |-> request[q].kind, client |-> request[q].client,
                         channel |-> request[q].channel, fresh |-> FALSE]
      BY <3>1, <3>2, RequestInUse
    <3>4. /\ request'[q].kind = request[q].kind /\ request'[q].client = request[q].client
          /\ request'[q].fresh = FALSE
      BY <3>3
    <3>5. /\ request[q].kind \in {"send", "resend", "confirm"} /\ request[q].client \in Clients
          /\ request[q].channel \in Channel
      BY <3>2, RequestInUse
    <3>6. request'[q] \in [kind : {"send", "resend", "confirm"}, client : Clients,
                           channel : Channel, fresh : BOOLEAN]
      BY <3>3, <3>5
    <3>7. QED
      BY <3>4, <3>6
  <2>2. CASE request[q].client # c
    <3>1. request'[q] = request[q]
      BY <2>2 DEF Write
    <3>2. request[q] \in [kind : {"send", "resend", "confirm"}, client : Clients,
                          channel : Channel, fresh : BOOLEAN] \cup {NoRequest}
      BY DEF TypeOK
    <3>3. request'[q] \in [kind : {"send", "resend", "confirm"}, client : Clients,
                           channel : Channel, fresh : BOOLEAN] \cup {NoRequest}
      BY <3>1, <3>2
    <3>4. QED
      BY Zenon, <2>2, <3>1, <3>3
  <2>3. QED
    BY <2>1, <2>2
<1>3. request' = [q \in Requests |->
        IF request[q].client = c THEN [request[q] EXCEPT !.fresh = FALSE] ELSE request[q]]
  BY DEF Write
<1>4. QED
  BY <1>1, <1>2, <1>3 DEF RequestsKept

LEMMA RowsPass == RowsPassChecks <=> \A c \in Clients : RowPasses(inv[c])
BY DEF RowsPassChecks, RowPasses

(* What a row says stays true while links, clicks and emails do. *)
LEMMA HoldsStays ==
  ASSUME TypeOK, NEW c \in Clients, NEW r,
         r.token \in Tokens \cup {None}, r.message \in Tokens \cup {None}, r.op \in Requests \cup {None},
         TokensKept, RequestsKept, emailed \subseteq emailed', Holds(c, r)
  PROVE  Holds(c, r)'
<1>1. HoldsToken(c, r)'
  BY DEF Holds, HoldsToken, TokensKept
<1>2. HoldsMessage(c, r)'
  <2>1. CASE r.message # None
    <3>1. r.message \in Tokens /\ token[r.message].client = c
      BY <2>1 DEF Holds, HoldsMessage
    <3>2. token[r.message] # NoToken
      BY <3>1, NoneIsNoId DEF NoToken
    <3>3. QED
      BY <2>1, <3>1, <3>2 DEF Holds, HoldsMessage, TokensKept
  <2>2. QED
    BY <2>1 DEF HoldsMessage
<1>3. HoldsOperation(c, r)'
  <2>1. CASE r.op # None
    <3>1. r.op \in Requests /\ request[r.op].client = c
      BY <2>1 DEF Holds, HoldsOperation
    <3>2. request[r.op] # NoRequest
      BY <3>1, RequestOf
    <3>3. QED
      BY <2>1, <3>1, <3>2 DEF Holds, HoldsOperation, RequestsKept
  <2>2. QED
    BY <2>1 DEF HoldsOperation
<1>4. QED
  BY <1>1, <1>2, <1>3 DEF Holds

(* Links made before stay spent, and no click has two. *)
LEMMA SpentStays ==
  ASSUME TypeOK, TokensSpent, NEW t \in Tokens, token[t] # NoToken, RequestsKept,
         \A c \in Clients : inv'[c].status \in Early => inv[c].status \in Early
  PROVE  /\ request'[token[t].by].kind \in {"send", "resend"} /\ ~request'[token[t].by].fresh
         /\ request'[token[t].by].client = token[t].client
         /\ inv'[token[t].client].status \notin Early
<1>1. token[t].client \in Clients /\ token[t].by \in Requests
  BY TokenInUse
<1>2. /\ request[token[t].by].kind \in {"send", "resend"} /\ ~request[token[t].by].fresh
      /\ request[token[t].by].client = token[t].client
      /\ inv[token[t].client].status \notin Early
  BY DEF TokensSpent
<1>3. request[token[t].by] # NoRequest
  BY <1>1, <1>2, RequestOf
<1>4. /\ request'[token[t].by].kind = request[token[t].by].kind
      /\ request'[token[t].by].client = request[token[t].by].client
      /\ request'[token[t].by].fresh => request[token[t].by].fresh
  BY <1>1, <1>3 DEF RequestsKept
<1>5. QED
  BY <1>1, <1>2, <1>4

(* A step that makes no link. *)
LEMMA NoNewLink ==
  ASSUME TypeOK, TokensSpent, RotatesOnce, UNCHANGED token, RequestsKept,
         \A c \in Clients : inv'[c].status \in Early => inv[c].status \in Early
  PROVE  TokensSpent' /\ RotatesOnce' /\ TokensKept
<1>1. TokensKept
  BY DEF TokensKept
<1>2. RotatesOnce'
  BY DEF RotatesOnce
<1>3. TokensSpent'
  BY SpentStays DEF TokensSpent
<1>4. QED
  BY <1>1, <1>2, <1>3

(* A step that writes one row: the row must pass the checks and say what   *)
(* is true, and everything else is kept.                                   *)
LEMMA RowStep ==
  ASSUME InvitationInv, NEW c \in Clients, NEW row \in Row, Write(c, row),
         RowPasses(row), Holds(c, row),
         row.status \in Early => inv[c].status \in Early,
         UNCHANGED <<email, token, emailed, expired>>,
         account' \in [Clients -> Account \cup {NoAccount}],
         mail' \in [Tokens -> {"none", "calling", "accepted", "rejected", "ended"}],
         \A t \in Tokens : mail'[t] # "none" => mail[t] # "none",
         \A t \in Tokens : mail'[t] = "accepted" => mail[t] = "accepted",
         AccountsMatch'
  PROVE  InvitationInv'
<1>1. /\ TypeOK /\ inv'[c] = row /\ \A d \in Clients \ {c} : inv'[d] = inv[d]
      /\ RequestsKept
  BY WriteIs DEF InvitationInv
<1>2. TypeOK'
  BY WriteIs DEF InvitationInv, TypeOK
<1>3. RowsPassChecks'
  <2>1. \A d \in Clients : RowPasses(inv'[d])
    BY <1>1, RowsPass DEF InvitationInv
  <2>2. QED
    BY <2>1 DEF RowsPassChecks, RowPasses
<1>4. TokensSpent' /\ RotatesOnce' /\ TokensKept
  BY <1>1, NoNewLink DEF InvitationInv
<1>5. RowsHold'
  <2>1. ASSUME NEW d \in Clients
        PROVE  Holds(d, inv[d])'
    <3>1. PICK r : r = inv'[d] /\ Holds(d, r)
      BY <1>1 DEF InvitationInv, RowsHold
    <3>2. /\ r.token \in Tokens \cup {None} /\ r.message \in Tokens \cup {None}
          /\ r.op \in Requests \cup {None}
      BY <1>2, <3>1 DEF TypeOK, Row, NoRow, Prepared
    <3>3. Holds(d, r)'
      BY <1>1, <1>4, <3>1, <3>2, HoldsStays
    <3>4. QED
      BY <3>1, <3>3 DEF Holds, HoldsToken, HoldsMessage, HoldsOperation
  <2>2. QED
    BY <2>1 DEF RowsHold, Holds, HoldsToken, HoldsMessage, HoldsOperation
<1>6. TokensIssued' /\ MailTaken'
  BY DEF InvitationInv, TokensIssued, MailTaken
<1>7. QED
  BY <1>2, <1>3, <1>4, <1>5, <1>6 DEF InvitationInv

(* Accounts and activated rows stay together while neither comes or goes. *)
LEMMA AccountsStay ==
  ASSUME InvitationInv, UNCHANGED account, TokensKept,
         \A c \in Clients :
           /\ (inv'[c].status = "ACCOUNT_ACTIVATED") <=> (inv[c].status = "ACCOUNT_ACTIVATED")
           /\ inv[c].status = "ACCOUNT_ACTIVATED" => inv'[c].token = inv[c].token
  PROVE  AccountsMatch'
<1>1. ASSUME NEW c \in Clients
      PROVE  /\ (account'[c] # NoAccount) = (inv'[c].status = "ACCOUNT_ACTIVATED")
             /\ account'[c] # NoAccount =>
                  /\ account'[c].token = inv'[c].token
                  /\ account'[c].email = token'[inv'[c].token].to
                  /\ \A d \in Clients \ {c} : account'[d].email # account'[c].email
  <2>1. /\ (account[c] # NoAccount) = (inv[c].status = "ACCOUNT_ACTIVATED")
        /\ account[c] # NoAccount =>
             /\ account[c].token = inv[c].token
             /\ account[c].email = token[inv[c].token].to
             /\ \A d \in Clients \ {c} : account[d].email # account[c].email
    BY DEF InvitationInv, AccountsMatch
  <2>2. CASE account[c] # NoAccount
    <3>1. inv[c].status = "ACCOUNT_ACTIVATED" /\ inv'[c].token = inv[c].token
      BY <2>1, <2>2
    <3>2. inv[c].token # None /\ inv[c].token \in Tokens
      BY <3>1, RowTypes DEF InvitationInv, RowsPassChecks
    <3>3. token[inv[c].token] # NoToken
      BY <3>2 DEF InvitationInv, RowsHold, Holds, HoldsToken
    <3>4. token'[inv'[c].token] = token[inv[c].token]
      BY <3>1, <3>2, <3>3 DEF TokensKept
    <3>5. QED
      BY <2>1, <2>2, <3>1, <3>4
  <2>3. CASE account[c] = NoAccount
    BY <2>1, <2>3
  <2>4. QED
    BY <2>2, <2>3
<1>2. QED
  BY <1>1 DEF AccountsMatch
-----------------------------------------------------------------------------
(* The rows the handlers write, column by column. *)
LEMMA ResolvedRow ==
  ASSUME NEW row \in Row, NEW t \in Tokens, NEW taken \in BOOLEAN
  PROVE  LET new == Resolved(row, t, taken) IN
         /\ new \in Row
         /\ new.status = row.status /\ new.token = row.token /\ new.to = row.to
         /\ new.method = row.method /\ new.op = row.op /\ new.confirmed = row.confirmed
         /\ new.state = IF taken THEN "AUTOMATED_ACCEPTED" ELSE "PROVIDER_FAILED"
         /\ new.message = IF taken THEN t ELSE None
BY DEF Resolved, Row, State, TerminalStates

LEMMA ProviderRow ==
  ASSUME NEW row \in Row, NEW t \in Tokens, NEW state \in State
  PROVE  LET new == WithProviderState(row, t, state) IN
         /\ new \in Row
         /\ new.status = row.status /\ new.token = row.token /\ new.to = row.to
         /\ new.method = row.method /\ new.op = row.op /\ new.confirmed = row.confirmed
         /\ new.state = state /\ new.message = t
BY DEF WithProviderState, Row

LEMMA ConfirmedRow ==
  ASSUME NEW row \in Row, NEW q \in Requests
  PROVE  LET new == ManuallyConfirmed(row, q) IN
         /\ new \in Row
         /\ new.status = row.status /\ new.token = row.token /\ new.to = row.to
         /\ new.method = "MANUAL_EMAIL" /\ new.op = q /\ new.confirmed = TRUE
         /\ new.state = "MANUALLY_CONFIRMED" /\ new.message = row.message
BY DEF ManuallyConfirmed, Row, Channel, State

LEMMA RevokedRow ==
  ASSUME NEW row \in Row
  PROVE  LET new == Revoked(row) IN
         /\ new \in Row
         /\ new.status = "INVITATION_REVOKED" /\ new.token = None /\ new.to = None
         /\ new.method = row.method /\ new.op = row.op /\ new.confirmed = row.confirmed
         /\ new.state = row.state /\ new.message = row.message
BY DEF Revoked, Row, Status

LEMMA MovedRow ==
  ASSUME NEW row \in Row, NEW s \in Status
  PROVE  LET new == [row EXCEPT !.status = s] IN
         /\ new \in Row
         /\ new.status = s /\ new.token = row.token /\ new.to = row.to
         /\ new.method = row.method /\ new.op = row.op /\ new.confirmed = row.confirmed
         /\ new.state = row.state /\ new.message = row.message
BY DEF Row

LEMMA ReservedRow ==
  ASSUME NEW row \in Row, NEW q \in Requests, NEW channel \in Channel, NEW t \in Tokens, NEW to \in Emails
  PROVE  LET new == Reserved(row, q, channel, t, to)
             auto == channel = "AUTOMATED_EMAIL"
         IN
         /\ new \in Row
         /\ new.status = "INVITATION_SENT" /\ new.token = t /\ new.to = to
         /\ new.method = IF auto THEN channel ELSE None
         /\ new.op = IF auto THEN q ELSE None
         /\ new.state = IF auto THEN "AUTOMATED_UNCONFIRMED" ELSE "NOT_ATTEMPTED"
         /\ new.confirmed = FALSE /\ new.message = None
BY DEF Reserved, MessageCleared, Row, Status, State, Channel

LEMMA PreparedRow ==
  /\ Prepared \in Row
  /\ Prepared.status = "INVITATION_PREPARED" /\ Prepared.token = None /\ Prepared.to = None
  /\ Prepared.method = None /\ Prepared.op = None /\ Prepared.message = None
  /\ Prepared.state = "NOT_ATTEMPTED" /\ Prepared.confirmed = FALSE
BY DEF Prepared, Row, Status, State
-----------------------------------------------------------------------------
(* What the invariant says of one client. *)
LEMMA OfOneClient ==
  ASSUME InvitationInv, NEW c \in Clients
  PROVE  /\ RowPasses(inv[c]) /\ Holds(c, inv[c])
         /\ inv[c].state # "NOT_ATTEMPTED" \/ inv[c].status \in Status => inv[c] \in Row
<1>1. RowPasses(inv[c]) /\ Holds(c, inv[c])
  BY RowsPass DEF InvitationInv, RowsHold
<1>2. NoRow.state = "NOT_ATTEMPTED" /\ NoRow.status = "NONE"
  BY DEF NoRow, Prepared
<1>3. QED
  BY <1>1, <1>2 DEF InvitationInv, TypeOK, Status

(* Steps that write no row: they make no link and take nothing back. *)
LEMMA TableStep ==
  ASSUME InvitationInv, TypeOK', UNCHANGED <<inv, token, account>>, RequestsKept,
         emailed \subseteq emailed', TokensIssued', MailTaken'
  PROVE  InvitationInv'
<1>1. TokensSpent' /\ RotatesOnce' /\ TokensKept
  BY NoNewLink DEF InvitationInv
<1>2. RowsPassChecks'
  BY DEF InvitationInv, RowsPassChecks
<1>3. AccountsMatch'
  BY <1>1, AccountsStay
<1>4. RowsHold'
  <2>1. ASSUME NEW c \in Clients
        PROVE  Holds(c, inv[c])'
    <3>1. PICK r : r = inv[c]
      OBVIOUS
    <3>2. /\ r.token \in Tokens \cup {None} /\ r.message \in Tokens \cup {None}
          /\ r.op \in Requests \cup {None} /\ Holds(c, r)
      BY <3>1, RowTypes, OfOneClient DEF InvitationInv
    <3>3. Holds(c, r)'
      BY <1>1, <3>2, HoldsStays DEF InvitationInv
    <3>4. QED
      BY <3>1, <3>3 DEF Holds, HoldsToken, HoldsMessage, HoldsOperation
  <2>2. QED
    BY <2>1 DEF RowsHold, Holds, HoldsToken, HoldsMessage, HoldsOperation
<1>5. QED
  BY <1>1, <1>2, <1>3, <1>4 DEF InvitationInv

LEMMA SameRequests ==
  ASSUME UNCHANGED request
  PROVE  RequestsKept
BY DEF RequestsKept

LEMMA PrepareStep ==
  ASSUME InvitationInv, NEW c \in Clients, Prepare(c)
  PROVE  InvitationInv'
<1>1. /\ inv[c].status = "NONE" /\ Write(c, Prepared)
      /\ UNCHANGED <<email, account, token, mail, emailed, expired>>
  BY DEF Prepare, Exists
<1>2. RowPasses(Prepared) /\ Holds(c, Prepared)
  BY PreparedRow DEF RowPasses, Holds, HoldsToken, HoldsMessage, HoldsOperation, Redeemable, TerminalStates
<1>3. inv'[c] = Prepared /\ \A d \in Clients \ {c} : inv'[d] = inv[d]
  BY <1>1, PreparedRow, WriteIs DEF InvitationInv
<1>4. TokensKept
  BY <1>1 DEF TokensKept
<1>5. AccountsMatch'
  BY <1>1, <1>3, <1>4, PreparedRow, AccountsStay
<1>6. QED
  BY <1>1, <1>2, <1>5, PreparedRow, RowStep DEF InvitationInv, TypeOK, Early

(* recordAutomatedSendOutcome: the outcome is of the operation that made   *)
(* the link in the row, as that operation made no other.                   *)
LEMMA RecordOutcomeStep ==
  ASSUME InvitationInv, NEW t \in Tokens, RecordOutcome(t)
  PROVE  InvitationInv'
<1>0. PICK taken \in BOOLEAN : taken = (mail[t] = "accepted")
  OBVIOUS
<1>1. /\ token[t] # NoToken /\ mail[t] \in {"accepted", "rejected"}
      /\ mail' = [mail EXCEPT ![t] = "ended"]
      /\ UNCHANGED <<email, account, token, emailed, expired>>
  BY DEF RecordOutcome, InvitationInv, TokensIssued
<1>2. PICK c \in Clients : c = token[t].client
  BY <1>1, TokenInUse DEF InvitationInv
<1>3. /\ mail' \in [Tokens -> {"none", "calling", "accepted", "rejected", "ended"}]
      /\ \A s \in Tokens : mail'[s] # "none" => mail[s] # "none"
      /\ \A s \in Tokens : mail'[s] = "accepted" => mail[s] = "accepted"
  BY <1>1 DEF InvitationInv, TypeOK
<1>4. CASE UNCHANGED <<inv, request>>
  <2>1. TypeOK'
    BY <1>1, <1>3, <1>4 DEF InvitationInv, TypeOK
  <2>2. TokensIssued' /\ MailTaken'
    BY <1>1, <1>3, <1>4 DEF InvitationInv, TokensIssued, MailTaken
  <2>3. QED
    BY <1>1, <1>4, <2>1, <2>2, SameRequests, TableStep
<1>5. CASE OutcomeWanted(t) /\ Write(c, Resolved(inv[c], t, taken))
  <2>1. inv[c].state = "AUTOMATED_UNCONFIRMED" /\ inv[c].op = token[t].by
    BY <1>2, <1>5 DEF OutcomeWanted, Unconfirmed
  <2>2. inv[c] \in Row /\ RowPasses(inv[c]) /\ Holds(c, inv[c])
    BY <2>1, OfOneClient
  <2>3. PICK row \in Row : row = Resolved(inv[c], t, taken)
    BY <2>2, ResolvedRow
  <2>4. /\ row.status = inv[c].status /\ row.token = inv[c].token /\ row.to = inv[c].to
        /\ row.method = inv[c].method /\ row.op = inv[c].op /\ row.confirmed = inv[c].confirmed
        /\ row.state = IF taken THEN "AUTOMATED_ACCEPTED" ELSE "PROVIDER_FAILED"
        /\ row.message = IF taken THEN t ELSE None
    BY <2>2, <2>3, ResolvedRow
  <2>5. inv[c].method = "AUTOMATED_EMAIL" /\ inv[c].op # None /\ inv[c].confirmed = FALSE /\ t # None
    BY <2>1, <2>2, NoneIsNoId DEF RowPasses
  <2>6. RowPasses(row)
    BY <2>2, <2>4, <2>5, NoneIsNoChannel DEF RowPasses, TerminalStates, Channel
  <2>7. inv[c].token # None => inv[c].token = t
    BY <1>1, <2>1, <2>2, <2>5, RowTypes DEF InvitationInv, RotatesOnce, Holds, HoldsToken
  <2>8. taken => t \in emailed
    BY <1>0 DEF InvitationInv, MailTaken
  <2>9. Holds(c, row)
    BY <1>2, <2>1, <2>2, <2>4, <2>7, <2>8 DEF Holds, HoldsToken, HoldsMessage, HoldsOperation
  <2>10. inv'[c] = row /\ \A d \in Clients \ {c} : inv'[d] = inv[d]
    BY <1>5, <2>3, WriteIs DEF InvitationInv
  <2>11. AccountsMatch'
    BY <1>1, <2>4, <2>10, AccountsStay DEF TokensKept
  <2>12. QED
    BY <1>1, <1>3, <1>5, <2>3, <2>4, <2>6, <2>9, <2>11, RowStep DEF InvitationInv, TypeOK
<1>6. QED
  BY <1>0, <1>2, <1>4, <1>5 DEF RecordOutcome

(* correlateWebhookEvent: however the event was correlated, the row it     *)
(* concerns is in the hands of the operation that made the event's link.   *)
LEMMA CorrelatedRow ==
  ASSUME InvitationInv, NEW t \in Tokens, NEW c \in Clients, SentByProvider(t), Correlated(t, c)
  PROVE  /\ token[t] # NoToken /\ t \in emailed /\ token[t].client = c
         /\ inv[c].op = token[t].by /\ inv[c].method = "AUTOMATED_EMAIL"
         /\ inv[c].state # "NOT_ATTEMPTED" /\ inv[c] \in Row
         /\ inv[c].token # None => inv[c].token = t
<1>1. t \in emailed /\ token[t] # NoToken
  BY DEF SentByProvider, InvitationInv, TokensIssued
<1>2. token[t].by \in Requests /\ token[t].by # None /\ t # None
  BY <1>1, TokenInUse, NoneIsNoId DEF InvitationInv
<1>3. RowPasses(inv[c]) /\ Holds(c, inv[c])
  BY OfOneClient
<1>4. /\ token[t].client = c /\ inv[c].op = token[t].by /\ inv[c].method = "AUTOMATED_EMAIL"
  <2>1. CASE inv[c].message = t
    BY <1>2, <1>3, <2>1 DEF RowPasses, Holds, HoldsMessage
  <2>2. CASE inv[c].op = token[t].by
    <3>1. /\ request[token[t].by].kind \in {"send", "resend"}
          /\ request[token[t].by].client = token[t].client
      BY <1>1 DEF InvitationInv, TokensSpent
    <3>2. inv[c].method \in Channel
      BY <1>2, <1>3, <2>2, RowTypes DEF InvitationInv, RowPasses
    <3>3. QED
      BY <1>2, <1>3, <2>2, <3>1, <3>2 DEF Holds, HoldsOperation, Channel
  <2>3. QED
    BY <2>1, <2>2 DEF Correlated, ByMessage, ByOperation
<1>5. inv[c].state # "NOT_ATTEMPTED" /\ inv[c] \in Row
  BY <1>3, <1>4, NoneIsNoChannel, OfOneClient DEF RowPasses, Channel
<1>6. inv[c].token # None => inv[c].token = t
  BY <1>1, <1>3, <1>4, RowTypes DEF InvitationInv, RotatesOnce, Holds, HoldsToken
<1>7. QED
  BY <1>1, <1>4, <1>5, <1>6

LEMMA WebhookStep ==
  ASSUME InvitationInv, NEW t \in Tokens, NEW c \in Clients, SentByProvider(t), Correlated(t, c),
         NEW state \in TerminalStates \cup {"AUTOMATED_ACCEPTED"},
         Write(c, WithProviderState(inv[c], t, state)),
         UNCHANGED <<email, account, token, mail, emailed, expired>>
  PROVE  InvitationInv'
<1>1. /\ token[t] # NoToken /\ t \in emailed /\ token[t].client = c
      /\ inv[c].op = token[t].by /\ inv[c].method = "AUTOMATED_EMAIL"
      /\ inv[c].state # "NOT_ATTEMPTED" /\ inv[c] \in Row
      /\ inv[c].token # None => inv[c].token = t
  BY CorrelatedRow
<1>2. RowPasses(inv[c]) /\ Holds(c, inv[c])
  BY OfOneClient
<1>3. state \in State
  BY DEF State
<1>4. PICK row \in Row : row = WithProviderState(inv[c], t, state)
  BY <1>1, <1>3, ProviderRow
<1>5. /\ row.status = inv[c].status /\ row.token = inv[c].token /\ row.to = inv[c].to
      /\ row.method = inv[c].method /\ row.op = inv[c].op /\ row.confirmed = inv[c].confirmed
      /\ row.state = state /\ row.message = t
  BY <1>1, <1>3, <1>4, ProviderRow
<1>6. RowPasses(row)
  <2>1. inv[c].confirmed = FALSE /\ inv[c].op # None /\ t # None
    BY <1>1, <1>2, NoneIsNoId DEF RowPasses
  <2>2. state # "NOT_ATTEMPTED" /\ state # "MANUALLY_CONFIRMED" /\ inv[c].method # None
    BY <1>1, NoneIsNoChannel DEF TerminalStates, Channel
  <2>3. QED
    BY <1>1, <1>2, <1>5, <2>1, <2>2 DEF RowPasses
<1>7. Holds(c, row)
  BY <1>1, <1>2, <1>5 DEF Holds, HoldsToken, HoldsMessage, HoldsOperation
<1>8. inv'[c] = row /\ \A d \in Clients \ {c} : inv'[d] = inv[d]
  BY <1>4, WriteIs DEF InvitationInv
<1>9. AccountsMatch'
  BY <1>5, <1>8, AccountsStay DEF TokensKept
<1>10. QED
  BY <1>4, <1>5, <1>6, <1>7, <1>9, RowStep DEF InvitationInv, TypeOK

(* The manual send: its operation is the staff's confirmation. *)
LEMMA ConfirmStep ==
  ASSUME InvitationInv, NEW q \in Requests, ConfirmManualSend(q)
  PROVE  InvitationInv'
<1>1. PICK c \in Clients : c = request[q].client
  BY RequestOf, RequestInUse DEF ConfirmManualSend, InvitationInv
<1>2. /\ request[q].kind = "confirm" /\ inv[c].status = "INVITATION_SENT" /\ inv[c].method = None
      /\ Write(c, ManuallyConfirmed(inv[c], q))
      /\ UNCHANGED <<email, account, token, mail, emailed, expired>>
  BY <1>1 DEF ConfirmManualSend
<1>3. inv[c] \in Row /\ RowPasses(inv[c]) /\ Holds(c, inv[c])
  BY <1>2, OfOneClient DEF Status
<1>4. PICK row \in Row : row = ManuallyConfirmed(inv[c], q)
  BY <1>3, ConfirmedRow
<1>5. /\ row.status = inv[c].status /\ row.token = inv[c].token /\ row.to = inv[c].to
      /\ row.method = "MANUAL_EMAIL" /\ row.op = q
      /\ row.state = "MANUALLY_CONFIRMED" /\ row.message = inv[c].message
  BY <1>3, <1>4 DEF ManuallyConfirmed, Row
<1>12. row.confirmed = TRUE
  BY <1>3, <1>4 DEF ManuallyConfirmed, Row
<1>6. inv[c].message = None /\ inv[c].token # None /\ inv[c].to # None
  BY <1>2, <1>3, NoneIsNoChannel DEF RowPasses, Channel, Redeemable
<1>7. RowPasses(row)
  BY <1>3, <1>5, <1>6, <1>12, NoneIsNoChannel, NoneIsNoId DEF RowPasses, Channel, TerminalStates
<1>8. Holds(c, row)
  BY <1>1, <1>2, <1>3, <1>5, <1>6 DEF Holds, HoldsToken, HoldsMessage, HoldsOperation
<1>9. inv'[c] = row /\ \A d \in Clients \ {c} : inv'[d] = inv[d]
  BY <1>2, <1>4, WriteIs DEF InvitationInv
<1>10. AccountsMatch'
  BY <1>2, <1>5, <1>9, AccountsStay DEF TokensKept
<1>11. QED
  BY <1>2, <1>4, <1>5, <1>7, <1>8, <1>10, RowStep DEF InvitationInv, TypeOK

(* A revoked row holds no link, and keeps what the provider said. *)
LEMMA RevokeStep ==
  ASSUME InvitationInv, NEW c \in Clients, Revoke(c)
  PROVE  InvitationInv'
<1>1. /\ inv[c].status \in Status \ {"INVITATION_REVOKED", "ACCOUNT_ACTIVATED"}
      /\ Write(c, Revoked(inv[c]))
      /\ UNCHANGED <<email, account, token, mail, emailed, expired>>
  BY DEF Revoke, Revocable
<1>2. inv[c] \in Row /\ RowPasses(inv[c]) /\ Holds(c, inv[c])
  BY <1>1, OfOneClient
<1>3. PICK row \in Row : row = Revoked(inv[c])
  BY <1>2, RevokedRow
<1>4. /\ row.status = "INVITATION_REVOKED" /\ row.token = None /\ row.to = None
      /\ row.method = inv[c].method /\ row.op = inv[c].op /\ row.confirmed = inv[c].confirmed
      /\ row.state = inv[c].state /\ row.message = inv[c].message
  BY <1>2, <1>3, RevokedRow
<1>5. RowPasses(row) /\ Holds(c, row)
  BY <1>2, <1>4 DEF RowPasses, Redeemable, Holds, HoldsToken, HoldsMessage, HoldsOperation
<1>6. inv'[c] = row /\ \A d \in Clients \ {c} : inv'[d] = inv[d]
  BY <1>1, <1>3, WriteIs DEF InvitationInv
<1>7. AccountsMatch'
  BY <1>1, <1>4, <1>6, AccountsStay DEF TokensKept
<1>8. QED
  BY <1>1, <1>3, <1>4, <1>5, <1>7, RowStep DEF InvitationInv, TypeOK, Early

LEMMA ContinueStep ==
  ASSUME InvitationInv, NEW c \in Clients, NEW t \in Tokens, Continue(c, t)
  PROVE  InvitationInv'
<1>1. /\ inv[c].status = "INVITATION_SENT"
      /\ Write(c, [inv[c] EXCEPT !.status = "INVITATION_OPENED"])
      /\ UNCHANGED <<email, account, token, mail, emailed, expired>>
  BY DEF Continue, MarkOpened
<1>2. inv[c] \in Row /\ RowPasses(inv[c]) /\ Holds(c, inv[c]) /\ "INVITATION_OPENED" \in Status
  BY <1>1, OfOneClient DEF Status
<1>3. PICK row \in Row : row = [inv[c] EXCEPT !.status = "INVITATION_OPENED"]
  BY <1>2, MovedRow
<1>4. /\ row.status = "INVITATION_OPENED" /\ row.token = inv[c].token /\ row.to = inv[c].to
      /\ row.method = inv[c].method /\ row.op = inv[c].op /\ row.confirmed = inv[c].confirmed
      /\ row.state = inv[c].state /\ row.message = inv[c].message
  BY <1>2, <1>3, MovedRow
<1>5. RowPasses(row) /\ Holds(c, row)
  BY <1>1, <1>2, <1>4 DEF RowPasses, Redeemable, Holds, HoldsToken, HoldsMessage, HoldsOperation
<1>6. inv'[c] = row /\ \A d \in Clients \ {c} : inv'[d] = inv[d]
  BY <1>1, <1>3, WriteIs DEF InvitationInv
<1>7. AccountsMatch'
  BY <1>1, <1>4, <1>6, AccountsStay DEF TokensKept
<1>8. QED
  BY <1>1, <1>3, <1>4, <1>5, <1>7, RowStep DEF InvitationInv, TypeOK, Early

(* The account is made for the address of the link that was redeemed,      *)
(* which no other account has.                                             *)
LEMMA ActivateStep ==
  ASSUME InvitationInv, NEW c \in Clients, NEW t \in Tokens, ActivateAccount(c, t)
  PROVE  InvitationInv'
<1>1. /\ inv[c].token = t /\ inv[c].status \in Redeemable
      /\ \A d \in Clients : account[d].email # inv[c].to
      /\ account[c] = NoAccount /\ account' = [account EXCEPT ![c] = NewAccount(inv[c])]
      /\ Write(c, Activated(inv[c]))
      /\ UNCHANGED <<email, token, mail, emailed, expired>>
  BY DEF ActivateAccount, Eligible, FoundBy, AddressFree
<1>2. inv[c] \in Row /\ RowPasses(inv[c]) /\ Holds(c, inv[c]) /\ "ACCOUNT_ACTIVATED" \in Status
  BY <1>1, OfOneClient DEF Status, Redeemable
<1>3. PICK row \in Row : row = Activated(inv[c])
  BY <1>2, MovedRow DEF Activated
<1>4. /\ row.status = "ACCOUNT_ACTIVATED" /\ row.token = inv[c].token /\ row.to = inv[c].to
      /\ row.method = inv[c].method /\ row.op = inv[c].op /\ row.confirmed = inv[c].confirmed
      /\ row.state = inv[c].state /\ row.message = inv[c].message
  BY <1>2, <1>3, MovedRow DEF Activated
<1>5. RowPasses(row) /\ Holds(c, row)
  BY <1>1, <1>2, <1>4 DEF RowPasses, Redeemable, Holds, HoldsToken, HoldsMessage, HoldsOperation
<1>6. inv'[c] = row /\ \A d \in Clients \ {c} : inv'[d] = inv[d]
  BY <1>1, <1>3, WriteIs DEF InvitationInv
<1>7. t # None /\ inv[c].to \in Emails /\ token[t].to = inv[c].to
  BY <1>1, <1>2, NoneIsNoId DEF RowPasses, Holds, HoldsToken, Row
<1>8. PICK a \in Account : a = NewAccount(inv[c]) /\ a.token = t /\ a.email = inv[c].to
  <2>1. PICK v \in BOOLEAN : v = EmailVerified(inv[c])
    BY DEF EmailVerified
  <2>2. NewAccount(inv[c]) = [token |-> t, email |-> inv[c].to, verified |-> v]
    BY <1>1, <2>1 DEF NewAccount
  <2>3. NewAccount(inv[c]) \in Account
    BY <1>7, <2>2 DEF Account
  <2>4. QED
    BY <2>2, <2>3
<1>9. /\ account' \in [Clients -> Account \cup {NoAccount}]
      /\ account'[c] = a /\ \A d \in Clients \ {c} : account'[d] = account[d]
  BY <1>1, <1>8 DEF InvitationInv, TypeOK
<1>10. a # NoAccount
  BY <1>7, <1>8 DEF NoAccount
<1>11. AccountsMatch'
  <2>1. ASSUME NEW d \in Clients
        PROVE  /\ (account'[d] # NoAccount) = (inv'[d].status = "ACCOUNT_ACTIVATED")
               /\ account'[d] # NoAccount =>
                    /\ account'[d].token = inv'[d].token
                    /\ account'[d].email = token'[inv'[d].token].to
                    /\ \A b \in Clients \ {d} : account'[b].email # account'[d].email
    <3>1. CASE d = c
      BY <1>1, <1>4, <1>6, <1>7, <1>8, <1>9, <1>10, <3>1
    <3>2. CASE d # c
      <4>1. account'[d] = account[d] /\ inv'[d] = inv[d] /\ token' = token
        BY <1>1, <1>6, <1>9, <3>2
      <4>2. /\ (account[d] # NoAccount) = (inv[d].status = "ACCOUNT_ACTIVATED")
            /\ account[d] # NoAccount =>
                 /\ account[d].token = inv[d].token
                 /\ account[d].email = token[inv[d].token].to
                 /\ \A b \in Clients \ {d} : account[b].email # account[d].email
        BY DEF InvitationInv, AccountsMatch
      <4>3. account[d] # NoAccount => \A b \in Clients \ {d} : account'[b].email # account[d].email
        BY <1>1, <1>8, <1>9, <4>2
      <4>4. QED
        BY <4>1, <4>2, <4>3
    <3>3. QED
      BY <3>1, <3>2
  <2>2. QED
    BY <2>1 DEF AccountsMatch
<1>12. QED
  BY <1>1, <1>3, <1>4, <1>5, <1>9, <1>11, RowStep DEF InvitationInv, TypeOK, Early

(* reserveSendOperation: a click whose link was made is late, and late     *)
(* clicks reserve nothing, so the new link is its click's first.           *)
LEMMA ReserveStep ==
  ASSUME InvitationInv, NEW q \in Requests, Reserve(q)
  PROVE  InvitationInv'
<1>1. /\ request[q].kind \in {"send", "resend"} /\ FreshTokens # {}
      /\ inv[request[q].client].status \in SendableFrom(request[q].kind)
      /\ Current(q) /\ HasAddress(request[q].client)
      /\ UNCHANGED <<email, account, emailed, expired>>
  BY DEF Reserve
<1>2. request[q] # NoRequest
  BY <1>1, RequestOf
<1>3. PICK c \in Clients, channel \in Channel : c = request[q].client /\ channel = request[q].channel
  BY <1>2, RequestInUse DEF InvitationInv
<1>4. PICK t \in Tokens : t = (CHOOSE s \in FreshTokens : TRUE) /\ token[t] = NoToken
  BY <1>1 DEF FreshTokens
<1>5. PICK to \in Emails : to = email[c]
  BY <1>1, <1>3 DEF HasAddress, InvitationInv, TypeOK
<1>6. /\ inv[c].status \notin {"NONE", "ACCOUNT_ACTIVATED"} /\ inv[c].status \in Status
      /\ request[q].kind = "send" => inv[c].status = "INVITATION_PREPARED"
  BY <1>1, <1>3 DEF SendableFrom, Status
<1>7. PICK row \in Row : row = Reserved(inv[c], q, channel, t, to)
  BY <1>6, OfOneClient, ReservedRow
<1>8. /\ row.status = "INVITATION_SENT" /\ row.token = t /\ row.to = to
      /\ row.method = IF channel = "AUTOMATED_EMAIL" THEN channel ELSE None
      /\ row.op = IF channel = "AUTOMATED_EMAIL" THEN q ELSE None
      /\ row.state = IF channel = "AUTOMATED_EMAIL" THEN "AUTOMATED_UNCONFIRMED" ELSE "NOT_ATTEMPTED"
      /\ row.message = None
  BY <1>7 DEF Reserved, MessageCleared
<1>9. row.confirmed = FALSE
  BY <1>7 DEF Reserved
<1>10. /\ Write(c, row)
       /\ token' = [token EXCEPT ![t] = [client |-> c, by |-> q, channel |-> channel, to |-> to]]
       /\ mail' = [mail EXCEPT ![t] = IF channel = "AUTOMATED_EMAIL" THEN "calling" ELSE "none"]
  BY <1>3, <1>4, <1>5, <1>7 DEF Reserve
<1>11. /\ inv'[c] = row /\ \A d \in Clients \ {c} : inv'[d] = inv[d]
       /\ RequestsKept /\ ~request'[q].fresh
       /\ request'[q].kind = request[q].kind /\ request'[q].client = c
  BY <1>2, <1>3, <1>10, WriteIs DEF InvitationInv, RequestsKept
<1>12. /\ token'[t].client = c /\ token'[t].by = q /\ token'[t].to = to /\ token'[t] # NoToken
       /\ \A s \in Tokens \ {t} : token'[s] = token[s]
       /\ token' \in [Tokens -> [client : Clients, by : Requests, channel : Channel, to : Emails]
                                  \cup {NoToken}]
  <2>1. token'[t] = [client |-> c, by |-> q, channel |-> channel, to |-> to]
    BY <1>10 DEF InvitationInv, TypeOK
  <2>2. token'[t].client = c /\ token'[t].by = q /\ token'[t].to = to
    BY <2>1
  <2>3. token'[t] # NoToken
    BY <2>2, NoneIsNoId DEF NoToken
  <2>4. /\ \A s \in Tokens \ {t} : token'[s] = token[s]
        /\ token' \in [Tokens -> [client : Clients, by : Requests, channel : Channel, to : Emails]
                                   \cup {NoToken}]
    BY <1>10 DEF InvitationInv, TypeOK
  <2>5. QED
    BY <2>2, <2>3, <2>4
<1>13. TokensKept
  BY <1>4, <1>12 DEF TokensKept
<1>14. \A s \in Tokens : token[s].by # q
  <2>1. SUFFICES ASSUME NEW s \in Tokens, token[s].by = q PROVE FALSE
    OBVIOUS
  <2>2. token[s] # NoToken
    BY <2>1, NoneIsNoId DEF NoToken
  <2>3. ~request[q].fresh /\ request[q].client = token[s].client /\ inv[c].status \notin Early
    BY <1>3, <2>1, <2>2 DEF InvitationInv, TokensSpent
  <2>4. QED
    BY <1>1, <1>6, <2>3 DEF Current, Early
<1>15. RotatesOnce'
  <2>1. \A s \in Tokens : token'[s].by = q => s = t
    BY <1>12, <1>14
  <2>2. SUFFICES ASSUME NEW s \in Tokens, NEW u \in Tokens,
                        token'[s] # NoToken, token'[s].by = token'[u].by
                 PROVE  s = u
    BY DEF RotatesOnce
  <2>3. CASE s = t \/ u = t
    BY <1>12, <2>1, <2>2, <2>3
  <2>4. CASE s # t /\ u # t
    BY <1>12, <2>2, <2>4 DEF InvitationInv, RotatesOnce
  <2>5. QED
    BY <2>3, <2>4
<1>16. \A d \in Clients : inv'[d].status \in Early => inv[d].status \in Early
  BY <1>8, <1>11 DEF Early
<1>17. TokensSpent'
  <2>1. ASSUME NEW s \in Tokens, token'[s] # NoToken
        PROVE  /\ request'[token'[s].by].kind \in {"send", "resend"} /\ ~request'[token'[s].by].fresh
               /\ request'[token'[s].by].client = token'[s].client
               /\ inv'[token'[s].client].status \notin Early
    <3>1. CASE s = t
      BY <1>1, <1>8, <1>11, <1>12, <3>1 DEF Early
    <3>2. CASE s # t
      BY <1>11, <1>12, <1>16, <2>1, <3>2, SpentStays DEF InvitationInv
    <3>3. QED
      BY <3>1, <3>2
  <2>2. QED
    BY <2>1 DEF TokensSpent
<1>18. TypeOK'
  BY <1>1, <1>10, <1>12, WriteIs DEF InvitationInv, TypeOK
<1>19. RowsPassChecks'
  <2>1. RowPasses(row)
    BY <1>8, <1>9, NoneIsNoChannel, NoneIsNoId DEF RowPasses, Channel, TerminalStates, Redeemable
  <2>2. \A d \in Clients : RowPasses(inv'[d])
    BY <1>11, <2>1, OfOneClient
  <2>3. QED
    BY <2>2 DEF RowsPassChecks, RowPasses
<1>20. RowsHold'
  <2>1. ASSUME NEW d \in Clients
        PROVE  Holds(d, inv[d])'
    <3>1. CASE d = c
      <4>1. HoldsToken(c, row)' /\ HoldsMessage(c, row)' /\ HoldsOperation(c, row)'
        BY <1>8, <1>11, <1>12, NoneIsNoChannel DEF HoldsToken, HoldsMessage, HoldsOperation, Channel
      <4>2. QED
        BY <1>11, <3>1, <4>1 DEF Holds, HoldsToken, HoldsMessage, HoldsOperation
    <3>2. CASE d # c
      <4>1. PICK r : r = inv'[d] /\ r = inv[d]
        BY <1>11, <3>2
      <4>2. /\ r.token \in Tokens \cup {None} /\ r.message \in Tokens \cup {None}
            /\ r.op \in Requests \cup {None} /\ Holds(d, r)
        BY <4>1, RowTypes, OfOneClient DEF InvitationInv
      <4>3. Holds(d, r)'
        BY <1>1, <1>11, <1>13, <4>2, HoldsStays DEF InvitationInv
      <4>4. QED
        BY <4>1, <4>3 DEF Holds, HoldsToken, HoldsMessage, HoldsOperation
    <3>3. QED
      BY <3>1, <3>2
  <2>2. QED
    BY <2>1 DEF RowsHold, Holds, HoldsToken, HoldsMessage, HoldsOperation
<1>21. TokensIssued' /\ MailTaken'
  <2>1. \A s \in Tokens \ {t} : mail'[s] = mail[s]
    BY <1>10 DEF InvitationInv, TypeOK
  <2>2. mail'[t] # "accepted"
    BY <1>10 DEF InvitationInv, TypeOK
  <2>3. QED
    BY <1>1, <1>12, <2>1, <2>2 DEF InvitationInv, TokensIssued, MailTaken
<1>22. AccountsMatch'
  BY <1>1, <1>6, <1>8, <1>11, <1>13, AccountsStay
<1>23. QED
  BY <1>15, <1>17, <1>18, <1>19, <1>20, <1>21, <1>22 DEF InvitationInv

(* Steps that write no row. *)
LEMMA ClickStep ==
  ASSUME InvitationInv, NEW c \in Clients, NEW kind \in {"send", "resend", "confirm"},
         NEW channel \in Channel, Click(c, kind, channel)
  PROVE  InvitationInv'
<1>1. PICK q \in Requests : q = (CHOOSE p \in FreeRequests : TRUE) /\ request[q] = NoRequest
  BY DEF Click, FreeRequests
<1>2. /\ request' = [request EXCEPT ![q] =
                      [kind |-> kind, client |-> c, channel |-> channel, fresh |-> TRUE]]
      /\ UNCHANGED <<email, inv, account, token, mail, emailed, expired>>
  BY <1>1 DEF Click
<1>3. TypeOK'
  BY <1>2 DEF InvitationInv, TypeOK
<1>4. RequestsKept
  BY <1>1, <1>2 DEF RequestsKept, InvitationInv, TypeOK
<1>5. TokensIssued' /\ MailTaken'
  BY <1>2 DEF InvitationInv, TokensIssued, MailTaken
<1>6. QED
  BY <1>2, <1>3, <1>4, <1>5, TableStep

LEMMA ConfirmClickStep ==
  ASSUME InvitationInv, NEW t \in Tokens, ClickConfirm(t)
  PROVE  InvitationInv'
<1>1. token[t] # NoToken
  BY DEF ClickConfirm, InvitationInv, TokensIssued
<1>2. token[t].client \in Clients /\ "MANUAL_EMAIL" \in Channel
  BY <1>1, TokenInUse DEF InvitationInv, Channel
<1>3. QED
  BY <1>2, ClickStep DEF ClickConfirm

LEMMA LinkEmailedStep ==
  ASSUME InvitationInv, NEW t \in Tokens, EmailLink(t)
  PROVE  InvitationInv'
<1>1. token[t] # NoToken
  BY NoneIsNoChannel DEF EmailLink, NoToken, Channel
<1>2. QED
  BY <1>1, SameRequests, TableStep DEF EmailLink, InvitationInv, TypeOK, TokensIssued, MailTaken

LEMMA AddressStep ==
  ASSUME InvitationInv, NEW c \in Clients, NEW e \in Emails \cup {None}, ChangeEmail(c, e)
  PROVE  InvitationInv'
BY SameRequests, TableStep DEF ChangeEmail, InvitationInv, TypeOK, TokensIssued, MailTaken

LEMMA ExpiryStep ==
  ASSUME InvitationInv, NEW t \in Tokens, Expire(t)
  PROVE  InvitationInv'
BY SameRequests, TableStep DEF Expire, InvitationInv, TypeOK, TokensIssued, MailTaken

LEMMA ProviderStep ==
  ASSUME InvitationInv, NEW t \in Tokens, Accept(t) \/ Reject(t)
  PROVE  InvitationInv'
<1>1. PICK heard \in {"accepted", "rejected", "ended"} :
        /\ mail[t] = "calling" /\ mail' = [mail EXCEPT ![t] = heard]
        /\ UNCHANGED <<email, inv, account, request, token, expired>>
        /\ emailed \subseteq emailed' /\ emailed' \subseteq emailed \cup {t}
        /\ heard = "accepted" => t \in emailed'
  BY DEF Accept, Reject
<1>2. TypeOK'
  BY <1>1 DEF InvitationInv, TypeOK
<1>3. token[t] # NoToken
  BY <1>1 DEF InvitationInv, TokensIssued
<1>4. TokensIssued' /\ MailTaken'
  BY <1>1, <1>3 DEF InvitationInv, TypeOK, TokensIssued, MailTaken
<1>5. QED
  BY <1>1, <1>2, <1>4, SameRequests, TableStep

LEMMA SentWebhookStep ==
  ASSUME InvitationInv, NEW t \in Tokens, WebhookSent(t)
  PROVE  InvitationInv'
<1>1. PICK c \in Clients :
        /\ SentByProvider(t) /\ Correlated(t, c)
        /\ Write(c, WithProviderState(inv[c], t, "AUTOMATED_ACCEPTED"))
        /\ UNCHANGED <<email, account, token, mail, emailed, expired>>
  BY DEF WebhookSent, Reconciled, WithProviderState
<1>2. QED
  BY <1>1, WebhookStep

LEMMA FinalWebhookStep ==
  ASSUME InvitationInv, NEW t \in Tokens, NEW state \in Terminal, WebhookTerminal(t, state)
  PROVE  InvitationInv'
<1>1. state \in TerminalStates \cup {"AUTOMATED_ACCEPTED"}
  BY TerminalAssumption
<1>2. QED
  BY <1>1, WebhookStep DEF WebhookTerminal
-----------------------------------------------------------------------------
LEMMA InvitationInit == Init => InvitationInv
<1> SUFFICES ASSUME Init PROVE InvitationInv
  OBVIOUS
<1>2. /\ NoRow.status = "NONE" /\ NoRow.token = None /\ NoRow.to = None
      /\ NoRow.method = None /\ NoRow.state = "NOT_ATTEMPTED"
      /\ NoRow.op = None /\ NoRow.message = None /\ NoRow.confirmed = FALSE
  BY DEF NoRow, Prepared
<1>3. TypeOK
  BY DEF Init, TypeOK
<1>4. RowsPassChecks /\ RowsHold
  BY <1>2 DEF Init, RowsPassChecks, RowsHold, Holds, HoldsToken, HoldsMessage, HoldsOperation,
              Redeemable, TerminalStates
<1>5. TokensSpent /\ RotatesOnce /\ TokensIssued /\ MailTaken /\ AccountsMatch
  BY <1>2 DEF Init, TokensSpent, RotatesOnce, TokensIssued, MailTaken, AccountsMatch
<1>6. QED
  BY <1>3, <1>4, <1>5 DEF InvitationInv

LEMMA InvitationStep == InvitationInv /\ [Next]_vars => InvitationInv'
<1> SUFFICES ASSUME InvitationInv, [Next]_vars PROVE InvitationInv'
  OBVIOUS
<1>2. CASE StaffStep
  <2>1. ASSUME NEW c \in Clients, Prepare(c) \/ Revoke(c) PROVE InvitationInv'
    BY <2>1, PrepareStep, RevokeStep
  <2>2. ASSUME NEW c \in Clients, NEW kind \in {"send", "resend"}, NEW channel \in Channel,
               Click(c, kind, channel)
        PROVE  InvitationInv'
    BY <2>2, ClickStep
  <2>3. ASSUME NEW t \in Tokens, EmailLink(t) \/ ClickConfirm(t) PROVE InvitationInv'
    BY <2>3, LinkEmailedStep, ConfirmClickStep
  <2>4. ASSUME NEW c \in Clients, NEW e \in Emails \cup {None}, ChangeEmail(c, e)
        PROVE  InvitationInv'
    BY <2>4, AddressStep
  <2>5. QED
    BY <1>2, <2>1, <2>2, <2>3, <2>4 DEF StaffStep
<1>3. ASSUME NEW q \in Requests, Reserve(q) \/ ConfirmManualSend(q) PROVE InvitationInv'
  BY <1>3, ReserveStep, ConfirmStep
<1>4. ASSUME NEW t \in Tokens, Accept(t) \/ Reject(t) \/ RecordOutcome(t) \/ Expire(t)
      PROVE  InvitationInv'
  BY <1>4, ProviderStep, RecordOutcomeStep, ExpiryStep
<1>5. ASSUME NEW t \in Tokens, WebhookSent(t) \/ \E state \in Terminal : WebhookTerminal(t, state)
      PROVE  InvitationInv'
  BY <1>5, SentWebhookStep, FinalWebhookStep
<1>6. ASSUME NEW t \in Tokens, NEW c \in Clients, Continue(c, t) \/ ActivateAccount(c, t)
      PROVE  InvitationInv'
  BY <1>6, ContinueStep, ActivateStep
<1>7. CASE UNCHANGED vars
  <2>1. TypeOK' /\ TokensIssued' /\ MailTaken'
    BY <1>7 DEF vars, InvitationInv, TypeOK, TokensIssued, MailTaken
  <2>2. QED
    BY <1>7, <2>1, SameRequests, TableStep DEF vars
<1>8. QED
  BY <1>2, <1>3, <1>4, <1>5, <1>6, <1>7 DEF Next

(* However late or often clicks, outcomes and webhooks are handled, rows   *)
(* say what is true of their links, clicks and emails, and have the types. *)
THEOREM InvitationInvariant == Spec => []InvitationInv
BY InvitationInit, InvitationStep, PTL DEF Spec

(* No handler ever writes a row that a CHECK constraint would refuse. *)
THEOREM RowsAreWritable == Spec => []RowsPassChecks
<1>1. InvitationInv => RowsPassChecks
  BY DEF InvitationInv
<1>2. QED
  BY <1>1, InvitationInvariant, PTL

(* What a row says of the provider is about a message that was emailed for *)
(* its own operation, and about the link it holds.                         *)
THEOREM Evidence == Spec => []EvidenceIsCurrent
<1>1. InvitationInv => EvidenceIsCurrent
  BY OfOneClient DEF EvidenceIsCurrent, RowPasses, Holds, HoldsMessage
<1>2. QED
  BY <1>1, InvitationInvariant, PTL

(* No click rotates a link twice. *)
THEOREM Rotations == Spec => []RotatesOnce
<1>1. InvitationInv => RotatesOnce
  BY DEF InvitationInv
<1>2. QED
  BY <1>1, InvitationInvariant, PTL

(* Accounts are exactly those of the activated invitations, for the        *)
(* addresses their links were frozen to, one account per address.          *)
THEOREM Accounts == Spec => []AccountsMatch
<1>1. InvitationInv => AccountsMatch
  BY DEF InvitationInv
<1>2. QED
  BY <1>1, InvitationInvariant, PTL
-----------------------------------------------------------------------------
(* Most steps leave every link where it was and the final words final.     *)
WordsStand ==
  \A d \in Clients : inv[d].state \in TerminalStates => inv'[d].state \in TerminalStates
Quiet ==
  /\ UNCHANGED <<token, account, expired>>
  /\ \A d \in Clients :
       /\ inv'[d].token = inv[d].token
       /\ (inv'[d].status \in Redeemable) <=> (inv[d].status \in Redeemable)
  /\ WordsStand

LEMMA QuietWrite ==
  ASSUME InvitationInv, NEW c \in Clients, NEW row \in Row, Write(c, row),
         UNCHANGED <<token, account, expired>>, row.token = inv[c].token,
         row.status \in Redeemable <=> inv[c].status \in Redeemable,
         inv[c].state \in TerminalStates => row.state \in TerminalStates
  PROVE  Quiet
BY WriteIs DEF Quiet, WordsStand, InvitationInv

LEMMA QuietRows ==
  ASSUME UNCHANGED <<inv, token, account, expired>>
  PROVE  Quiet
BY DEF Quiet, WordsStand

LEMMA PrepareIsQuiet ==
  ASSUME InvitationInv, NEW c \in Clients, Prepare(c)
  PROVE  Quiet
<1>1. inv[c] = NoRow /\ Write(c, Prepared) /\ UNCHANGED <<token, account, expired>>
  BY DEF Prepare, Exists, InvitationInv, TypeOK, Row, Status
<1>2. NoRow.status = "NONE" /\ NoRow.token = None /\ NoRow.state = "NOT_ATTEMPTED"
  BY DEF NoRow, Prepared
<1>3. QED
  BY <1>1, <1>2, PreparedRow, QuietWrite DEF Redeemable, TerminalStates

LEMMA OutcomeIsQuiet ==
  ASSUME InvitationInv, NEW t \in Tokens, RecordOutcome(t)
  PROVE  Quiet
<1>1. PICK taken \in BOOLEAN : taken = (mail[t] = "accepted")
  OBVIOUS
<1>2. token[t].client \in Clients /\ UNCHANGED <<account, token, expired>>
  BY TokenInUse DEF RecordOutcome, InvitationInv, TokensIssued
<1>3. PICK c \in Clients : c = token[t].client
  BY <1>2
<1>4. CASE UNCHANGED <<inv, request>>
  BY <1>2, <1>4, QuietRows
<1>5. CASE OutcomeWanted(t) /\ Write(c, Resolved(inv[c], t, taken))
  <2>1. inv[c].state = "AUTOMATED_UNCONFIRMED" /\ inv[c] \in Row
    BY <1>3, <1>5, OfOneClient DEF OutcomeWanted, Unconfirmed
  <2>2. QED
    BY <1>2, <1>5, <2>1, ResolvedRow, QuietWrite DEF TerminalStates
<1>6. QED
  BY <1>1, <1>3, <1>4, <1>5 DEF RecordOutcome

LEMMA WebhookIsQuiet ==
  ASSUME InvitationInv, NEW t \in Tokens,
         WebhookSent(t) \/ \E state \in Terminal : WebhookTerminal(t, state)
  PROVE  Quiet
<1>1. CASE WebhookSent(t)
  <2>1. PICK c \in Clients :
          /\ SentByProvider(t) /\ Correlated(t, c) /\ inv[c].state = "AUTOMATED_UNCONFIRMED"
          /\ Write(c, WithProviderState(inv[c], t, "AUTOMATED_ACCEPTED"))
          /\ UNCHANGED <<account, token, expired>>
    BY <1>1 DEF WebhookSent, Reconciled, WithProviderState, Reconcilable, Unconfirmed
  <2>2. inv[c] \in Row /\ "AUTOMATED_ACCEPTED" \in State
    BY <2>1, CorrelatedRow DEF State
  <2>3. QED
    BY <2>1, <2>2, ProviderRow, QuietWrite DEF TerminalStates
<1>2. CASE \E state \in Terminal : WebhookTerminal(t, state)
  <2>1. PICK state \in TerminalStates, c \in Clients :
          /\ SentByProvider(t) /\ Correlated(t, c)
          /\ Write(c, WithProviderState(inv[c], t, state))
          /\ UNCHANGED <<account, token, expired>>
    BY <1>2, TerminalAssumption DEF WebhookTerminal
  <2>2. inv[c] \in Row /\ state \in State
    BY <2>1, CorrelatedRow DEF State
  <2>3. QED
    BY <2>1, <2>2, ProviderRow, QuietWrite
<1>3. QED
  BY <1>1, <1>2

LEMMA ConfirmIsQuiet ==
  ASSUME InvitationInv, NEW q \in Requests, ConfirmManualSend(q)
  PROVE  Quiet
<1>1. PICK c \in Clients : c = request[q].client
  BY RequestOf, RequestInUse DEF ConfirmManualSend, InvitationInv
<1>2. /\ inv[c].status = "INVITATION_SENT" /\ inv[c].method = None
      /\ Write(c, ManuallyConfirmed(inv[c], q)) /\ UNCHANGED <<account, token, expired>>
  BY <1>1 DEF ConfirmManualSend
<1>3. inv[c] \in Row /\ inv[c].state = "NOT_ATTEMPTED"
  BY <1>2, OfOneClient DEF Status, RowPasses
<1>4. QED
  BY <1>2, <1>3, ConfirmedRow, QuietWrite DEF TerminalStates

LEMMA ContinueIsQuiet ==
  ASSUME InvitationInv, NEW c \in Clients, NEW t \in Tokens, Continue(c, t)
  PROVE  Quiet
<1>1. /\ inv[c].status = "INVITATION_SENT" /\ Write(c, [inv[c] EXCEPT !.status = "INVITATION_OPENED"])
      /\ UNCHANGED <<account, token, expired>>
  BY DEF Continue, MarkOpened
<1>2. inv[c] \in Row /\ "INVITATION_OPENED" \in Status
  BY <1>1, OfOneClient DEF Status
<1>3. QED
  BY <1>1, <1>2, MovedRow, QuietWrite DEF Redeemable
-----------------------------------------------------------------------------
(* The other steps make, kill or redeem one client's link.  A row's live   *)
(* link, given which links have expired.                                   *)
LiveIn(r, over) == IF r.status \in Redeemable /\ r.token \notin over THEN r.token ELSE None

LEMMA LiveLinksAre ==
  /\ LiveLinks = [c \in Clients |-> LiveIn(inv[c], expired)]
  /\ LiveLinks' = [c \in Clients |-> LiveIn(inv'[c], expired')]
BY DEF LiveLinks, LiveToken, LiveIn

LEMMA QuietLinks ==
  ASSUME Quiet
  PROVE  UNCHANGED <<IssuedLinks, LiveLinks, UsedLinks>>
BY LiveLinksAre DEF Quiet, LiveIn, IssuedLinks, UsedLinks

(* A live link that is revoked, or expires, is killed and no other is. *)
LEMMA LinkDies ==
  ASSUME NEW c \in Clients, UNCHANGED <<token, account>>,
         LiveIn(inv'[c], expired') = None,
         \A d \in Clients \ {c} : LiveIn(inv'[d], expired') = LiveIn(inv[d], expired)
  PROVE  [Link!Next]_(Link!vars)
<1>1. UNCHANGED <<IssuedLinks, UsedLinks>>
  BY DEF IssuedLinks, UsedLinks
<1>2. LiveLinks' = [LiveLinks EXCEPT ![c] = None]
  BY LiveLinksAre
<1>3. CASE LiveLinks[c] = None
  BY <1>1, <1>2, <1>3 DEF LiveLinks, Link!vars
<1>4. CASE LiveLinks[c] # None
  BY <1>1, <1>2, <1>4 DEF Link!Next, Link!Kill
<1>5. QED
  BY <1>3, <1>4

LEMMA RevokeKills ==
  ASSUME InvitationInv, NEW c \in Clients, Revoke(c)
  PROVE  [Link!Next]_(Link!vars) /\ WordsStand
<1>1. /\ inv[c].status \in Status /\ Write(c, Revoked(inv[c]))
      /\ UNCHANGED <<token, account, expired>>
  BY DEF Revoke, Revocable
<1>2. inv[c] \in Row
  BY <1>1, OfOneClient
<1>3. PICK row \in Row : row = Revoked(inv[c])
  BY <1>2, RevokedRow
<1>4. row.status = "INVITATION_REVOKED" /\ row.token = None /\ row.state = inv[c].state
  BY <1>2, <1>3, RevokedRow
<1>5. inv'[c] = row /\ \A d \in Clients \ {c} : inv'[d] = inv[d]
  BY <1>1, <1>3, WriteIs DEF InvitationInv
<1>6. WordsStand
  BY <1>4, <1>5 DEF WordsStand
<1>7. [Link!Next]_(Link!vars)
  BY <1>1, <1>4, <1>5, LinkDies DEF LiveIn, Redeemable
<1>8. QED
  BY <1>6, <1>7

LEMMA ExpiryKills ==
  ASSUME InvitationInv, NEW t \in Tokens, Expire(t)
  PROVE  [Link!Next]_(Link!vars) /\ WordsStand
<1>1. /\ token[t] # NoToken /\ expired' = expired \cup {t}
      /\ UNCHANGED <<inv, token, account>>
  BY DEF Expire
<1>2. PICK c \in Clients : c = token[t].client
  BY <1>1, TokenInUse DEF InvitationInv
<1>3. \A d \in Clients \ {c} : inv[d].token # t
  BY <1>2, NoneIsNoId, OfOneClient DEF Holds, HoldsToken
<1>4. \A d \in Clients \ {c} : LiveIn(inv'[d], expired') = LiveIn(inv[d], expired)
  BY <1>1, <1>3 DEF LiveIn
<1>5. CASE inv[c].token = t
  BY <1>1, <1>4, <1>5, LinkDies DEF LiveIn, WordsStand
<1>6. CASE inv[c].token # t
  <2>1. LiveIn(inv'[c], expired') = LiveIn(inv[c], expired)
    BY <1>1, <1>6 DEF LiveIn
  <2>2. LiveLinks' = LiveLinks
    BY <1>4, <2>1, LiveLinksAre
  <2>3. UNCHANGED <<IssuedLinks, UsedLinks>>
    BY <1>1 DEF IssuedLinks, UsedLinks
  <2>4. QED
    BY <1>1, <2>2, <2>3 DEF Link!vars, WordsStand
<1>7. QED
  BY <1>5, <1>6

LEMMA ActivationRedeems ==
  ASSUME InvitationInv, NEW c \in Clients, NEW t \in Tokens, ActivateAccount(c, t)
  PROVE  Link!Next /\ WordsStand
<1>1. /\ inv[c].token = t /\ inv[c].status \in Redeemable /\ t \notin expired
      /\ account[c] = NoAccount /\ account' = [account EXCEPT ![c] = NewAccount(inv[c])]
      /\ Write(c, Activated(inv[c]))
      /\ UNCHANGED <<token, expired>>
  BY DEF ActivateAccount, Eligible, FoundBy
<1>2. inv[c] \in Row /\ "ACCOUNT_ACTIVATED" \in Status
  BY <1>1, OfOneClient DEF Status, Redeemable
<1>3. PICK row \in Row : row = Activated(inv[c])
  BY <1>2, MovedRow DEF Activated
<1>4. row.status = "ACCOUNT_ACTIVATED" /\ row.state = inv[c].state
  BY <1>2, <1>3, MovedRow DEF Activated
<1>5. inv'[c] = row /\ \A d \in Clients \ {c} : inv'[d] = inv[d]
  BY <1>1, <1>3, WriteIs DEF InvitationInv
<1>6. WordsStand
  BY <1>4, <1>5 DEF WordsStand
<1>7. LiveLinks[c] = t /\ t # None /\ UsedLinks[c] = None
  BY <1>1, NoneIsNoId, LiveLinksAre DEF LiveIn, UsedLinks, NoAccount
<1>8. LiveLinks' = [LiveLinks EXCEPT ![c] = None]
  BY <1>1, <1>4, <1>5, LiveLinksAre DEF LiveIn, Redeemable
<1>9. UsedLinks' = [UsedLinks EXCEPT ![c] = t]
  <2>1. account'[c].token = t /\ \A d \in Clients \ {c} : account'[d] = account[d]
    BY <1>1 DEF InvitationInv, TypeOK, NewAccount
  <2>2. QED
    BY <2>1 DEF UsedLinks
<1>10. IssuedLinks' = IssuedLinks
  BY <1>1 DEF IssuedLinks
<1>11. QED
  BY <1>6, <1>7, <1>8, <1>9, <1>10 DEF Link!Next, Link!Redeem

(* A reserved link is new, and replaces the client's old one. *)
LEMMA ReservationIssues ==
  ASSUME InvitationInv, NEW q \in Requests, Reserve(q)
  PROVE  /\ Link!Next
         /\ \A d \in Clients :
              inv[d].state \in TerminalStates /\ inv'[d].token \in {inv[d].token, None}
                => inv'[d].state \in TerminalStates
<1>1. /\ request[q].kind \in {"send", "resend"} /\ FreshTokens # {}
      /\ inv[request[q].client].status \in SendableFrom(request[q].kind)
      /\ HasAddress(request[q].client)
      /\ UNCHANGED <<account, expired>>
  BY DEF Reserve
<1>2. PICK c \in Clients, channel \in Channel : c = request[q].client /\ channel = request[q].channel
  BY <1>1, RequestOf, RequestInUse DEF InvitationInv
<1>3. PICK t \in Tokens : t = (CHOOSE s \in FreshTokens : TRUE) /\ token[t] = NoToken
  BY <1>1 DEF FreshTokens
<1>4. PICK to \in Emails : to = email[c]
  BY <1>1, <1>2 DEF HasAddress, InvitationInv, TypeOK
<1>5. inv[c].status \in Status \ {"ACCOUNT_ACTIVATED"}
  BY <1>1, <1>2 DEF SendableFrom, Status
<1>6. PICK row \in Row : row = Reserved(inv[c], q, channel, t, to)
  BY <1>5, OfOneClient, ReservedRow
<1>7. row.status = "INVITATION_SENT" /\ row.token = t
  BY <1>6 DEF Reserved
<1>8. /\ Write(c, row)
      /\ token' = [token EXCEPT ![t] = [client |-> c, by |-> q, channel |-> channel, to |-> to]]
  BY <1>2, <1>3, <1>4, <1>6 DEF Reserve
<1>9. inv'[c] = row /\ \A d \in Clients \ {c} : inv'[d] = inv[d]
  BY <1>8, WriteIs DEF InvitationInv
<1>10. inv[c].token # t /\ t # None
  BY <1>3, NoneIsNoId, OfOneClient DEF Holds, HoldsToken
<1>11. \A d \in Clients :
         inv[d].state \in TerminalStates /\ inv'[d].token \in {inv[d].token, None}
           => inv'[d].state \in TerminalStates
  BY <1>7, <1>9, <1>10
<1>12. UsedLinks[c] = None /\ UsedLinks' = UsedLinks
  BY <1>1, <1>5 DEF InvitationInv, AccountsMatch, UsedLinks, NoAccount
<1>13. \A d \in Clients : <<d, t>> \notin IssuedLinks
  BY <1>3 DEF IssuedLinks
<1>14. IssuedLinks' = IssuedLinks \cup {<<c, t>>}
  <2>1. token'[t] = [client |-> c, by |-> q, channel |-> channel, to |-> to]
    BY <1>8 DEF InvitationInv, TypeOK
  <2>2. token'[t].client = c
    BY <2>1
  <2>3. token'[t] # NoToken
    BY <2>2, NoneIsNoId DEF NoToken
  <2>4. \A s \in Tokens \ {t} : token'[s] = token[s]
    BY <1>8 DEF InvitationInv, TypeOK
  <2> DEFINE made == {s \in Tokens : token[s] # NoToken}
  <2>5. {s \in Tokens : token'[s] # NoToken} = made \cup {t}
    BY <1>3, <2>3, <2>4
  <2>6. \A s \in made : token'[s].client = token[s].client
    BY <1>3, <2>4
  <2>7. IssuedLinks' = {<<token'[s].client, s>> : s \in made \cup {t}}
    BY <2>5 DEF IssuedLinks
  <2>8. {<<token'[s].client, s>> : s \in made \cup {t}} = {<<token[s].client, s>> : s \in made} \cup {<<c, t>>}
    BY <2>2, <2>6
  <2>9. QED
    BY <2>7, <2>8 DEF IssuedLinks
<1>15. LiveLinks' = [LiveLinks EXCEPT ![c] = t]
  <2>1. t \notin expired
    BY <1>3 DEF InvitationInv, TokensIssued
  <2>2. QED
    BY <1>1, <1>7, <1>9, <2>1, LiveLinksAre DEF LiveIn, Redeemable
<1>16. Link!Issue(c, t)
  BY <1>12, <1>13, <1>14, <1>15 DEF Link!Issue
<1>17. QED
  BY <1>11, <1>16 DEF Link!Next
-----------------------------------------------------------------------------
LEMMA StaffSteps ==
  ASSUME InvitationInv, StaffStep
  PROVE  Quiet \/ \E c \in Clients : Revoke(c)
<1>1. CASE \E c \in Clients : Prepare(c)
  BY <1>1, PrepareIsQuiet
<1>2. CASE \E c \in Clients, kind \in {"send", "resend"}, channel \in Channel : Click(c, kind, channel)
  BY <1>2, QuietRows DEF Click
<1>3. CASE \E t \in Tokens : EmailLink(t) \/ ClickConfirm(t)
  BY <1>3, QuietRows DEF EmailLink, ClickConfirm, Click
<1>4. CASE \E c \in Clients, e \in Emails \cup {None} : ChangeEmail(c, e)
  BY <1>4, QuietRows DEF ChangeEmail
<1>5. QED
  BY <1>1, <1>2, <1>3, <1>4 DEF StaffStep

(* Every step is quiet, or makes, kills or redeems one link. *)
LEMMA StepKinds ==
  ASSUME InvitationInv, [Next]_vars
  PROVE  \/ Quiet
         \/ \E c \in Clients : Revoke(c)
         \/ \E t \in Tokens : Expire(t)
         \/ \E c \in Clients, t \in Tokens : ActivateAccount(c, t)
         \/ \E q \in Requests : Reserve(q)
<1>1. CASE StaffStep
  BY <1>1, StaffSteps
<1>2. CASE \E q \in Requests : ConfirmManualSend(q)
  BY <1>2, ConfirmIsQuiet
<1>3. CASE \E t \in Tokens : Accept(t) \/ Reject(t)
  BY <1>3, QuietRows DEF Accept, Reject
<1>4. CASE \E t \in Tokens : RecordOutcome(t)
  BY <1>4, OutcomeIsQuiet
<1>5. CASE \E t \in Tokens : WebhookSent(t) \/ \E state \in Terminal : WebhookTerminal(t, state)
  BY <1>5, WebhookIsQuiet
<1>6. CASE \E t \in Tokens, c \in Clients : Continue(c, t)
  BY <1>6, ContinueIsQuiet
<1>7. CASE UNCHANGED vars
  BY <1>7, QuietRows DEF vars
<1>8. QED
  BY <1>1, <1>2, <1>3, <1>4, <1>5, <1>6, <1>7 DEF Next

(* The final word on a link is only ever replaced by another final word.   *)
THEOREM FinalWordsStand == Spec => NoRegression
<1> DEFINE Stand == \A c \in Clients :
             inv[c].state \in TerminalStates /\ inv'[c].token \in {inv[c].token, None}
               => inv'[c].state \in TerminalStates
<1>1. ASSUME InvitationInv, [Next]_vars PROVE [Stand]_vars
  <2>1. Quiet => WordsStand
    BY DEF Quiet
  <2>2. WordsStand => Stand
    BY DEF WordsStand
  <2>3. QED
    BY <1>1, <2>1, <2>2, StepKinds, RevokeKills, ExpiryKills, ActivationRedeems, ReservationIssues
<1>2. QED
  BY <1>1, InvitationInvariant, PTL DEF Spec, NoRegression

LEMMA LinkInit == Init => Link!Init
<1> SUFFICES ASSUME Init PROVE Link!Init
  OBVIOUS
<1>1. NoRow.status = "NONE"
  BY DEF NoRow, Prepared
<1>2. IssuedLinks = {} /\ UsedLinks = [c \in Clients |-> None]
  BY DEF Init, IssuedLinks, UsedLinks, NoAccount
<1>3. LiveLinks = [c \in Clients |-> None]
  BY <1>1 DEF Init, LiveLinks, LiveToken, Redeemable
<1>4. QED
  BY <1>2, <1>3 DEF Link!Init

LEMMA LinkStep ==
  ASSUME InvitationInv, [Next]_vars
  PROVE  [Link!Next]_(Link!vars)
<1>1. CASE Quiet
  BY <1>1, QuietLinks DEF Link!vars
<1>2. QED
  BY <1>1, StepKinds, RevokeKills, ExpiryKills, ActivationRedeems, ReservationIssues

(* Invitations implement OneTimeLink: a client has one live link at most,  *)
(* a dead one stays dead, and only a live one activates the client, once.  *)
THEOREM InvitationsImplementLinks == Spec => LinksAreOneTime
BY LinkInit, LinkStep, InvitationInvariant, PTL DEF Spec, LinksAreOneTime, Link!Spec

=============================================================================
