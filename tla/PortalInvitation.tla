-------------------------- MODULE PortalInvitation --------------------------
(***************************************************************************)
(* A client's portal invitation (features/invitations) from its first link *)
(* to the activated account (features/activation).  The row is written by  *)
(* staff requests that may be late or repeated, by the handler that comes  *)
(* back from the email provider, by the provider's webhooks and by whoever *)
(* presents a link.  Each handler's transaction is one step; sending is    *)
(* several: reserve, call the provider with no transaction open, record.   *)
(* Who may act (canAccessClient) is left to module Leads.                  *)
(***************************************************************************)
EXTENDS Naturals, FiniteSets

CONSTANTS
  Clients,    \* Client ids; each has at most one invitation
  Requests,   \* staff clicks; a click's id is its Idempotency-Key
  Tokens,     \* raw tokens, hence links; bounds how many are generated
  Emails,     \* normalized addresses
  Terminal,   \* the provider states webhooks bring
  None        \* SQL NULL

TerminalStates ==
  {"PROVIDER_DELIVERED", "PROVIDER_BOUNCED", "PROVIDER_COMPLAINED",
   "PROVIDER_FAILED", "PROVIDER_SUPPRESSED"}
ASSUME TerminalAssumption == Terminal \subseteq TerminalStates
ASSUME NoneIsNoId == None \notin Clients \cup Requests \cup Tokens \cup Emails

VARIABLES
  email,    \* Client.email
  inv,      \* PortalInvitation rows
  account,  \* the User and ClientProfile activation creates, per client
  request,  \* clicks, which the server may handle at any time, and again
  token,    \* per generated token: its client, click, channel and frozen address
  mail,     \* per token, the handler between its reservation and its record
  emailed,  \* tokens whose link was emailed, by the provider or by staff
  expired   \* tokens whose seven days are over

vars == <<email, inv, account, request, token, mail, emailed, expired>>
-----------------------------------------------------------------------------
Status ==
  {"INVITATION_PREPARED", "INVITATION_SENT", "INVITATION_OPENED",
   "INVITATION_REVOKED", "ACCOUNT_ACTIVATED"}
State ==
  {"NOT_ATTEMPTED", "AUTOMATED_UNCONFIRMED", "AUTOMATED_ACCEPTED", "MANUALLY_CONFIRMED"}
    \cup TerminalStates
Channel == {"AUTOMATED_EMAIL", "MANUAL_EMAIL"}
ASSUME NoneIsNoChannel == None \notin Channel

(* message is the providerMessageId, named by the token it carried, and    *)
(* confirmed stands for the two confirmation-evidence columns.             *)
Row == [status : Status, token : Tokens \cup {None}, to : Emails \cup {None},
        method : Channel \cup {None}, state : State, op : Requests \cup {None},
        message : Tokens \cup {None}, confirmed : BOOLEAN]
Prepared == [status |-> "INVITATION_PREPARED", token |-> None, to |-> None, method |-> None,
             state |-> "NOT_ATTEMPTED", op |-> None, message |-> None, confirmed |-> FALSE]
NoRow == [Prepared EXCEPT !.status = "NONE"]
Account == [token : Tokens, email : Emails, verified : BOOLEAN]
NoAccount == [token |-> None, email |-> None, verified |-> FALSE]
NoToken == [client |-> None, by |-> None, channel |-> None, to |-> None]
NoRequest == [kind |-> "none", client |-> None, channel |-> None, fresh |-> FALSE]

TypeOK ==
  /\ email \in [Clients -> Emails \cup {None}]
  /\ inv \in [Clients -> Row \cup {NoRow}]
  /\ account \in [Clients -> Account \cup {NoAccount}]
  /\ request \in [Requests -> [kind : {"send", "resend", "confirm"}, client : Clients,
                               channel : Channel, fresh : BOOLEAN] \cup {NoRequest}]
  /\ token \in [Tokens -> [client : Clients, by : Requests, channel : Channel, to : Emails]
                            \cup {NoToken}]
  /\ mail \in [Tokens -> {"none", "calling", "accepted", "rejected", "ended"}]
  /\ emailed \subseteq Tokens /\ expired \subseteq Tokens

Init ==
  /\ email \in [Clients -> Emails]
  /\ inv = [c \in Clients |-> NoRow]
  /\ account = [c \in Clients |-> NoAccount]
  /\ request = [q \in Requests |-> NoRequest]
  /\ token = [t \in Tokens |-> NoToken]
  /\ mail = [t \in Tokens |-> "none"]
  /\ emailed = {} /\ expired = {}
-----------------------------------------------------------------------------
Exists(c) == inv[c].status # "NONE"

(* Every write renews updatedAt, so the row a click was made on is no      *)
(* longer the current one.                                                 *)
Write(c, row) ==
  /\ inv' = [inv EXCEPT ![c] = row]
  /\ request' = [q \in Requests |->
       IF request[q].client = c THEN [request[q] EXCEPT !.fresh = FALSE] ELSE request[q]]

Prepare(c) ==
  /\ ~Exists(c)
  /\ Write(c, Prepared)
  /\ UNCHANGED <<email, account, token, mail, emailed, expired>>

(* A staff click, on the row as it is shown.  Which unused id it gets      *)
(* tells nothing apart.                                                    *)
FreeRequests == {q \in Requests : request[q] = NoRequest}
Click(c, kind, channel) ==
  /\ Exists(c) /\ FreeRequests # {}
  /\ request' = [request EXCEPT ![CHOOSE q \in FreeRequests : TRUE] =
       [kind |-> kind, client |-> c, channel |-> channel, fresh |-> TRUE]]
  /\ UNCHANGED <<email, inv, account, token, mail, emailed, expired>>

(* Staff attest a link they have emailed. *)
ClickConfirm(t) ==
  /\ t \in emailed /\ token[t].channel = "MANUAL_EMAIL"
  /\ Click(token[t].client, "confirm", "MANUAL_EMAIL")

(* reserveSendOperation.  A repeated automated click finds its own         *)
(* operation and a late one is stale: neither writes.                      *)
SendableFrom(kind) ==
  IF kind = "send" THEN {"INVITATION_PREPARED"}
  ELSE {"INVITATION_SENT", "INVITATION_OPENED", "INVITATION_REVOKED"}
AlwaysCurrent(q) == TRUE
Current(q) == request[q].kind = "send" \/ request[q].fresh

HasAddress(c) == email[c] # None

(* sendReservationData: no evidence of an earlier send is left behind. *)
MessageKept(row) == row.message
MessageCleared(row) == None
Reserved(row, q, channel, t, to) ==
  LET auto == channel = "AUTOMATED_EMAIL" IN
  [status |-> "INVITATION_SENT", token |-> t, to |-> to,
   method |-> IF auto THEN channel ELSE None,
   state |-> IF auto THEN "AUTOMATED_UNCONFIRMED" ELSE "NOT_ATTEMPTED",
   op |-> IF auto THEN q ELSE None,
   message |-> MessageCleared(row), confirmed |-> FALSE]

FreshTokens == {t \in Tokens : token[t] = NoToken}
Reserve(q) ==
  LET c == request[q].client
      channel == request[q].channel
      t == CHOOSE t \in FreshTokens : TRUE
  IN
  /\ request[q].kind \in {"send", "resend"}
  /\ FreshTokens # {}
  /\ ~(inv[c].method = "AUTOMATED_EMAIL" /\ inv[c].op = q)
  /\ inv[c].status \in SendableFrom(request[q].kind)
  /\ Current(q)
  /\ HasAddress(c)
  /\ Write(c, Reserved(inv[c], q, channel, t, email[c]))
  /\ token' = [token EXCEPT ![t] = [client |-> c, by |-> q, channel |-> channel, to |-> email[c]]]
  /\ mail' = [mail EXCEPT ![t] = IF channel = "AUTOMATED_EMAIL" THEN "calling" ELSE "none"]
  /\ UNCHANGED <<email, account, emailed, expired>>
-----------------------------------------------------------------------------
(* The provider (external) takes the email or refuses it; either way the   *)
(* handler may not learn which ("ambiguous", or it stops), and ends.       *)
Accept(t) ==
  /\ mail[t] = "calling"
  /\ emailed' = emailed \cup {t}
  /\ \E heard \in {"accepted", "ended"} : mail' = [mail EXCEPT ![t] = heard]
  /\ UNCHANGED <<email, inv, account, request, token, expired>>
Reject(t) ==
  /\ mail[t] = "calling"
  /\ \E heard \in {"rejected", "ended"} : mail' = [mail EXCEPT ![t] = heard]
  /\ UNCHANGED <<email, inv, account, request, token, emailed, expired>>

(* recordAutomatedSendOutcome: only while its own operation is unresolved. *)
Unconfirmed(c) == inv[c].state = "AUTOMATED_UNCONFIRMED"
OutcomeOfAny(t) == Unconfirmed(token[t].client)
OutcomeWanted(t) ==
  Unconfirmed(token[t].client) /\ inv[token[t].client].op = token[t].by
Resolved(row, t, taken) ==
  [row EXCEPT !.state = IF taken THEN "AUTOMATED_ACCEPTED" ELSE "PROVIDER_FAILED",
              !.message = IF taken THEN t ELSE None]
RecordOutcome(t) ==
  LET c == token[t].client
      taken == mail[t] = "accepted"
  IN
  /\ mail[t] \in {"accepted", "rejected"}
  /\ mail' = [mail EXCEPT ![t] = "ended"]
  /\ IF OutcomeWanted(t)
     THEN Write(c, Resolved(inv[c], t, taken))
     ELSE UNCHANGED <<inv, request>>
  /\ UNCHANGED <<email, account, token, emailed, expired>>

(* correlateWebhookEvent: by message id and by the operation's tag, which  *)
(* must not disagree.                                                      *)
ByMessage(t) == {c \in Clients : inv[c].message = t}
ByOperation(t) == {c \in Clients : inv[c].op = token[t].by}
Disputed(t) ==
  \/ \E c \in ByMessage(t), d \in ByOperation(t) : c # d
  \/ \E d \in ByOperation(t) : inv[d].message \notin {None, t}
Correlated(t, c) == c \in ByMessage(t) \cup ByOperation(t) /\ ~Disputed(t)

SentByProvider(t) == t \in emailed /\ token[t].channel = "AUTOMATED_EMAIL"

(* Webhooks of a message come in any order and any number of times. *)
ReconcilableAnyway(c) == TRUE
Reconcilable(c) == Unconfirmed(c)
Reconciled(row, t) == [row EXCEPT !.state = "AUTOMATED_ACCEPTED", !.message = t]
WebhookSent(t) ==
  \E c \in Clients :
    /\ SentByProvider(t) /\ Correlated(t, c)
    /\ Reconcilable(c)
    /\ Write(c, Reconciled(inv[c], t))
    /\ UNCHANGED <<email, account, token, mail, emailed, expired>>
(* Unlike the reconciliation, the final words are taken in any order. *)
WithProviderState(row, t, state) == [row EXCEPT !.state = state, !.message = t]
WebhookTerminal(t, state) ==
  \E c \in Clients :
    /\ SentByProvider(t) /\ Correlated(t, c)
    /\ Write(c, WithProviderState(inv[c], t, state))
    /\ UNCHANGED <<email, account, token, mail, emailed, expired>>
-----------------------------------------------------------------------------
(* Staff email a link they were shown, to the address it was made for. *)
EmailLink(t) ==
  /\ token[t].channel = "MANUAL_EMAIL" /\ t \notin emailed
  /\ emailed' = emailed \cup {t}
  /\ UNCHANGED <<email, inv, account, request, token, mail, expired>>

ManuallyConfirmed(row, q) ==
  [row EXCEPT !.method = "MANUAL_EMAIL", !.state = "MANUALLY_CONFIRMED", !.op = q, !.confirmed = TRUE]
ConfirmManualSend(q) ==
  LET c == request[q].client IN
  /\ request[q].kind = "confirm"
  /\ inv[c].state # "MANUALLY_CONFIRMED"
  /\ inv[c].status = "INVITATION_SENT" /\ inv[c].method = None
  /\ Write(c, ManuallyConfirmed(inv[c], q))
  /\ UNCHANGED <<email, account, token, mail, emailed, expired>>

Revocable(c) == inv[c].status \in Status \ {"INVITATION_REVOKED", "ACCOUNT_ACTIVATED"}
Revoked(row) == [row EXCEPT !.status = "INVITATION_REVOKED", !.token = None, !.to = None]
Revoke(c) ==
  /\ Revocable(c)
  /\ Write(c, Revoked(inv[c]))
  /\ UNCHANGED <<email, account, token, mail, emailed, expired>>

Expire(t) ==
  /\ token[t] # NoToken /\ t \notin expired
  /\ expired' = expired \cup {t}
  /\ UNCHANGED <<email, inv, account, request, token, mail, emailed>>

ChangeEmail(c, e) ==
  /\ email[c] # e
  /\ email' = [email EXCEPT ![c] = e]
  /\ UNCHANGED <<inv, account, request, token, mail, emailed, expired>>
-----------------------------------------------------------------------------
(* isEligible, computeEmailVerified.  A rotated link finds no row. *)
FoundBy(t) == {c \in Clients : inv[c].token = t}
Redeemable == {"INVITATION_SENT", "INVITATION_OPENED"}
EligibleExpired(c, t) == c \in FoundBy(t) /\ inv[c].status \in Redeemable
Eligible(c, t) == c \in FoundBy(t) /\ inv[c].status \in Redeemable /\ t \notin expired
EmailVerified(row) ==
  \/ row.method = "AUTOMATED_EMAIL" /\ row.state \in {"AUTOMATED_ACCEPTED", "PROVIDER_DELIVERED"}
  \/ row.method = "MANUAL_EMAIL" /\ row.state = "MANUALLY_CONFIRMED"

(* continueInvitation: an opened invitation stays as it is. *)
MarkOpened(c) ==
  /\ inv[c].status = "INVITATION_SENT"
  /\ Write(c, [inv[c] EXCEPT !.status = "INVITATION_OPENED"])
Continue(c, t) ==
  /\ Eligible(c, t)
  /\ MarkOpened(c)
  /\ UNCHANGED <<email, account, token, mail, emailed, expired>>

AddressFreeAnyway(e) == TRUE
AddressFree(e) == \A c \in Clients : account[c].email # e
Activated(row) == [row EXCEPT !.status = "ACCOUNT_ACTIVATED"]
NewAccount(row) == [token |-> row.token, email |-> row.to, verified |-> EmailVerified(row)]
ActivateAccount(c, t) ==
  /\ Eligible(c, t)
  /\ AddressFree(inv[c].to)
  /\ account[c] = NoAccount
  /\ account' = [account EXCEPT ![c] = NewAccount(inv[c])]
  /\ Write(c, Activated(inv[c]))
  /\ UNCHANGED <<email, token, mail, emailed, expired>>

StaffStep ==
  \/ \E c \in Clients : Prepare(c) \/ Revoke(c)
  \/ \E c \in Clients, kind \in {"send", "resend"}, channel \in Channel : Click(c, kind, channel)
  \/ \E t \in Tokens : EmailLink(t) \/ ClickConfirm(t)
  \/ \E c \in Clients, e \in Emails \cup {None} : ChangeEmail(c, e)

Next ==
  \/ StaffStep
  \/ \E q \in Requests : Reserve(q) \/ ConfirmManualSend(q)
  \/ \E t \in Tokens :
       \/ Accept(t) \/ Reject(t) \/ RecordOutcome(t) \/ Expire(t)
       \/ WebhookSent(t) \/ \E state \in Terminal : WebhookTerminal(t, state)
       \/ \E c \in Clients : Continue(c, t) \/ ActivateAccount(c, t)

Spec == Init /\ [][Next]_vars
-----------------------------------------------------------------------------
(* The CHECK constraints of migration 20260824084337 and its corrections   *)
(* are never hit: no handler writes a row the database would refuse.       *)
RowsPassChecks ==
  \A c \in Clients :
    LET r == inv[c] IN
    /\ (r.token = None) = (r.to = None)
    /\ r.status \in Redeemable \cup {"ACCOUNT_ACTIVATED"} => r.token # None
    /\ (r.method = None) = (r.state = "NOT_ATTEMPTED")
    /\ (r.op = None) = (r.state = "NOT_ATTEMPTED")
    /\ r.state \in TerminalStates \cup {"AUTOMATED_UNCONFIRMED", "AUTOMATED_ACCEPTED"}
         => r.method = "AUTOMATED_EMAIL"
    /\ r.message # None => r.method = "AUTOMATED_EMAIL"
    /\ r.state \in (TerminalStates \ {"PROVIDER_FAILED"}) \cup {"AUTOMATED_ACCEPTED"}
         => r.message # None
    /\ r.confirmed = (r.state = "MANUALLY_CONFIRMED")
    /\ r.state = "MANUALLY_CONFIRMED" => r.method = "MANUAL_EMAIL"

(* What the row says of the provider is about the link it holds: late      *)
(* outcomes and webhooks of a superseded send never leak into a newer one. *)
EvidenceIsCurrent ==
  \A c \in Clients :
    LET r == inv[c] IN
    /\ r.state \in (TerminalStates \ {"PROVIDER_FAILED"}) \cup {"AUTOMATED_ACCEPTED"}
         => /\ r.message \in emailed
            /\ token[r.message].by = r.op /\ token[r.message].client = c
    /\ r.message # None /\ r.token # None => r.message = r.token

(* A click rotates the link at most once, however late or often it is      *)
(* handled.                                                                *)
RotatesOnce ==
  \A s, t \in Tokens : token[s] # NoToken /\ token[s].by = token[t].by => s = t

(* "without regressing a later state": on one link the provider's final    *)
(* word is only ever replaced by another one.                              *)
NoRegression ==
  [][\A c \in Clients :
       inv[c].state \in TerminalStates /\ inv'[c].token \in {inv[c].token, None}
         => inv'[c].state \in TerminalStates]_vars

(* An account is made exactly when the invitation is activated, for the    *)
(* address its link was frozen to, and no two accounts share an address.   *)
AccountsMatch ==
  \A c \in Clients :
    /\ (account[c] # NoAccount) = (inv[c].status = "ACCOUNT_ACTIVATED")
    /\ account[c] # NoAccount =>
         /\ account[c].token = inv[c].token
         /\ account[c].email = token[inv[c].token].to
         /\ \A d \in Clients \ {c} : account[d].email # account[c].email

(* D-034 section 7: an address counts as verified only if the very link   *)
(* that was redeemed had been emailed to it.                               *)
VerifiedWasEmailed ==
  \A c \in Clients : account[c].verified => account[c].token \in emailed

(* Links are one-time links: see OneTimeLink.  A link lives while its      *)
(* token is in a redeemable row and its seven days last.                   *)
LiveToken(c) ==
  IF inv[c].status \in Redeemable /\ inv[c].token \notin expired THEN inv[c].token ELSE None
IssuedLinks == {<<token[t].client, t>> : t \in {s \in Tokens : token[s] # NoToken}}
LiveLinks == [c \in Clients |-> LiveToken(c)]
UsedLinks == [c \in Clients |-> account[c].token]
Link == INSTANCE OneTimeLink WITH
  Links <- Tokens, issued <- IssuedLinks, live <- LiveLinks, used <- UsedLinks
LinksAreOneTime == Link!Spec

=============================================================================
