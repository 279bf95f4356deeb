----------------------------- MODULE InvitationPanel -----------------------------
(***************************************************************************)
(* PortalInvitationPanel over the invitation service, whose transactions   *)
(* PortalInvitation models in full: here, what the panel shows, offers and *)
(* does with late, lost and stale answers.  The record's link is the row   *)
(* version that made the current link, 0 for the first or none.            *)
(***************************************************************************)
EXTENDS AdminPage

VARIABLES
  displayed,  \* the invitation shown: a row, the page's or an answer's
  lastKey,    \* lastPropKey, the version of the last adopted prop
  resending,  \* staleConflict and staleConflictRefreshRequested: "open", "stale", "refreshing"
  actionError,  \* whether an error is shown, and with it the button of a stale resend
  manualUrl   \* the one-time link shown, None most of the time

invitationVars == <<displayed, lastKey, resending, actionError, manualUrl>>
-----------------------------------------------------------------------------
Channels == {"MANUAL_EMAIL", "AUTOMATED_EMAIL"}
Resendable == {"INVITATION_SENT", "INVITATION_OPENED", "INVITATION_REVOKED"}
Revocable == {"INVITATION_PREPARED", "INVITATION_SENT", "INVITATION_OPENED"}
InvitationView ==
  [status : Resendable \cup Revocable \cup {"NONE", "ACCOUNT_ACTIVATED"},
   method : Channels \cup {None}, link : 0..MaxVersion]
NotInvited == [status |-> "NONE", method |-> None, link |-> 0]

InvitationTypeOK ==
  /\ {row.value, props.value, displayed.value} \subseteq InvitationView
  /\ {displayed.at, lastKey} \subseteq 0..MaxVersion
  /\ resending \in {"open", "stale", "refreshing"}
  /\ actionError \in BOOLEAN
  /\ manualUrl \in 1..MaxVersion \cup {None}

InvitationInit ==
  /\ PageInit({NotInvited} \cup
       {[status |-> s, method |-> None, link |-> 0] : s \in Resendable \cup Revocable})
  /\ displayed = props /\ lastKey = props.at
  /\ resending = "open" /\ actionError = FALSE /\ manualUrl = None

(* The controls the displayed invitation has, and the first half of each   *)
(* of their handlers, which puts the last error away.                      *)
Shows(statuses) == displayed.value.status \in statuses
Request4(c, do, channel) ==
  /\ Send(c, [do |-> do, channel |-> channel, expected |-> displayed.at])
  /\ actionError' = FALSE
  /\ UNCHANGED <<row, props, asked, reading, displayed, lastKey, resending>>
PressPrepare(c) == Shows({"NONE"}) /\ Request4(c, "prepare", None) /\ UNCHANGED manualUrl
PressSend(c, channel) ==
  /\ Shows({"INVITATION_PREPARED"} \cup Resendable) /\ resending = "open"
  /\ Request4(c, IF Shows(Resendable) THEN "resend" ELSE "send", channel)
  /\ manualUrl' = None
PressConfirmManual(c) ==
  /\ Shows({"INVITATION_SENT"}) /\ displayed.value.method = None
  /\ Request4(c, "confirm", None) /\ UNCHANGED manualUrl
PressRevoke(c) == Shows(Revocable) /\ Request4(c, "revoke", None) /\ UNCHANGED manualUrl

(* The handlers: what is so already is answered, only a resend needs the   *)
(* row it was pressed on, and what the state does not allow is refused.    *)
Asks(c, do) == InStage(c, "sent") /\ call[c].ask.do = do
Replied(c, answer) ==
  /\ Answer(c, answer)
  /\ UNCHANGED <<props, asked, reading, current, invitationVars>>
Granted(c) == Replied(c, [kind |-> "ok", row |-> row', url |-> None])
Denied(c, kind) == UNCHANGED row /\ Replied(c, [kind |-> kind])

HandlePrepare(c) ==
  /\ Asks(c, "prepare")
  /\ CASE row.value.status = "NONE" ->
            Update([row.value EXCEPT !.status = "INVITATION_PREPARED"]) /\ Granted(c)
       [] row.value.status = "INVITATION_PREPARED" -> UNCHANGED row /\ Granted(c)
       [] OTHER -> Denied(c, "error")

(* An automated link is emailed, not answered; delivery may be disabled.   *)
Issue(c, channel) ==
  /\ Update([status |-> "INVITATION_SENT", link |-> row.at + 1,
             method |-> IF channel = "AUTOMATED_EMAIL" THEN channel ELSE None])
  /\ Replied(c, [kind |-> "ok", row |-> row',
                 url |-> IF channel = "MANUAL_EMAIL" THEN row'.value.link ELSE None])
HandleSend(c) ==
  /\ Asks(c, "send")
  /\ IF row.value.status = "INVITATION_PREPARED"
     THEN Issue(c, call[c].ask.channel)
     ELSE Denied(c, "error")
OfAnyRow(c) == TRUE
OfShownRow(c) == call[c].ask.expected = row.at
HandleResend(c) ==
  /\ Asks(c, "resend")
  /\ CASE row.value.status \notin Resendable -> Denied(c, "error")
       [] ~OfShownRow(c) -> Denied(c, "stale")
       [] OTHER -> Issue(c, call[c].ask.channel)
DeliveryDisabled(c) ==
  /\ InStage(c, "sent") /\ call[c].ask.channel = "AUTOMATED_EMAIL"
  /\ Denied(c, "error")

HandleConfirmManual(c) ==
  /\ Asks(c, "confirm")
  /\ CASE row.value.method = "MANUAL_EMAIL" -> UNCHANGED row /\ Granted(c)
       [] row.value.status = "INVITATION_SENT" /\ row.value.method = None ->
            Update([row.value EXCEPT !.method = "MANUAL_EMAIL"]) /\ Granted(c)
       [] OTHER -> Denied(c, "error")
HandleRevoke(c) ==
  /\ Asks(c, "revoke")
  /\ CASE row.value.status = "INVITATION_REVOKED" -> UNCHANGED row /\ Granted(c)
       [] row.value.status \in Revocable ->
            Update([row.value EXCEPT !.status = "INVITATION_REVOKED"]) /\ Granted(c)
       [] OTHER -> Denied(c, "error")

(* The second half: the answer's row is shown, with the link it brings; a  *)
(* confirmation or a revocation puts the link away.                        *)
ShowInvitation(c) ==
  /\ Awaits(c) /\ Finish(c) /\ call[c].answer.kind = "ok"
  /\ displayed' = call[c].answer.row
  /\ manualUrl' = CASE call[c].answer.url # None -> call[c].answer.url
                    [] call[c].ask.do \in {"confirm", "revoke"} -> None
                    [] OTHER -> manualUrl
  /\ Ask
  /\ UNCHANGED <<row, props, reading, lastKey, resending, actionError>>
ShowInvitationError(c) ==
  /\ Awaits(c) /\ Finish(c) /\ call[c].answer.kind # "ok"
  /\ resending' = IF call[c].answer.kind = "stale" THEN "stale" ELSE resending
  /\ actionError' = TRUE
  /\ UNCHANGED <<row, props, asked, reading, displayed, lastKey, manualUrl>>
NotRecognized(c) ==
  /\ LoseAnswer(c)
  /\ actionError' = TRUE
  /\ UNCHANGED <<displayed, lastKey, resending, manualUrl>>

(* "Refresh and try again" is part of the error, so it goes with it when   *)
(* another action is taken, and the lock stays.                            *)
ClickRefreshInvitation ==
  /\ actionError /\ resending # "open" /\ resending' = "refreshing"
  /\ Ask
  /\ UNCHANGED <<row, props, reading, call, current, displayed, lastKey, actionError, manualUrl>>

(* The render-time check: a prop with another key is adopted, and unlocks  *)
(* a resend whose refresh was asked for.                                   *)
RenderInvitation ==
  /\ Render
  /\ IF reading.at # lastKey
     THEN /\ displayed' = reading /\ lastKey' = reading.at
          /\ resending' = IF resending = "refreshing" THEN "open" ELSE resending
          /\ actionError' = (actionError /\ resending # "refreshing")
     ELSE UNCHANGED <<displayed, lastKey, resending, actionError>>
  /\ UNCHANGED <<row, asked, call, current, manualUrl>>

(* Other staff, the provider's webhooks (which touch only what is not      *)
(* modelled here), and the client who opens the link and activates.        *)
OtherInvitationChange ==
  /\ \/ row.value.status = "NONE" /\ Update([row.value EXCEPT !.status = "INVITATION_PREPARED"])
     \/ /\ row.value.status \in Resendable \cup Revocable
        /\ \E m \in Channels \cup {None} :
             Update([status |-> "INVITATION_SENT", method |-> m, link |-> row.at + 1])
     \/ row.value.status \in Revocable /\ Update([row.value EXCEPT !.status = "INVITATION_REVOKED"])
     \/ row.value.status = "INVITATION_SENT" /\ Update([row.value EXCEPT !.status = "INVITATION_OPENED"])
     \/ /\ row.value.status \in {"INVITATION_SENT", "INVITATION_OPENED"}
        /\ Update([row.value EXCEPT !.status = "ACCOUNT_ACTIVATED"])
     \/ row.value.method = "AUTOMATED_EMAIL" /\ Update(row.value)
  /\ UNCHANGED <<props, asked, reading, call, current, invitationVars>>

InvitationNext ==
  \/ \E c \in Calls :
       \/ PressPrepare(c) \/ PressConfirmManual(c) \/ PressRevoke(c)
       \/ \E channel \in Channels : PressSend(c, channel)
       \/ HandlePrepare(c) \/ HandleSend(c) \/ HandleResend(c) \/ DeliveryDisabled(c)
       \/ HandleConfirmManual(c) \/ HandleRevoke(c)
       \/ ShowInvitation(c) \/ ShowInvitationError(c) \/ NotRecognized(c)
  \/ ClickRefreshInvitation \/ RenderInvitation \/ OtherInvitationChange
  \/ (ReadPage \/ NeighbourAsks) /\ UNCHANGED invitationVars

=============================================================================
