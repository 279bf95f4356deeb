------------------------------ MODULE AdminPanels ------------------------------
(* An admin page with one of its panels: a form, a panel that keeps a copy, *)
(* a panel of one action, the invitation's, or the page that takes in leads.*)
EXTENDS EditForms, LocalCopies, ActionPanels, InvitationPanel, LeadIntake

VARIABLE kind  \* "form", "copy", "action", "invitation" or "intake"

panelVars == <<pageVars, formVars, copyVars, actionVars, invitationVars, intakeVars, kind>>
-----------------------------------------------------------------------------
NoForm == form = None /\ fields = None /\ baseline = None /\ token = 0 /\ lock = "open" /\ touched = {}
NoCopy == panel = None /\ copy = None /\ lastProp = None /\ left = None /\ selected = None /\ list = None
NoAction == action = None /\ state = None /\ chosen = None /\ told = None
NoInvitation ==
  displayed = None /\ lastKey = 0 /\ resending = "open" /\ actionError = FALSE /\ manualUrl = None
NoIntake == result = None

TypeOK ==
  /\ row.at \in 0..MaxVersion /\ props.at <= row.at
  /\ reading # None => reading.at \in props.at..row.at
  /\ current # None => call[current].stage \in {"sent", "answered"}
  /\ \A c \in Calls \ {current} : call[c].stage # "answered"
  /\ CASE kind = "form" -> EditTypeOK
       [] kind = "copy" -> CopyTypeOK
       [] kind = "action" -> ActionTypeOK
       [] kind = "invitation" -> InvitationTypeOK
       [] kind = "intake" -> IntakeTypeOK

Init ==
  \/ kind = "form" /\ EditInit /\ NoCopy /\ NoAction /\ NoInvitation /\ NoIntake
  \/ kind = "copy" /\ CopyInit /\ NoForm /\ NoAction /\ NoInvitation /\ NoIntake
  \/ kind = "action" /\ ActionInit /\ NoForm /\ NoCopy /\ NoInvitation /\ NoIntake
  \/ kind = "invitation" /\ InvitationInit /\ NoForm /\ NoCopy /\ NoAction /\ NoIntake
  \/ kind = "intake" /\ IntakeInit /\ NoForm /\ NoCopy /\ NoAction /\ NoInvitation

Next ==
  \/ kind = "form" /\ EditNext /\ UNCHANGED <<kind, copyVars, actionVars, invitationVars, intakeVars>>
  \/ kind = "copy" /\ CopyNext /\ UNCHANGED <<kind, formVars, actionVars, invitationVars, intakeVars>>
  \/ kind = "action" /\ ActionNext /\ UNCHANGED <<kind, formVars, copyVars, invitationVars, intakeVars>>
  \/ kind = "invitation" /\ InvitationNext /\ UNCHANGED <<kind, formVars, copyVars, actionVars, intakeVars>>
  \/ kind = "intake" /\ IntakeNext /\ UNCHANGED <<kind, formVars, copyVars, actionVars, invitationVars>>

Spec == Init /\ [][Next]_panelVars

(* The browser and Next.js finish the refreshes they were asked for. *)
FairSpec ==
  /\ Spec
  /\ WF_panelVars(ReadPage /\ UNCHANGED <<formVars, copyVars, actionVars, invitationVars, intakeVars, kind>>)
  /\ WF_panelVars(kind = "form" /\ RenderForm /\ UNCHANGED <<kind, copyVars, actionVars, invitationVars, intakeVars>>)
  /\ WF_panelVars(kind = "copy" /\ RenderPanel /\ UNCHANGED <<kind, formVars, actionVars, invitationVars, intakeVars>>)
  /\ WF_panelVars(kind = "invitation" /\ RenderInvitation /\ UNCHANGED <<kind, formVars, copyVars, actionVars, intakeVars>>)
-----------------------------------------------------------------------------
(* Whatever was lost and sent again, by whomever: an action of its kind is *)
(* done once, a panel that says so says what was done, and a lead taken in *)
(* twice, which nothing prevents, is at least announced as such.           *)
DoneOnceAndTrulyTold == DoneOnce /\ DuplicatesAreTold

(* Three panels close a control until the page has caught up: a lead's     *)
(* after its own success, a booking's too, an invitation's resend after a  *)
(* conflict and its button.  The next refresh opens it, unless what it     *)
(* reads is what the page shows already: others have then taken the record *)
(* back, or the page had caught up before.                                 *)
AwaitsThePage ==
  \/ panel = "lead status" /\ AwaitingRefresh
  \/ panel = "booking status" /\ StaleGuardActive
  \/ resending = "refreshing"
NothingNew ==
  IF kind = "invitation" THEN row.at = props.at ELSE row.value = props.value
RefreshReopens == AwaitsThePage /\ asked ~> ~AwaitsThePage \/ NothingNew

=============================================================================
