----------------------------- MODULE LocalCopies -----------------------------
(***************************************************************************)
(* The panels that change one column of the record and keep showing their  *)
(* own confirmed result until the page catches up: StatusTransitionPanel   *)
(* of a lead, BookingStatusTransitionPanel, and the assignment panels of   *)
(* leads, clients and bookings, over updateLeadStatus, updateBookingStatus *)
(* and setAssignment; and FinanceAssignmentPanel, which only shows the     *)
(* page's.                                                                 *)
(***************************************************************************)
EXTENDS AdminPage

CONSTANTS
  LeadStates,     \* the statuses of a lead this instance uses
  BookingStates,  \* the statuses of a booking
  Assignees       \* staff who can be assigned

VARIABLES
  panel,     \* which of them this is
  copy,      \* confirmedStatus, displayedAssignment
  lastProp,  \* lastPropStatus, lastPropAssignmentKey
  left,      \* lastTransition.from of the booking's panel
  selected,  \* the status chosen and not yet applied, of the two status panels
  list       \* whether the staff to choose from have been fetched

copyVars == <<panel, copy, lastProp, left, selected, list>>
-----------------------------------------------------------------------------
LT == INSTANCE LeadTransitions
BT == INSTANCE BookingTransitions

Fetching == {"lead assignment", "client assignment", "booking assignment"}
Assigning == Fetching \cup {"finance assignment"}
Panels == {"lead status", "booking status"} \cup Assigning

Column == [p \in Panels |-> CASE p = "lead status" -> LeadStates
                              [] p = "booking status" -> BookingStates
                              [] OTHER -> Assignees \cup {None}]
CopyTypeOK ==
  /\ panel \in Panels
  /\ {row.value, props.value} \cup {copy, lastProp} \subseteq Column[panel]
  /\ left \in BookingStates \cup {None}
  /\ selected \in Column[panel] \cup {None}
  /\ list \in {"loading", "loaded", "failed"}

CopyInit ==
  /\ panel \in Panels
  /\ PageInit(Column[panel])
  /\ copy = props.value /\ lastProp = props.value
  /\ left = None /\ selected = None
  /\ list = IF panel \in Fetching THEN "loading" ELSE "loaded"

Allowed(s, t) ==
  IF panel = "lead status" THEN LT!Allowed(s, t) ELSE BT!TransitionAllowed(s, t)

(* What each panel offers.  A lead's options came with the props, so none  *)
(* while its own result differs from them.  A booking's form is there      *)
(* whenever the page's status has a target, but disabled while the page    *)
(* shows the status the panel has left.                                    *)
AwaitingRefresh == copy # props.value
VisibleOptions ==
  IF AwaitingRefresh THEN {} ELSE {t \in LeadStates : LT!Allowed(copy, t)}

HasMoved == left # None
StaleGuardActive == left = props.value
AllowedTargets == {t \in BookingStates : BT!TransitionAllowed(props.value, t)}

EligibleStaff == Assignees \ {copy}

(* A choice is kept while the page moves on under it.  At submission a     *)
(* lead's must still be an option; a booking's is sent as it is, with the  *)
(* status now shown, and only the server looks whether they go together.   *)
Select(t) ==
  /\ selected' = t
  /\ UNCHANGED <<pageVars, panel, copy, lastProp, left, list>>
SelectLeadStatus(t) ==
  /\ panel = "lead status" /\ VisibleOptions # {}
  /\ t \in VisibleOptions \cup {None}
  /\ Select(t)
SelectBookingStatus(t) ==
  /\ panel = "booking status" /\ AllowedTargets # {}
  /\ current = None /\ ~StaleGuardActive
  /\ t \in AllowedTargets \cup {None}
  /\ Select(t)

(* The first half of each submit handler. *)
Request(c, ask) ==
  /\ Send(c, ask)
  /\ UNCHANGED <<row, props, asked, reading, copyVars>>
SubmitLeadStatus(c) ==
  /\ panel = "lead status" /\ selected \in VisibleOptions
  /\ Request(c, [expected |-> copy, new |-> selected])
SubmitBookingStatus(c) ==
  /\ panel = "booking status" /\ AllowedTargets # {}
  /\ ~StaleGuardActive /\ selected # None
  /\ Request(c, [expected |-> props.value, new |-> selected])
Pick(c, s, assigned) == Request(c, [new |-> s, reason |-> assigned # None])
AssignLead(c, s) ==
  panel = "lead assignment" /\ list = "loaded" /\ s \in EligibleStaff /\ Pick(c, s, copy)
AssignClient(c, s) ==
  panel = "client assignment" /\ list = "loaded" /\ s \in EligibleStaff /\ Pick(c, s, copy)
AssignBooking(c, s) ==
  panel = "booking assignment" /\ list = "loaded" /\ s \in EligibleStaff /\ Pick(c, s, copy)
AssignFinance(c, s) == panel = "finance assignment" /\ Pick(c, s, props.value)
EndLead(c) ==
  panel = "lead assignment" /\ copy # None /\ Request(c, [new |-> None, reason |-> TRUE])
EndClient(c) ==
  panel = "client assignment" /\ copy # None /\ Request(c, [new |-> None, reason |-> TRUE])
EndFinance(c) ==
  panel = "finance assignment" /\ props.value # None
  /\ Request(c, [new |-> None, reason |-> TRUE])

(* The consultants to choose from come in pages: all of them or an error.  *)
LoadAllEligible ==
  /\ list = "loading" /\ list' \in {"loaded", "failed"}
  /\ UNCHANGED <<pageVars, panel, copy, lastProp, left, selected>>

(* The handlers.  What is asked for already: nothing to do.  A status      *)
(* request must name the current status and a move from it the matrix has, *)
(* whatever its panel offered; an assignment request names no status,      *)
(* but replacing somebody takes a reason, which the panel asks for when it *)
(* shows somebody, and whoever is chosen must still be eligible.           *)
Done(c) ==
  /\ Answer(c, [kind |-> "ok", at |-> row'.at])
  /\ UNCHANGED <<props, asked, reading, current, copyVars>>
TurnedDown(c) ==
  /\ Answer(c, [kind |-> "refused"])
  /\ UNCHANGED <<row, props, asked, reading, current, copyVars>>
StillExpected(c) == row.value = call[c].ask.expected
MoveStatus(c) ==
  LET new == call[c].ask.new IN
    \/ row.value = new /\ UNCHANGED row /\ Done(c)
    \/ row.value # new /\ ~StillExpected(c) /\ TurnedDown(c)
    \/ row.value # new /\ ~Allowed(row.value, new) /\ TurnedDown(c)
    \/ StillExpected(c) /\ Allowed(row.value, new) /\ Update(new) /\ Done(c)
UpdateLeadStatus(c) ==
  panel = "lead status" /\ InStage(c, "sent") /\ MoveStatus(c)
UpdateBookingStatus(c) ==
  panel = "booking status" /\ InStage(c, "sent") /\ MoveStatus(c)
SetAssignment(c) ==
  LET s == call[c].ask.new IN
  /\ panel \in Assigning /\ InStage(c, "sent") /\ s # None
  /\ \/ row.value = s /\ UNCHANGED row /\ Done(c)
     \/ row.value # s /\ TurnedDown(c)
     \/ row.value # s /\ (row.value # None => call[c].ask.reason) /\ Update(s) /\ Done(c)
EndAssignment(c) ==
  /\ panel \in Assigning /\ InStage(c, "sent") /\ call[c].ask.new = None
  /\ IF row.value = None THEN UNCHANGED row ELSE Update(None)
  /\ Done(c)

(* The second half: success is shown at once and a refresh asked for. *)
Succeeded(c) ==
  /\ Awaits(c) /\ Finish(c) /\ call[c].answer.kind = "ok"
  /\ Ask
  /\ UNCHANGED <<row, props, reading, panel, lastProp>>
ShowResult(c) == Succeeded(c) /\ copy' = call[c].ask.new /\ UNCHANGED <<left, list>>
ConfirmStatus(c) == panel = "lead status" /\ ShowResult(c) /\ selected' = None
ConfirmBookingStatus(c) ==
  /\ panel = "booking status" /\ Succeeded(c)
  /\ left' = call[c].ask.expected /\ selected' = None
  /\ UNCHANGED <<copy, list>>
ConfirmLeadAssignment(c) ==
  panel = "lead assignment" /\ ShowResult(c) /\ UNCHANGED selected
ConfirmClientAssignment(c) ==
  panel = "client assignment" /\ ShowResult(c) /\ UNCHANGED selected
ConfirmBookingAssignment(c) ==
  panel = "booking assignment" /\ ShowResult(c) /\ UNCHANGED selected
ConfirmFinanceAssignment(c) ==
  panel = "finance assignment" /\ Succeeded(c) /\ UNCHANGED <<copy, left, selected, list>>
ShowError(c) ==
  /\ Awaits(c) /\ Finish(c) /\ call[c].answer.kind # "ok"
  /\ UNCHANGED <<row, props, asked, reading, copyVars>>
Unconfirmed(c) == LoseAnswer(c) /\ UNCHANGED copyVars

(* The render-time check: a prop that changed is adopted.  What was chosen *)
(* stays.                                                                  *)
DiffersFromCopy(v) == v # copy
PropChanged(v) == v # lastProp
RenderPanel ==
  /\ Render
  /\ IF panel \notin {"booking status", "finance assignment"} /\ PropChanged(reading.value)
     THEN lastProp' = reading.value /\ copy' = reading.value
     ELSE UNCHANGED <<lastProp, copy>>
  /\ UNCHANGED <<row, asked, call, current, panel, left, selected, list>>

OtherChange ==
  /\ \E v \in Column[panel] \ {row.value} :
       /\ panel \in {"lead status", "booking status"} => Allowed(row.value, v)
       /\ panel = "booking assignment" => v # None
       /\ Update(v)
  /\ UNCHANGED <<props, asked, reading, call, current, copyVars>>

CopyNext ==
  \/ \E c \in Calls :
       \/ SubmitLeadStatus(c) \/ SubmitBookingStatus(c)
       \/ \E s \in Assignees :
            AssignLead(c, s) \/ AssignClient(c, s) \/ AssignBooking(c, s) \/ AssignFinance(c, s)
       \/ EndLead(c) \/ EndClient(c) \/ EndFinance(c)
       \/ UpdateLeadStatus(c) \/ UpdateBookingStatus(c)
       \/ SetAssignment(c) \/ EndAssignment(c)
       \/ ConfirmStatus(c) \/ ConfirmBookingStatus(c)
       \/ ConfirmLeadAssignment(c) \/ ConfirmClientAssignment(c)
       \/ ConfirmBookingAssignment(c) \/ ConfirmFinanceAssignment(c)
       \/ ShowError(c) \/ Unconfirmed(c)
  \/ \E t \in LeadStates \cup {None} : SelectLeadStatus(t)
  \/ \E t \in BookingStates \cup {None} : SelectBookingStatus(t)
  \/ LoadAllEligible \/ RenderPanel \/ OtherChange
  \/ (ReadPage \/ NeighbourAsks) /\ UNCHANGED copyVars
-----------------------------------------------------------------------------
(* StatusTransitionPanel.tsx:108-115: a panel's own success is not rolled  *)
(* back by a render that repeats the old prop; only a prop that changed, or*)
(* the panel's next success, replaces the copy.                            *)
OwnResultSurvives ==
  [][copy' # copy => lastProp' # lastProp \/ current' # current]_copyVars

=============================================================================
