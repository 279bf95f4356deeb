------------------------------ MODULE EditForms ------------------------------
(***************************************************************************)
(* EditClientForm and EditLeadForm over updateClient and updateLead.  Both *)
(* send the fields that differ from the last state the server confirmed.   *)
(* The client form adds the updatedAt it saw and is locked by a conflict   *)
(* until the user has asked for a refresh and fresh props have come.  The  *)
(* lead form sends no token, and locks for good once the lead is converted.*)
(* (The two parts of updateLead are the subject of Leads; here it is one   *)
(* step.)                                                                  *)
(***************************************************************************)
EXTENDS AdminPage

CONSTANTS
  Fields,  \* the contact fields; the others have the same life and no rule
  Texts    \* what may be typed; None is the empty field

VARIABLES
  form,      \* which of the two forms this page shows
  fields,    \* what the inputs hold
  baseline,  \* the last confirmed server state
  token,     \* expectedUpdatedAt
  lock,      \* conflict and conflictRefreshRequested, or locked
  touched    \* history: the inputs typed into since they last showed the server's state

formVars == <<form, fields, baseline, token, lock, touched>>
-----------------------------------------------------------------------------
ASSUME NoneIsNoForm == None \notin {"client", "lead"}

Contents == [Fields -> Texts \cup {None}]
HasContact(data) == \E f \in Fields : data[f] # None
Record == [data : {d \in Contents : HasContact(d)}, converted : BOOLEAN]

EditTypeOK ==
  /\ row.value \in Record
  /\ fields \in Contents /\ baseline \in Contents
  /\ token \in 0..MaxVersion /\ touched \subseteq Fields
  /\ lock \in {"open", "conflict", "refreshing", "locked"}
  /\ form = "lead" => lock \in {"open", "locked"}
  /\ form = "client" => lock # "locked"

Showing(r) ==
  /\ fields' = r.value.data /\ baseline' = r.value.data /\ token' = r.at
  /\ touched' = {}
(* The fields are interchangeable, so the record may start with this one.  *)
SomeField == CHOOSE f \in Fields : TRUE
EditInit ==
  /\ form \in {"client", "lead"}
  /\ PageInit([data : {d \in Contents : d[SomeField] # None}, converted : {FALSE}])
  /\ fields = row.value.data /\ baseline = row.value.data /\ token = row.at
  /\ lock = "open" /\ touched = {}

(* The client form's inputs are disabled while submitting or in conflict;  *)
(* the lead form's are there until it is locked.                           *)
Editable == lock = "open" /\ (form = "client" => current = None)
Type(f, t) ==
  /\ Editable
  /\ fields[f] # t
  /\ fields' = [fields EXCEPT ![f] = t]
  /\ touched' = touched \cup {f}
  /\ UNCHANGED <<pageVars, form, baseline, token, lock>>

(* buildPatch, validateClientSide and the first half of handleSubmit. *)
WholePatch == fields
Patch == [f \in {g \in Fields : fields[g] # baseline[g]} |-> fields[f]]
Submit(c) ==
  /\ lock = "open"
  /\ DOMAIN Patch # {}
  /\ Send(c, [patch |-> Patch, token |-> token, seen |-> baseline, touched |-> touched])
  /\ UNCHANGED <<row, props, asked, reading, formVars>>
SubmitClient(c) == form = "client" /\ Submit(c)
SubmitLead(c) == form = "lead" /\ HasContact(fields) /\ Submit(c)

(* The handlers: a row that would stay the same is answered, not written. *)
Merged(data, patch) == [f \in Fields |-> IF f \in DOMAIN patch THEN patch[f] ELSE data[f]]
KeepsContact(c) == HasContact(Merged(row.value.data, call[c].ask.patch))
Write(c) ==
  LET new == [row.value EXCEPT !.data = Merged(@, call[c].ask.patch)] IN
  /\ KeepsContact(c)
  /\ IF new = row.value THEN UNCHANGED row ELSE Update(new)
  /\ Answer(c, [kind |-> "ok", row |-> row'])
  /\ UNCHANGED <<props, asked, reading, current, formVars>>
Refused(c, kind) ==
  /\ Answer(c, [kind |-> kind])
  /\ UNCHANGED <<row, props, asked, reading, current, formVars>>
SameRowUnchecked(c) == TRUE
SameRow(c) == call[c].ask.token = row.at
UpdateClient(c) ==
  /\ form = "client" /\ InStage(c, "sent")
  /\ \/ SameRow(c) /\ Write(c)
     \/ SameRow(c) /\ ~KeepsContact(c) /\ Refused(c, "refused")
     \/ ~SameRow(c) /\ Refused(c, "conflict")

(* Every attempt of runSerializableWithRetry lost a write conflict, which  *)
(* another transaction on another record may have caused.                  *)
RunOut(c) ==
  /\ form = "client" /\ InStage(c, "sent")
  /\ Refused(c, "conflict")

Locked == row.value.converted
UpdateLead(c) ==
  /\ form = "lead" /\ InStage(c, "sent")
  /\ \/ ~Locked /\ Write(c)
     \/ ~Locked /\ ~KeepsContact(c) /\ Refused(c, "refused")
     \/ Locked /\ Refused(c, "locked")

(* The second half of each handleSubmit. *)
Saved(c) ==
  /\ Awaits(c) /\ Finish(c)
  /\ call[c].answer.kind = "ok"
  /\ Showing(call[c].answer.row)
  /\ Ask
  /\ UNCHANGED <<row, props, reading, form, lock>>
NotSaved(c) ==
  /\ Awaits(c) /\ Finish(c)
  /\ call[c].answer.kind # "ok"
  /\ lock' = IF call[c].answer.kind = "refused" THEN lock ELSE call[c].answer.kind
  /\ UNCHANGED <<row, props, asked, reading, form, fields, baseline, token, touched>>
ReceiveClient(c) == form = "client" /\ (Saved(c) \/ NotSaved(c))
ReceiveLead(c) == form = "lead" /\ (Saved(c) \/ NotSaved(c))

(* No answer, or a body that isUpdateClientSuccess does not recognize. *)
Unrecognized(c) == LoseAnswer(c) /\ UNCHANGED formVars
-----------------------------------------------------------------------------
(* The render-time check: props adopted when the user asked for them, the  *)
(* form is in conflict, and they are not what the server just rejected.    *)
AdoptedWhenSame(l, r) == l = "refreshing" /\ r.at = token
Adopted(l, r) == l = "refreshing" /\ r.at # token
Rendered(l, r) ==
  IF Adopted(l, r)
  THEN Showing(r) /\ lock' = "open"
  ELSE UNCHANGED <<fields, baseline, token, touched>> /\ lock' = l

RenderForm ==
  /\ Render /\ Rendered(lock, reading)
  /\ UNCHANGED <<row, asked, call, current, form>>

(* "Refresh and try again" *)
ClickRefresh ==
  /\ lock \in {"conflict", "refreshing"}
  /\ Ask /\ Rendered("refreshing", props)
  /\ UNCHANGED <<row, props, reading, call, current, form>>

(* Somebody else edits the record, or converts the lead. *)
OtherEdit ==
  /\ ~row.value.converted
  /\ \/ \E d \in Contents \ {row.value.data} :
          HasContact(d) /\ Update([row.value EXCEPT !.data = d])
     \/ form = "lead" /\ Update([row.value EXCEPT !.converted = TRUE])
  /\ UNCHANGED <<props, asked, reading, call, current, formVars>>

EditNext ==
  \/ \E f \in Fields, t \in Texts \cup {None} : Type(f, t)
  \/ \E c \in Calls :
       \/ SubmitClient(c) \/ UpdateClient(c) \/ RunOut(c) \/ ReceiveClient(c)
       \/ SubmitLead(c) \/ UpdateLead(c) \/ ReceiveLead(c)
       \/ Unrecognized(c)
  \/ RenderForm \/ ClickRefresh \/ OtherEdit
  \/ (ReadPage \/ NeighbourAsks) /\ UNCHANGED formVars
-----------------------------------------------------------------------------
Saves(c) == InStage(c, "sent") /\ ~InStage(c, "sent")' /\ row' # row

(* EditClientForm.tsx:263-279, service.ts:323: a client saved from this    *)
(* form was, until then, exactly what the form had shown its user, however *)
(* stale the page, lost the answers or repeated the conflicts.             *)
OverwritesOnlyWhatWasSeen ==
  [][form = "client" => \A c \in Calls : Saves(c) => row.value.data = call[c].ask.seen]_row

(* "only fields that changed from the last confirmed server state are ever *)
(* sent": a save changes nothing its user did not type, so that others'    *)
(* changes to other fields survive it, also without a token.               *)
SavesOnlyWhatWasTyped ==
  [][form # None => \A c \in Calls : Saves(c) =>
       \A f \in Fields : row'.value.data[f] # row.value.data[f] => f \in call[c].ask.touched]_row

(* A refresh asked for after a conflict with a newer row lifts the lock. *)
RefreshLiftsConflict ==
  (form = "client" /\ lock = "refreshing" /\ asked /\ row.at # token) ~> lock # "refreshing"

=============================================================================
