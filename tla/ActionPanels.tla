----------------------------- MODULE ActionPanels -----------------------------
(***************************************************************************)
(* The panels of one decisive action: ConvertToClientPanel,                *)
(* PublishProposalVersionButton, RecordProposalResponsePanel,              *)
(* CreateBookingButton, CreateProposalPanel and                            *)
(* CreateProposalRevisionPanel, each over its handler as Leads, Proposals  *)
(* and Bookings model it in full.  Here it is what a repeated or late      *)
(* request is answered that matters.                                       *)
(***************************************************************************)
EXTENDS AdminPage

CONSTANTS
  Clients,   \* clients a lead may be found to match
  Hidden,    \* a matching client the user may not see
  New,       \* to convert to a new client; the one thing the other panels do
  Responses  \* answers to record

VARIABLES
  action,  \* which panel this is
  state,   \* "ready", "done" (success, for good), "refreshOnly" or "gone" from the page
  chosen,  \* chosenAction of the conversion awaiting confirmation
  told     \* what the success message says, None before

actionVars == <<action, state, chosen, told>>
-----------------------------------------------------------------------------
OneTime == {"convert", "publish", "book", "respond"}
Repeatable == {"propose", "revise"}
ASSUME NoneIsNoAim ==
  None \notin OneTime \cup Repeatable \cup Clients \cup {New} \cup Responses

Aims == [a \in OneTime \cup Repeatable |->
           CASE a = "convert" -> Clients \cup {New} [] a = "respond" -> Responses [] OTHER -> {New}]

(* What the action left behind, how often it was done, whether the version *)
(* it concerns is still the current one, and what else decides: the        *)
(* clients a lead matches, or how many publications there were.            *)
Context == [a \in OneTime \cup Repeatable |->
              IF a = "convert" THEN SUBSET (Clients \cup {Hidden}) ELSE 0..MaxVersion]
Trace == [outcome : Aims[action] \cup {None}, made : 0..MaxVersion,
          standing : BOOLEAN, context : Context[action]]
Fresh == [outcome |-> None, made |-> 0, standing |-> TRUE]

ActionTypeOK ==
  /\ action \in OneTime \cup Repeatable
  /\ row.value \in Trace
  /\ state \in {"ready", "done", "refreshOnly", "gone"}
  /\ {chosen, told} \subseteq Aims[action] \cup {None}

ActionInit ==
  /\ action \in OneTime \cup Repeatable
  /\ PageInit([outcome : {None}, made : {0}, standing : {TRUE},
               context : IF action = "convert" THEN Context[action] ELSE {0}])
  /\ state = "ready" /\ chosen = None /\ told = None

(* The two steps of a conversion: one of the matches the user may see, or  *)
(* a new client when there is no match at all; then a confirmation, which  *)
(* is checked against the present props and bounces when they have moved.  *)
Offered ==
  LET matches == props.value.context IN
    IF matches = {} THEN {New} ELSE matches \ {Hidden}
Continue(x) ==
  /\ action = "convert" /\ state = "ready" /\ chosen = None
  /\ x \in Offered
  /\ chosen' = x
  /\ UNCHANGED <<pageVars, action, state, told>>
Cancel ==
  /\ action = "convert" /\ state = "ready" /\ chosen # None /\ current = None
  /\ chosen' = None
  /\ UNCHANGED <<pageVars, action, state, told>>
(* The first half of each submit handler. *)
Press(c, a, x) ==
  /\ action = a /\ state = "ready"
  /\ Send(c, [want |-> x, seen |-> props.value.context])
  /\ UNCHANGED <<row, props, asked, reading, actionVars>>
Confirm(c) == action = "convert" /\ chosen \in Offered /\ Press(c, "convert", chosen)
PressPublish(c) == Press(c, "publish", New)
PressBook(c) == Press(c, "book", New)
PressRespond(c, x) == Press(c, "respond", x)
PressPropose(c) == Press(c, "propose", New)
PressRevise(c) == Press(c, "revise", New)

(* The handlers.  What is there already is the answer to a conversion that *)
(* names no other client, a publication that still stands, or a booking; a *)
(* response is recorded once; the creation of proposals and versions is    *)
(* deliberately not idempotent (D-027 section 6).                          *)
DoneBefore == action \in OneTime /\ row.value.outcome # None
ReplayableAnyway(x) == TRUE
Replayable(x) ==
  CASE action = "convert" -> x \in {row.value.outcome, New}
    [] action = "publish" -> row.value.standing
    [] action = "book" -> TRUE
    [] OTHER -> FALSE
Possible(ask) ==
  CASE action = "convert" ->
         LET matches == row.value.context IN
           IF ask.want = New THEN matches = {} ELSE ask.want \in matches
    [] action = "publish" -> row.value.context = ask.seen
    [] action = "respond" -> row.value.standing
    [] OTHER -> TRUE
Fails(c, kind) ==
  /\ Answer(c, [kind |-> kind])
  /\ UNCHANGED <<row, props, asked, reading, current, actionVars>>
Act(c) ==
  LET x == call[c].ask.want IN
  /\ InStage(c, "sent") /\ ~DoneBefore /\ Possible(call[c].ask)
  /\ Update([row.value EXCEPT !.outcome = x, !.made = @ + 1,
                              !.context = IF action = "publish" THEN @ + 1 ELSE @])
  /\ Answer(c, [kind |-> "ok", outcome |-> x])
  /\ UNCHANGED <<props, asked, reading, current, actionVars>>
Replay(c) ==
  /\ InStage(c, "sent") /\ DoneBefore /\ Replayable(call[c].ask.want)
  /\ Answer(c, [kind |-> "ok", outcome |-> row.value.outcome])
  /\ UNCHANGED <<row, props, asked, reading, current, actionVars>>
TurnDown(c) ==
  /\ InStage(c, "sent")
  /\ IF DoneBefore THEN ~Replayable(call[c].ask.want) ELSE ~Possible(call[c].ask)
  /\ Fails(c, IF action = "respond" THEN "stale" ELSE "error")
ConflictsRunOut(c) == InStage(c, "sent") /\ Fails(c, "error")

(* The second half.  A conversion's message names the client of the        *)
(* answer; the others say that what was asked for is done.  A revision     *)
(* panel is cleared and may be used again, the others are done.            *)
Shown(c, a, message, next) ==
  /\ action = a
  /\ Awaits(c) /\ Finish(c) /\ call[c].answer.kind = "ok"
  /\ Ask
  /\ told' = message /\ state' = next
  /\ UNCHANGED <<row, props, reading, action, chosen>>
ShowConverted(c) == Awaits(c) /\ Shown(c, "convert", call[c].answer.outcome, "done")
ShowPublished(c) == Awaits(c) /\ Shown(c, "publish", call[c].ask.want, "done")
ShowBooked(c) == Awaits(c) /\ Shown(c, "book", call[c].ask.want, "done")
ShowResponse(c) == Awaits(c) /\ Shown(c, "respond", call[c].ask.want, "done")
ShowProposal(c) == Awaits(c) /\ Shown(c, "propose", call[c].ask.want, "done")
ShowRevision(c) == Awaits(c) /\ Shown(c, "revise", call[c].ask.want, "ready")

(* A response found stale leaves a refresh as the only thing to do; every  *)
(* other error is shown and may be tried again.                            *)
ShowRefusal(c) ==
  /\ Awaits(c) /\ Finish(c) /\ call[c].answer.kind # "ok"
  /\ state' = IF call[c].answer.kind = "stale" THEN "refreshOnly" ELSE state
  /\ UNCHANGED <<row, props, asked, reading, action, chosen, told>>

(* No answer, or a body the panel does not recognize. *)
Unrecognizable(c) == LoseAnswer(c) /\ UNCHANGED actionVars

(* "Refresh proposal" *)
RefreshAfterError ==
  /\ action \in {"publish", "respond"} /\ state \in {"ready", "refreshOnly"} /\ current = None
  /\ Ask
  /\ UNCHANGED <<row, props, reading, call, current, actionVars>>

(* The page has the panel while there is something for it to do; one that  *)
(* has gone hears of no answer.                                            *)
OnPage(r) ==
  CASE action \in {"convert", "publish"} -> r.outcome = None
    [] action = "respond" -> r.outcome = None /\ r.standing
    [] OTHER -> TRUE
RenderAction ==
  /\ Render
  /\ IF OnPage(reading.value)
     THEN UNCHANGED <<call, current, state, chosen, told>>
     ELSE /\ state' = "gone" /\ chosen' = None /\ told' = None /\ current' = None
          /\ call' = [c \in Calls |-> IF InStage(c, "answered") THEN Over ELSE call[c]]
  /\ UNCHANGED <<row, asked, action>>

(* Somebody else does it first, publishes another version, or changes who  *)
(* a lead matches.                                                         *)
OtherAct ==
  /\ \/ /\ action \in OneTime /\ row.value.outcome = None
        /\ \E x \in Aims[action] :
             /\ Possible([want |-> x, seen |-> row.value.context])
             /\ Update([row.value EXCEPT !.outcome = x, !.made = @ + 1,
                          !.context = IF action = "publish" THEN @ + 1 ELSE @])
     \/ action = "publish" /\
          Update([row.value EXCEPT !.context = @ + 1, !.standing = @ /\ row.value.outcome = None])
     \/ action = "respond" /\ row.value.standing /\ Update([row.value EXCEPT !.standing = FALSE])
     \/ action = "convert" /\ row.value.outcome = None
          /\ \E k \in Clients \cup {Hidden} :
               Update([row.value EXCEPT !.context = IF k \in @ THEN @ \ {k} ELSE @ \cup {k}])
  /\ UNCHANGED <<props, asked, reading, call, current, actionVars>>

ActionNext ==
  \/ \E x \in Clients \cup {New} : Continue(x)
  \/ Cancel
  \/ \E c \in Calls :
       \/ Confirm(c) \/ PressPublish(c) \/ PressBook(c) \/ PressPropose(c) \/ PressRevise(c)
       \/ \E x \in Responses : PressRespond(c, x)
       \/ Act(c) \/ Replay(c) \/ TurnDown(c) \/ ConflictsRunOut(c)
       \/ ShowConverted(c) \/ ShowPublished(c) \/ ShowBooked(c) \/ ShowResponse(c)
       \/ ShowProposal(c) \/ ShowRevision(c) \/ ShowRefusal(c)
       \/ Unrecognizable(c)
  \/ RefreshAfterError \/ RenderAction \/ OtherAct
  \/ (ReadPage \/ NeighbourAsks) /\ UNCHANGED actionVars
-----------------------------------------------------------------------------
(* Whatever was lost and sent again, by whomever: it was done once, and a  *)
(* panel that says so says what was done.                                  *)
DoneOnce ==
  action \in OneTime =>
    /\ row.value.made <= 1
    /\ told # None => row.value.outcome = told

=============================================================================
