------------------------------ MODULE LeadIntake ------------------------------
(***************************************************************************)
(* The form that takes in a new lead, over createLead (Leads has the row   *)
(* it inserts).  Its search for duplicates reads leads, clients and the    *)
(* user's access to each match in separate statements, before and outside  *)
(* the insert, and warns without refusing (D-022 section 5).  Nothing      *)
(* identifies a request, so one sent again makes another lead.             *)
(*                                                                         *)
(* The record is the set of leads and clients; the version that made one   *)
(* is its id, 0 for one that was there before.  A manager sees them all.   *)
(***************************************************************************)
EXTENDS AdminPage

CONSTANT Contacts  \* an address and a number; each field is blank or has its one

VARIABLE
  result  \* the success shown in place of the form, None before

intakeVars == <<result>>
-----------------------------------------------------------------------------
Types == {"LEAD", "CLIENT"}
Details == SUBSET Contacts \ {{}}
People == [id : 0..MaxVersion, type : Types, contacts : Details, visible : BOOLEAN]
Ids(people) == {r.id : r \in people}
Matching(people, contacts) == {r \in people : r.contacts \cap contacts # {}}

IntakeTypeOK ==
  /\ row.value \subseteq People
  /\ \A r, s \in row.value : r.id = s.id => r = s
  /\ result # None => result.matches \cup {result.lead} \subseteq Ids(row.value)

(* Nobody, or somebody with one detail or both, which are interchangeable. *)
SomeContact == CHOOSE x \in Contacts : TRUE
IntakeInit ==
  /\ PageInit({{}} \cup {{r} : r \in {p \in People : p.id = 0 /\ SomeContact \in p.contacts}})
  /\ result = None

(* The form, whatever has been typed, if validateClientSide lets it pass;  *)
(* the search has looked nowhere and found nobody.  steady is history: who *)
(* has matched ever since the request was sent.                            *)
PressCreate(c, contacts) ==
  /\ result = None
  /\ Send(c, [contacts |-> contacts, looked |-> {}, found |-> {}, matches |-> {},
              restricted |-> FALSE, steady |-> Ids(Matching(row.value, contacts))])
  /\ UNCHANGED <<row, props, asked, reading, intakeVars>>

(* findDuplicateMatches: the two queries, in either order, then whether    *)
(* the user may be told of each match.                                     *)
Working(c, ask) ==
  /\ call' = [call EXCEPT ![c].ask = ask]
  /\ UNCHANGED <<row, props, asked, reading, current, intakeVars>>
FindDuplicates(c, type) ==
  LET ask == call[c].ask IN
  /\ type \notin ask.looked
  /\ Working(c, [ask EXCEPT !.looked = @ \cup {type},
       !.found = @ \cup Ids(Matching({r \in row.value : r.type = type}, ask.contacts))])
CheckAccess(c) ==
  LET ask == call[c].ask
      named == {r \in row.value : r.id \in ask.found /\ r.visible} IN
  /\ ask.looked = Types /\ ask.found # {}
  /\ Working(c, [ask EXCEPT !.found = {}, !.matches = Ids(named),
                            !.restricted = ask.found # Ids(named)])

(* The transaction; a consultant is assigned to the lead. *)
InsertLead(c) ==
  LET ask == call[c].ask IN
  /\ InStage(c, "sent")
  /\ c = current => ask.looked = Types /\ ask.found = {}
  /\ Update(row.value \cup {[id |-> row.at + 1, type |-> "LEAD",
                             contacts |-> ask.contacts, visible |-> TRUE]})
  /\ Answer(c, [kind |-> "ok", lead |-> row.at + 1])
  /\ UNCHANGED <<props, asked, reading, current, intakeVars>>
RefuseLead(c) ==
  /\ InStage(c, "sent") /\ Answer(c, [kind |-> "error"])
  /\ UNCHANGED <<row, props, asked, reading, current, intakeVars>>

(* The second half of handleSubmit. *)
ShowCreated(c) ==
  /\ Awaits(c) /\ Finish(c) /\ call[c].answer.kind = "ok"
  /\ result' = [lead |-> call[c].answer.lead, matches |-> call[c].ask.matches,
                restricted |-> call[c].ask.restricted, steady |-> call[c].ask.steady]
  /\ UNCHANGED <<row, props, asked, reading>>
ShowIntakeError(c) ==
  /\ Awaits(c) /\ Finish(c) /\ call[c].answer.kind # "ok"
  /\ UNCHANGED <<row, props, asked, reading, intakeVars>>
(* Of a request whose answer is lost only the insert still matters; its    *)
(* search is forgotten.                                                    *)
Unreadable(c) ==
  /\ c = current /\ current' = None
  /\ call' = [call EXCEPT ![c] =
       IF InStage(c, "answered") THEN Over
       ELSE [stage |-> "sent", ask |-> [contacts |-> call[c].ask.contacts]]]
  /\ UNCHANGED <<row, props, asked, reading, intakeVars>>

CreateAnother ==
  /\ result # None
  /\ result' = None
  /\ UNCHANGED pageVars

(* Others take in people, whom a consultant does not see, correct contact  *)
(* details and reassign.  The last version is left for a lead of this      *)
(* page, as it could show no success after.                                *)
Others(people) ==
  /\ row.at + 1 < MaxVersion /\ Update(people)
  /\ call' = [c \in Calls |->
       IF c = current /\ InStage(c, "sent")
       THEN [call[c] EXCEPT !.ask.steady = @ \cap Ids(Matching(people, call[c].ask.contacts))]
       ELSE call[c]]
  /\ UNCHANGED <<props, asked, reading, current, intakeVars>>
OtherTakesIn(type, contacts) ==
  Others(row.value \cup {[id |-> row.at + 1, type |-> type,
                          contacts |-> contacts, visible |-> FALSE]})
OtherCorrects(r, contacts) ==
  /\ contacts # r.contacts
  /\ Others((row.value \ {r}) \cup {[r EXCEPT !.contacts = contacts]})
OtherReassigns(r) ==
  Others((row.value \ {r}) \cup {[r EXCEPT !.visible = ~@]})

IntakeNext ==
  \/ \E c \in Calls :
       \/ \E contacts \in Details : PressCreate(c, contacts)
       \/ c = current /\ InStage(c, "sent") /\
            (CheckAccess(c) \/ \E type \in Types : FindDuplicates(c, type))
       \/ InsertLead(c) \/ RefuseLead(c)
       \/ ShowCreated(c) \/ ShowIntakeError(c) \/ Unreadable(c)
  \/ CreateAnother
  \/ \E contacts \in Details :
       \/ \E type \in Types : OtherTakesIn(type, contacts)
       \/ \E r \in row.value : OtherCorrects(r, contacts)
  \/ \E r \in row.value : OtherReassigns(r)
-----------------------------------------------------------------------------
(* Whoever has matched since the lead was sent is named, or the success    *)
(* says that there is somebody the user may not see.  That includes a lead *)
(* this page made by a request it has no answer to; never the lead itself. *)
DuplicatesAreTold ==
  result # None =>
    /\ result.lead \notin result.matches
    /\ result.steady \subseteq result.matches \/ result.restricted

=============================================================================
