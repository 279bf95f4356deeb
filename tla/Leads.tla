-------------------------------- MODULE Leads --------------------------------
(***************************************************************************)
(* Leads, their conversion to clients, and the assignments that say which  *)
(* consultant may work on them (features/leads, features/assignments).     *)
(* Handlers are single SERIALIZABLE transactions, hence single steps; so   *)
(* is createLead, whose plain transaction only inserts (what it finds out  *)
(* before is the subject of LeadIntake).  updateLead reads and checks the  *)
(* lead before its transaction (LoadLead) and rechecks only the assignment *)
(* inside it (WriteLead).                                                  *)
(***************************************************************************)
EXTENDS LeadTransitions

CONSTANTS
  Leads,         \* Lead ids
  Clients,       \* Client ids
  Consultants,   \* staff with role TRAVEL_CONSULTANT
  Managers,      \* staff with role ADMIN_MANAGER
  Emails,        \* normalized addresses
  Phones,        \* normalized numbers
  Edits,         \* updateLead requests; bounds how many are in flight
  Targets,       \* the statuses staff ask updateLeadStatus for
  None           \* SQL NULL

ASSUME RolesAssumption == Consultants \cap Managers = {}
ASSUME NoneIsNoValue == None \notin Leads \cup Clients \cup Consultants \cup Emails \cup Phones
ASSUME NoAddressIsCalledNone == "NONE" \notin Emails \cup {None}

VARIABLES
  lead,        \* Lead rows
  client,      \* Client rows
  assignee,    \* the active TRAVEL_CONSULTANT assignment of each lead and client
  conversion,  \* LEAD_CONVERTED_TO_CLIENT audit rows, which the replay reads
  edit         \* updateLead requests between their reads and their write

vars == <<lead, client, assignee, conversion, edit>>
-----------------------------------------------------------------------------
Email == Emails \cup {None}
Phone == Phones \cup {None}
LeadRow == [status : LeadStatus, email : Email, phone : Phone, client : Clients \cup {None}]
ClientRow == [email : Email, phone : Phone]
NoLead == [status |-> "NONE", email |-> None, phone |-> None, client |-> None]
NoClient == [email |-> "NONE", phone |-> "NONE"]

(* An edit carries the columns its UPDATE will set, computed when the lead *)
(* was read: data is a function on a subset of {email, phone}.             *)
Data == [{"email"} -> Email] \cup [{"phone"} -> Phone]
          \cup {d \in [{"email", "phone"} -> Email \cup Phone] :
                  d["email"] \in Email /\ d["phone"] \in Phone}
Idle == [actor |-> None, lead |-> None, data |-> <<>>]

Staff == Consultants \cup Managers
TypeOK ==
  /\ lead \in [Leads -> LeadRow \cup {NoLead}]
  /\ client \in [Clients -> ClientRow \cup {NoClient}]
  /\ assignee \in [Leads \cup Clients -> Consultants \cup {None}]
  /\ conversion \subseteq [lead : Leads, client : Clients, created : BOOLEAN]
  /\ edit \in [Edits -> [actor : Staff, lead : Leads, data : Data] \cup {Idle}]

Init ==
  /\ lead = [l \in Leads |-> NoLead]
  /\ client = [c \in Clients |-> NoClient]
  /\ assignee = [x \in Leads \cup Clients |-> None]
  /\ conversion = {}
  /\ edit = [q \in Edits |-> Idle]
-----------------------------------------------------------------------------
Exists(l) == lead[l].status # "NONE"
IsClient(c) == client[c] # NoClient

(* canAccessLead and canAccessClient: managers always, a consultant while  *)
(* holding the active assignment.                                          *)
MayAccess(a, x) == a \in Managers \/ assignee[x] = a

(* createLead: a consultant who creates a lead is assigned to it. *)
NewLead(e, p) == [status |-> "NEW", email |-> e, phone |-> p, client |-> None]
CreateLead(a, l, e, p) ==
  /\ ~Exists(l)
  /\ e # None \/ p # None
  /\ lead' = [lead EXCEPT ![l] = NewLead(e, p)]
  /\ assignee' = [assignee EXCEPT ![l] = IF a \in Consultants THEN a ELSE None]
  /\ UNCHANGED <<client, conversion, edit>>

(* updateLead up to its transaction.  e and p are the patch; the edit      *)
(* keeps the columns that would change and is dropped if there are none.   *)
HasContact(e, p) == e # None \/ p # None
After(l, patch, f) == IF f \in DOMAIN patch THEN patch[f] ELSE lead[l][f]
WholeRow(l, patch) == [f \in DOMAIN lead[l] |-> After(l, patch, f)]
Changed(l, patch) ==
  LET cols == {f \in DOMAIN patch : patch[f] # lead[l][f]}
  IN  [f \in cols |-> patch[f]]
LoadLead(q, a, l, patch) ==
  /\ edit[q] = Idle
  /\ MayAccess(a, l) /\ Exists(l)
  /\ lead[l].status # "CONVERTED_TO_CLIENT"
  /\ HasContact(After(l, patch, "email"), After(l, patch, "phone"))
  /\ DOMAIN Changed(l, patch) # {}
  /\ edit' = [edit EXCEPT ![q] = [actor |-> a, lead |-> l, data |-> Changed(l, patch)]]
  /\ UNCHANGED <<lead, client, assignee, conversion>>

(* Its transaction: the consultant's assignment is read again, nothing     *)
(* else is.                                                                *)
StillAllowed(a, l) == MayAccess(a, l)
Patched(row, data) == [f \in DOMAIN row |-> IF f \in DOMAIN data THEN data[f] ELSE row[f]]
WriteLead(q) ==
  LET l == edit[q].lead IN
  /\ edit[q] # Idle
  /\ edit' = [edit EXCEPT ![q] = Idle]
  /\ lead' = IF StillAllowed(edit[q].actor, l)
             THEN [lead EXCEPT ![l] = Patched(lead[l], edit[q].data)]
             ELSE lead
  /\ UNCHANGED <<client, assignee, conversion>>

(* updateLeadStatus.  A same-status request changes nothing; expectedStatus *)
(* is the status the page showed, so the request succeeds if it is current. *)
StatusMoved(row, new) == [row EXCEPT !.status = new]
UpdateLeadStatus(a, l, new) ==
  /\ Exists(l) /\ MayAccess(a, l)
  /\ Allowed(lead[l].status, new)
  /\ lead' = [lead EXCEPT ![l] = StatusMoved(@, new)]
  /\ UNCHANGED <<client, assignee, conversion, edit>>
-----------------------------------------------------------------------------
(* convertLead.  matches are the clients that share a contact value. *)
SharesEmail(c, row) == row.email # None /\ client[c].email = row.email
SharesPhone(c, row) == row.phone # None /\ client[c].phone = row.phone
MatchedOn(c, row) ==
  {f \in {"email", "phone"} : IF f = "email" THEN SharesEmail(c, row) ELSE SharesPhone(c, row)}
Shares(c, row) == MatchedOn(c, row) # {}

ConvertibleInAnyStatus(l) == Exists(l)
Convertible(l) == lead[l].status = "QUALIFIED"

(* convertLeadWithHistory and its audit row. *)
ToClient(row, c) == [row EXCEPT !.status = "CONVERTED_TO_CLIENT", !.client = c]
Converted(l, c, created) ==
  /\ lead' = [lead EXCEPT ![l] = ToClient(@, c)]
  /\ conversion' = conversion \cup {[lead |-> l, client |-> c, created |-> created]}

NoEmailMatch(row) == \A c \in Clients : ~SharesEmail(c, row)
NoMatch(row) == \A c \in Clients : ~Shares(c, row)
NewClient(row) == [email |-> row.email, phone |-> row.phone]
ConvertToNewClient(a, l, c) ==
  /\ MayAccess(a, l) /\ Convertible(l)
  /\ NoMatch(lead[l])
  /\ ~IsClient(c)
  /\ client' = [client EXCEPT ![c] = NewClient(lead[l])]
  /\ assignee' = [assignee EXCEPT ![c] = assignee[l]]
  /\ Converted(l, c, TRUE)
  /\ UNCHANGED edit

ConvertToExistingClient(a, l, c) ==
  /\ MayAccess(a, l) /\ MayAccess(a, c) /\ Convertible(l)
  /\ IsClient(c) /\ Shares(c, lead[l])
  /\ Converted(l, c, FALSE)
  /\ UNCHANGED <<client, assignee, edit>>

(* setAssignment and endAssignment, by a manager, for a lead or client. *)
IsTarget(x) == IF x \in Leads THEN Exists(x) ELSE IsClient(x)
ActiveAssignment(x) == assignee[x]
SetAssignment(x, s) ==
  /\ IsTarget(x)
  /\ ActiveAssignment(x) # s
  /\ assignee' = [assignee EXCEPT ![x] = s]
  /\ UNCHANGED <<lead, client, conversion, edit>>
EndAssignment(x) ==
  /\ ActiveAssignment(x) # None
  /\ assignee' = [assignee EXCEPT ![x] = None]
  /\ UNCHANGED <<lead, client, conversion, edit>>

(* updateClient: unlike updateLead it reads, checks and writes in one      *)
(* transaction (a stale expectedUpdatedAt is refused and changes nothing). *)
UpdateClient(a, c, patch) ==
  LET new == Patched(client[c], patch) IN
  /\ IsClient(c) /\ MayAccess(a, c)
  /\ HasContact(new.email, new.phone)
  /\ new # client[c]
  /\ client' = [client EXCEPT ![c] = new]
  /\ UNCHANGED <<lead, assignee, conversion, edit>>

LeadStep ==
  \E l \in Leads :
    \/ \E a \in Staff, e \in Email, p \in Phone : CreateLead(a, l, e, p)
    \/ \E a \in Staff, q \in Edits, patch \in Data : LoadLead(q, a, l, patch)
    \/ \E a \in Staff, new \in Targets : UpdateLeadStatus(a, l, new)
    \/ \E a \in Staff, c \in Clients :
         ConvertToNewClient(a, l, c) \/ ConvertToExistingClient(a, l, c)

Next ==
  \/ LeadStep
  \/ \E q \in Edits : WriteLead(q)
  \/ \E a \in Staff, c \in Clients, patch \in Data : UpdateClient(a, c, patch)
  \/ \E x \in Leads \cup Clients :
       EndAssignment(x) \/ \E s \in Consultants : SetAssignment(x, s)

Spec == Init /\ [][Next]_vars
-----------------------------------------------------------------------------
IsConverted(l) == lead[l].status = "CONVERTED_TO_CLIENT"
ConversionAudit(l) == {r \in conversion : r.lead = l}

(* A lead is converted at most once, and the row, the client and the audit *)
(* entry agree, so that a repeated conversion request is always answered   *)
(* with the first one's result and never with LEAD_CONFLICT.               *)
ConversionReplayable ==
  \A l \in Leads :
    IF IsConverted(l)
    THEN /\ IsClient(lead[l].client)
         /\ \E created \in BOOLEAN :
              ConversionAudit(l) = {[lead |-> l, client |-> lead[l].client, created |-> created]}
    ELSE ConversionAudit(l) = {} /\ lead[l].client = None

(* D-024 section 3: converting a lead never creates a second client for    *)
(* contact details some client has at that moment.                         *)
NoDuplicateClient ==
  [][\A c \in Clients : ~IsClient(c) /\ IsClient(c)' =>
       \A d \in Clients \ {c} :
         /\ client'[c].email # None => client'[d].email # client'[c].email
         /\ client'[c].phone # None => client'[d].phone # client'[c].phone]_vars

(* service.ts:360, "A lead must retain at least one of email or phone."    *)
(* The check reads the lead before the transaction that writes it.         *)
LeadsKeepContact ==
  \A l \in Leads : Exists(l) => HasContact(lead[l].email, lead[l].phone)

=============================================================================
