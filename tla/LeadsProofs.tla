------------------------------ MODULE LeadsProofs ------------------------------
(***************************************************************************)
(* What module Leads promises about conversions, proved for every set of   *)
(* leads, clients, staff, addresses and edits.                             *)
(***************************************************************************)
EXTENDS Leads, TLAPS

(* An edit under way is of a lead that exists: leads are never deleted. *)
EditsOfLeads == \A q \in Edits : edit[q] # Idle => Exists(edit[q].lead)

LeadsInv == TypeOK /\ ConversionReplayable /\ EditsOfLeads
-----------------------------------------------------------------------------
(* An edit's data sets contact columns only, to values of their kind. *)
LEMMA DataColumns ==
  ASSUME NEW data \in Data
  PROVE  /\ DOMAIN data \subseteq {"email", "phone"}
         /\ "email" \in DOMAIN data => data["email"] \in Email
         /\ "phone" \in DOMAIN data => data["phone"] \in Phone
BY DEF Data

(* updateLeadWithHistory leaves the status and the client of a row alone. *)
LEMMA PatchedLead ==
  ASSUME NEW row \in LeadRow, NEW data \in Data
  PROVE  /\ Patched(row, data) \in LeadRow
         /\ Patched(row, data).status = row.status
         /\ Patched(row, data).client = row.client
<1> DEFINE new == Patched(row, data)
           email == IF "email" \in DOMAIN data THEN data["email"] ELSE row.email
           phone == IF "phone" \in DOMAIN data THEN data["phone"] ELSE row.phone
<1>1. "status" \notin DOMAIN data /\ "client" \notin DOMAIN data
  BY DataColumns
<1>2. new = [status |-> row.status, email |-> email, phone |-> phone, client |-> row.client]
  BY <1>1 DEF Patched, LeadRow
<1>3. email \in Email /\ phone \in Phone
  BY DataColumns DEF LeadRow
<1>4. QED
  BY <1>2, <1>3 DEF LeadRow

LEMMA PatchedClient ==
  ASSUME NEW row \in ClientRow, NEW data \in Data
  PROVE  Patched(row, data) \in ClientRow
<1> DEFINE email == IF "email" \in DOMAIN data THEN data["email"] ELSE row.email
           phone == IF "phone" \in DOMAIN data THEN data["phone"] ELSE row.phone
<1>1. Patched(row, data) = [email |-> email, phone |-> phone]
  BY DEF Patched, ClientRow
<1>2. email \in Email /\ phone \in Phone
  BY DataColumns DEF ClientRow
<1>3. QED
  BY <1>1, <1>2 DEF ClientRow


(* A lead row that exists is a proper row, and stays one of its columns. *)
LEMMA LeadInUse ==
  ASSUME TypeOK, NEW l \in Leads, Exists(l)
  PROVE  lead[l] \in LeadRow
BY DEF TypeOK, Exists, NoLead

LEMMA ClientInUse ==
  ASSUME TypeOK, NEW c \in Clients, IsClient(c)
  PROVE  client[c] \in ClientRow
BY DEF TypeOK, IsClient

(* Every client row is told from the absence of one. *)
LEMMA ClientRowIsClient == NoClient \notin ClientRow
BY NoAddressIsCalledNone DEF NoClient, ClientRow, Email

(* Converted leads are in a status of their own. *)
LEMMA Statuses ==
  /\ "CONVERTED_TO_CLIENT" \in LeadStatus /\ "QUALIFIED" \in LeadStatus /\ "NEW" \in LeadStatus
  /\ "NONE" \notin LeadStatus
BY DEF LeadStatus, Open, Closed, Pipeline

(* TRANSITION_MATRIX neither leaves nor reaches CONVERTED_TO_CLIENT.       *)
LEMMA Transitions ==
  ASSUME NEW s \in LeadStatus, NEW t, Allowed(s, t)
  PROVE  /\ t \in LeadStatus
         /\ s # "CONVERTED_TO_CLIENT" /\ t # "CONVERTED_TO_CLIENT"
BY DEF Allowed, LeadStatus, Open, Closed, Pipeline
-----------------------------------------------------------------------------
(* What the audit says of a lead is untouched by a new entry of another. *)
LEMMA AuditOfOthers ==
  ASSUME NEW l \in Leads, NEW r, r.lead # l, conversion' = conversion \cup {r}
  PROVE  ConversionAudit(l)' = ConversionAudit(l)
BY DEF ConversionAudit

(* The row and audit of one lead, which is what a replay reads. *)
Replayable(l) ==
  IF IsConverted(l)
  THEN /\ IsClient(lead[l].client)
       /\ \E created \in BOOLEAN :
            ConversionAudit(l) = {[lead |-> l, client |-> lead[l].client, created |-> created]}
  ELSE ConversionAudit(l) = {} /\ lead[l].client = None

LEMMA ReplayableStays ==
  ASSUME TypeOK, NEW l \in Leads, Replayable(l),
         \/ lead'[l].status = lead[l].status
         \/ ~IsConverted(l) /\ lead'[l].status # "CONVERTED_TO_CLIENT",
         lead'[l].client = lead[l].client,
         ConversionAudit(l)' = ConversionAudit(l),
         \A c \in Clients : client[c] # NoClient => client'[c] # NoClient
  PROVE  Replayable(l)'
<1>1. CASE IsConverted(l)
  <2>1. lead[l].client \in Clients
    <3>1. PICK created \in BOOLEAN :
            ConversionAudit(l) = {[lead |-> l, client |-> lead[l].client, created |-> created]}
      BY <1>1 DEF Replayable
    <3>2. [lead |-> l, client |-> lead[l].client, created |-> created] \in conversion
      BY <3>1 DEF ConversionAudit
    <3>3. [lead |-> l, client |-> lead[l].client, created |-> created]
            \in [lead : Leads, client : Clients, created : BOOLEAN]
      BY <3>2 DEF TypeOK
    <3>4. QED
      BY <3>3
  <2>2. QED
    BY <1>1, <2>1 DEF Replayable, IsConverted, IsClient
<1>2. CASE ~IsConverted(l)
  BY <1>2 DEF Replayable, IsConverted
<1>3. QED
  BY <1>1, <1>2
-----------------------------------------------------------------------------
(* Steps that leave the clients, the audit and the clients of leads alone. *)
LEMMA SameAudit ==
  ASSUME NEW l, UNCHANGED conversion
  PROVE  ConversionAudit(l)' = ConversionAudit(l)
BY DEF ConversionAudit

(* createLead: the new row is NEW and has no client. *)
LEMMA CreateLeadStep ==
  ASSUME LeadsInv, NEW a \in Staff, NEW m \in Leads, NEW e \in Email, NEW p \in Phone,
         CreateLead(a, m, e, p)
  PROVE  LeadsInv'
<1>1. NewLead(e, p) \in LeadRow /\ NewLead(e, p).status = "NEW" /\ NewLead(e, p).client = None
  BY Statuses DEF NewLead, LeadRow
<1>2. /\ lead' = [lead EXCEPT ![m] = NewLead(e, p)]
      /\ lead \in [Leads -> LeadRow \cup {NoLead}]
      /\ UNCHANGED <<client, conversion, edit>>
  BY DEF CreateLead, LeadsInv, TypeOK
<1>3. assignee' \in [Leads \cup Clients -> Consultants \cup {None}]
  BY DEF CreateLead, LeadsInv, TypeOK
<1>4. TypeOK'
  BY <1>1, <1>2, <1>3 DEF LeadsInv, TypeOK
<1>5. EditsOfLeads'
  BY <1>1, <1>2, Statuses DEF LeadsInv, EditsOfLeads, Exists
<1>6. ASSUME NEW l \in Leads
      PROVE  Replayable(l)'
  <2>1. Replayable(l)
    BY DEF LeadsInv, ConversionReplayable, Replayable
  <2>2. CASE l # m
    <3>1. lead'[l] = lead[l] /\ \A c \in Clients : client[c] # NoClient => client'[c] # NoClient
      BY <1>2, <2>2 DEF IsClient
    <3>2. ConversionAudit(l)' = ConversionAudit(l)
      BY <1>2, SameAudit
    <3>3. QED
      BY <2>1, <3>1, <3>2, ReplayableStays DEF LeadsInv
  <2>3. CASE l = m
    <3>1. ~IsConverted(l) /\ lead'[l] = NewLead(e, p)
      BY <1>2, <2>3 DEF CreateLead, Exists, IsConverted
    <3>2. ConversionAudit(l) = {}
      BY <2>1, <3>1 DEF Replayable
    <3>3. QED
      BY <1>1, <1>2, <3>1, <3>2, SameAudit DEF Replayable, IsConverted
  <2>4. QED
    BY <2>2, <2>3
<1>7. ConversionReplayable'
  BY <1>6 DEF ConversionReplayable, Replayable
<1>8. QED
  BY <1>4, <1>5, <1>7 DEF LeadsInv

(* updateLead's reads: the columns it keeps are columns of its patch. *)
LEMMA ChangedIsData ==
  ASSUME NEW l \in Leads, NEW patch \in Data, DOMAIN Changed(l, patch) # {}
  PROVE  Changed(l, patch) \in Data
<1> DEFINE cols == {f \in DOMAIN patch : patch[f] # lead[l][f]}
<1>1. Changed(l, patch) = [f \in cols |-> patch[f]]
  BY DEF Changed
<1>2. cols \subseteq DOMAIN patch /\ cols # {}
  BY <1>1
<1> HIDE DEF cols
<1>3. \/ cols = {"email"} \/ cols = {"phone"} \/ cols = {"email", "phone"}
  BY <1>2, DataColumns
<1>4. CASE cols = {"email"}
  BY <1>1, <1>2, <1>4, DataColumns DEF Data
<1>5. CASE cols = {"phone"}
  BY <1>1, <1>2, <1>5, DataColumns DEF Data
<1>6. CASE cols = {"email", "phone"}
  <2>1. patch["email"] \in Email /\ patch["phone"] \in Phone
    BY <1>2, <1>6, DataColumns
  <2>2. \A f \in cols : patch[f] \in Email \cup Phone
    BY <1>6, <2>1
  <2>3. Changed(l, patch) \in [{"email", "phone"} -> Email \cup Phone]
    BY <1>1, <1>6, <2>2
  <2>4. Changed(l, patch)["email"] \in Email /\ Changed(l, patch)["phone"] \in Phone
    BY <1>1, <1>6, <2>1
  <2>5. QED
    BY <2>3, <2>4 DEF Data
<1>7. QED
  BY <1>3, <1>4, <1>5, <1>6

LEMMA LoadLeadStep ==
  ASSUME LeadsInv, NEW a \in Staff, NEW q \in Edits, NEW m \in Leads, NEW patch \in Data,
         LoadLead(q, a, m, patch)
  PROVE  LeadsInv'
<1> DEFINE new == [actor |-> a, lead |-> m, data |-> Changed(m, patch)]
<1>1. new \in [actor : Staff, lead : Leads, data : Data]
  BY ChangedIsData DEF LoadLead
<1>2. edit' = [edit EXCEPT ![q] = new] /\ UNCHANGED <<lead, client, assignee, conversion>>
  BY DEF LoadLead
<1>3. TypeOK'
  BY <1>1, <1>2 DEF LeadsInv, TypeOK
<1>4. ConversionReplayable'
  BY <1>2 DEF LeadsInv, ConversionReplayable, IsConverted, ConversionAudit, IsClient
<1>5. EditsOfLeads'
  <2>1. Exists(m) /\ new.lead = m
    BY DEF LoadLead
  <2>2. QED
    BY <1>2, <2>1 DEF LeadsInv, TypeOK, EditsOfLeads, Exists
<1>6. QED
  BY <1>3, <1>4, <1>5 DEF LeadsInv

(* updateLead's write, stale as it may be, sets contact columns only. *)
LEMMA WriteLeadStep ==
  ASSUME LeadsInv, NEW q \in Edits, WriteLead(q)
  PROVE  LeadsInv'
<1> DEFINE m == edit[q].lead
           data == edit[q].data
<1>1. m \in Leads /\ data \in Data /\ Exists(m)
  BY DEF LeadsInv, TypeOK, EditsOfLeads, WriteLead
<1>2. lead[m] \in LeadRow
  BY <1>1, LeadInUse DEF LeadsInv
<1>3. /\ edit' = [edit EXCEPT ![q] = Idle]
      /\ UNCHANGED <<client, assignee, conversion>>
      /\ lead' = lead \/ lead' = [lead EXCEPT ![m] = Patched(lead[m], data)]
  BY DEF WriteLead
<1>4. /\ lead' \in [Leads -> LeadRow \cup {NoLead}]
      /\ \A l \in Leads : lead'[l].status = lead[l].status /\ lead'[l].client = lead[l].client
  BY <1>1, <1>2, <1>3, PatchedLead DEF LeadsInv, TypeOK
<1>5. TypeOK'
  BY <1>3, <1>4 DEF LeadsInv, TypeOK
<1>6. EditsOfLeads'
  <2>1. \A r \in Edits : edit'[r] # Idle => edit[r] # Idle /\ edit'[r] = edit[r]
    BY <1>3 DEF LeadsInv, TypeOK
  <2>2. \A r \in Edits : edit'[r] # Idle => edit[r].lead \in Leads
    BY <2>1 DEF LeadsInv, TypeOK
  <2>3. QED
    BY <1>4, <2>1, <2>2 DEF LeadsInv, EditsOfLeads, Exists
<1>7. \A l \in Leads : Replayable(l)'
  <2>1. ASSUME NEW l \in Leads
        PROVE  Replayable(l)'
    <3>1. Replayable(l)
      BY DEF LeadsInv, ConversionReplayable, Replayable
    <3>2. \A c \in Clients : client[c] # NoClient => client'[c] # NoClient
      BY <1>3 DEF IsClient
    <3>3. ConversionAudit(l)' = ConversionAudit(l)
      BY <1>3, SameAudit
    <3>4. QED
      BY <1>4, <3>1, <3>2, <3>3, ReplayableStays DEF LeadsInv
  <2>2. QED
    BY <2>1
<1>8. QED
  BY <1>5, <1>6, <1>7 DEF LeadsInv, ConversionReplayable, Replayable

(* updateLeadStatus: no transition starts from or ends in a conversion. *)
LEMMA UpdateLeadStatusStep ==
  ASSUME LeadsInv, NEW a \in Staff, NEW m \in Leads, NEW new, UpdateLeadStatus(a, m, new)
  PROVE  LeadsInv'
<1>1. /\ lead' = [lead EXCEPT ![m] = StatusMoved(lead[m], new)]
      /\ UNCHANGED <<client, assignee, conversion, edit>>
  BY DEF UpdateLeadStatus
<1>2. lead[m] \in LeadRow
  BY LeadInUse DEF LeadsInv, UpdateLeadStatus
<1>3. /\ new \in LeadStatus /\ new # "CONVERTED_TO_CLIENT"
      /\ ~IsConverted(m)
  BY <1>2, Transitions DEF UpdateLeadStatus, LeadRow, IsConverted
<1>4. /\ StatusMoved(lead[m], new) \in LeadRow
      /\ StatusMoved(lead[m], new).status = new
      /\ StatusMoved(lead[m], new).client = lead[m].client
  BY <1>2, <1>3 DEF StatusMoved, LeadRow
<1>5. lead \in [Leads -> LeadRow \cup {NoLead}]
  BY DEF LeadsInv, TypeOK
<1>6. TypeOK'
  BY <1>1, <1>4 DEF LeadsInv, TypeOK
<1>7. EditsOfLeads'
  BY <1>1, <1>3, <1>4, <1>5, Statuses DEF LeadsInv, EditsOfLeads, Exists
<1>8. \A l \in Leads : Replayable(l)'
  <2>1. ASSUME NEW l \in Leads
        PROVE  Replayable(l)'
    <3>1. Replayable(l)
      BY DEF LeadsInv, ConversionReplayable, Replayable
    <3>2. \/ lead'[l].status = lead[l].status
          \/ ~IsConverted(l) /\ lead'[l].status # "CONVERTED_TO_CLIENT"
      BY <1>1, <1>3, <1>4, <1>5 DEF IsConverted
    <3>3. lead'[l].client = lead[l].client
      BY <1>1, <1>4, <1>5
    <3>4. ConversionAudit(l)' = ConversionAudit(l) /\ \A c \in Clients : client[c] # NoClient => client'[c] # NoClient
      BY <1>1, SameAudit DEF IsClient
    <3>5. QED
      BY <3>1, <3>2, <3>3, <3>4, ReplayableStays DEF LeadsInv
  <2>2. QED
    BY <2>1
<1>9. QED
  BY <1>6, <1>7, <1>8 DEF LeadsInv, ConversionReplayable, Replayable

(* convertLeadWithHistory: a qualified lead has no audit entry yet, so the *)
(* entry written with its conversion is its only one.                      *)
LEMMA ConvertedStep ==
  ASSUME LeadsInv, NEW m \in Leads, NEW c \in Clients, NEW created \in BOOLEAN,
         Convertible(m), Converted(m, c, created),
         client' \in [Clients -> ClientRow \cup {NoClient}],
         assignee' \in [Leads \cup Clients -> Consultants \cup {None}],
         edit' = edit,
         client'[c] # NoClient,
         \A d \in Clients : client[d] # NoClient => client'[d] # NoClient
  PROVE  LeadsInv'
<1> DEFINE row == [lead |-> m, client |-> c, created |-> created]
<1>1. lead' = [lead EXCEPT ![m] = ToClient(lead[m], c)] /\ conversion' = conversion \cup {row}
  BY DEF Converted
<1>2. lead[m] \in LeadRow /\ ~IsConverted(m) /\ lead \in [Leads -> LeadRow \cup {NoLead}]
  BY LeadInUse, Statuses DEF LeadsInv, TypeOK, Convertible, Exists, IsConverted
<1>3. /\ ToClient(lead[m], c) \in LeadRow
      /\ ToClient(lead[m], c).status = "CONVERTED_TO_CLIENT"
      /\ ToClient(lead[m], c).client = c
  BY <1>2, Statuses DEF ToClient, LeadRow
<1>4. conversion' \subseteq [lead : Leads, client : Clients, created : BOOLEAN]
  BY <1>1 DEF LeadsInv, TypeOK
<1>5. TypeOK'
  BY <1>1, <1>2, <1>3, <1>4 DEF LeadsInv, TypeOK
<1>6. EditsOfLeads'
  BY <1>1, <1>2, <1>3, Statuses DEF LeadsInv, EditsOfLeads, Exists
<1>7. ASSUME NEW l \in Leads
      PROVE  Replayable(l)'
  <2>1. Replayable(l)
    BY DEF LeadsInv, ConversionReplayable, Replayable
  <2>2. CASE l # m
    <3>1. lead'[l] = lead[l] /\ row.lead # l
      BY <1>1, <1>2, <2>2
    <3>2. ConversionAudit(l)' = ConversionAudit(l)
      BY <1>1, <3>1, AuditOfOthers
    <3>3. QED
      BY <2>1, <3>1, <3>2, ReplayableStays DEF LeadsInv
  <2>3. CASE l = m
    <3>1. lead'[l].status = "CONVERTED_TO_CLIENT" /\ lead'[l].client = c
      BY <1>1, <1>2, <1>3, <2>3
    <3>2. ConversionAudit(l) = {}
      BY <1>2, <2>1, <2>3 DEF Replayable
    <3>3. ConversionAudit(l)' = {row}
      BY <1>1, <2>3, <3>2 DEF ConversionAudit
    <3>4. QED
      BY <2>3, <3>1, <3>3 DEF Replayable, IsConverted, IsClient
  <2>4. QED
    BY <2>2, <2>3
<1>8. QED
  BY <1>5, <1>6, <1>7 DEF LeadsInv, ConversionReplayable, Replayable

LEMMA ConvertToNewClientStep ==
  ASSUME LeadsInv, NEW a \in Staff, NEW m \in Leads, NEW c \in Clients,
         ConvertToNewClient(a, m, c)
  PROVE  LeadsInv'
<1>1. lead[m] \in LeadRow
  BY LeadInUse, Statuses DEF LeadsInv, ConvertToNewClient, Convertible, Exists
<1>2. NewClient(lead[m]) \in ClientRow
  BY <1>1 DEF NewClient, LeadRow, ClientRow
<1>3. client' = [client EXCEPT ![c] = NewClient(lead[m])]
  BY DEF ConvertToNewClient
<1>4. client' \in [Clients -> ClientRow \cup {NoClient}] /\ client'[c] # NoClient
  BY <1>2, <1>3, ClientRowIsClient DEF LeadsInv, TypeOK
<1>5. \A d \in Clients : client[d] # NoClient => client'[d] # NoClient
  BY <1>3, <1>4 DEF LeadsInv, TypeOK
<1>6. assignee' \in [Leads \cup Clients -> Consultants \cup {None}]
  BY DEF LeadsInv, TypeOK, ConvertToNewClient
<1>7. Convertible(m) /\ Converted(m, c, TRUE) /\ edit' = edit
  BY DEF ConvertToNewClient
<1>8. QED
  BY <1>4, <1>5, <1>6, <1>7, ConvertedStep

LEMMA ConvertToExistingClientStep ==
  ASSUME LeadsInv, NEW a \in Staff, NEW m \in Leads, NEW c \in Clients,
         ConvertToExistingClient(a, m, c)
  PROVE  LeadsInv'
<1>1. Convertible(m) /\ Converted(m, c, FALSE) /\ UNCHANGED <<client, assignee, edit>>
  BY DEF ConvertToExistingClient
<1>2. client[c] # NoClient
  BY DEF ConvertToExistingClient, IsClient
<1>3. QED
  BY <1>1, <1>2, ConvertedStep DEF LeadsInv, TypeOK

(* updateClient changes the details of a client, who stays one. *)
LEMMA UpdateClientStep ==
  ASSUME LeadsInv, NEW a \in Staff, NEW c \in Clients, NEW patch \in Data,
         UpdateClient(a, c, patch)
  PROVE  LeadsInv'
<1>1. Patched(client[c], patch) \in ClientRow
  BY ClientInUse, PatchedClient DEF LeadsInv, UpdateClient
<1>2. /\ client' = [client EXCEPT ![c] = Patched(client[c], patch)]
      /\ UNCHANGED <<lead, assignee, conversion, edit>>
  BY DEF UpdateClient
<1>3. TypeOK'
  BY <1>1, <1>2 DEF LeadsInv, TypeOK
<1>4. \A d \in Clients : client[d] # NoClient => client'[d] # NoClient
  BY <1>1, <1>2, ClientRowIsClient DEF LeadsInv, TypeOK
<1>5. EditsOfLeads'
  BY <1>2 DEF LeadsInv, EditsOfLeads, Exists
<1>6. \A l \in Leads : Replayable(l)'
  <2>1. ASSUME NEW l \in Leads
        PROVE  Replayable(l)'
    <3>1. Replayable(l)
      BY DEF LeadsInv, ConversionReplayable, Replayable
    <3>2. lead'[l] = lead[l] /\ ConversionAudit(l)' = ConversionAudit(l)
      BY <1>2, SameAudit
    <3>3. QED
      BY <1>4, <3>1, <3>2, ReplayableStays DEF LeadsInv
  <2>2. QED
    BY <2>1
<1>7. QED
  BY <1>3, <1>5, <1>6 DEF LeadsInv, ConversionReplayable, Replayable

(* Assignments come and go beside all that. *)
LEMMA AssignmentStep ==
  ASSUME LeadsInv, NEW x \in Leads \cup Clients,
         EndAssignment(x) \/ \E s \in Consultants : SetAssignment(x, s)
  PROVE  LeadsInv'
<1>1. /\ UNCHANGED <<lead, client, conversion, edit>>
      /\ assignee' \in [Leads \cup Clients -> Consultants \cup {None}]
  BY DEF LeadsInv, TypeOK, EndAssignment, SetAssignment
<1>2. TypeOK' /\ EditsOfLeads'
  BY <1>1 DEF LeadsInv, TypeOK, EditsOfLeads, Exists
<1>3. ConversionReplayable'
  BY <1>1 DEF LeadsInv, ConversionReplayable, IsConverted, ConversionAudit, IsClient
<1>4. QED
  BY <1>2, <1>3 DEF LeadsInv
-----------------------------------------------------------------------------
LEMMA LeadsInit == Init => LeadsInv
<1> SUFFICES ASSUME Init PROVE LeadsInv
  OBVIOUS
<1>1. TypeOK
  BY DEF Init, TypeOK
<1>2. EditsOfLeads
  BY DEF Init, EditsOfLeads
<1>3. ConversionReplayable
  BY DEF Init, ConversionReplayable, IsConverted, ConversionAudit, NoLead
<1>4. QED
  BY <1>1, <1>2, <1>3 DEF LeadsInv

LEMMA LeadsNext ==
  ASSUME LeadsInv, [Next]_vars
  PROVE  LeadsInv'
<1>1. CASE LeadStep
  BY <1>1, CreateLeadStep, LoadLeadStep, UpdateLeadStatusStep, ConvertToNewClientStep,
     ConvertToExistingClientStep DEF LeadStep
<1>2. CASE \E q \in Edits : WriteLead(q)
  BY <1>2, WriteLeadStep
<1>3. CASE \E a \in Staff, c \in Clients, patch \in Data : UpdateClient(a, c, patch)
  BY <1>3, UpdateClientStep
<1>4. CASE \E x \in Leads \cup Clients :
             EndAssignment(x) \/ \E s \in Consultants : SetAssignment(x, s)
  BY <1>4, AssignmentStep
<1>5. CASE UNCHANGED vars
  BY <1>5 DEF vars, LeadsInv, TypeOK, EditsOfLeads, Exists, ConversionReplayable, IsConverted,
              ConversionAudit, IsClient
<1>6. QED
  BY <1>1, <1>2, <1>3, <1>4, <1>5 DEF Next

(* Rows, audit and edits keep their shape, conversions can be replayed,    *)
(* and edits are of leads that exist.                                      *)
THEOREM LeadsInvariant == Spec => []LeadsInv
BY LeadsInit, LeadsNext, PTL DEF Spec

(* A lead is converted at most once, for good, and the replay of its       *)
(* request finds the row, the client and the one audit entry in agreement, *)
(* whatever edits, status changes and reassignments happen around it.      *)
THEOREM ConversionsStayReplayable == Spec => []ConversionReplayable
<1>1. LeadsInv => ConversionReplayable
  BY DEF LeadsInv
<1>2. QED
  BY <1>1, LeadsInvariant, PTL

(* A lead once converted stays so, with the same client: the audit only    *)
(* grows, and says what the row says before and after every step.          *)
ConversionsAreFinal ==
  [][\A l \in Leads : IsConverted(l) => IsConverted(l)' /\ lead'[l].client = lead[l].client]_vars

(* No transition, edit, conversion or reassignment undoes a conversion or  *)
(* moves it to another client.                                             *)
THEOREM ConversionsFinal == Spec => ConversionsAreFinal
<1>1. ASSUME [Next]_vars
      PROVE  conversion \subseteq conversion'
  BY <1>1 DEF Next, vars, LeadStep, CreateLead, LoadLead, UpdateLeadStatus, ConvertToNewClient,
     ConvertToExistingClient, Converted, WriteLead, UpdateClient, EndAssignment, SetAssignment
<1>2. ASSUME LeadsInv, LeadsInv', [Next]_vars, NEW l \in Leads, IsConverted(l)
      PROVE  IsConverted(l)' /\ lead'[l].client = lead[l].client
  <2>1. PICK b \in BOOLEAN :
          ConversionAudit(l) = {[lead |-> l, client |-> lead[l].client, created |-> b]}
    BY <1>2 DEF LeadsInv, ConversionReplayable
  <2>2. [lead |-> l, client |-> lead[l].client, created |-> b] \in ConversionAudit(l)'
    BY <1>1, <1>2, <2>1 DEF ConversionAudit
  <2>3. IsConverted(l)'
    BY <1>2, <2>2 DEF LeadsInv, ConversionReplayable
  <2>4. PICK d \in BOOLEAN :
          ConversionAudit(l)' = {[lead |-> l, client |-> lead'[l].client, created |-> d]}
    BY <1>2, <2>3 DEF LeadsInv, ConversionReplayable
  <2>5. [lead |-> l, client |-> lead[l].client, created |-> b]
          = [lead |-> l, client |-> lead'[l].client, created |-> d]
    BY <2>2, <2>4
  <2>6. lead[l].client = lead'[l].client
    BY <2>5
  <2>7. QED
    BY <2>3, <2>6
<1>3. ASSUME LeadsInv, LeadsInv', [Next]_vars
      PROVE  [\A l \in Leads :
                IsConverted(l) => IsConverted(l)' /\ lead'[l].client = lead[l].client]_vars
  BY <1>2, <1>3
<1>4. QED
  BY <1>3, LeadsInvariant, PTL DEF Spec, ConversionsAreFinal

(* Conversion creates clients only where nobody has the lead's details at  *)
(* that moment; no other step creates one.                                 *)
THEOREM NoDuplicateClients == Spec => NoDuplicateClient
<1> DEFINE Alone(c) ==
      \A d \in Clients \ {c} :
         /\ client'[c].email # None => client'[d].email # client'[c].email
         /\ client'[c].phone # None => client'[d].phone # client'[c].phone
<1>1. ASSUME LeadsInv, [Next]_vars, NEW c \in Clients, client[c] = NoClient, client'[c] # NoClient
      PROVE  Alone(c)
  <2>1. PICK a \in Staff, l \in Leads, e \in Clients : ConvertToNewClient(a, l, e)
    <3>1. CASE \E a \in Staff, d \in Clients, patch \in Data : UpdateClient(a, d, patch)
      BY <1>1, <3>1 DEF UpdateClient, IsClient, LeadsInv, TypeOK
    <3>2. CASE client' = client
      BY <1>1, <3>2
    <3>3. QED
      BY <1>1, <3>1, <3>2 DEF Next, LeadStep, vars, CreateLead, LoadLead, UpdateLeadStatus,
         ConvertToExistingClient, WriteLead, EndAssignment, SetAssignment
  <2>2. client' = [client EXCEPT ![e] = NewClient(lead[l])] /\ client \in [Clients -> ClientRow \cup {NoClient}]
    BY <2>1, <1>1 DEF ConvertToNewClient, LeadsInv, TypeOK
  <2>3. c = e
    BY <1>1, <2>2
  <2>4. \A d \in Clients : ~SharesEmail(d, lead[l]) /\ ~SharesPhone(d, lead[l])
    BY <2>1 DEF ConvertToNewClient, NoMatch, Shares, MatchedOn
  <2>5. QED
    BY <2>2, <2>3, <2>4 DEF NewClient, SharesEmail, SharesPhone
<1>2. ASSUME LeadsInv, [Next]_vars
      PROVE  [\A c \in Clients : ~IsClient(c) /\ IsClient(c)' => Alone(c)]_vars
  BY <1>1, <1>2 DEF IsClient
<1>3. QED
  BY <1>2, LeadsInvariant, PTL DEF Spec, NoDuplicateClient

=============================================================================
