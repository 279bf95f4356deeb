------------------------------ MODULE Proposals ------------------------------
(***************************************************************************)
(* Proposals, their versions and the clients' responses                    *)
(* (features/proposals).  Every handler is one SERIALIZABLE transaction    *)
(* that repeats the checks made before it, hence one step.  What is not    *)
(* repeated is what somebody saw: the consultant's page names the version  *)
(* the publication replaces, the client's form the version it answers.     *)
(***************************************************************************)
EXTENDS Naturals, FiniteSets

CONSTANTS
  ProposalIds,   \* Proposal ids
  Clients,       \* Client ids; each has one portal account
  Consultants,   \* staff with role TRAVEL_CONSULTANT
  Managers,      \* staff with role ADMIN_MANAGER
  Pages,         \* rendered version histories with a publish button in use
  MaxVersions,   \* bounds the versions of a proposal
  Answers,       \* the ProposalResponseType values used
  None           \* SQL NULL

ASSUME RolesAssumption == Consultants \cap Managers = {} /\ (Consultants \cup Managers) \cap Clients = {}
ASSUME VersionsAssumption == MaxVersions \in Nat \ {0} /\ None \notin Nat

VARIABLES
  proposal,    \* Proposal rows: the client and the states of the versions
  acceptance,  \* ProposalAcceptance rows
  assignee,    \* the active consultant assignment of each client
  page,        \* what each page in use shows and is about to publish
  form         \* the version each client's open response form shows

tables == <<proposal, acceptance, assignee>>
-----------------------------------------------------------------------------
(* clientVisibleAt and supersededAt distinguish three states; versions are *)
(* numbered from 1 and versions[n] is the state of versionNumber n.        *)
VersionState == {"draft", "current", "superseded"}
Numbers == 1..MaxVersions
ProposalRow ==
  [client : Clients, versions : UNION {[1..k -> VersionState] : k \in Numbers}]
NoProposal == [client |-> None, versions |-> <<>>]
Version == [proposal : ProposalIds, number : Numbers]
Staff == Consultants \cup Managers
AcceptanceRow == [version : Version, answer : Answers, by : Staff \cup Clients]
PageRow == [actor : Consultants, target : Version, seen : Numbers \cup {None}]

ProposalsTypeOK ==
  /\ proposal \in [ProposalIds -> ProposalRow \cup {NoProposal}]
  /\ acceptance \subseteq AcceptanceRow
  /\ assignee \in [Clients -> Consultants \cup {None}]
  /\ page \in [Pages -> PageRow \cup {None}]
  /\ form \in [Clients -> Version \cup {None}]

ProposalsInit ==
  /\ proposal = [p \in ProposalIds |-> NoProposal]
  /\ acceptance = {}
  /\ assignee = [c \in Clients |-> None]
  /\ page = [q \in Pages |-> None]
  /\ form = [c \in Clients |-> None]
-----------------------------------------------------------------------------
Exists(p) == proposal[p] # NoProposal
ClientOf(p) == proposal[p].client
Known(v) == v.number \in DOMAIN proposal[v.proposal].versions
State(v) == proposal[v.proposal].versions[v.number]

(* The actor-scoped reads: a manager sees every client, a consultant the   *)
(* clients currently assigned.  Only the assigned consultant is an author. *)
Assigned(a, c) == assignee[c] = a
MayAccess(a, c) == a \in Managers \/ Assigned(a, c)

(* findCurrentClientVisibleVersion *)
CurrentNumbers(p) == {n \in DOMAIN proposal[p].versions : proposal[p].versions[n] = "current"}
Current(p) == IF CurrentNumbers(p) = {} THEN None ELSE CHOOSE n \in CurrentNumbers(p) : TRUE

NewProposal(c) == [client |-> c, versions |-> [n \in {1} |-> "draft"]]
CreateProposal(a, c, p) ==
  /\ Assigned(a, c) /\ ~Exists(p)
  /\ proposal' = [proposal EXCEPT ![p] = NewProposal(c)]
  /\ UNCHANGED <<acceptance, assignee, page, form>>

(* The version after the highest one; a concurrent revision that took the  *)
(* number makes the transaction start over.                                *)
NextNumber(p) == Cardinality(DOMAIN proposal[p].versions) + 1
WithRevision(p) ==
  [n \in DOMAIN proposal[p].versions \cup {NextNumber(p)} |->
     IF n = NextNumber(p) THEN "draft" ELSE proposal[p].versions[n]]
CreateProposalRevision(a, p) ==
  /\ Exists(p) /\ Assigned(a, ClientOf(p))
  /\ NextNumber(p) <= MaxVersions
  /\ proposal' = [proposal EXCEPT ![p].versions = WithRevision(p)]
  /\ UNCHANGED <<acceptance, assignee, page, form>>
-----------------------------------------------------------------------------
(* The page is rendered for the assigned consultant; each of its publish   *)
(* buttons carries a draft and the current version shown beside it.        *)
OpenPage(q, a, v) ==
  /\ page[q] = None
  /\ Known(v) /\ State(v) = "draft" /\ Assigned(a, ClientOf(v.proposal))
  /\ page' = [page EXCEPT ![q] = [actor |-> a, target |-> v, seen |-> Current(v.proposal)]]
  /\ UNCHANGED <<tables, form>>

(* publishProposalVersion's checks.  A target that is current by now is    *)
(* answered with success, one that is superseded with a conflict; neither  *)
(* changes anything, nor does a refusal.                                   *)
PublisherChecked(a, p) == Assigned(a, ClientOf(p))
Publishable(v) == State(v) = "draft"
SeenAny(seen, p) == TRUE
SeenIsCurrent(seen, p) == seen = Current(p)
Kept(p, n) == proposal[p].versions[n]
Superseded(p, n) == IF n = Current(p) THEN "superseded" ELSE Kept(p, n)
MadeVisible(vs, number) == [vs EXCEPT ![number] = "current"]
PublishedVersions(v) ==
  MadeVisible([n \in DOMAIN proposal[v.proposal].versions |-> Superseded(v.proposal, n)], v.number)
Publish(q) ==
  /\ page[q] # None
  /\ page' = [page EXCEPT ![q] = None]
  /\ LET v == page[q].target
         succeeds == /\ PublisherChecked(page[q].actor, v.proposal)
                     /\ Publishable(v)
                     /\ SeenIsCurrent(page[q].seen, v.proposal)
     IN  proposal' = IF succeeds
                     THEN [proposal EXCEPT ![v.proposal].versions = PublishedVersions(v)]
                     ELSE proposal
  /\ UNCHANGED <<acceptance, assignee, form>>
-----------------------------------------------------------------------------
(* Step A of both response handlers, with the unique index that backs it,  *)
(* and step B.                                                             *)
Unanswered(v) == \A x \in acceptance : x.version # v
IsPublished(v) == State(v) # "draft"
IsCurrent(v) == Current(v.proposal) = v.number
Answerable(v) == Unanswered(v) /\ IsCurrent(v)
ExternalAcceptance(v, r, staff) == [version |-> v, answer |-> r, by |-> staff]
PortalAcceptance(v, r, c) == [version |-> v, answer |-> r, by |-> c]

RecordProposalResponse(a, v, r) ==
  /\ Known(v) /\ MayAccess(a, ClientOf(v.proposal))
  /\ Answerable(v)
  /\ acceptance' = acceptance \cup {ExternalAcceptance(v, r, a)}
  /\ UNCHANGED <<proposal, assignee, page, form>>

(* My Journey renders the client's own current versions; the server action *)
(* behind a form keeps the version it was rendered with.                   *)
ReviewPage(c) == {v \in Version : Known(v) /\ ClientOf(v.proposal) = c /\ State(v) = "current"}
OpenForm(c, v) ==
  /\ v \in ReviewPage(c) /\ form[c] = None
  /\ form' = [form EXCEPT ![c] = v]
  /\ UNCHANGED <<tables, page>>
CloseForm(c) ==
  /\ form[c] # None
  /\ form' = [form EXCEPT ![c] = None]
  /\ UNCHANGED <<tables, page>>

(* The version a submission answers, and whether it is the client's whose  *)
(* session sends it: another one may have signed in since c opened it.     *)
Standing(c) == [form[c] EXCEPT !.number = Current(form[c].proposal)]
Captured(c) == form[c]
OwnerOf(v) == ClientOf(v.proposal)
Owns(d, v) == OwnerOf(v) = d
SubmitClientProposalResponse(c, d, r) ==
  /\ form[c] # None /\ Owns(d, form[c])
  /\ Answerable(Captured(c))
  /\ acceptance' = acceptance \cup {PortalAcceptance(Captured(c), r, d)}
  /\ form' = [form EXCEPT ![c] = None]
  /\ UNCHANGED <<proposal, assignee, page>>

(* setClientAssignment and endClientAssignment, by a manager. *)
SetAssignment(c, s) ==
  /\ assignee[c] # s
  /\ assignee' = [assignee EXCEPT ![c] = s]
  /\ UNCHANGED <<proposal, acceptance, page, form>>
EndAssignment(c) ==
  /\ assignee[c] # None
  /\ assignee' = [assignee EXCEPT ![c] = None]
  /\ UNCHANGED <<proposal, acceptance, page, form>>

ProposalsStep ==
  \/ \E a \in Consultants, p \in ProposalIds :
       CreateProposalRevision(a, p) \/ \E c \in Clients : CreateProposal(a, c, p)
  \/ \E q \in Pages : Publish(q) \/ \E a \in Consultants, v \in Version : OpenPage(q, a, v)
  \/ \E a \in Staff, v \in Version, r \in Answers : RecordProposalResponse(a, v, r)
  \/ \E c \in Clients :
       \/ CloseForm(c) \/ EndAssignment(c)
       \/ \E v \in Version : OpenForm(c, v)
       \/ \E d \in Clients, r \in Answers : SubmitClientProposalResponse(c, d, r)
       \/ \E s \in Consultants : SetAssignment(c, s)

=============================================================================
