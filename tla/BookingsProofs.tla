---------------------------- MODULE BookingsProofs ----------------------------
(***************************************************************************)
(* What modules Proposals and Bookings promise the client, proved for      *)
(* every set of proposals, clients, staff, pages, requests and bookings.   *)
(***************************************************************************)
EXTENDS Bookings, FiniteSetTheorems, TLAPS

(* At most one version of a proposal stands as the offer. *)
OneOffer == \A p \in ProposalIds : \A m, n \in CurrentNumbers(p) : m = n

(* Responses are to versions that were published, one to each. *)
ResponsesShown == \A x \in acceptance : Known(x.version) /\ State(x.version) # "draft"
OneResponse == \A x, y \in acceptance : x.version = y.version => x = y

(* Pages and forms show versions that exist, and forms the client's own. *)
PagesShowVersions == \A q \in Pages : page[q] # None => Known(page[q].target)
FormsShowOwn ==
  \A c \in Clients : form[c] # None => Known(form[c]) /\ ClientOf(form[c].proposal) = c

(* A booking is under way only for a version that was accepted. *)
RequestsAccepted == \A q \in Requests : request[q] # None => Accepted(request[q].version)

ProposalsInv ==
  ProposalsTypeOK /\ OneOffer /\ ResponsesShown /\ OneResponse /\ PagesShowVersions /\ FormsShowOwn
SalesInv == ProposalsInv /\ TypeOK /\ RequestsAccepted /\ BookingsMatchAcceptances

(* What no step takes back: versions stay, with their client, and a        *)
(* version that was published is never a draft again.                      *)
VersionsKept ==
  \A p \in ProposalIds : \A n \in DOMAIN proposal[p].versions :
    /\ n \in DOMAIN proposal'[p].versions
    /\ proposal'[p].client = proposal[p].client
    /\ proposal[p].versions[n] # "draft" => proposal'[p].versions[n] # "draft"

(* The same versions stand, and the same are superseded. *)
SupersededNumbers(p) == {n \in DOMAIN proposal[p].versions : proposal[p].versions[n] = "superseded"}
OffersSame ==
  \A o \in ProposalIds :
    CurrentNumbers(o)' = CurrentNumbers(o) /\ SupersededNumbers(o)' = SupersededNumbers(o)
-----------------------------------------------------------------------------
(* A proposal that exists is a row with a client and a version 1..k. *)
LEMMA RowInUse ==
  ASSUME ProposalsTypeOK, NEW p \in ProposalIds, Exists(p)
  PROVE  /\ proposal[p] \in ProposalRow /\ proposal[p].client \in Clients
         /\ \E k \in Numbers : /\ proposal[p].versions \in [1..k -> VersionState]
                               /\ DOMAIN proposal[p].versions = 1..k
<1>1. proposal[p] \in ProposalRow
  BY DEF ProposalsTypeOK, Exists
<1>2. PICK k \in Numbers : proposal[p].versions \in [1..k -> VersionState]
  BY <1>1 DEF ProposalRow
<1>3. QED
  BY <1>1, <1>2 DEF ProposalRow

(* One that does not has no version, hence no offer. *)
LEMMA NoRow ==
  ASSUME NEW p, ~Exists(p)
  PROVE  DOMAIN proposal[p].versions = {} /\ CurrentNumbers(p) = {} /\ SupersededNumbers(p) = {}
<1>1. proposal[p].versions = <<>>
  BY DEF Exists, NoProposal
<1>2. DOMAIN <<>> = {}
  OBVIOUS
<1>3. QED
  BY <1>1, <1>2 DEF CurrentNumbers, SupersededNumbers

LEMMA KnownExists ==
  ASSUME ProposalsTypeOK, NEW v \in Version, Known(v)
  PROVE  /\ v.proposal \in ProposalIds /\ v.number \in Numbers
         /\ Exists(v.proposal) /\ State(v) \in VersionState
<1>1. v.proposal \in ProposalIds /\ v.number \in Numbers
  BY DEF Version
<1>2. Exists(v.proposal)
  BY NoRow DEF Known
<1>3. State(v) \in VersionState
  BY <1>1, <1>2, RowInUse DEF Known, State
<1>4. QED
  BY <1>1, <1>2, <1>3

(* findCurrentClientVisibleVersion finds the current version if there is   *)
(* one, and NULL is no version number.                                     *)
LEMMA CurrentIs ==
  ASSUME ProposalsTypeOK, OneOffer, NEW p \in ProposalIds
  PROVE  /\ CurrentNumbers(p) \subseteq Numbers
         /\ \A n \in Numbers : n \in CurrentNumbers(p) <=> Current(p) = n
         /\ Current(p) \in CurrentNumbers(p) \cup {None}
         /\ CurrentNumbers(p) = {} <=> Current(p) = None
<1>1. CurrentNumbers(p) \subseteq Numbers
  <2>1. CASE Exists(p)
    BY <2>1, RowInUse, VersionsAssumption DEF CurrentNumbers, Numbers
  <2>2. QED
    BY <2>1, NoRow
<1>2. None \notin Numbers
  BY VersionsAssumption DEF Numbers
<1>3. CASE CurrentNumbers(p) = {}
  BY <1>1, <1>2, <1>3 DEF Current
<1>4. CASE CurrentNumbers(p) # {}
  <2>1. Current(p) \in CurrentNumbers(p)
    BY <1>4 DEF Current
  <2>2. QED
    BY <1>1, <1>2, <1>4, <2>1 DEF OneOffer
<1>5. QED
  BY <1>3, <1>4

(* What a proposal's row says is all Current depends on. *)
LEMMA CurrentSame ==
  ASSUME NEW p, CurrentNumbers(p)' = CurrentNumbers(p)
  PROVE  Current(p)' = Current(p)
BY DEF Current
-----------------------------------------------------------------------------
(* createProposal: a new proposal has a draft and nothing on offer. *)
LEMMA CreateProposalStep ==
  ASSUME ProposalsInv, NEW a \in Consultants, NEW c \in Clients, NEW p \in ProposalIds,
         CreateProposal(a, c, p)
  PROVE  /\ proposal' \in [ProposalIds -> ProposalRow \cup {NoProposal}]
         /\ VersionsKept
         /\ OffersSame
<1>1. proposal' = [proposal EXCEPT ![p] = NewProposal(c)]
  BY DEF CreateProposal
<1>2. NewProposal(c) \in ProposalRow
  <2>1. 1..1 = {1}
    OBVIOUS
  <2>2. [n \in {1} |-> "draft"] \in [1..1 -> VersionState]
    BY <2>1 DEF VersionState
  <2>3. QED
    BY <2>2, VersionsAssumption DEF NewProposal, ProposalRow, Numbers
<1>3. proposal \in [ProposalIds -> ProposalRow \cup {NoProposal}]
  BY DEF ProposalsInv, ProposalsTypeOK
<1>4. DOMAIN proposal[p].versions = {} /\ CurrentNumbers(p) = {} /\ SupersededNumbers(p) = {}
  BY NoRow DEF CreateProposal
<1>5. VersionsKept
  BY <1>1, <1>3, <1>4 DEF VersionsKept
<1>6. ASSUME NEW o \in ProposalIds
      PROVE  CurrentNumbers(o)' = CurrentNumbers(o) /\ SupersededNumbers(o)' = SupersededNumbers(o)
  <2>1. CASE o = p
    <3>1. proposal'[o].versions = [n \in {1} |-> "draft"]
      BY <1>1, <1>3, <2>1 DEF NewProposal
    <3>2. QED
      BY <1>4, <2>1, <3>1 DEF CurrentNumbers, SupersededNumbers
  <2>2. CASE o # p
    BY <1>1, <1>3, <2>2 DEF CurrentNumbers, SupersededNumbers
  <2>3. QED
    BY <2>1, <2>2
<1>7. QED
  BY <1>1, <1>2, <1>3, <1>5, <1>6 DEF OffersSame

(* createProposalRevision appends a draft to the versions there are. *)
LEMMA CreateProposalRevisionStep ==
  ASSUME ProposalsInv, NEW a \in Consultants, NEW p \in ProposalIds, CreateProposalRevision(a, p)
  PROVE  /\ proposal' \in [ProposalIds -> ProposalRow \cup {NoProposal}]
         /\ VersionsKept
         /\ OffersSame
<1>1. proposal' = [proposal EXCEPT ![p].versions = WithRevision(p)]
  BY DEF CreateProposalRevision
<1>2. proposal \in [ProposalIds -> ProposalRow \cup {NoProposal}] /\ proposal[p] \in ProposalRow
  BY RowInUse DEF ProposalsInv, ProposalsTypeOK, CreateProposalRevision
<1>3. PICK k \in Numbers : /\ proposal[p].versions \in [1..k -> VersionState]
                           /\ DOMAIN proposal[p].versions = 1..k
  BY RowInUse DEF ProposalsInv, CreateProposalRevision
<1>4. NextNumber(p) = k + 1 /\ k + 1 \in Numbers
  <2>1. k \in Nat /\ k >= 1
    BY VersionsAssumption DEF Numbers
  <2>2. Cardinality(1..k) = k
    BY <2>1, FS_Interval
  <2>3. NextNumber(p) = k + 1
    BY <1>3, <2>2 DEF NextNumber
  <2>4. k + 1 <= MaxVersions
    BY <2>3 DEF CreateProposalRevision
  <2>5. QED
    BY <2>1, <2>3, <2>4, VersionsAssumption DEF Numbers
<1>5. (1..k) \cup {k + 1} = 1..(k + 1) /\ k + 1 \notin 1..k
  BY <1>3, VersionsAssumption DEF Numbers
<1>6. WithRevision(p) = [n \in 1..(k + 1) |-> IF n = k + 1 THEN "draft" ELSE proposal[p].versions[n]]
  BY <1>3, <1>4, <1>5 DEF WithRevision
<1>7. WithRevision(p) \in [1..(k + 1) -> VersionState]
  BY <1>3, <1>5, <1>6 DEF VersionState
<1>8. proposal'[p] = [proposal[p] EXCEPT !.versions = WithRevision(p)]
  BY <1>1, <1>2
<1>9. /\ proposal'[p] \in ProposalRow
      /\ proposal'[p].client = proposal[p].client
      /\ proposal'[p].versions = WithRevision(p)
  BY <1>2, <1>4, <1>7, <1>8 DEF ProposalRow
<1>10. proposal' \in [ProposalIds -> ProposalRow \cup {NoProposal}]
  BY <1>1, <1>2, <1>9
<1>11. \A o \in ProposalIds \ {p} : proposal'[o] = proposal[o]
  BY <1>1, <1>2
<1>12. \A n \in 1..k : WithRevision(p)[n] = proposal[p].versions[n]
  BY <1>5, <1>6
<1>13. VersionsKept
  <2>1. DOMAIN WithRevision(p) = 1..(k + 1)
    BY <1>6
  <2>2. QED
    BY <1>3, <1>5, <1>9, <1>11, <1>12, <2>1 DEF VersionsKept
<1>14. ASSUME NEW o \in ProposalIds
       PROVE  CurrentNumbers(o)' = CurrentNumbers(o) /\ SupersededNumbers(o)' = SupersededNumbers(o)
  <2>1. CASE o = p
    <3>1. /\ CurrentNumbers(o)' = {n \in 1..(k + 1) : WithRevision(p)[n] = "current"}
          /\ SupersededNumbers(o)' = {n \in 1..(k + 1) : WithRevision(p)[n] = "superseded"}
      BY <1>6, <1>9, <2>1 DEF CurrentNumbers, SupersededNumbers
    <3>2. WithRevision(p)[k + 1] = "draft"
      BY <1>5, <1>6
    <3>3. \A s \in {"current", "superseded"} :
            {n \in 1..(k + 1) : WithRevision(p)[n] = s} = {n \in 1..k : proposal[p].versions[n] = s}
      BY <1>5, <1>12, <3>2
    <3>4. QED
      BY <1>3, <2>1, <3>1, <3>3 DEF CurrentNumbers, SupersededNumbers
  <2>2. CASE o # p
    BY <1>11, <2>2 DEF CurrentNumbers, SupersededNumbers
  <2>3. QED
    BY <2>1, <2>2
<1>15. QED
  BY <1>10, <1>13, <1>14 DEF OffersSame

(* publishProposalVersion that succeeds: the target stands, the version    *)
(* that stood is superseded, and no other version changes.                 *)
Replaces(v) ==
  LET old == Current(v.proposal) IN
  /\ State(v) = "draft" /\ old # v.number
  /\ DOMAIN proposal'[v.proposal].versions = DOMAIN proposal[v.proposal].versions
  /\ \A n \in DOMAIN proposal[v.proposal].versions :
       proposal'[v.proposal].versions[n] =
         IF n = v.number THEN "current"
         ELSE IF n = old THEN "superseded" ELSE proposal[v.proposal].versions[n]
  /\ \A o \in ProposalIds \ {v.proposal} : proposal'[o] = proposal[o]

LEMMA PublishStep ==
  ASSUME ProposalsInv, NEW v \in Version, Known(v), Publishable(v),
         proposal' = [proposal EXCEPT ![v.proposal].versions = PublishedVersions(v)]
  PROVE  /\ proposal' \in [ProposalIds -> ProposalRow \cup {NoProposal}]
         /\ VersionsKept
         /\ Replaces(v)
<1> DEFINE p == v.proposal
           vs == proposal[p].versions
           old == Current(p)
<1>1. p \in ProposalIds /\ v.number \in Numbers /\ Exists(p) /\ v.number \in DOMAIN vs /\ State(v) = "draft"
  BY KnownExists DEF ProposalsInv, Known, Publishable
<1>2. PICK k \in Numbers : vs \in [1..k -> VersionState] /\ DOMAIN vs = 1..k
  BY <1>1, RowInUse DEF ProposalsInv
<1>3. proposal \in [ProposalIds -> ProposalRow \cup {NoProposal}] /\ proposal[p] \in ProposalRow
  BY <1>1, RowInUse DEF ProposalsInv, ProposalsTypeOK
<1>4. old # v.number
  <2>1. v.number \notin CurrentNumbers(p)
    BY <1>1 DEF CurrentNumbers, State
  <2>2. QED
    BY <1>1, <2>1, CurrentIs DEF ProposalsInv
<1>5. PublishedVersions(v) =
        [n \in 1..k |-> IF n = v.number THEN "current" ELSE IF n = old THEN "superseded" ELSE vs[n]]
  BY <1>1, <1>2 DEF PublishedVersions, MadeVisible, Superseded, Kept
<1> DEFINE new == PublishedVersions(v)
<1> HIDE DEF new
<1>6. new \in [1..k -> VersionState] /\ DOMAIN new = 1..k
  BY <1>2, <1>5 DEF VersionState, new
<1>7. proposal'[p] = [proposal[p] EXCEPT !.versions = new]
  BY <1>1, <1>3 DEF new
<1>8. /\ proposal'[p] \in ProposalRow
      /\ proposal'[p].client = proposal[p].client
      /\ proposal'[p].versions = new
  BY <1>3, <1>6, <1>7 DEF ProposalRow
<1>9. \A o \in ProposalIds \ {p} : proposal'[o] = proposal[o]
  BY <1>3
<1>10. proposal' \in [ProposalIds -> ProposalRow \cup {NoProposal}]
  BY <1>3, <1>8
<1>11. Replaces(v)
  BY <1>1, <1>2, <1>4, <1>5, <1>6, <1>8, <1>9 DEF Replaces, new
<1>12. VersionsKept
  <2>1. ASSUME NEW o \in ProposalIds, NEW n \in DOMAIN proposal[o].versions
        PROVE  /\ n \in DOMAIN proposal'[o].versions
               /\ proposal'[o].client = proposal[o].client
               /\ proposal[o].versions[n] # "draft" => proposal'[o].versions[n] # "draft"
    <3>1. CASE o # p
      BY <1>9, <2>1, <3>1
    <3>2. CASE o = p
      <4>1. /\ n \in DOMAIN proposal'[p].versions
            /\ proposal'[p].versions[n] \in {"current", "superseded", vs[n]}
        BY <1>11, <2>1, <3>2 DEF Replaces
      <4>2. QED
        BY <1>8, <3>2, <4>1
    <3>3. QED
      BY <3>1, <3>2
  <2>2. QED
    BY <2>1 DEF VersionsKept
<1>13. QED
  BY <1>10, <1>11, <1>12

(* After a publication the target is the one version that stands. *)
LEMMA PublishedStands ==
  ASSUME ProposalsInv, NEW v \in Version, Known(v), Replaces(v)
  PROVE  /\ CurrentNumbers(v.proposal)' = {v.number}
         /\ Current(v.proposal)' = v.number
         /\ \A o \in ProposalIds \ {v.proposal} :
              CurrentNumbers(o)' = CurrentNumbers(o) /\ Current(o)' = Current(o)
<1>1. v.proposal \in ProposalIds /\ v.number \in DOMAIN proposal[v.proposal].versions
  BY KnownExists DEF ProposalsInv, Known
<1>2. \A n \in DOMAIN proposal[v.proposal].versions :
        proposal[v.proposal].versions[n] = "current" => n = Current(v.proposal)
  <2>1. ASSUME NEW n \in CurrentNumbers(v.proposal)
        PROVE  n = Current(v.proposal)
    BY <1>1, CurrentIs DEF ProposalsInv
  <2>2. QED
    BY <2>1 DEF CurrentNumbers
<1>3. CurrentNumbers(v.proposal)' = {v.number}
  BY <1>1, <1>2 DEF Replaces, CurrentNumbers
<1>4. Current(v.proposal)' = v.number
  BY <1>3 DEF Current
<1>5. \A o \in ProposalIds \ {v.proposal} : CurrentNumbers(o)' = CurrentNumbers(o)
  BY DEF Replaces, CurrentNumbers
<1>6. \A o \in ProposalIds \ {v.proposal} : Current(o)' = Current(o)
  BY <1>5, CurrentSame
<1>7. QED
  BY <1>3, <1>4, <1>5, <1>6
-----------------------------------------------------------------------------
LEMMA KnownKept ==
  ASSUME ProposalsTypeOK, VersionsKept, NEW v \in Version, Known(v)
  PROVE  /\ Known(v)'
         /\ ClientOf(v.proposal)' = ClientOf(v.proposal)
         /\ State(v) # "draft" => State(v)' # "draft"
<1>1. v.proposal \in ProposalIds /\ v.number \in DOMAIN proposal[v.proposal].versions
  BY KnownExists DEF Known
<1>2. QED
  BY <1>1 DEF VersionsKept, Known, ClientOf, State

LEMMA SameRowsKept ==
  ASSUME UNCHANGED proposal
  PROVE  /\ VersionsKept
         /\ OffersSame
BY DEF VersionsKept, CurrentNumbers, SupersededNumbers, OffersSame

LEMMA SameOffers ==
  ASSUME OneOffer, OffersSame
  PROVE  OneOffer'
BY DEF OneOffer, OffersSame

(* As versions are kept, what referred to one still does; what is new has  *)
(* to refer to one when it is made.                                        *)
LEMMA ReferencesKept ==
  ASSUME ProposalsInv, ProposalsTypeOK', VersionsKept, OneOffer', OneResponse',
         \A x \in acceptance' : x \in acceptance \/ (Known(x.version) /\ State(x.version) # "draft"),
         \A q \in Pages : page'[q] # None => page'[q] = page[q] \/ Known(page'[q].target),
         \A c \in Clients : form'[c] # None =>
           form'[c] = form[c] \/ (Known(form'[c]) /\ proposal[form'[c].proposal].client = c)
  PROVE  ProposalsInv'
<1>1. ResponsesShown'
  <2>1. ASSUME NEW x \in acceptance'
        PROVE  Known(x.version)' /\ State(x.version)' # "draft"
    <3>1. x.version \in Version
      BY DEF ProposalsTypeOK, AcceptanceRow
    <3>2. Known(x.version) /\ State(x.version) # "draft"
      BY DEF ProposalsInv, ResponsesShown
    <3>3. QED
      BY <3>1, <3>2, KnownKept DEF ProposalsInv
  <2>2. QED
    BY <2>1 DEF ResponsesShown
<1>2. PagesShowVersions'
  <2>1. ASSUME NEW q \in Pages, page'[q] # None
        PROVE  Known(page[q].target)'
    <3>1. page'[q].target \in Version
      BY <2>1 DEF ProposalsTypeOK, PageRow
    <3>2. Known(page'[q].target)
      BY <2>1 DEF ProposalsInv, PagesShowVersions
    <3>3. PICK v \in Version : v = page'[q].target
      BY <3>1
    <3>4. Known(v)'
      BY <3>2, <3>3, KnownKept DEF ProposalsInv
    <3>5. QED
      BY <3>3, <3>4 DEF Known
  <2>2. QED
    BY <2>1 DEF PagesShowVersions, Known
<1>3. FormsShowOwn'
  <2>1. ASSUME NEW c \in Clients, form'[c] # None
        PROVE  Known(form[c])' /\ ClientOf(form[c].proposal)' = c
    <3>1. PICK v \in Version : v = form'[c]
      BY <2>1 DEF ProposalsTypeOK
    <3>2. Known(v) /\ ClientOf(v.proposal) = c
      BY <2>1, <3>1 DEF ProposalsInv, FormsShowOwn, ClientOf
    <3>3. Known(v)' /\ ClientOf(v.proposal)' = c
      BY <3>2, KnownKept DEF ProposalsInv
    <3>4. QED
      BY <3>1, <3>3 DEF Known, ClientOf
  <2>2. QED
    BY <2>1 DEF FormsShowOwn, Known, ClientOf
<1>4. QED
  BY <1>1, <1>2, <1>3 DEF ProposalsInv

(* The responses of both kinds: only to the version that stands, which no  *)
(* response has answered yet.                                              *)
LEMMA ResponseStep ==
  ASSUME ProposalsInv, NEW v \in Version, Known(v), Answerable(v),
         NEW r \in Answers, NEW b \in Staff \cup Clients,
         acceptance' = acceptance \cup {[version |-> v, answer |-> r, by |-> b]}
  PROVE  /\ State(v) = "current"
         /\ acceptance' \subseteq AcceptanceRow
         /\ OneResponse'
<1>1. v.proposal \in ProposalIds /\ v.number \in Numbers /\ Current(v.proposal) = v.number
  BY KnownExists DEF ProposalsInv, Answerable, IsCurrent
<1>2. v.number \in CurrentNumbers(v.proposal)
  BY <1>1, CurrentIs DEF ProposalsInv
<1>3. State(v) = "current"
  BY <1>2 DEF CurrentNumbers, State
<1>4. acceptance' \subseteq AcceptanceRow
  BY DEF ProposalsInv, ProposalsTypeOK, AcceptanceRow
<1>5. OneResponse'
  BY DEF ProposalsInv, OneResponse, Answerable, Unanswered
<1>6. QED
  BY <1>3, <1>4, <1>5

LEMMA RecordResponseStep ==
  ASSUME ProposalsInv, NEW a \in Staff, NEW v \in Version, NEW r \in Answers,
         RecordProposalResponse(a, v, r)
  PROVE  ProposalsInv'
<1>1. /\ Known(v) /\ Answerable(v)
      /\ acceptance' = acceptance \cup {[version |-> v, answer |-> r, by |-> a]}
      /\ UNCHANGED <<proposal, assignee, page, form>>
  BY DEF RecordProposalResponse, ExternalAcceptance
<1>2. State(v) = "current" /\ acceptance' \subseteq AcceptanceRow /\ OneResponse'
  BY <1>1, ResponseStep
<1>3. ProposalsTypeOK'
  BY <1>1, <1>2 DEF ProposalsInv, ProposalsTypeOK
<1>4. VersionsKept /\ OneOffer'
  BY <1>1, SameRowsKept, SameOffers DEF ProposalsInv
<1>5. \A x \in acceptance' : x \in acceptance \/ (Known(x.version) /\ State(x.version) # "draft")
  BY <1>1, <1>2
<1>6. QED
  BY <1>1, <1>2, <1>3, <1>4, <1>5, ReferencesKept

(* submitClientProposalResponse answers the version the form was rendered  *)
(* with, which is the submitting client's own.                             *)
LEMMA FormVersion ==
  ASSUME ProposalsInv, NEW c \in Clients, form[c] # None
  PROVE  form[c] \in Version /\ Known(form[c]) /\ ClientOf(form[c].proposal) = c
BY DEF ProposalsInv, ProposalsTypeOK, FormsShowOwn

LEMMA SubmitResponseStep ==
  ASSUME ProposalsInv, NEW c \in Clients, NEW d \in Clients, NEW r \in Answers,
         SubmitClientProposalResponse(c, d, r)
  PROVE  ProposalsInv'
<1>1. PICK v \in Version : v = form[c] /\ Known(v)
  BY FormVersion DEF SubmitClientProposalResponse
<1>2. /\ Answerable(v)
      /\ acceptance' = acceptance \cup {[version |-> v, answer |-> r, by |-> d]}
      /\ form' = [form EXCEPT ![c] = None]
      /\ UNCHANGED <<proposal, assignee, page>>
  BY <1>1 DEF SubmitClientProposalResponse, PortalAcceptance, Captured
<1>3. State(v) = "current" /\ acceptance' \subseteq AcceptanceRow /\ OneResponse'
  BY <1>1, <1>2, ResponseStep
<1>4. ProposalsTypeOK'
  BY <1>2, <1>3 DEF ProposalsInv, ProposalsTypeOK
<1>5. VersionsKept /\ OneOffer'
  BY <1>2, SameRowsKept, SameOffers DEF ProposalsInv
<1>6. \A x \in acceptance' : x \in acceptance \/ (Known(x.version) /\ State(x.version) # "draft")
  BY <1>1, <1>2, <1>3
<1>7. \A e \in Clients : form'[e] # None => form'[e] = form[e]
  BY <1>2 DEF ProposalsInv, ProposalsTypeOK
<1>8. QED
  BY <1>2, <1>3, <1>4, <1>5, <1>6, <1>7, ReferencesKept

LEMMA OpenPageStep ==
  ASSUME ProposalsInv, NEW q \in Pages, NEW a \in Consultants, NEW v \in Version, OpenPage(q, a, v)
  PROVE  ProposalsInv'
<1> DEFINE new == [actor |-> a, target |-> v, seen |-> Current(v.proposal)]
<1>1. Known(v) /\ page' = [page EXCEPT ![q] = new] /\ UNCHANGED <<proposal, acceptance, assignee, form>>
  BY DEF OpenPage, tables
<1>2. Current(v.proposal) \in Numbers \cup {None}
  BY <1>1, KnownExists, CurrentIs DEF ProposalsInv
<1>3. new \in PageRow
  BY <1>2 DEF PageRow
<1>4. ProposalsTypeOK'
  BY <1>1, <1>3 DEF ProposalsInv, ProposalsTypeOK
<1>5. VersionsKept /\ OneOffer'
  BY <1>1, SameRowsKept, SameOffers DEF ProposalsInv
<1>6. OneResponse'
  BY <1>1 DEF ProposalsInv, OneResponse
<1>7. \A w \in Pages : page'[w] # None => page'[w] = page[w] \/ Known(page'[w].target)
  BY <1>1 DEF ProposalsInv, ProposalsTypeOK
<1>8. QED
  BY <1>1, <1>4, <1>5, <1>6, <1>7, ReferencesKept

LEMMA OpenFormStep ==
  ASSUME ProposalsInv, NEW c \in Clients, NEW v \in Version, OpenForm(c, v)
  PROVE  ProposalsInv'
<1>1. /\ Known(v) /\ proposal[v.proposal].client = c
      /\ form' = [form EXCEPT ![c] = v] /\ UNCHANGED <<proposal, acceptance, assignee, page>>
  BY DEF OpenForm, ReviewPage, ClientOf, tables
<1>2. ProposalsTypeOK'
  BY <1>1 DEF ProposalsInv, ProposalsTypeOK
<1>3. VersionsKept /\ OneOffer'
  BY <1>1, SameRowsKept, SameOffers DEF ProposalsInv
<1>4. OneResponse'
  BY <1>1 DEF ProposalsInv, OneResponse
<1>5. \A e \in Clients : form'[e] # None =>
        form'[e] = form[e] \/ (Known(form'[e]) /\ proposal[form'[e].proposal].client = e)
  BY <1>1 DEF ProposalsInv, ProposalsTypeOK
<1>6. QED
  BY <1>1, <1>2, <1>3, <1>4, <1>5, ReferencesKept

(* A form closed and an assignment changed disturb nothing. *)
LEMMA OtherProposalSteps ==
  ASSUME ProposalsInv, NEW c \in Clients,
         \/ CloseForm(c) \/ EndAssignment(c) \/ \E s \in Consultants : SetAssignment(c, s)
  PROVE  ProposalsInv'
<1>1. /\ UNCHANGED <<proposal, acceptance, page>>
      /\ form' = form \/ form' = [form EXCEPT ![c] = None]
      /\ assignee' = assignee \/ \E s \in Consultants \cup {None} : assignee' = [assignee EXCEPT ![c] = s]
  BY DEF CloseForm, EndAssignment, SetAssignment, tables
<1>2. ProposalsTypeOK'
  BY <1>1 DEF ProposalsInv, ProposalsTypeOK
<1>3. VersionsKept /\ OneOffer'
  BY <1>1, SameRowsKept, SameOffers DEF ProposalsInv
<1>4. OneResponse'
  BY <1>1 DEF ProposalsInv, OneResponse
<1>5. \A e \in Clients : form'[e] # None => form'[e] = form[e]
  BY <1>1 DEF ProposalsInv, ProposalsTypeOK
<1>6. QED
  BY <1>1, <1>2, <1>3, <1>4, <1>5, ReferencesKept

(* A new proposal or revision is a draft. *)
LEMMA DraftSteps ==
  ASSUME ProposalsInv, NEW a \in Consultants, NEW p \in ProposalIds,
         CreateProposalRevision(a, p) \/ \E c \in Clients : CreateProposal(a, c, p)
  PROVE  ProposalsInv' /\ VersionsKept /\ OffersSame
<1>1. /\ proposal' \in [ProposalIds -> ProposalRow \cup {NoProposal}]
      /\ VersionsKept
      /\ OffersSame
  BY CreateProposalStep, CreateProposalRevisionStep
<1>2. UNCHANGED <<acceptance, assignee, page, form>>
  BY DEF CreateProposal, CreateProposalRevision
<1>3. ProposalsTypeOK'
  BY <1>1, <1>2 DEF ProposalsInv, ProposalsTypeOK
<1>4. OneOffer'
  BY <1>1, SameOffers DEF ProposalsInv
<1>5. OneResponse'
  BY <1>2 DEF ProposalsInv, OneResponse
<1>6. QED
  BY <1>1, <1>2, <1>3, <1>4, <1>5, ReferencesKept

(* The publish button: a publication, or a refusal that changes nothing.   *)
PublishedFrom(q) ==
  LET v == page[q].target IN
  /\ v \in Version /\ Known(v) /\ Publishable(v)
  /\ page[q].seen = Current(v.proposal) /\ Assigned(page[q].actor, ClientOf(v.proposal))
  /\ Replaces(v)

LEMMA PublishButtonStep ==
  ASSUME ProposalsInv, NEW q \in Pages, Publish(q)
  PROVE  ProposalsInv' /\ VersionsKept /\ (UNCHANGED proposal \/ PublishedFrom(q))
<1>1. PICK v \in Version : v = page[q].target /\ Known(v)
  BY DEF ProposalsInv, ProposalsTypeOK, PagesShowVersions, PageRow, Publish
<1>2. page' = [page EXCEPT ![q] = None] /\ UNCHANGED <<acceptance, assignee, form>>
  BY DEF Publish
<1>3. \A w \in Pages : page'[w] # None => page'[w] = page[w]
  BY <1>2 DEF ProposalsInv, ProposalsTypeOK
<1>4. OneResponse'
  BY <1>2 DEF ProposalsInv, OneResponse
<1>5. CASE UNCHANGED proposal
  <2>1. ProposalsTypeOK'
    BY <1>2, <1>5 DEF ProposalsInv, ProposalsTypeOK
  <2>2. VersionsKept /\ OneOffer'
    BY <1>5, SameRowsKept, SameOffers DEF ProposalsInv
  <2>3. QED
    BY <1>2, <1>3, <1>4, <1>5, <2>1, <2>2, ReferencesKept
<1>6. CASE proposal' # proposal
  <2>1. /\ Publishable(v) /\ proposal' = [proposal EXCEPT ![v.proposal].versions = PublishedVersions(v)]
        /\ page[q].seen = Current(v.proposal) /\ Assigned(page[q].actor, ClientOf(v.proposal))
    BY <1>1, <1>6 DEF Publish, PublisherChecked, SeenIsCurrent
  <2>2. /\ proposal' \in [ProposalIds -> ProposalRow \cup {NoProposal}]
        /\ VersionsKept /\ Replaces(v)
    BY <1>1, <2>1, PublishStep
  <2>3. ProposalsTypeOK'
    BY <1>2, <2>2 DEF ProposalsInv, ProposalsTypeOK
  <2>4. OneOffer'
    <3>1. CurrentNumbers(v.proposal)' = {v.number}
      BY <1>1, <2>2, PublishedStands
    <3>2. \A o \in ProposalIds \ {v.proposal} : CurrentNumbers(o)' = CurrentNumbers(o)
      BY <1>1, <2>2, PublishedStands
    <3>3. QED
      BY <3>1, <3>2 DEF ProposalsInv, OneOffer
  <2>5. PublishedFrom(q)
    BY <1>1, <2>1, <2>2 DEF PublishedFrom
  <2>6. QED
    BY <1>2, <1>3, <1>4, <2>2, <2>3, <2>4, <2>5, ReferencesKept
<1>7. QED
  BY <1>5, <1>6

LEMMA ProposalsNext ==
  ASSUME ProposalsInv, ProposalsStep
  PROVE  ProposalsInv' /\ VersionsKept /\ acceptance \subseteq acceptance'
<1>1. ASSUME NEW a \in Consultants, NEW p \in ProposalIds,
             CreateProposalRevision(a, p) \/ \E c \in Clients : CreateProposal(a, c, p)
      PROVE  ProposalsInv' /\ VersionsKept /\ acceptance \subseteq acceptance'
  <2>1. UNCHANGED acceptance
    BY <1>1 DEF CreateProposalRevision, CreateProposal
  <2>2. QED
    BY <1>1, <2>1, DraftSteps
<1>2. ASSUME NEW q \in Pages, Publish(q)
      PROVE  ProposalsInv' /\ VersionsKept /\ acceptance \subseteq acceptance'
  BY <1>2, PublishButtonStep DEF Publish
<1>3. ASSUME NEW q \in Pages, NEW a \in Consultants, NEW v \in Version, OpenPage(q, a, v)
      PROVE  ProposalsInv' /\ VersionsKept /\ acceptance \subseteq acceptance'
  <2>1. UNCHANGED <<proposal, acceptance>>
    BY <1>3 DEF OpenPage, tables
  <2>2. QED
    BY <1>3, <2>1, OpenPageStep, SameRowsKept
<1>4. ASSUME NEW a \in Staff, NEW v \in Version, NEW r \in Answers, RecordProposalResponse(a, v, r)
      PROVE  ProposalsInv' /\ VersionsKept /\ acceptance \subseteq acceptance'
  <2>1. UNCHANGED proposal /\ acceptance \subseteq acceptance'
    BY <1>4 DEF RecordProposalResponse
  <2>2. QED
    BY <1>4, <2>1, RecordResponseStep, SameRowsKept
<1>5. ASSUME NEW c \in Clients,
             CloseForm(c) \/ EndAssignment(c) \/ \E s \in Consultants : SetAssignment(c, s)
      PROVE  ProposalsInv' /\ VersionsKept /\ acceptance \subseteq acceptance'
  <2>1. UNCHANGED <<proposal, acceptance>>
    BY <1>5 DEF CloseForm, EndAssignment, SetAssignment, tables
  <2>2. QED
    BY <1>5, <2>1, OtherProposalSteps, SameRowsKept
<1>6. ASSUME NEW c \in Clients, NEW v \in Version, OpenForm(c, v)
      PROVE  ProposalsInv' /\ VersionsKept /\ acceptance \subseteq acceptance'
  <2>1. UNCHANGED <<proposal, acceptance>>
    BY <1>6 DEF OpenForm, tables
  <2>2. QED
    BY <1>6, <2>1, OpenFormStep, SameRowsKept
<1>7. ASSUME NEW c \in Clients, NEW d \in Clients, NEW r \in Answers,
             SubmitClientProposalResponse(c, d, r)
      PROVE  ProposalsInv' /\ VersionsKept /\ acceptance \subseteq acceptance'
  <2>1. UNCHANGED proposal /\ acceptance \subseteq acceptance'
    BY <1>7 DEF SubmitClientProposalResponse
  <2>2. QED
    BY <1>7, <2>1, SubmitResponseStep, SameRowsKept
<1>8. QED
  BY <1>1, <1>2, <1>3, <1>4, <1>5, <1>6, <1>7 DEF ProposalsStep
-----------------------------------------------------------------------------
(* What was accepted is known, and stays so. *)
LEMMA AcceptedKnown ==
  ASSUME ProposalsInv, NEW v, Accepted(v)
  PROVE  v \in Version /\ Known(v)
BY DEF ProposalsInv, ProposalsTypeOK, AcceptanceRow, ResponsesShown, Accepted

LEMMA AcceptedStays ==
  ASSUME acceptance \subseteq acceptance', NEW v, Accepted(v)
  PROVE  Accepted(v)'
BY DEF Accepted

(* Around the bookings: what happens to proposals leaves them in order. *)
LEMMA ProposalsAroundBookings ==
  ASSUME SalesInv, ProposalsInv', VersionsKept, acceptance \subseteq acceptance',
         UNCHANGED <<booking, request>>
  PROVE  SalesInv'
<1>1. TypeOK'
  BY DEF SalesInv, ProposalsInv, TypeOK
<1>2. RequestsAccepted'
  <2>1. ASSUME NEW q \in Requests, request'[q] # None
        PROVE  Accepted(request[q].version)'
    <3>1. PICK v : v = request[q].version /\ Accepted(v)
      BY <2>1 DEF SalesInv, RequestsAccepted
    <3>2. Accepted(v)'
      BY <3>1, AcceptedStays
    <3>3. QED
      BY <3>1, <3>2 DEF Accepted
  <2>2. QED
    BY <2>1 DEF RequestsAccepted, Accepted
<1>3. BookingsMatchAcceptances'
  <2>1. ASSUME NEW b \in BookingIds, booking'[b] # None
        PROVE  /\ booking'[b].client = ClientOf(booking[b].version.proposal)'
               /\ \E x \in acceptance' : x.version = booking'[b].version /\ x.answer = "ACCEPT"
               /\ Booked(booking[b].version)' = {b}
    <3>1. PICK v : v = booking[b].version
      OBVIOUS
    <3>2. /\ booking[b].client = ClientOf(v.proposal)
          /\ Accepted(v)
          /\ Booked(v) = {b}
      BY <2>1, <3>1 DEF SalesInv, BookingsMatchAcceptances, Accepted
    <3>3. ClientOf(v.proposal)' = ClientOf(v.proposal)
      BY <3>2, AcceptedKnown, KnownKept DEF SalesInv, ProposalsInv
    <3>4. Booked(v)' = Booked(v)
      BY DEF Booked
    <3>5. QED
      BY <3>1, <3>2, <3>3, <3>4 DEF Accepted, ClientOf, Booked
  <2>2. QED
    BY <2>1 DEF BookingsMatchAcceptances, ClientOf, Booked
<1>4. QED
  BY <1>1, <1>2, <1>3 DEF SalesInv

(* Around the proposals: a step on bookings leaves their part in order. *)
LEMMA ProposalsUntouched ==
  ASSUME ProposalsInv, UNCHANGED <<proposal, acceptance, assignee, page, form>>
  PROVE  /\ ProposalsInv'
         /\ \A v : Known(v)' = Known(v) /\ Accepted(v)' = Accepted(v)
         /\ \A p : ClientOf(p)' = ClientOf(p)
<1>1. ProposalsTypeOK' /\ OneResponse'
  BY DEF ProposalsInv, ProposalsTypeOK, OneResponse
<1>2. VersionsKept /\ OneOffer'
  BY SameRowsKept, SameOffers DEF ProposalsInv
<1>3. ProposalsInv'
  BY <1>1, <1>2, ReferencesKept
<1>4. QED
  BY <1>3 DEF Known, Accepted, ClientOf

(* createBooking's steps other than the insert. *)
LEMMA RequestSteps ==
  ASSUME SalesInv, NEW q \in Requests,
         UNCHANGED <<proposal, acceptance, assignee, page, form, booking>>,
         request' \in [Requests -> RequestRow \cup {None}],
         \A w \in Requests : request'[w] # None => Accepted(request'[w].version)
  PROVE  SalesInv'
<1>1. ProposalsInv'
  BY ProposalsUntouched DEF SalesInv
<1>2. TypeOK'
  BY <1>1 DEF SalesInv, ProposalsInv, TypeOK
<1>3. RequestsAccepted' /\ BookingsMatchAcceptances'
  BY DEF SalesInv, RequestsAccepted, BookingsMatchAcceptances, Accepted, ClientOf, Booked
<1>4. QED
  BY <1>1, <1>2, <1>3 DEF SalesInv

LEMMA AnsweredIs ==
  ASSUME TypeOK, NEW q \in Requests, request[q] # None,
         NEW b \in BookingIds, NEW created \in BOOLEAN, Answered(q, b, created)
  PROVE  /\ request' \in [Requests -> RequestRow \cup {None}]
         /\ request'[q].actor = request[q].actor /\ request'[q].version = request[q].version
         /\ request'[q].booking = b
         /\ \A w \in Requests \ {q} : request'[w] = request[w]
<1> DEFINE row == request[q]
           new == [actor |-> row.actor, version |-> row.version, phase |-> "answered",
                   booking |-> b, created |-> created]
<1>1. row \in RequestRow /\ request \in [Requests -> RequestRow \cup {None}]
  BY DEF TypeOK
<1>2. new \in RequestRow
  BY <1>1 DEF RequestRow, Phase
<1>3. request' = [request EXCEPT ![q] = new]
  <2>1. [row EXCEPT !.phase = "answered", !.booking = b, !.created = created] = new
    <3>1. PICK r \in RequestRow : r = row
      BY <1>1
    <3>2. r = [actor |-> r.actor, version |-> r.version, phase |-> r.phase, booking |-> r.booking,
               created |-> r.created]
      BY DEF RequestRow
    <3> DEFINE r1 == [r EXCEPT !.phase = "answered"]
               r2 == [r1 EXCEPT !.booking = b]
               r3 == [r2 EXCEPT !.created = created]
    <3>3. r1 = [actor |-> r.actor, version |-> r.version, phase |-> "answered",
                booking |-> r.booking, created |-> r.created]
      BY <3>2
    <3> HIDE DEF r1
    <3>4. r2 = [actor |-> r.actor, version |-> r.version, phase |-> "answered",
                booking |-> b, created |-> r.created]
      BY <3>3
    <3> HIDE DEF r2
    <3>5. r3 = [actor |-> r.actor, version |-> r.version, phase |-> "answered",
                booking |-> b, created |-> created]
      BY <3>4
    <3> USE DEF r1, r2
    <3>6. QED
      BY <3>1, <3>5
  <2>2. request' = [request EXCEPT ![q] = [row EXCEPT !.phase = "answered", !.booking = b, !.created = created]]
    BY <1>1 DEF Answered
  <2>3. QED
    BY <2>1, <2>2
<1>4. QED
  BY <1>1, <1>2, <1>3

LEMMA BeginBookingStep ==
  ASSUME SalesInv, NEW q \in Requests, NEW a \in Staff, NEW v \in Version, BeginBooking(q, a, v)
  PROVE  SalesInv'
<1> DEFINE new == [actor |-> a, version |-> v, phase |-> "insert", booking |-> None, created |-> FALSE]
<1>1. request' = [request EXCEPT ![q] = new] /\ Accepted(v)
  BY DEF BeginBooking
<1>2. new \in RequestRow
  BY DEF RequestRow, Phase
<1>3. request' \in [Requests -> RequestRow \cup {None}]
  BY <1>1, <1>2 DEF SalesInv, TypeOK
<1>4. \A w \in Requests : request'[w] # None => Accepted(request'[w].version)
  BY <1>1 DEF SalesInv, TypeOK, RequestsAccepted
<1>5. QED
  BY <1>3, <1>4, RequestSteps DEF BeginBooking, tables

LEMMA FindBookingStep ==
  ASSUME SalesInv, NEW q \in Requests, NEW a \in Staff, NEW v \in Version, NEW b \in BookingIds,
         FindBooking(q, a, v, b)
  PROVE  SalesInv'
<1> DEFINE new == [actor |-> a, version |-> v, phase |-> "answered", booking |-> b, created |-> FALSE]
<1>1. request' = [request EXCEPT ![q] = new] /\ booking[b] # None /\ booking[b].version = v
  BY DEF FindBooking, Booked
<1>2. new \in RequestRow
  BY DEF RequestRow, Phase
<1>3. request' \in [Requests -> RequestRow \cup {None}]
  BY <1>1, <1>2 DEF SalesInv, TypeOK
<1>4. Accepted(v)
  BY <1>1 DEF SalesInv, BookingsMatchAcceptances, Accepted
<1>5. \A w \in Requests : request'[w] # None => Accepted(request'[w].version)
  BY <1>1, <1>4 DEF SalesInv, TypeOK, RequestsAccepted
<1>6. QED
  BY <1>3, <1>5, RequestSteps DEF FindBooking, tables

LEMMA RetrySteps ==
  ASSUME SalesInv, NEW q \in Requests, RestartBooking(q) \/ LoseRace(q) \/ Reread(q)
  PROVE  SalesInv'
<1>1. CASE RestartBooking(q)
  <2>1. /\ request' = [request EXCEPT ![q] = None]
        /\ UNCHANGED <<proposal, acceptance, assignee, page, form, booking>>
    BY <1>1 DEF RestartBooking, tables
  <2>2. /\ request' \in [Requests -> RequestRow \cup {None}]
        /\ \A w \in Requests : request'[w] # None => Accepted(request'[w].version)
    BY <2>1 DEF SalesInv, TypeOK, RequestsAccepted
  <2>3. QED
    BY <2>1, <2>2, RequestSteps
<1>2. CASE LoseRace(q)
  <2> DEFINE new == [request[q] EXCEPT !.phase = "reread"]
  <2>1. /\ request[q] \in RequestRow /\ request' = [request EXCEPT ![q] = new]
        /\ UNCHANGED <<proposal, acceptance, assignee, page, form, booking>>
    BY <1>2 DEF LoseRace, tables, SalesInv, TypeOK
  <2>2. new \in RequestRow /\ new.version = request[q].version /\ Accepted(request[q].version)
    BY <1>2, <2>1 DEF RequestRow, Phase, LoseRace, SalesInv, RequestsAccepted
  <2>3. /\ request' \in [Requests -> RequestRow \cup {None}]
        /\ \A w \in Requests : request'[w] # None => Accepted(request'[w].version)
    BY <2>1, <2>2 DEF SalesInv, TypeOK, RequestsAccepted
  <2>4. QED
    BY <2>1, <2>3, RequestSteps
<1>3. CASE Reread(q)
  <2>1. UNCHANGED <<proposal, acceptance, assignee, page, form, booking>> /\ request[q] # None
    BY <1>3 DEF Reread, tables
  <2>2. CASE request' = [request EXCEPT ![q] = None]
    <3>1. /\ request' \in [Requests -> RequestRow \cup {None}]
          /\ \A w \in Requests : request'[w] # None => Accepted(request'[w].version)
      BY <2>2 DEF SalesInv, TypeOK, RequestsAccepted
    <3>2. QED
      BY <2>1, <3>1, RequestSteps
  <2>3. CASE \E b \in BookingIds : Answered(q, b, FALSE)
    <3>1. PICK b \in BookingIds : Answered(q, b, FALSE)
      BY <2>3
    <3>2. /\ request' \in [Requests -> RequestRow \cup {None}]
          /\ request'[q].version = request[q].version
          /\ \A w \in Requests \ {q} : request'[w] = request[w]
      BY <2>1, <3>1, AnsweredIs DEF SalesInv
    <3>3. \A w \in Requests : request'[w] # None => Accepted(request'[w].version)
      BY <2>1, <3>2 DEF SalesInv, RequestsAccepted
    <3>4. QED
      BY <2>1, <3>2, <3>3, RequestSteps
  <2>4. QED
    BY <1>3, <2>2, <2>3 DEF Reread, Booked
<1>4. QED
  BY <1>1, <1>2, <1>3

(* The insert: the version is accepted and, by the unique index, unbooked. *)
LEMMA InsertBookingStep ==
  ASSUME SalesInv, NEW q \in Requests, NEW b \in BookingIds, InsertBooking(q, b)
  PROVE  /\ SalesInv'
         /\ \E v \in Version : /\ Accepted(v) /\ Booked(v) = {} /\ NewBooking(v) # None
                               /\ booking' = [booking EXCEPT ![b] = NewBooking(v)]
<1>1. PICK v : v = request[q].version /\ Accepted(v)
  BY DEF InsertBooking, SalesInv, RequestsAccepted
<1>2. /\ v \in Version /\ Known(v) /\ v.proposal \in ProposalIds /\ ClientOf(v.proposal) \in Clients
  BY <1>1, AcceptedKnown, KnownExists, RowInUse DEF SalesInv, ProposalsInv, ClientOf
<1>3. /\ UNCHANGED <<proposal, acceptance, assignee, page, form>>
      /\ booking' = [booking EXCEPT ![b] = NewBooking(v)]
      /\ booking[b] = None /\ Booked(v) = {} /\ request[q] # None /\ Answered(q, b, TRUE)
  BY <1>1 DEF InsertBooking, IndexFree, tables
<1>4. "DRAFT" \in BookingStatus
  <2>1. Stages[1] = {"DRAFT"} /\ 1 \in DOMAIN Stages
    BY DEF Stages
  <2>2. QED
    BY <2>1 DEF BookingStatus
<1>5. NewBooking(v) \in BookingRow /\ NewBooking(v) # None
  BY <1>2, <1>4, NoneIsNoBooking DEF NewBooking, BookingRow
<1>6. /\ request' \in [Requests -> RequestRow \cup {None}]
      /\ request'[q].version = v
      /\ \A w \in Requests \ {q} : request'[w] = request[w]
  BY <1>1, <1>3, AnsweredIs DEF SalesInv
<1>7. /\ ProposalsInv'
      /\ \A w : Accepted(w)' = Accepted(w)
      /\ \A p : ClientOf(p)' = ClientOf(p)
  BY <1>3, ProposalsUntouched DEF SalesInv
<1>8. booking \in [BookingIds -> BookingRow \cup {None}]
  BY DEF SalesInv, TypeOK
<1>9. TypeOK'
  BY <1>3, <1>5, <1>6, <1>7, <1>8 DEF TypeOK, ProposalsInv
<1>10. RequestsAccepted'
  <2>1. \A w \in Requests : request'[w] # None => Accepted(request'[w].version)
    BY <1>1, <1>6 DEF SalesInv, RequestsAccepted
  <2>2. QED
    BY <1>3, <2>1 DEF RequestsAccepted, Accepted
<1>11. BookingsMatchAcceptances'
  <2>1. /\ booking'[b] = NewBooking(v)
        /\ NewBooking(v).version = v /\ NewBooking(v).client = ClientOf(v.proposal)
    BY <1>3, <1>8 DEF NewBooking
  <2>2. \A d \in BookingIds \ {b} : booking'[d] = booking[d] /\ (booking[d] # None => booking[d].version # v)
    BY <1>3, <1>8 DEF Booked
  <2>3. ASSUME NEW d \in BookingIds, booking'[d] # None
        PROVE  /\ booking'[d].client = ClientOf(booking'[d].version.proposal)
               /\ \E x \in acceptance : x.version = booking'[d].version /\ x.answer = "ACCEPT"
               /\ {e \in BookingIds : booking'[e] # None /\ booking'[e].version = booking'[d].version} = {d}
    <3>1. CASE d = b
      BY <1>1, <1>5, <2>1, <2>2, <3>1 DEF Accepted
    <3>2. CASE d # b
      <4>1. /\ booking[d] # None /\ booking'[d] = booking[d] /\ booking[d].version # v
            /\ Booked(booking[d].version) = {d}
        BY <2>2, <2>3, <3>2 DEF SalesInv, BookingsMatchAcceptances
      <4>2. {e \in BookingIds : booking'[e] # None /\ booking'[e].version = booking'[d].version} = {d}
        BY <2>1, <2>2, <4>1 DEF Booked
      <4>3. QED
        BY <4>1, <4>2 DEF SalesInv, BookingsMatchAcceptances
    <3>3. QED
      BY <3>1, <3>2
  <2>4. QED
    BY <1>3, <2>3 DEF BookingsMatchAcceptances, ClientOf, Booked
<1>12. SalesInv'
  BY <1>7, <1>9, <1>10, <1>11 DEF SalesInv
<1>13. QED
  BY <1>1, <1>2, <1>3, <1>5, <1>12

(* updateBookingStatus touches the status only. *)
LEMMA UpdateStatusStep ==
  ASSUME SalesInv, NEW a \in Staff, NEW b \in BookingIds, NEW new \in Targets,
         UpdateBookingStatus(a, b, new)
  PROVE  /\ SalesInv'
         /\ \A d \in BookingIds : /\ booking'[d] # None <=> booking[d] # None
                                  /\ booking'[d].version = booking[d].version
<1> DEFINE row == StatusMoved(booking[b], new)
<1>1. /\ UNCHANGED <<proposal, acceptance, assignee, page, form, request>>
      /\ booking' = [booking EXCEPT ![b] = row]
  BY DEF UpdateBookingStatus, tables
<1>2. booking[b] \in BookingRow /\ booking \in [BookingIds -> BookingRow \cup {None}]
  BY DEF UpdateBookingStatus, SalesInv, TypeOK
<1>3. /\ row \in BookingRow /\ row # None
      /\ row.client = booking[b].client /\ row.version = booking[b].version
  BY <1>2, TargetsAssumption, NoneIsNoBooking DEF StatusMoved, BookingRow
<1> HIDE DEF row
<1>4. ProposalsInv'
  BY <1>1, ProposalsUntouched DEF SalesInv
<1>5. TypeOK'
  BY <1>1, <1>2, <1>3, <1>4 DEF SalesInv, TypeOK, ProposalsInv
<1>6. \A d \in BookingIds :
        /\ booking'[d] # None <=> booking[d] # None
        /\ booking'[d].version = booking[d].version /\ booking'[d].client = booking[d].client
  BY <1>1, <1>2, <1>3 DEF UpdateBookingStatus
<1>7. RequestsAccepted'
  BY <1>1 DEF SalesInv, RequestsAccepted, Accepted
<1>8. BookingsMatchAcceptances'
  <2>1. ASSUME NEW d \in BookingIds, booking'[d] # None
        PROVE  /\ booking'[d].client = ClientOf(booking'[d].version.proposal)
               /\ \E x \in acceptance : x.version = booking'[d].version /\ x.answer = "ACCEPT"
               /\ {e \in BookingIds : booking'[e] # None /\ booking'[e].version = booking'[d].version} = {d}
    <3>1. PICK v : v = booking[d].version
      OBVIOUS
    <3>2. {e \in BookingIds : booking'[e] # None /\ booking'[e].version = v} = Booked(v)
      BY <1>6 DEF Booked
    <3>3. /\ booking[d].client = ClientOf(v.proposal)
          /\ \E x \in acceptance : x.version = v /\ x.answer = "ACCEPT"
          /\ Booked(v) = {d}
      BY <1>6, <2>1, <3>1 DEF SalesInv, BookingsMatchAcceptances
    <3>4. QED
      BY <1>6, <3>1, <3>2, <3>3
  <2>2. QED
    BY <1>1, <2>1 DEF BookingsMatchAcceptances, ClientOf, Booked
<1>9. QED
  BY <1>4, <1>5, <1>6, <1>7, <1>8 DEF SalesInv
-----------------------------------------------------------------------------
LEMMA SalesInitially == SalesInit => SalesInv
<1> SUFFICES ASSUME SalesInit PROVE SalesInv
  OBVIOUS
<1>1. TypeOK /\ ProposalsTypeOK
  BY DEF SalesInit, ProposalsInit, TypeOK, ProposalsTypeOK
<1>2. OneOffer
  <2>1. \A p \in ProposalIds : ~Exists(p)
    BY DEF SalesInit, ProposalsInit, Exists
  <2>2. QED
    BY <2>1, NoRow DEF OneOffer
<1>3. ResponsesShown /\ OneResponse /\ PagesShowVersions /\ FormsShowOwn
  BY DEF SalesInit, ProposalsInit, ResponsesShown, OneResponse, PagesShowVersions, FormsShowOwn
<1>4. RequestsAccepted /\ BookingsMatchAcceptances
  BY DEF SalesInit, RequestsAccepted, BookingsMatchAcceptances
<1>5. QED
  BY <1>1, <1>2, <1>3, <1>4 DEF SalesInv, ProposalsInv

LEMMA SalesStep ==
  ASSUME SalesInv, [SalesNext]_salesVars
  PROVE  SalesInv'
<1>1. CASE ProposalsStep /\ UNCHANGED <<booking, request>>
  <2>1. ProposalsInv' /\ VersionsKept /\ acceptance \subseteq acceptance'
    BY <1>1, ProposalsNext DEF SalesInv
  <2>2. QED
    BY <1>1, <2>1, ProposalsAroundBookings
<1>2. CASE BookingsStep
  BY <1>2, RetrySteps, BeginBookingStep, FindBookingStep, InsertBookingStep, UpdateStatusStep
     DEF BookingsStep
<1>3. CASE UNCHANGED salesVars
  <2>1. ProposalsInv'
    BY <1>3, ProposalsUntouched DEF SalesInv, salesVars
  <2>2. VersionsKept
    BY <1>3, SameRowsKept DEF salesVars
  <2>3. QED
    BY <1>3, <2>1, <2>2, ProposalsAroundBookings DEF salesVars
<1>4. QED
  BY <1>1, <1>2, <1>3 DEF SalesNext

(* Rows keep their shape, at most one version of a proposal stands, pages, *)
(* forms and responses are of versions that exist, and bookings and the    *)
(* requests for them are of accepted versions.                             *)
THEOREM SalesInvariant == SalesSpec => []SalesInv
BY SalesInitially, SalesStep, PTL DEF SalesSpec

(* Every booking belongs to the client of its version, the version was     *)
(* accepted, and no version is booked twice, however calls race.           *)
THEOREM BookingsMatch == SalesSpec => []BookingsMatchAcceptances
<1>1. SalesInv => BookingsMatchAcceptances
  BY DEF SalesInv
<1>2. QED
  BY <1>1, SalesInvariant, PTL
-----------------------------------------------------------------------------
(* What any step does to the offers, the responses and the booked versions: *)
(* nothing, or one of three things.                                        *)
BookedSame ==
  \A b \in BookingIds : /\ booking'[b] # None <=> booking[b] # None
                        /\ booking'[b].version = booking[b].version
Publication == UNCHANGED <<acceptance, booking>> /\ \E q \in Pages : page[q] # None /\ PublishedFrom(q)
Response ==
  /\ UNCHANGED <<proposal, booking>>
  /\ \E v \in Version, r \in Answers, b \in Staff \cup Clients :
       /\ Known(v) /\ Answerable(v)
       /\ b \in Clients => form[b] = v /\ ClientOf(v.proposal) = b
       /\ acceptance' = acceptance \cup {[version |-> v, answer |-> r, by |-> b]}
Insertion ==
  /\ UNCHANGED <<proposal, acceptance>>
  /\ \E b \in BookingIds, v \in Version :
       /\ Accepted(v) /\ Booked(v) = {} /\ booking[b] = None /\ NewBooking(v) # None
       /\ booking' = [booking EXCEPT ![b] = NewBooking(v)]
Nothing == OffersSame /\ UNCHANGED acceptance /\ BookedSame

LEMMA ProposalStepKinds ==
  ASSUME ProposalsInv, ProposalsStep, UNCHANGED <<booking, request>>
  PROVE  Nothing \/ Publication \/ Response
<1>1. ASSUME NEW a \in Consultants, NEW p \in ProposalIds,
             CreateProposalRevision(a, p) \/ \E c \in Clients : CreateProposal(a, c, p)
      PROVE  Nothing
  <2>1. UNCHANGED acceptance
    BY <1>1 DEF CreateProposalRevision, CreateProposal
  <2>2. QED
    BY <1>1, <2>1, DraftSteps DEF Nothing, BookedSame
<1>2. ASSUME NEW q \in Pages, Publish(q)
      PROVE  Nothing \/ Publication
  <2>1. UNCHANGED acceptance /\ page[q] # None
    BY <1>2 DEF Publish
  <2>2. UNCHANGED proposal \/ PublishedFrom(q)
    BY <1>2, PublishButtonStep
  <2>3. QED
    BY <2>1, <2>2, SameRowsKept DEF Nothing, BookedSame, Publication
<1>3. ASSUME NEW a \in Staff, NEW v \in Version, NEW r \in Answers, RecordProposalResponse(a, v, r)
      PROVE  Response
  BY <1>3, RolesAssumption DEF RecordProposalResponse, ExternalAcceptance, Response, Staff
<1>4. ASSUME NEW c \in Clients, NEW d \in Clients, NEW r \in Answers,
             SubmitClientProposalResponse(c, d, r)
      PROVE  Response
  <2>1. PICK v \in Version : v = form[c] /\ Known(v) /\ ClientOf(v.proposal) = c
    BY <1>4, FormVersion DEF SubmitClientProposalResponse
  <2>2. d = c
    BY <1>4, <2>1 DEF SubmitClientProposalResponse, Owns, OwnerOf
  <2>3. QED
    BY <1>4, <2>1, <2>2 DEF SubmitClientProposalResponse, PortalAcceptance, Captured, Response
<1>5. CASE UNCHANGED <<proposal, acceptance>>
  BY <1>5, SameRowsKept DEF Nothing, BookedSame
<1>6. ASSUME \/ \E q \in Pages, a \in Consultants, v \in Version : OpenPage(q, a, v)
             \/ \E c \in Clients :
                  \/ CloseForm(c) \/ EndAssignment(c)
                  \/ \E v \in Version : OpenForm(c, v)
                  \/ \E s \in Consultants : SetAssignment(c, s)
      PROVE  UNCHANGED <<proposal, acceptance>>
  BY <1>6 DEF OpenPage, CloseForm, EndAssignment, OpenForm, SetAssignment, tables
<1>7. QED
  BY <1>1, <1>2, <1>3, <1>4, <1>5, <1>6 DEF ProposalsStep

LEMMA SalesStepKinds ==
  ASSUME SalesInv, [SalesNext]_salesVars
  PROVE  Nothing \/ Publication \/ Response \/ Insertion
<1>1. CASE ProposalsStep /\ UNCHANGED <<booking, request>>
  BY <1>1, ProposalStepKinds DEF SalesInv
<1>2. ASSUME NEW q \in Requests, NEW b \in BookingIds, InsertBooking(q, b)
      PROVE  Insertion
  BY <1>2, InsertBookingStep DEF InsertBooking, tables, Insertion
<1>3. ASSUME NEW a \in Staff, NEW b \in BookingIds, NEW new \in Targets, UpdateBookingStatus(a, b, new)
      PROVE  Nothing
  <2>1. BookedSame
    BY <1>3, UpdateStatusStep DEF BookedSame
  <2>2. UNCHANGED <<proposal, acceptance>>
    BY <1>3 DEF UpdateBookingStatus, tables
  <2>3. QED
    BY <2>1, <2>2, SameRowsKept DEF Nothing
<1>4. CASE UNCHANGED <<proposal, acceptance, booking>>
  BY <1>4, SameRowsKept DEF Nothing, BookedSame
<1>5. ASSUME NEW q \in Requests,
             \/ RestartBooking(q) \/ LoseRace(q) \/ Reread(q)
             \/ \E a \in Staff, v \in Version :
                  BeginBooking(q, a, v) \/ \E b \in BookingIds : FindBooking(q, a, v, b)
      PROVE  UNCHANGED <<proposal, acceptance, booking>>
  BY <1>5 DEF RestartBooking, LoseRace, Reread, BeginBooking, FindBooking, tables
<1>6. QED
  BY <1>1, <1>2, <1>3, <1>4, <1>5 DEF SalesNext, BookingsStep, salesVars

(* A publication is made from a page of the consultant in charge that      *)
(* shows the version it replaces, and nothing else replaces one.           *)
THEOREM Publications == SalesSpec => PublicationsAreInformed
<1> DEFINE Informed(p) ==
      \E q \in Pages :
        /\ page[q] # None /\ page[q].target.proposal = p
        /\ page[q].seen = Current(p)
        /\ Assigned(page[q].actor, ClientOf(p))
<1>1. ASSUME SalesInv, [SalesNext]_salesVars, NEW p \in ProposalIds, Current(p)' # Current(p)
      PROVE  Informed(p)
  <2>1. ~Nothing /\ proposal' # proposal
    BY <1>1, CurrentSame DEF Nothing, OffersSame, CurrentNumbers
  <2>2. Publication
    BY <1>1, <2>1, SalesStepKinds DEF Response, Insertion
  <2>3. PICK q \in Pages : page[q] # None /\ PublishedFrom(q)
    BY <2>2 DEF Publication
  <2>4. page[q].target.proposal = p
    BY <1>1, <2>3, PublishedStands DEF PublishedFrom, SalesInv
  <2>5. QED
    BY <2>3, <2>4 DEF PublishedFrom
<1>2. SalesInv /\ [SalesNext]_salesVars =>
        [\A p \in ProposalIds : Exists(p) /\ Current(p)' # Current(p) => Informed(p)]_salesVars
  BY <1>1
<1>3. QED
  BY <1>2, SalesInvariant, PTL DEF SalesSpec, PublicationsAreInformed

(* A response is to the version that stands, and one given in the portal   *)
(* is by the version's own client, who has that version on the form.       *)
THEOREM Responses == SalesSpec => ResponsesAreInformed
<1>1. ASSUME SalesInv, [SalesNext]_salesVars, NEW x \in acceptance' \ acceptance
      PROVE  /\ State(x.version) = "current"
             /\ x.by \in Clients => form[x.by] = x.version /\ ClientOf(x.version.proposal) = x.by
  <2>1. Response
    BY <1>1, SalesStepKinds DEF Nothing, Publication, Insertion
  <2>2. PICK v \in Version, r \in Answers, b \in Staff \cup Clients :
          /\ Known(v) /\ Answerable(v)
          /\ b \in Clients => form[b] = v /\ ClientOf(v.proposal) = b
          /\ acceptance' = acceptance \cup {[version |-> v, answer |-> r, by |-> b]}
    BY <2>1 DEF Response
  <2>3. x = [version |-> v, answer |-> r, by |-> b]
    BY <1>1, <2>2
  <2>4. State(v) = "current"
    BY <1>1, <2>2, ResponseStep DEF SalesInv
  <2>5. QED
    BY <2>2, <2>3, <2>4
<1>2. ASSUME SalesInv, [SalesNext]_salesVars
      PROVE  [\A x \in acceptance' \ acceptance :
                /\ State(x.version) = "current"
                /\ x.by \in Clients => form[x.by] = x.version /\ ClientOf(x.version.proposal) = x.by]_salesVars
  BY <1>1, <1>2
<1>3. QED
  BY <1>2, SalesInvariant, PTL DEF SalesSpec, ResponsesAreInformed

(* Whoever is answered with a booking may see its client at that moment,   *)
(* on the first attempt as after a lost race.                              *)
THEOREM AnswersKeepScope == SalesSpec => AnswersNeedAccess
<1> DEFINE InScope(q) == MayAccess(request'[q].actor, booking'[request'[q].booking].client)
<1>1. ASSUME SalesInv, NEW w \in Requests, BookingsStep,
             request'[w] # None, request'[w].phase = "answered", request[w] # request'[w]
      PROVE  InScope(w)
  <2>1. request \in [Requests -> RequestRow \cup {None}] /\ booking \in [BookingIds -> BookingRow \cup {None}]
    BY <1>1 DEF SalesInv, TypeOK
  <2>2. ASSUME NEW q \in Requests, RestartBooking(q) \/ LoseRace(q)
        PROVE  FALSE
    <3>1. w = q
      BY <1>1, <2>1, <2>2 DEF RestartBooking, LoseRace
    <3>2. CASE RestartBooking(q)
      BY <1>1, <2>1, <3>1, <3>2 DEF RestartBooking
    <3>3. CASE LoseRace(q)
      <4>1. request[q] \in RequestRow /\ request' = [request EXCEPT ![q] = [request[q] EXCEPT !.phase = "reread"]]
        BY <2>1, <3>3 DEF LoseRace
      <4>2. request'[q].phase = "reread"
        BY <2>1, <4>1 DEF RequestRow
      <4>3. QED
        BY <1>1, <3>1, <4>2
    <3>4. QED
      BY <2>2, <3>2, <3>3
  <2>3. ASSUME NEW q \in Requests, NEW b \in BookingIds, NEW created \in BOOLEAN,
               request[q] # None, Answered(q, b, created),
               MayAccess(request[q].actor, booking'[b].client)
        PROVE  InScope(w)
    <3>1. /\ request'[q].actor = request[q].actor /\ request'[q].booking = b
          /\ \A z \in Requests \ {q} : request'[z] = request[z]
      BY <1>1, <2>3, AnsweredIs DEF SalesInv
    <3>2. w = q
      BY <1>1, <3>1
    <3>3. QED
      BY <2>3, <3>1, <3>2
  <2>4. ASSUME NEW q \in Requests, Reread(q)
        PROVE  InScope(w)
    <3>1. UNCHANGED booking /\ request[q] # None
      BY <2>4 DEF Reread
    <3>2. PICK b \in BookingIds :
            IF MayAccess(request[q].actor, booking[b].client)
            THEN Answered(q, b, FALSE)
            ELSE request' = [request EXCEPT ![q] = None]
      BY <2>4 DEF Reread, RereadScope, Booked
    <3>3. CASE MayAccess(request[q].actor, booking[b].client)
      BY <2>3, <3>1, <3>2, <3>3
    <3>4. CASE ~MayAccess(request[q].actor, booking[b].client)
      BY <1>1, <2>1, <3>2, <3>4
    <3>5. QED
      BY <3>3, <3>4
  <2>5. ASSUME NEW q \in Requests, NEW a \in Staff, NEW v \in Version, BeginBooking(q, a, v)
        PROVE  FALSE
    BY <1>1, <2>1, <2>5 DEF BeginBooking
  <2>6. ASSUME NEW q \in Requests, NEW a \in Staff, NEW v \in Version, NEW b \in BookingIds,
               FindBooking(q, a, v, b)
        PROVE  InScope(w)
    <3>1. /\ w = q /\ UNCHANGED booking /\ MayAccess(a, booking[b].client)
          /\ request'[q] = [actor |-> a, version |-> v, phase |-> "answered", booking |-> b, created |-> FALSE]
      BY <1>1, <2>1, <2>6 DEF FindBooking
    <3>2. request'[q].actor = a /\ request'[q].booking = b
      BY <3>1
    <3>3. QED
      BY <3>1, <3>2
  <2>7. ASSUME NEW q \in Requests, NEW b \in BookingIds, InsertBooking(q, b)
        PROVE  InScope(w)
    <3>1. /\ request[q] # None /\ Answered(q, b, TRUE)
          /\ MayAccess(request[q].actor, ClientOf(request[q].version.proposal))
          /\ booking' = [booking EXCEPT ![b] = NewBooking(request[q].version)]
      BY <2>7 DEF InsertBooking
    <3>2. booking'[b].client = ClientOf(request[q].version.proposal)
      BY <2>1, <3>1 DEF NewBooking
    <3>3. QED
      BY <2>3, <3>1, <3>2
  <2>8. ASSUME NEW a \in Staff, NEW b \in BookingIds, NEW new \in Targets, UpdateBookingStatus(a, b, new)
        PROVE  FALSE
    BY <1>1, <2>8 DEF UpdateBookingStatus
  <2>9. QED
    BY <1>1, <2>2, <2>4, <2>5, <2>6, <2>7, <2>8 DEF BookingsStep
<1>2. SalesInv /\ [SalesNext]_salesVars =>
        [\A q \in Requests :
           /\ request'[q] # None /\ request'[q].phase = "answered"
           /\ request[q] # request'[q]
           => InScope(q)]_salesVars
  BY <1>1 DEF SalesNext, salesVars
<1>3. QED
  BY <1>2, SalesInvariant, PTL DEF SalesSpec, AnswersNeedAccess
-----------------------------------------------------------------------------
(* The refinement: Offers' view of the tables.  A version is retired if it *)
(* is superseded in its row, and pairs name versions.                      *)
RetiredView ==
  /\ RetiredVersions \subseteq ProposalIds \X Numbers
  /\ \A p \in ProposalIds, n \in Numbers : <<p, n>> \in RetiredVersions <=> n \in SupersededNumbers(p)

LEMMA RetiredIs == RetiredView
<1>1. RetiredVersions \subseteq ProposalIds \X Numbers
  BY DEF RetiredVersions, Version
<1>2. ASSUME NEW p \in ProposalIds, NEW n \in Numbers
      PROVE  <<p, n>> \in RetiredVersions <=> n \in SupersededNumbers(p)
  <2> DEFINE v == [proposal |-> p, number |-> n]
  <2>1. v \in Version /\ v.proposal = p /\ v.number = n
    BY DEF Version
  <2>2. <<p, n>> \in RetiredVersions <=>
          \E w \in Version : Known(w) /\ State(w) = "superseded" /\ w.proposal = p /\ w.number = n
    BY DEF RetiredVersions
  <2>3. QED
    BY <2>1, <2>2 DEF Known, State, SupersededNumbers
<1>3. QED
  BY <1>1, <1>2 DEF RetiredView

LEMMA SupersededAreNumbers ==
  ASSUME ProposalsTypeOK, NEW p \in ProposalIds
  PROVE  SupersededNumbers(p) \subseteq Numbers
<1>1. CASE Exists(p)
  BY <1>1, RowInUse, VersionsAssumption DEF SupersededNumbers, Numbers
<1>2. QED
  BY <1>1, NoRow

(* Steps on which the same versions stand and are superseded. *)
LEMMA OffersSameView ==
  ASSUME OffersSame
  PROVE  StandingVersion' = StandingVersion /\ RetiredVersions' = RetiredVersions
<1>1. \A p \in ProposalIds : Current(p)' = Current(p)
  BY CurrentSame DEF OffersSame
<1>2. StandingVersion' = StandingVersion
  BY <1>1 DEF StandingVersion
<1>3. RetiredView /\ RetiredView'
  BY RetiredIs, PTL
<1>4. \A p \in ProposalIds, n \in Numbers :
        <<p, n>> \in RetiredVersions' <=> <<p, n>> \in RetiredVersions
  BY <1>3 DEF RetiredView, OffersSame
<1>5. RetiredVersions' = RetiredVersions
  BY <1>3, <1>4 DEF RetiredView
<1>6. QED
  BY <1>2, <1>5

LEMMA BookedSameView ==
  ASSUME BookedSame
  PROVE  BookedVersions' = BookedVersions
<1>1. {d \in BookingIds : booking'[d] # None} = {d \in BookingIds : booking[d] # None}
  BY DEF BookedSame
<1>2. QED
  BY <1>1 DEF BookedVersions, BookedSame

(* A publication is an offer of the target. *)
LEMMA PublicationOffers ==
  ASSUME SalesInv, Publication
  PROVE  Promise!Next
<1>1. PICK q \in Pages : PublishedFrom(q)
  BY DEF Publication
<1>2. PICK v \in Version : v = page[q].target /\ Known(v) /\ Replaces(v)
  BY <1>1 DEF PublishedFrom
<1>3. PICK p \in ProposalIds, n \in Numbers :
        v.proposal = p /\ v.number = n /\ n \in DOMAIN proposal[p].versions
  BY <1>2, KnownExists DEF SalesInv, ProposalsInv, Known
<1>4. /\ Current(p)' = n
      /\ \A o \in ProposalIds \ {p} : Current(o)' = Current(o)
  BY <1>2, <1>3, PublishedStands DEF SalesInv
<1>5. StandingVersion' = [StandingVersion EXCEPT ![p] = n]
  BY <1>3, <1>4 DEF StandingVersion
<1>6. StandingVersion[p] = Current(p) /\ Current(p) # n /\ n \notin SupersededNumbers(p)
  BY <1>2, <1>3 DEF StandingVersion, Replaces, SupersededNumbers, State
<1>7. /\ SupersededNumbers(p)' = SupersededNumbers(p) \cup CurrentNumbers(p)
      /\ \A o \in ProposalIds \ {p} : SupersededNumbers(o)' = SupersededNumbers(o)
  <2>1. \A m \in DOMAIN proposal[p].versions :
          proposal[p].versions[m] = "current" <=> m = Current(p)
    <3>1. CurrentNumbers(p) \subseteq Numbers /\ \A m \in Numbers : m \in CurrentNumbers(p) <=> Current(p) = m
      BY <1>3, CurrentIs DEF SalesInv, ProposalsInv
    <3>2. DOMAIN proposal[p].versions \subseteq Numbers
      BY <1>2, <1>3, KnownExists, RowInUse, VersionsAssumption DEF SalesInv, ProposalsInv, Numbers
    <3>3. QED
      BY <3>1, <3>2 DEF CurrentNumbers
  <2>2. SupersededNumbers(p)' = SupersededNumbers(p) \cup CurrentNumbers(p)
    BY <1>2, <1>3, <2>1 DEF Replaces, SupersededNumbers, CurrentNumbers, State
  <2>3. \A o \in ProposalIds \ {p} : proposal'[o] = proposal[o]
    BY <1>2, <1>3 DEF Replaces
  <2>4. \A o \in ProposalIds \ {p} : SupersededNumbers(o)' = SupersededNumbers(o)
    BY <2>3 DEF SupersededNumbers
  <2>5. QED
    BY <2>2, <2>4
<1>8. CurrentNumbers(p) = IF Current(p) = None THEN {} ELSE {Current(p)}
  BY <1>3, CurrentIs DEF SalesInv, ProposalsInv
<1>9. RetiredVersions' = RetiredVersions \cup {<<p, m>> : m \in CurrentNumbers(p)}
  <2>1. RetiredView /\ RetiredView'
    BY RetiredIs, PTL
  <2>2. CurrentNumbers(p) \subseteq Numbers
    BY <1>3, CurrentIs DEF SalesInv, ProposalsInv
  <2>3. \A o \in ProposalIds, m \in Numbers :
          <<o, m>> \in RetiredVersions' <=> <<o, m>> \in RetiredVersions \/ (o = p /\ m \in CurrentNumbers(p))
    BY <1>7, <2>1 DEF RetiredView
  <2>4. QED
    BY <1>3, <2>1, <2>2, <2>3 DEF RetiredView
<1>10. <<p, n>> \notin RetiredVersions
  BY <1>3, <1>6, RetiredIs DEF RetiredView
<1>11. AnsweredVersions' = AnsweredVersions /\ BookedVersions' = BookedVersions
  BY DEF Publication, AnsweredVersions, BookedVersions
<1>12. RetiredVersions' =
         IF StandingVersion[p] = None THEN RetiredVersions ELSE RetiredVersions \cup {<<p, StandingVersion[p]>>}
  BY <1>6, <1>8, <1>9
<1>13. Promise!Offer(p, n)
  BY <1>5, <1>6, <1>10, <1>11, <1>12 DEF Promise!Offer
<1>14. QED
  BY <1>3, <1>13 DEF Promise!Next

(* A response is Offers' reply: its version stands and has none yet. *)
LEMMA ResponseReplies ==
  ASSUME SalesInv, Response
  PROVE  Promise!Next
<1>1. UNCHANGED <<proposal, booking>>
  BY DEF Response
<1>2. PICK v \in Version, r \in Answers, b \in Staff \cup Clients :
        /\ Known(v) /\ Answerable(v)
        /\ acceptance' = acceptance \cup {[version |-> v, answer |-> r, by |-> b]}
  BY DEF Response
<1>3. PICK p \in ProposalIds, n \in Numbers : v.proposal = p /\ v.number = n
  BY DEF Version
<1>4. StandingVersion[p] = n /\ n # None
  BY <1>2, <1>3, VersionsAssumption DEF Answerable, IsCurrent, StandingVersion, Numbers
<1>5. \A s \in Answers : <<p, n, s>> \notin AnsweredVersions
  <2>1. \A x \in acceptance : x.version \in Version /\ x.version # v
    BY <1>2 DEF SalesInv, ProposalsInv, ProposalsTypeOK, AcceptanceRow, Answerable, Unanswered
  <2>2. \A w \in Version : w.proposal = p /\ w.number = n => w = v
    BY <1>3 DEF Version
  <2>3. QED
    BY <2>1, <2>2 DEF AnsweredVersions
<1>6. AnsweredVersions' = AnsweredVersions \cup {<<p, n, r>>}
  <2> DEFINE triple(x) == <<x.version.proposal, x.version.number, x.answer>>
             row == [version |-> v, answer |-> r, by |-> b]
  <2>1. triple(row) = <<p, n, r>>
    BY <1>3
  <2>2. {triple(x) : x \in acceptance \cup {row}} = {triple(x) : x \in acceptance} \cup {triple(row)}
    OBVIOUS
  <2>3. QED
    BY <1>2, <2>1, <2>2 DEF AnsweredVersions
<1>7. StandingVersion' = StandingVersion /\ RetiredVersions' = RetiredVersions
  BY <1>1, SameRowsKept, OffersSameView
<1>8. BookedVersions' = BookedVersions
  BY <1>1 DEF BookedVersions
<1>9. Promise!Reply(p, r)
  BY <1>4, <1>5, <1>6, <1>7, <1>8 DEF Promise!Reply
<1>10. QED
  BY <1>9 DEF Promise!Next

(* An inserted booking is of an accepted version that had none. *)
LEMMA InsertionBooks ==
  ASSUME SalesInv, Insertion
  PROVE  Promise!Next
<1>1. UNCHANGED <<proposal, acceptance>>
  BY DEF Insertion
<1>2. PICK b \in BookingIds, v \in Version :
        /\ Accepted(v) /\ Booked(v) = {} /\ booking[b] = None /\ NewBooking(v) # None
        /\ booking' = [booking EXCEPT ![b] = NewBooking(v)]
  BY DEF Insertion
<1>3. PICK p \in ProposalIds, n \in Numbers : v.proposal = p /\ v.number = n
  BY DEF Version
<1>4. <<p, n, "ACCEPT">> \in AnsweredVersions
  BY <1>2, <1>3 DEF Accepted, AnsweredVersions
<1>5. <<p, n>> \notin BookedVersions
  <2>1. \A d \in BookingIds : booking[d] # None => booking[d].version \in Version /\ booking[d].version # v
    BY <1>2 DEF SalesInv, TypeOK, BookingRow, Booked
  <2>2. \A w \in Version : w.proposal = p /\ w.number = n => w = v
    BY <1>3 DEF Version
  <2>3. QED
    BY <2>1, <2>2 DEF BookedVersions
<1>6. BookedVersions' = BookedVersions \cup {<<p, n>>}
  <2>1. booking \in [BookingIds -> BookingRow \cup {None}]
    BY DEF SalesInv, TypeOK
  <2>2. booking'[b] = NewBooking(v) /\ NewBooking(v).version = v
    BY <1>2, <2>1 DEF NewBooking
  <2>3. \A d \in BookingIds \ {b} : booking'[d] = booking[d]
    BY <1>2, <2>1
  <2> DEFINE pair(x) == <<x.version.proposal, x.version.number>>
             old == {d \in BookingIds : booking[d] # None}
  <2>4. b \notin old /\ {d \in BookingIds : booking'[d] # None} = old \cup {b}
    BY <1>2, <2>2, <2>3
  <2>5. BookedVersions' = {pair(booking'[d]) : d \in old \cup {b}}
    BY <2>4 DEF BookedVersions
  <2>6. {pair(booking'[d]) : d \in old \cup {b}} = {pair(booking[d]) : d \in old} \cup {pair(booking'[b])}
    BY <2>3, <2>4
  <2>7. pair(booking'[b]) = <<p, n>>
    BY <1>3, <2>2
  <2>8. QED
    BY <2>5, <2>6, <2>7 DEF BookedVersions
<1>7. StandingVersion' = StandingVersion /\ RetiredVersions' = RetiredVersions
  BY <1>1, SameRowsKept, OffersSameView
<1>8. AnsweredVersions' = AnsweredVersions
  BY <1>1 DEF AnsweredVersions
<1>9. Promise!Book(p, n)
  BY <1>4, <1>5, <1>6, <1>7, <1>8 DEF Promise!Book
<1>10. QED
  BY <1>9 DEF Promise!Next

(* Every step of the sales process is a step of Offers or none. *)
LEMMA OffersStep ==
  ASSUME SalesInv, [SalesNext]_salesVars
  PROVE  [Promise!Next]_(Promise!vars)
<1>1. CASE Nothing
  <2>1. AnsweredVersions' = AnsweredVersions
    BY <1>1 DEF Nothing, AnsweredVersions
  <2>2. QED
    BY <1>1, <2>1, OffersSameView, BookedSameView DEF Nothing, Promise!vars
<1>2. QED
  BY <1>1, SalesStepKinds, PublicationOffers, ResponseReplies, InsertionBooks

LEMMA OffersInit == SalesInit => Promise!Init
<1> SUFFICES ASSUME SalesInit PROVE Promise!Init
  OBVIOUS
<1>1. \A p \in ProposalIds : CurrentNumbers(p) = {} /\ SupersededNumbers(p) = {}
  BY NoRow DEF SalesInit, ProposalsInit, Exists
<1>2. StandingVersion = [p \in ProposalIds |-> None]
  BY <1>1 DEF StandingVersion, Current
<1>3. RetiredVersions = {}
  BY <1>1, RetiredIs DEF RetiredView
<1>4. AnsweredVersions = {} /\ BookedVersions = {}
  BY DEF SalesInit, ProposalsInit, AnsweredVersions, BookedVersions
<1>5. QED
  BY <1>2, <1>3, <1>4 DEF Promise!Init

(* Proposals and Bookings together implement Offers: of each proposal one  *)
(* version stands at most, a withdrawn one never stands again, only the    *)
(* standing one is answered, once, and what is booked was accepted, once.  *)
THEOREM SalesImplementOffers == SalesSpec => SalesKeepOffers
BY OffersInit, OffersStep, SalesInvariant, PTL DEF SalesSpec, SalesKeepOffers, Promise!Spec

=============================================================================
