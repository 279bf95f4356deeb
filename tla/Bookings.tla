------------------------------- MODULE Bookings -------------------------------
(***************************************************************************)
(* Bookings made from accepted proposal versions (features/bookings), over *)
(* the proposals they are made from.  createBooking is split where two     *)
(* requests for one version can meet: its reads, its insert, and the read  *)
(* outside any transaction that follows a lost unique-index race.          *)
(***************************************************************************)
EXTENDS Proposals, BookingTransitions

CONSTANTS
  BookingIds,  \* Booking ids
  Requests,    \* createBooking calls
  Targets      \* the statuses staff ask updateBookingStatus for

ASSUME TargetsAssumption == Targets \subseteq BookingStatus

VARIABLES
  booking,  \* Booking rows
  request   \* createBooking calls and the answers they got

salesVars == <<proposal, acceptance, assignee, page, form, booking, request>>
-----------------------------------------------------------------------------
BookingRow == [client : Clients, version : Version, status : BookingStatus]
ASSUME NoneIsNoBooking == None \notin BookingRow
Phase == {"insert", "reread", "answered"}
RequestRow ==
  [actor : Staff, version : Version, phase : Phase, booking : BookingIds \cup {None},
   created : BOOLEAN]

TypeOK ==
  /\ ProposalsTypeOK
  /\ booking \in [BookingIds -> BookingRow \cup {None}]
  /\ request \in [Requests -> RequestRow \cup {None}]

SalesInit ==
  /\ ProposalsInit
  /\ booking = [b \in BookingIds |-> None]
  /\ request = [q \in Requests |-> None]
-----------------------------------------------------------------------------
Booked(v) == {b \in BookingIds : booking[b] # None /\ booking[b].version = v}

(* hasAcceptedAcceptance *)
Responded(v) == \E x \in acceptance : x.version = v
Accepted(v) == \E x \in acceptance : x.version = v /\ x.answer = "ACCEPT"

NewBooking(v) == [client |-> ClientOf(v.proposal), version |-> v, status |-> "DRAFT"]
Answered(q, b, created) ==
  request' = [request EXCEPT ![q].phase = "answered", ![q].booking = b, ![q].created = created]

(* attemptCreateBooking up to its insert.  A booking the actor may see is  *)
(* the answer; a version the actor may not see, or that is not accepted,   *)
(* is refused.                                                             *)
BeginBooking(q, a, v) ==
  /\ request[q] = None
  /\ Known(v) /\ MayAccess(a, ClientOf(v.proposal)) /\ Accepted(v)
  /\ Booked(v) = {}
  /\ request' = [request EXCEPT ![q] = [actor |-> a, version |-> v, phase |-> "insert",
                                        booking |-> None, created |-> FALSE]]
  /\ UNCHANGED <<tables, page, form, booking>>

FindBooking(q, a, v, b) ==
  /\ request[q] = None
  /\ b \in Booked(v) /\ MayAccess(a, booking[b].client)
  /\ request' = [request EXCEPT ![q] = [actor |-> a, version |-> v, phase |-> "answered",
                                        booking |-> b, created |-> FALSE]]
  /\ UNCHANGED <<tables, page, form, booking>>

(* The insert commits if what the transaction read still holds and no      *)
(* other booking has taken the version.                                    *)
IndexFree(v) == Booked(v) = {}
InsertBooking(q, b) ==
  /\ request[q] # None /\ request[q].phase = "insert"
  /\ booking[b] = None
  /\ IndexFree(request[q].version)
  /\ MayAccess(request[q].actor, ClientOf(request[q].version.proposal))
  /\ booking' = [booking EXCEPT ![b] = NewBooking(request[q].version)]
  /\ Answered(q, b, TRUE)
  /\ UNCHANGED <<tables, page, form>>

(* A serialization conflict makes the transaction start over with new      *)
(* reads, or the call is refused when its retries or its access are gone.  *)
RestartBooking(q) ==
  /\ request[q] # None /\ request[q].phase = "insert"
  /\ request' = [request EXCEPT ![q] = None]
  /\ UNCHANGED <<tables, page, form, booking>>

LoseRace(q) ==
  /\ request[q] # None /\ request[q].phase = "insert"
  /\ Booked(request[q].version) # {}
  /\ request' = [request EXCEPT ![q].phase = "reread"]
  /\ UNCHANGED <<tables, page, form, booking>>

(* The winner is read again, scoped to the actor as of now. *)
RereadAnyway(a, c) == TRUE
RereadScope(a, c) == MayAccess(a, c)
Reread(q) ==
  /\ request[q] # None /\ request[q].phase = "reread"
  /\ \E b \in Booked(request[q].version) :
       IF RereadScope(request[q].actor, booking[b].client)
       THEN Answered(q, b, FALSE)
       ELSE request' = [request EXCEPT ![q] = None]
  /\ UNCHANGED <<tables, page, form, booking>>

(* updateBookingStatus.  A request for the status the booking has changes  *)
(* nothing; expectedStatus is the status shown, so it is the current one.  *)
StatusMoved(row, new) == [row EXCEPT !.status = new]
UpdateBookingStatus(a, b, new) ==
  /\ booking[b] # None /\ MayAccess(a, booking[b].client)
  /\ TransitionAllowed(booking[b].status, new)
  /\ booking' = [booking EXCEPT ![b] = StatusMoved(@, new)]
  /\ UNCHANGED <<tables, page, form, request>>

BookingsStep ==
  \/ \E q \in Requests :
       \/ RestartBooking(q) \/ LoseRace(q) \/ Reread(q)
       \/ \E a \in Staff, v \in Version :
            BeginBooking(q, a, v) \/ \E b \in BookingIds : FindBooking(q, a, v, b)
       \/ \E b \in BookingIds : InsertBooking(q, b)
  \/ \E a \in Staff, b \in BookingIds, new \in Targets : UpdateBookingStatus(a, b, new)

SalesNext ==
  \/ ProposalsStep /\ UNCHANGED <<booking, request>>
  \/ BookingsStep

SalesSpec == SalesInit /\ [][SalesNext]_salesVars
-----------------------------------------------------------------------------
(* D-027 section 5: a publication is by the consultant then in charge and  *)
(* replaces the very version that consultant's page showed, however many   *)
(* publications and reassignments came between.                            *)
PublicationsAreInformed ==
  [][\A p \in ProposalIds : Exists(p) /\ Current(p)' # Current(p) =>
       \E q \in Pages :
         /\ page[q] # None /\ page[q].target.proposal = p
         /\ page[q].seen = Current(p)
         /\ Assigned(page[q].actor, ClientOf(p))]_salesVars

(* D-047: a client's response in the portal is to the version the client   *)
(* was looking at, and that version is still the offer.                    *)
ResponsesAreInformed ==
  [][\A x \in acceptance' \ acceptance :
       /\ State(x.version) = "current"
       /\ x.by \in Clients => form[x.by] = x.version /\ ClientOf(x.version.proposal) = x.by]_salesVars

(* Section 5.2: a booking belongs to the client of the version it was made *)
(* from, which the client accepted, and no two bookings share a version.   *)
BookingsMatchAcceptances ==
  \A b \in BookingIds : booking[b] # None =>
    /\ booking[b].client = ClientOf(booking[b].version.proposal)
    /\ \E x \in acceptance : x.version = booking[b].version /\ x.answer = "ACCEPT"
    /\ Booked(booking[b].version) = {b}

(* D-028: a booking is only shown to staff who may see its client when the *)
(* answer is given, also after a lost race.                                *)
AnswersNeedAccess ==
  [][\A q \in Requests :
       /\ request'[q] # None /\ request'[q].phase = "answered"
       /\ request[q] # request'[q]
       => MayAccess(request'[q].actor, booking'[request'[q].booking].client)]_salesVars

StandingVersion == [p \in ProposalIds |-> Current(p)]
RetiredVersions == {<<v.proposal, v.number>> : v \in {w \in Version : Known(w) /\ State(w) = "superseded"}}
AnsweredVersions == {<<x.version.proposal, x.version.number, x.answer>> : x \in acceptance}
BookedVersions ==
  {<<booking[b].version.proposal, booking[b].version.number>> :
     b \in {d \in BookingIds : booking[d] # None}}
Promise == INSTANCE Offers WITH
  Proposals <- ProposalIds, standing <- StandingVersion, retired <- RetiredVersions,
  answered <- AnsweredVersions, booked <- BookedVersions

(* The sales process keeps its promise to the client, whatever the staff's *)
(* and the client's requests and their interleaving.                       *)
SalesKeepOffers == Promise!Spec

=============================================================================
