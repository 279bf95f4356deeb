\* One proposal with two versions, shown on two pages and in two clients' forms;
\* two concurrent booking requests.
SPECIFICATION SalesSpec
CONSTANTS
  ProposalIds = {p1}
  Clients = {c1, c2}
  Consultants = {s1, s2}
  Managers = {}
  Pages = {g1, g2}
  MaxVersions = 2
  Answers = {"ACCEPT", "DECLINE"}
  BookingIds = {b1, b2}
  Requests = {q1, q2}
  Targets = {"PENDING_CONFIRMATION", "CANCELLED"}
  None = None
CONSTRAINT OneClientBooks
SYMMETRY Symmetry
INVARIANTS
  BookingsMatchAcceptances
PROPERTIES
  PublicationsAreInformed
  ResponsesAreInformed
  AnswersNeedAccess
  SalesKeepOffers
