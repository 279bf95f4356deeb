\* Two requests and two changes of the record per page; two fields; a cycle of two statuses.
SPECIFICATION FairSpec
CONSTANTS
  Calls = {c1, c2}
  MaxVersion = 2
  None = None
  Fields = {f1, f2}
  Texts = {a}
  LeadStates = {"NEW", "UNDER_REVIEW", "ARCHIVED"}
  BookingStates = {"DOCUMENTS_REQUIRED", "VISA_PROCESSING", "READY_FOR_TRAVEL"}
  Assignees = {s1, s2}
  Contacts = {mail, phone}
  Clients = {k1, k2}
  Hidden = hidden
  New = new
  Responses = {"ACCEPT", "DECLINE"}
INVARIANTS
  DoneOnceAndTrulyTold
PROPERTIES
  OverwritesOnlyWhatWasSeen
  SavesOnlyWhatWasTyped
  RefreshLiftsConflict
  RefreshReopens
  OwnResultSurvives
CHECK_DEADLOCK FALSE
