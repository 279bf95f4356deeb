\* Two leads, two clients, one edit in flight; one address and one number to share.
SPECIFICATION Spec
CONSTANTS
  Leads = {l1, l2}
  c1 = c1
  c2 = c2
  q1 = q1
  q2 = q2
  Clients = {c1, c2}
  Consultants = {s1, s2}
  Managers = {m1}
  Emails = {e1}
  Phones = {p1}
  Edits = {q1}
  Targets = {"QUALIFIED", "ARCHIVED", "UNDER_REVIEW"}
  None = None
SYMMETRY Symmetry
INVARIANTS
  ConversionReplayable
PROPERTIES
  NoDuplicateClient
