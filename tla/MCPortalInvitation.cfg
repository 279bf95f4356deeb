\* Two clients who may have the same address: see Bounded for the clicks.
SPECIFICATION Spec
CONSTANTS
  c1 = c1
  c2 = c2
  e1 = e1
  e2 = e2
  Clients = {c1, c2}
  Requests = {q1, q2, q3}
  Tokens = {t1, t2, t3}
  Emails = {e1, e2}
  Terminal = {"PROVIDER_DELIVERED", "PROVIDER_FAILED"}
  None = None
CONSTRAINT Bounded
INVARIANTS
  RowsPassChecks
  EvidenceIsCurrent
  RotatesOnce
  AccountsMatch
PROPERTIES
  NoRegression
  LinksAreOneTime
