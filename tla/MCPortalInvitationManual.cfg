\* Staff confirm the link they emailed after another click has replaced it.
SPECIFICATION Spec
CONSTANTS
  c1 = c1
  c2 = c2
  e1 = e1
  e2 = e2
  Clients = {c1}
  Requests = {q1, q2, q3}
  Tokens = {t1, t2}
  Emails = {e1}
  Terminal = {"PROVIDER_DELIVERED"}
  None = None
INVARIANT
  VerifiedWasEmailed
