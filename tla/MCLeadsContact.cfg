\* Two edits of one lead, each loaded before the other is written.
SPECIFICATION Spec
CONSTANTS
  Leads = {l1}
  c1 = c1
  c2 = c2
  q1 = q1
  q2 = q2
  Clients = {c1}
  Consultants = {s1}
  Managers = {m1}
  Emails = {e1, e2}
  Phones = {p1}
  Edits = {q1, q2}
  Targets = {"QUALIFIED", "ARCHIVED", "UNDER_REVIEW"}
  None = None
SYMMETRY Symmetry
INVARIANT
  LeadsKeepContact
