\* Three accounts, two requests on them; one client, two assignments, a conversation; two visits.
SPECIFICATION Spec
CONSTANTS
  Users = {u1, u2, u3}
  Roles = {"SYSTEM_ADMINISTRATOR", "ADMIN_MANAGER", "TRAVEL_CONSULTANT", "FINANCE_ACCOUNTING"}
  Wanted = {"SYSTEM_ADMINISTRATOR", "TRAVEL_CONSULTANT"}
  Requests = {q1, q2}
  None = None
  Posts = {"CLIENT", "FINANCE"}
  Moves = {m1, m2}
  Conversation = {k1}
  Client = Client
  Tokens = {t1}
  Visits = {v1, v2}
  Limit <- Limits
  Window <- Windows
  Retention = 3
  MaxDelay = 1
  MaxTime = 4
CONSTRAINTS ApartFromFinance MostAreActive
VIEW LastWindows
SYMMETRY Symmetry
INVARIANTS
  AdministratorRemains
  ReplyAndReadAgree
  NeverMoreThanTwice
CHECK_DEADLOCK FALSE
