\* A conversation that staff open before the client has a portal account.
SPECIFICATION Spec
CONSTANTS
  Users = {u1, u2, u3}
  Roles = {"SYSTEM_ADMINISTRATOR", "ADMIN_MANAGER", "TRAVEL_CONSULTANT", "FINANCE_ACCOUNTING"}
  Wanted = {"SYSTEM_ADMINISTRATOR", "TRAVEL_CONSULTANT"}
  Requests = {q1}
  None = None
  Posts = {"CLIENT", "FINANCE"}
  Moves = {m1}
  Conversation = {k1}
  Client = Client
  Tokens = {t1}
  Visits = {v1}
  Limit <- Limits
  Window <- Windows
  Retention = 3
  MaxDelay = 1
  MaxTime = 4
INVARIANTS
  ClientMayAnswer
CHECK_DEADLOCK FALSE
