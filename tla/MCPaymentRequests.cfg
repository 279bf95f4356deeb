\* Two forms, two keys, three requests, each tried up to twice.
SPECIFICATION RequestsSpec
CONSTANTS
  b1 = b1
  p1 = p1
  Bookings = {b1}
  Plans = {}
  Payments = {p1, p2}
  Currencies = {PHP}
  Amounts = {1}
  Seqs = {1}
  StatusKeys = {k1, k2}
  RefundKeys = {k1, k2}
  AllocationKeys = {}
  ReversalKeys = {}
  None = None
  Forms = {f1, f2}
  RequestIds = {q1, q2, q3}
  MaxAttempts = 2
  Operations <- MCOperations
INVARIANTS
  AppliedOnce
  ToldMeansApplied
PROPERTIES
  NeverRefusedOnceApplied
  FormsAnswered
CHECK_DEADLOCK FALSE
