\* One booking with its plan, a payment, two allocations, a refund; one read, two commits during it.
SPECIFICATION ReadsSpec
CONSTANTS
  Bookings = {b1}
  Plans = {l1}
  Payments = {p1}
  Currencies = {PHP}
  Amounts = {1, 2}
  Seqs = {1}
  StatusKeys = {k1, k2, k3}
  RefundKeys = {r1}
  AllocationKeys = {a1, a2}
  ReversalKeys = {v1}
  None = None
  Reads = {x1}
  MaxMoves = 2
  RowLimit = 1
CONSTRAINT UntilTheLastRead
SYMMETRY Symmetry
INVARIANTS
  ExportMeetsNoCorruption
  NothingDueMeansNothingOwed
  FilesMatchEntries
  ClientSeesApprovedPlans
CHECK_DEADLOCK FALSE
