\* Two bookings, two plans and two payments, in two corners.
SPECIFICATION Spec
CONSTANTS
  Bookings = {b1, b2}
  Plans = {l1, l2}
  Payments = {101, 102}
  Other = USD
  Currencies = {PHP, USD}
  Amounts = {1, 2}
  Seqs = {1, 2}
  StatusKeys = {1, 2, 3, 4, 5}
  RefundKeys = {11, 12}
  AllocationKeys = {21, 22, 23}
  ReversalKeys = {31}
  None = None
CONSTRAINT Small
VIEW WithoutWithdrawn
SYMMETRY Symmetry
INVARIANTS
  RefundsWithinPayment
  AllocationsCovered
  InstallmentsNotOverpaid
  LinkedRefundsWithinAllocation
  ApprovedPlanReconciles
  ReceiptsMatchBooking
  AllocationsOnApprovedPlan
PROPERTIES
  CancelledOnlyPaysOut
CHECK_DEADLOCK FALSE
