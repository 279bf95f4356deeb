------------------------- MODULE MCPaymentRequests --------------------------
(* An instance of PaymentRequests for TLC. *)
EXTENDS PaymentRequests

CONSTANTS b1, p1

MCOperations ==
  {[op |-> "record", booking |-> b1, amount |-> 1],
   [op |-> "confirm", payment |-> p1],
   [op |-> "refund", payment |-> p1, amount |-> 1]}

=============================================================================
