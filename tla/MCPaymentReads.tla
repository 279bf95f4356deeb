-------------------------- MODULE MCPaymentReads ----------------------------
(* An instance of PaymentReads for TLC. *)
EXTENDS PaymentReads, TLC

(* Once every read is over, nothing the properties speak of changes. *)
UntilTheLastRead == \E x \in Reads : InStage(x, "idle") \/ UnderWay(x)

Symmetry == Permutations(StatusKeys) \cup Permutations(AllocationKeys)

=============================================================================
