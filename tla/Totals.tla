------------------------------- MODULE Totals -------------------------------
(***************************************************************************)
(* Sums of money columns.  The repository adds up the amount column of a   *)
(* set of rows in several places (Prisma aggregates, Decimal reductions).  *)
(* A row is a record with a natural-number field amount, the value in the  *)
(* currency's smallest unit; Total(S) is the sum of that field over the    *)
(* finite set S.  It is defined by counting one pair <<row, n>> for every  *)
(* unit of every row, which gives the sum without recursion, so the facts  *)
(* proved of it (PaymentsProofs) follow from the theorems on Cardinality.  *)
(***************************************************************************)
EXTENDS Integers, FiniteSets

Units(S) == UNION {{r} \X (1 .. r.amount) : r \in S}

Total(S) == Cardinality(Units(S))

=============================================================================
