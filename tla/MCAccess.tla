------------------------------ MODULE MCAccess ------------------------------
(* An instance of Access for TLC. *)
EXTENDS Access, TLC

Limits == [SOURCE |-> 1, TOKEN |-> 1]
Windows == [SOURCE |-> 1, TOKEN |-> 2]

(* The finances of a booking have no part in a conversation. *)
ApartFromFinance ==
  (\E k \in Conversation : Opened(k) \/ opening[k] # Unopened) =>
    assignment["FINANCE"] = {} /\ \A m \in Moves : move[m].post # "FINANCE"

(* Beside a conversation, at most one account is missing or inactive. *)
MostAreActive ==
  part = "conversations" => Cardinality({u \in Users : ~user[u].active}) <= 1

(* No check that is still to come shares a window, or an interval of its   *)
(* length, with a time so long ago, and nothing reads its rows.            *)
Recent(d, t) == t + Window[d] > time - MaxDelay
LastWindows ==
  <<accountVars, conversationVars, part, time, visit,
    [k \in Keys |-> [t \in {u \in Times : Recent(k[1], u)} |-> <<count[k][t], passed[k][t]>>]]>>

Symmetry == Permutations(Users) \cup Permutations(Moves)

=============================================================================
