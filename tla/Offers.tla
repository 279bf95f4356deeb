-------------------------------- MODULE Offers -------------------------------
(***************************************************************************)
(* What the sales process promises a client: of each proposal at most one  *)
(* version stands as the offer, a withdrawn version never stands again,    *)
(* only the standing version can be answered, once and for ever, and what  *)
(* is booked is a version that was accepted, once.                         *)
(***************************************************************************)
CONSTANTS Proposals, Numbers, Answers, None

VARIABLES
  standing,  \* [Proposals -> the number of the version on offer, or None]
  retired,   \* versions that once stood and no longer do
  answered,  \* triples <<proposal, number, answer>>
  booked     \* pairs <<proposal, number>>

vars == <<standing, retired, answered, booked>>

Init ==
  /\ standing = [p \in Proposals |-> None]
  /\ retired = {} /\ answered = {} /\ booked = {}

Offer(p, n) ==
  /\ n # standing[p] /\ <<p, n>> \notin retired
  /\ standing' = [standing EXCEPT ![p] = n]
  /\ retired' = IF standing[p] = None THEN retired ELSE retired \cup {<<p, standing[p]>>}
  /\ UNCHANGED <<answered, booked>>

Reply(p, r) ==
  /\ standing[p] # None
  /\ \A s \in Answers : <<p, standing[p], s>> \notin answered
  /\ answered' = answered \cup {<<p, standing[p], r>>}
  /\ UNCHANGED <<standing, retired, booked>>

Book(p, n) ==
  /\ <<p, n, "ACCEPT">> \in answered /\ <<p, n>> \notin booked
  /\ booked' = booked \cup {<<p, n>>}
  /\ UNCHANGED <<standing, retired, answered>>

Next ==
  \E p \in Proposals :
    \/ \E n \in Numbers : Offer(p, n) \/ Book(p, n)
    \/ \E r \in Answers : Reply(p, r)

Spec == Init /\ [][Next]_vars

=============================================================================
