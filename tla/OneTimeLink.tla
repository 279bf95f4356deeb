----------------------------- MODULE OneTimeLink ----------------------------
(***************************************************************************)
(* What portal activation promises: a client has at most one live link,    *)
(* a new link replaces the old one, a dead link never lives again, and a   *)
(* client is activated at most once, with the link that is live then.      *)
(***************************************************************************)
CONSTANTS Clients, Links, None

VARIABLES
  issued,  \* pairs <<client, link>> ever issued
  live,    \* [Clients -> Links or None]
  used     \* the link each client was activated with, or None

vars == <<issued, live, used>>

Init ==
  /\ issued = {}
  /\ live = [c \in Clients |-> None]
  /\ used = [c \in Clients |-> None]

Issue(c, l) ==
  /\ used[c] = None
  /\ \A d \in Clients : <<d, l>> \notin issued
  /\ issued' = issued \cup {<<c, l>>}
  /\ live' = [live EXCEPT ![c] = l]
  /\ UNCHANGED used

Kill(c) ==
  /\ live[c] # None
  /\ live' = [live EXCEPT ![c] = None]
  /\ UNCHANGED <<issued, used>>

Redeem(c) ==
  /\ live[c] # None /\ used[c] = None
  /\ used' = [used EXCEPT ![c] = live[c]]
  /\ live' = [live EXCEPT ![c] = None]
  /\ UNCHANGED issued

Next == \E c \in Clients : Kill(c) \/ Redeem(c) \/ \E l \in Links : Issue(c, l)

Spec == Init /\ [][Next]_vars

=============================================================================
