------------------------------- MODULE Access -------------------------------
(* Who may do what: staff accounts, what assignments and participants open, *)
(* and the rate limit before activation.  A run explores each in turn.      *)
EXTENDS Conversations, RateLimit

VARIABLE part  \* "accounts", "conversations" or "gate"

accessVars == <<accountVars, conversationVars, gateVars, part>>
-----------------------------------------------------------------------------
TypeOK == AccountsTypeOK /\ ConversationsTypeOK /\ GateTypeOK

(* Where the accounts are not the subject, one state of them is enough. *)
Init ==
  /\ part \in {"accounts", "conversations", "gate"}
  /\ AccountsInit /\ ConversationsInit /\ GateInit
  /\ part = "gate" => \A u \in Users : Exists(u) /\ IsAdministrator(u)

Next ==
  \/ part = "accounts" /\ AccountsNext /\ UNCHANGED <<conversationVars, gateVars, part>>
  \/ part = "conversations" /\ ConversationsNext /\ UNCHANGED <<gateVars, part>>
  \/ part = "gate" /\ GateNext /\ UNCHANGED <<accountVars, conversationVars, part>>

Spec == Init /\ [][Next]_accessVars

=============================================================================
