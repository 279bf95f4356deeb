---------------------------- MODULE Conversations ----------------------------
(***************************************************************************)
(* Assignments and the conversations whose access they decide              *)
(* (features/assignments, features/conversations), for one client.  An     *)
(* assignment is one SERIALIZABLE transaction in two steps; a conversation *)
(* is created by separate statements with no transaction around them.      *)
(***************************************************************************)
EXTENDS StaffAccounts

CONSTANTS
  Posts,          \* what staff are assigned to: the client, and its booking's finances
  Moves,          \* assignment requests in flight; bounds how many
  Conversation,   \* Conversation ids
  Client          \* the client, as a participant

ASSUME PostsAssumption == "CLIENT" \in Posts

VARIABLES
  assignment,   \* the StaffAssignment rows with no endedAt: for each post, the staff
  move,         \* setAssignment and setBookingFinanceAssignment requests
  portal,       \* whether the client has a ClientProfile
  participant,  \* the active ConversationParticipant rows of each conversation
  opening       \* staff requests that are creating a conversation

conversationVars == <<assignment, move, portal, participant, opening>>
-----------------------------------------------------------------------------
Still == [stage |-> "idle", post |-> None, staff |-> None, found |-> {}]
Unopened == [stage |-> "idle", people |-> {}]
ConversationsTypeOK ==
  /\ assignment \in [Posts -> SUBSET Users]
  /\ move \in [Moves -> [stage : {"checked"}, post : Posts, staff : Users, found : SUBSET Users]
                          \cup {Still}]
  /\ portal \in BOOLEAN
  /\ participant \in [Conversation -> (SUBSET (Users \cup {Client})) \cup {None}]
  /\ opening \in [Conversation -> [stage : {"idle", "profile", "consultant"},
                                   people : SUBSET (Users \cup {Client})]]

ConversationsInit ==
  /\ assignment = [p \in Posts |-> {}]
  /\ move = [m \in Moves |-> Still]
  /\ portal = FALSE
  /\ participant = [k \in Conversation |-> None]
  /\ opening = [k \in Conversation |-> Unopened]
-----------------------------------------------------------------------------
(* What administrators do to the accounts meanwhile, as one step. *)
AccountChanges(t, r) ==
  /\ Exists(t) /\ Altered(user[t], r) # user[t]
  /\ user[t].role = "SYSTEM_ADMINISTRATOR" => OtherAdministrators(t) # {}
  /\ user' = [user EXCEPT ![t] = Altered(user[t], r)]
  /\ UNCHANGED <<sessions, checked, request, conversationVars>>

RequiredRole(p) == IF p = "CLIENT" THEN "TRAVEL_CONSULTANT" ELSE "FINANCE_ACCOUNTING"
Eligible(p, s) == Exists(s) /\ user[s].active /\ user[s].role = RequiredRole(p)
FindFirst(rows) == CHOOSE s \in rows : TRUE

(* The reads of setAssignment; the same assignee again is answered as is.  *)
CheckAssignment(m, p, s) ==
  /\ move[m] = Still
  /\ s \notin assignment[p] /\ Eligible(p, s)
  /\ move' = [move EXCEPT ![m] = [stage |-> "checked", post |-> p, staff |-> s,
                                  found |-> assignment[p]]]
  /\ UNCHANGED <<accountVars, assignment, portal, participant, opening>>

(* Serializable, with the partial unique index behind it: the rows found   *)
(* are as they were read.  The account need not be: a role change and a    *)
(* deactivation read no assignment, so one that commits in between counts  *)
(* as the later one, and the assignment commits all the same.              *)
AnyRows(m) == TRUE
SameRows(m) == assignment[move[m].post] = move[m].found
Ended(staff, found) == staff \ found
Assigned(staff, s) == staff \cup {s}
WriteAssignment(m) ==
  /\ move[m] # Still /\ SameRows(m)
  /\ assignment' = [assignment EXCEPT ![move[m].post] =
                      Assigned(Ended(@, move[m].found), move[m].staff)]
  /\ move' = [move EXCEPT ![m] = Still]
  /\ UNCHANGED <<accountVars, portal, participant, opening>>
AssignmentConflict(m) ==
  /\ move[m] # Still /\ ~SameRows(m)
  /\ move' = [move EXCEPT ![m] = Still]
  /\ UNCHANGED <<accountVars, assignment, portal, participant, opening>>

(* endAssignment and endBookingFinanceAssignment *)
EndAssignment(p) ==
  /\ assignment[p] # {}
  /\ assignment' = [assignment EXCEPT ![p] = Ended(@, {FindFirst(@)})]
  /\ UNCHANGED <<accountVars, move, portal, participant, opening>>
-----------------------------------------------------------------------------
(* The client activates the portal account (PortalInvitation). *)
ActivatePortal ==
  /\ ~portal /\ portal' = TRUE
  /\ UNCHANGED <<accountVars, assignment, move, participant, opening>>

Opened(k) == participant[k] # None
IsAssigned(u) == assignment["CLIENT"] # {} /\ u = FindFirst(assignment["CLIENT"])
CanAccessClient(u) ==
  \/ user[u].role = "ADMIN_MANAGER"
  \/ user[u].role = "TRAVEL_CONSULTANT" /\ IsAssigned(u)

(* createConversationAsStaff: access and the client's profile, then the    *)
(* assigned consultant, then the rows.                                     *)
ClientProfile == IF portal THEN {Client} ELSE {}
OpenAsStaff(u, k) ==
  /\ ~Opened(k) /\ opening[k] = Unopened
  /\ CanAccessClient(u)
  /\ opening' = [opening EXCEPT ![k] = [stage |-> "profile", people |-> ClientProfile]]
  /\ UNCHANGED <<accountVars, assignment, move, portal, participant>>

(* createConversationAsClient: the profile exists, or there is no account. *)
HasIdentity == portal
OpenAsClient(k) ==
  /\ ~Opened(k) /\ opening[k] = Unopened
  /\ HasIdentity
  /\ opening' = [opening EXCEPT ![k] = [stage |-> "profile", people |-> {Client}]]
  /\ UNCHANGED <<accountVars, assignment, move, portal, participant>>

AddConsultant(k) ==
  /\ opening[k].stage = "profile"
  /\ opening' = [opening EXCEPT ![k].stage = "consultant",
                                ![k].people = @ \cup {s \in Users : IsAssigned(s)}]
  /\ UNCHANGED <<accountVars, assignment, move, portal, participant>>
CreateConversation(k) ==
  /\ opening[k].stage = "consultant"
  /\ participant' = [participant EXCEPT ![k] = opening[k].people]
  /\ opening' = [opening EXCEPT ![k] = Unopened]
  /\ UNCHANGED <<accountVars, assignment, move, portal>>

IsParticipant(x, k) == x \in participant[k]

(* replyAsStaff: who may write in k. *)
MayReply(u, k) ==
  CASE user[u].role \in {"ADMIN_MANAGER", "TRAVEL_CONSULTANT"} -> CanAccessClient(u)
    [] user[u].role = "FINANCE_ACCOUNTING" -> IsParticipant(u, k)
    [] OTHER -> FALSE

(* listConversationsForStaff: whose list shows k. *)
Visible(u, k) ==
  CASE user[u].role = "ADMIN_MANAGER" -> TRUE
    [] user[u].role = "TRAVEL_CONSULTANT" -> \E s \in assignment["CLIENT"] : s = u
    [] user[u].role = "FINANCE_ACCOUNTING" -> u \in participant[k]
    [] OTHER -> FALSE

(* listConversationsForClient shows every conversation of the client;      *)
(* replyAsClient also asks for the participant row.                        *)
ClientList == {k \in Conversation : Opened(k)}
VisibleToClient(k) == portal /\ k \in ClientList
BelongsToClient(k) == Opened(k)
ClientMayReply(k) == HasIdentity /\ BelongsToClient(k) /\ IsParticipant(Client, k)

ConversationsNext ==
  \/ \E t \in Users, r \in Roles \cup {None} : AccountChanges(t, r)
  \/ \E m \in Moves :
       \/ \E p \in Posts, s \in Users : CheckAssignment(m, p, s)
       \/ WriteAssignment(m) \/ AssignmentConflict(m)
  \/ \E p \in Posts : EndAssignment(p)
  \/ ActivatePortal
  \/ \E k \in Conversation :
       \/ \E u \in Users : OpenAsStaff(u, k)
       \/ OpenAsClient(k) \/ AddConsultant(k) \/ CreateConversation(k)
-----------------------------------------------------------------------------
(* What a staff member's list shows is what the reply lets them answer:    *)
(* one asks for the first active row, the other for any.                   *)
ReplyAndReadAgree ==
  \A k \in Conversation : Opened(k) =>
    \A u \in Users : MayReply(u, k) <=> Visible(u, k)

(* D-051 section 7: the participant check "is never a practical barrier to *)
(* a client's own conversations".                                          *)
ClientMayAnswer == \A k \in Conversation : VisibleToClient(k) => ClientMayReply(k)

=============================================================================
