---------------------------- MODULE StaffAccounts ----------------------------
(***************************************************************************)
(* Staff accounts, their sessions, and the administrators who change them  *)
(* (features/staff, lib/auth).  A role change or a deactivation is one     *)
(* SERIALIZABLE transaction in two steps, its checks and its write; a      *)
(* sign-in checks isActive and inserts its session with nothing between.   *)
(***************************************************************************)
CONSTANTS
  Users,     \* staff User ids, of accounts that exist or may be created
  Roles,     \* AppRole
  Wanted,    \* the roles the requests give; a bound
  Requests,  \* role changes and deactivations in flight; bounds how many
  None

ASSUME AccountsAssumption == "SYSTEM_ADMINISTRATOR" \in Wanted /\ Wanted \subseteq Roles /\ None \notin Roles

VARIABLES
  user,      \* User rows
  sessions,  \* the users with a Session row
  checked,   \* the users whose sign-in has passed the isActive check
  request    \* PATCH and DELETE requests on staff accounts

accountVars == <<user, sessions, checked, request>>
-----------------------------------------------------------------------------
Account == [role : Roles, active : BOOLEAN]
NoAccount == [role |-> None, active |-> FALSE]
Idle == [stage |-> "idle", target |-> None, role |-> None]

AccountsTypeOK ==
  /\ user \in [Users -> Account \cup {NoAccount}]
  /\ sessions \subseteq Users /\ checked \subseteq Users
  /\ request \in [Requests -> [stage : {"asked", "checked"}, target : Users,
                               role : Roles \cup {None}] \cup {Idle}]

Exists(u) == user[u] # NoAccount
IsAdministrator(u) == user[u].role = "SYSTEM_ADMINISTRATOR" /\ user[u].active

(* The seed and earlier requests leave active accounts, one of them an     *)
(* administrator's.                                                        *)
AccountsInit ==
  /\ user \in [Users -> [role : Wanted, active : {TRUE}] \cup {NoAccount}]
  /\ \E u \in Users : IsAdministrator(u)
  /\ sessions = {} /\ checked = {}
  /\ request = [q \in Requests |-> Idle]
-----------------------------------------------------------------------------
(* Better Auth's sign-in: the session.create hook, then the insert. *)
MaySignIn(u) == Exists(u) /\ user[u].active
BeginSignIn(u) ==
  /\ MaySignIn(u)
  /\ checked' = checked \cup {u}
  /\ UNCHANGED <<user, sessions, request>>
EndSignIn(u) ==
  /\ u \in checked
  /\ sessions' = sessions \cup {u} /\ checked' = checked \ {u}
  /\ UNCHANGED <<user, request>>
SignOut(u) ==
  /\ u \in sessions
  /\ sessions' = sessions \ {u}
  /\ UNCHANGED <<user, checked, request>>

(* requireUser and withRole: the role is read with the session. *)
Admitted(a) == a \in sessions /\ user[a].role = "SYSTEM_ADMINISTRATOR"

NewAccount(r) == [role |-> r, active |-> TRUE]
CreateStaffAccount(a, u, r) ==
  /\ Admitted(a) /\ ~Exists(u)
  /\ user' = [user EXCEPT ![u] = NewAccount(r)]
  /\ UNCHANGED <<sessions, checked, request>>

(* updateUserRole and setUserActive *)
RoleSet(row, r) == [row EXCEPT !.role = r]
ActiveSet(row, active) == [row EXCEPT !.active = active]

(* reactivateStaffAccount: one plain transaction that sets one column. *)
ReactivateStaffAccount(a, t) ==
  /\ Admitted(a) /\ a # t
  /\ Exists(t) /\ ~user[t].active
  /\ user' = [user EXCEPT ![t] = ActiveSet(@, TRUE)]
  /\ UNCHANGED <<sessions, checked, request>>

(* changeStaffRole, and deactivateStaffAccount when the role is None. *)
Ask(q, a, t, r) ==
  /\ request[q] = Idle
  /\ Admitted(a) /\ a # t
  /\ request' = [request EXCEPT ![q] = [stage |-> "asked", target |-> t, role |-> r]]
  /\ UNCHANGED <<user, sessions, checked>>

Altered(row, r) == IF r = None THEN ActiveSet(row, FALSE) ELSE RoleSet(row, r)
OtherAdministrators(t) == {u \in Users \ {t} : IsAdministrator(u)}
Permitted(q) ==
  LET t == request[q].target IN
  /\ Exists(t)
  /\ Altered(user[t], request[q].role) # user[t]
  /\ user[t].role = "SYSTEM_ADMINISTRATOR" => OtherAdministrators(t) # {}

Check(q) ==
  /\ request[q].stage = "asked" /\ Permitted(q)
  /\ request' = [request EXCEPT ![q].stage = "checked"]
  /\ UNCHANGED <<user, sessions, checked>>
Decline(q) ==
  /\ request[q].stage = "asked" /\ ~Permitted(q)
  /\ request' = [request EXCEPT ![q] = Idle]
  /\ UNCHANGED <<user, sessions, checked>>

(* Serializable: a commit is as if the transaction ran at once, so what it *)
(* found holds; otherwise it is run again, or after the last retry a 409.  *)
ReadCommitted(q) == TRUE
Serializable(q) == Permitted(q)
EndsSessions(t) == {t}
Commit(q) ==
  LET t == request[q].target IN
  /\ request[q].stage = "checked" /\ Serializable(q)
  /\ user' = [user EXCEPT ![t] = Altered(user[t], request[q].role)]
  /\ sessions' = sessions \ EndsSessions(t)
  /\ request' = [request EXCEPT ![q] = Idle]
  /\ UNCHANGED checked
Conflict(q) ==
  /\ request[q].stage = "checked" /\ ~Serializable(q)
  /\ request' \in {[request EXCEPT ![q].stage = "asked"], [request EXCEPT ![q] = Idle]}
  /\ UNCHANGED <<user, sessions, checked>>

AccountsNext ==
  \/ \E u \in Users : BeginSignIn(u) \/ EndSignIn(u) \/ SignOut(u)
  \/ \E a, t \in Users :
       \/ \E r \in Wanted : CreateStaffAccount(a, t, r)
       \/ ReactivateStaffAccount(a, t)
       \/ \E q \in Requests, r \in Wanted \cup {None} : Ask(q, a, t, r)
  \/ \E q \in Requests : Check(q) \/ Decline(q) \/ Commit(q) \/ Conflict(q)

AccountsSpec == AccountsInit /\ [][AccountsNext]_accountVars
-----------------------------------------------------------------------------
(* schema.prisma invariant 1: administrators who demote or deactivate each *)
(* other at the same time leave at least one.                              *)
AdministratorRemains == \E u \in Users : IsAdministrator(u)

(* staff/service.ts:244-247: a deactivated account "already lost every     *)
(* session at deactivation time (and could not create a new one)".         *)
DeactivatedHaveNoSession ==
  \A u \in Users : Exists(u) /\ ~user[u].active => u \notin sessions

=============================================================================
