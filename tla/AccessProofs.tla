----------------------------- MODULE AccessProofs -----------------------------
(***************************************************************************)
(* What module Access promises about accounts, assignments, conversations  *)
(* and the rate limit, proved for every set of users, roles, tokens and    *)
(* requests, and for all limits and windows.                               *)
(***************************************************************************)
EXTENDS Access, FiniteSetTheorems, TLAPS

(* The partial unique index: at most one active row for each post. *)
AtMostOneAssigned ==
  \A p \in Posts : assignment[p] = {} \/ \E s \in Users : assignment[p] = {s}

AccessInv ==
  /\ AccountsTypeOK /\ ConversationsTypeOK
  /\ AdministratorRemains
  /\ AtMostOneAssigned
-----------------------------------------------------------------------------
(* Rows, and what is read of them, are expanded wherever they occur. *)
USE DEF NewAccount, RoleSet, ActiveSet, Ended, Assigned, ClientProfile, IsParticipant, HasIdentity

(* The rows a change of an account can produce. *)
LEMMA AlteredAccount ==
  ASSUME NEW row \in Account, NEW r \in Roles \cup {None}
  PROVE  Altered(row, r) \in Account /\ Altered(row, r) # NoAccount
BY AccountsAssumption DEF Altered, Account, NoAccount

(* Every account row there is holds a role. *)
LEMMA AccountInUse ==
  ASSUME AccountsTypeOK, NEW u \in Users, Exists(u)
  PROVE  user[u] \in Account
BY DEF AccountsTypeOK, Exists

(* An administrator exists as a row. *)
LEMMA AdministratorExists ==
  ASSUME AccountsTypeOK, NEW u \in Users, user[u].role = "SYSTEM_ADMINISTRATOR"
  PROVE  Exists(u)
BY AccountsAssumption DEF AccountsTypeOK, Exists, NoAccount

(* assertLastAdministratorRemains: a change it permits leaves one. *)
LEMMA ChangeLeavesAdministrator ==
  ASSUME AccountsTypeOK, AdministratorRemains,
         NEW t \in Users, NEW r \in Roles \cup {None},
         user[t].role = "SYSTEM_ADMINISTRATOR" => OtherAdministrators(t) # {},
         user' = [user EXCEPT ![t] = Altered(user[t], r)]
  PROVE  AdministratorRemains'
<1>1. PICK a \in Users \ {t} : IsAdministrator(a)
  BY DEF AdministratorRemains, OtherAdministrators, IsAdministrator
<1>2. user'[a] = user[a]
  BY <1>1 DEF AccountsTypeOK
<1>3. QED
  BY <1>1, <1>2 DEF AdministratorRemains, IsAdministrator

(* Every step on the accounts keeps them typed, and an administrator. *)
LEMMA AccountsStep ==
  ASSUME AccountsTypeOK, AdministratorRemains, AccountsNext
  PROVE  AccountsTypeOK' /\ AdministratorRemains'
<1>1. ASSUME NEW u \in Users, BeginSignIn(u) \/ EndSignIn(u) \/ SignOut(u)
      PROVE  AccountsTypeOK' /\ AdministratorRemains'
  BY <1>1 DEF AccountsTypeOK, AdministratorRemains, IsAdministrator, BeginSignIn, EndSignIn, SignOut
<1>2. ASSUME NEW a \in Users, NEW u \in Users, NEW r \in Wanted, CreateStaffAccount(a, u, r)
      PROVE  AccountsTypeOK' /\ AdministratorRemains'
  <2> DEFINE new == [role |-> r, active |-> TRUE]
  <2>1. new \in Account /\ user' = [user EXCEPT ![u] = new]
    BY <1>2, AccountsAssumption DEF CreateStaffAccount, Account
  <2>2. AccountsTypeOK'
    BY <1>2, <2>1 DEF AccountsTypeOK, CreateStaffAccount
  <2>3. PICK d \in Users : IsAdministrator(d)
    BY DEF AdministratorRemains
  <2>4. d # u
    BY <1>2, <2>3, AdministratorExists DEF CreateStaffAccount, IsAdministrator
  <2>5. QED
    BY <2>1, <2>2, <2>3, <2>4 DEF AccountsTypeOK, AdministratorRemains, IsAdministrator
<1>3. ASSUME NEW a \in Users, NEW t \in Users, ReactivateStaffAccount(a, t)
      PROVE  AccountsTypeOK' /\ AdministratorRemains'
  <2>1. user[t] \in Account
    BY <1>3, AccountInUse DEF ReactivateStaffAccount
  <2>2. [user[t] EXCEPT !.active = TRUE] \in Account
    BY <2>1 DEF Account
  <2>3. user' = [user EXCEPT ![t] = [user[t] EXCEPT !.active = TRUE]]
    BY <1>3 DEF ReactivateStaffAccount
  <2>4. AccountsTypeOK'
    BY <1>3, <2>2, <2>3 DEF AccountsTypeOK, ReactivateStaffAccount
  <2>5. PICK d \in Users : IsAdministrator(d)
    BY DEF AdministratorRemains
  <2>6. d # t
    BY <1>3, <2>5 DEF ReactivateStaffAccount, IsAdministrator
  <2>7. QED
    BY <2>3, <2>4, <2>5, <2>6 DEF AccountsTypeOK, AdministratorRemains, IsAdministrator
<1>4. ASSUME NEW a \in Users, NEW t \in Users, NEW q \in Requests, NEW r \in Wanted \cup {None},
             Ask(q, a, t, r)
      PROVE  AccountsTypeOK' /\ AdministratorRemains'
  <2>1. r \in Roles \cup {None}
    BY AccountsAssumption
  <2>2. QED
    BY <1>4, <2>1 DEF AccountsTypeOK, AdministratorRemains, IsAdministrator, Ask
<1>5. ASSUME NEW q \in Requests, Check(q) \/ Decline(q) \/ Conflict(q)
      PROVE  AccountsTypeOK' /\ AdministratorRemains'
  <2>1. request[q].stage # "idle"
    BY <1>5 DEF Check, Decline, Conflict
  <2>2. request[q] \in [stage : {"asked", "checked"}, target : Users, role : Roles \cup {None}]
    BY <2>1 DEF AccountsTypeOK, Idle
  <2>3. QED
    BY <1>5, <2>2 DEF AccountsTypeOK, AdministratorRemains, IsAdministrator, Check, Decline, Conflict
<1>6. ASSUME NEW q \in Requests, Commit(q)
      PROVE  AccountsTypeOK' /\ AdministratorRemains'
  <2> DEFINE t == request[q].target
             r == request[q].role
  <2>1. request[q].stage = "checked" /\ Permitted(q)
    BY <1>6 DEF Commit, Serializable
  <2>2. t \in Users /\ r \in Roles \cup {None}
    BY <2>1 DEF AccountsTypeOK, Idle
  <2>3. user' = [user EXCEPT ![t] = Altered(user[t], r)]
    BY <1>6 DEF Commit
  <2>4. Altered(user[t], r) \in Account
    BY <2>1, <2>2, AccountInUse, AlteredAccount DEF Permitted
  <2>5. AccountsTypeOK'
    BY <1>6, <2>3, <2>4 DEF AccountsTypeOK, Commit
  <2>6. AdministratorRemains'
    BY <2>1, <2>2, <2>3, ChangeLeavesAdministrator DEF Permitted
  <2>7. QED
    BY <2>5, <2>6
<1>7. QED
  BY <1>1, <1>2, <1>3, <1>4, <1>5, <1>6 DEF AccountsNext

-----------------------------------------------------------------------------
(* A post with one row loses that row, or keeps it.                        *)
LEMMA FirstOfOne ==
  ASSUME NEW s
  PROVE  FindFirst({s}) = s
BY DEF FindFirst

(* Every step on assignments and conversations keeps the invariant's parts. *)
LEMMA ConversationsStep ==
  ASSUME AccountsTypeOK, ConversationsTypeOK, AdministratorRemains, AtMostOneAssigned,
         ConversationsNext
  PROVE  /\ AccountsTypeOK' /\ ConversationsTypeOK'
         /\ AdministratorRemains' /\ AtMostOneAssigned'
<1> DEFINE Goal == /\ AccountsTypeOK' /\ ConversationsTypeOK'
                   /\ AdministratorRemains' /\ AtMostOneAssigned'
<1> USE DEF conversationVars, accountVars
<1>1. ASSUME NEW t \in Users, NEW r \in Roles \cup {None}, AccountChanges(t, r)
      PROVE  Goal
  <2>1. Altered(user[t], r) \in Account
    BY <1>1, AccountInUse, AlteredAccount DEF AccountChanges
  <2>2. AccountsTypeOK'
    BY <1>1, <2>1 DEF AccountsTypeOK, AccountChanges
  <2>3. AdministratorRemains'
    BY <1>1, ChangeLeavesAdministrator DEF AccountChanges
  <2>4. QED
    BY <1>1, <2>2, <2>3 DEF AccountChanges, ConversationsTypeOK, AtMostOneAssigned
<1>2. ASSUME UNCHANGED accountVars
      PROVE  AccountsTypeOK' /\ AdministratorRemains'
  BY <1>2 DEF AccountsTypeOK, AdministratorRemains, IsAdministrator
<1>3. ASSUME NEW m \in Moves, NEW p \in Posts, NEW s \in Users, CheckAssignment(m, p, s)
      PROVE  Goal
  BY <1>2, <1>3 DEF CheckAssignment, ConversationsTypeOK, AtMostOneAssigned
<1>4. ASSUME NEW m \in Moves, WriteAssignment(m)
      PROVE  Goal
  <2>1. move[m].post \in Posts /\ move[m].staff \in Users
    BY <1>4 DEF WriteAssignment, ConversationsTypeOK
  <2>2. assignment' = [assignment EXCEPT ![move[m].post] = {move[m].staff}]
    BY <1>4, <2>1 DEF WriteAssignment, SameRows, ConversationsTypeOK
  <2>3. AtMostOneAssigned'
    BY <2>1, <2>2 DEF AtMostOneAssigned, ConversationsTypeOK
  <2>4. ConversationsTypeOK'
    BY <1>4, <2>1, <2>2 DEF WriteAssignment, ConversationsTypeOK
  <2>5. QED
    BY <1>2, <1>4, <2>3, <2>4 DEF WriteAssignment
<1>5. ASSUME NEW m \in Moves, AssignmentConflict(m)
      PROVE  Goal
  BY <1>2, <1>5 DEF AssignmentConflict, ConversationsTypeOK, AtMostOneAssigned
<1>6. ASSUME NEW p \in Posts, EndAssignment(p)
      PROVE  Goal
  <2>1. PICK s \in Users : assignment[p] = {s}
    BY <1>6 DEF EndAssignment, AtMostOneAssigned
  <2>2. assignment' = [assignment EXCEPT ![p] = {}]
    BY <1>6, <2>1, FirstOfOne DEF EndAssignment, ConversationsTypeOK
  <2>3. QED
    BY <1>2, <1>6, <2>2 DEF EndAssignment, ConversationsTypeOK, AtMostOneAssigned
<1>7. ASSUME ActivatePortal
      PROVE  Goal
  BY <1>2, <1>7 DEF ActivatePortal, ConversationsTypeOK, AtMostOneAssigned
<1>8. ASSUME NEW k \in Conversation, NEW u \in Users, OpenAsStaff(u, k)
      PROVE  Goal
  BY <1>2, <1>8 DEF OpenAsStaff, ConversationsTypeOK, AtMostOneAssigned
<1>9. ASSUME NEW k \in Conversation, OpenAsClient(k)
      PROVE  Goal
  BY <1>2, <1>9 DEF OpenAsClient, ConversationsTypeOK, AtMostOneAssigned
<1>10. ASSUME NEW k \in Conversation, AddConsultant(k)
       PROVE  Goal
  <2>1. opening[k] \in [stage : {"idle", "profile", "consultant"},
                        people : SUBSET (Users \cup {Client})]
    BY DEF ConversationsTypeOK
  <2>2. ConversationsTypeOK'
    BY <1>10, <2>1 DEF AddConsultant, ConversationsTypeOK
  <2>3. QED
    BY <1>2, <1>10, <2>2 DEF AddConsultant, AtMostOneAssigned
<1>11. ASSUME NEW k \in Conversation, CreateConversation(k)
       PROVE  Goal
  <2>1. opening[k].people \in SUBSET (Users \cup {Client})
    BY DEF ConversationsTypeOK
  <2>2. ConversationsTypeOK'
    BY <1>11, <2>1 DEF CreateConversation, ConversationsTypeOK, Unopened
  <2>3. QED
    BY <1>2, <1>11, <2>2 DEF CreateConversation, AtMostOneAssigned
<1>12. QED
  BY <1>1, <1>3, <1>4, <1>5, <1>6, <1>7, <1>8, <1>9, <1>10, <1>11 DEF ConversationsNext
-----------------------------------------------------------------------------
LEMMA AccessInit == Init => AccessInv
<1> SUFFICES ASSUME Init PROVE AccessInv
  OBVIOUS
<1>1. AccountsTypeOK
  <2>1. [Users -> [role : Wanted, active : {TRUE}] \cup {NoAccount}] \subseteq
        [Users -> Account \cup {NoAccount}]
    BY AccountsAssumption DEF Account
  <2>2. QED
    BY <2>1 DEF Init, AccountsInit, AccountsTypeOK
<1>2. ConversationsTypeOK /\ AtMostOneAssigned
  BY DEF Init, ConversationsInit, ConversationsTypeOK, Unopened, AtMostOneAssigned
<1>3. QED
  BY <1>1, <1>2 DEF Init, AccountsInit, AccessInv, AdministratorRemains

LEMMA AccessStep == AccessInv /\ [Next]_accessVars => AccessInv'
<1> SUFFICES ASSUME AccessInv, [Next]_accessVars PROVE AccessInv'
  OBVIOUS
<1>1. CASE part = "accounts" /\ AccountsNext /\ UNCHANGED <<conversationVars, gateVars, part>>
  <2>1. AccountsTypeOK' /\ AdministratorRemains'
    BY <1>1, AccountsStep DEF AccessInv
  <2>2. ConversationsTypeOK' /\ AtMostOneAssigned'
    BY <1>1 DEF AccessInv, conversationVars, ConversationsTypeOK, AtMostOneAssigned
  <2>3. QED
    BY <1>1, <2>1, <2>2 DEF AccessInv
<1>2. CASE part = "conversations" /\ ConversationsNext /\ UNCHANGED <<gateVars, part>>
  BY <1>2, ConversationsStep DEF AccessInv
<1>3. CASE UNCHANGED <<accountVars, conversationVars, part>>
  BY <1>3 DEF AccessInv, accountVars, conversationVars, AccountsTypeOK, ConversationsTypeOK,
     AdministratorRemains, IsAdministrator, AtMostOneAssigned
<1>4. QED
  BY <1>1, <1>2, <1>3 DEF Next, accessVars

(* The invariant of accounts, assignments and conversations. *)
THEOREM AccessInvariant == Spec => []AccessInv
<1>1. QED
  BY AccessInit, AccessStep, PTL DEF Spec

(* schema.prisma invariant 1, for any number of administrators and of      *)
(* requests that demote or deactivate them: one remains.                   *)
THEOREM AdministratorAlwaysRemains == Spec => []AdministratorRemains
<1>1. AccessInv => AdministratorRemains
  BY DEF AccessInv
<1>2. QED
  BY <1>1, AccessInvariant, PTL

(* What a staff member's list shows is what they may answer: with one      *)
(* assigned consultant, the first active row is the only one.              *)
THEOREM RepliesMatchLists == Spec => []ReplyAndReadAgree
<1>1. AccessInv => ReplyAndReadAgree
  <2> SUFFICES ASSUME AccessInv, NEW k \in Conversation, Opened(k), NEW u \in Users
               PROVE  MayReply(u, k) <=> Visible(u, k)
    BY DEF ReplyAndReadAgree
  <2>1. IsAssigned(u) <=> \E s \in assignment["CLIENT"] : s = u
    BY PostsAssumption, FirstOfOne DEF AccessInv, AtMostOneAssigned, IsAssigned
  <2>2. CASE user[u].role = "TRAVEL_CONSULTANT"
    BY <2>1, <2>2 DEF MayReply, Visible, CanAccessClient
  <2>3. CASE user[u].role = "ADMIN_MANAGER"
    BY <2>3 DEF MayReply, Visible, CanAccessClient
  <2>4. CASE user[u].role \notin {"TRAVEL_CONSULTANT", "ADMIN_MANAGER"}
    BY <2>4 DEF MayReply, Visible
  <2>5. QED
    BY <2>2, <2>3, <2>4
<1>2. QED
  BY <1>1, AccessInvariant, PTL
-----------------------------------------------------------------------------
(* The rate limit.  The windows tile the time: a time is in the window it  *)
(* is floored to, and times less than a window apart are floored to the    *)
(* same window or to the next one.                                         *)
LEMMA Floored ==
  ASSUME NEW n \in Nat, NEW w \in Nat \ {0}
  PROVE  (n \div w) * w \in Nat /\ (n \div w) * w <= n /\ n < (n \div w) * w + w
OBVIOUS

(* One window ends before the next begins. *)
LEMMA WindowsApart ==
  ASSUME NEW a \in Nat, NEW b \in Nat, NEW w \in Nat \ {0}, a < b
  PROVE  a * w + w <= b * w
<1>1. (b - a) - 1 \in Nat
  OBVIOUS
<1>2. ((b - a) - 1) * w >= 0
  BY <1>1
<1>3. QED
  BY <1>2

(* Times less than a window apart. *)
LEMMA SameOrNext ==
  ASSUME NEW w \in Nat \ {0}, NEW t \in Nat, NEW u \in Nat, t <= u, u < t + w
  PROVE  (u \div w) * w \in {(t \div w) * w, (t \div w) * w + w}
<1> DEFINE q == t \div w
           r == u \div w
<1>1. q \in Nat /\ r \in Nat
  OBVIOUS
<1>2. q * w <= t /\ t < q * w + w /\ r * w <= u /\ u < r * w + w
  BY Floored
<1> HIDE DEF q, r
<1>3. q * w \in Nat /\ r * w \in Nat /\ (q + 1) * w = q * w + w
  BY <1>1
<1>4. ~(r < q)
  <2>1. r < q => r * w + w <= q * w
    BY <1>1, WindowsApart
  <2>2. QED
    BY <1>2, <1>3, <2>1
<1>5. ~(q + 1 < r)
  <2>1. q + 1 < r => (q + 1) * w + w <= r * w
    BY <1>1, WindowsApart
  <2>2. QED
    BY <1>2, <1>3, <2>1
<1>6. r = q \/ r = q + 1
  BY <1>1, <1>4, <1>5
<1>7. r * w \in {q * w, q * w + w}
  BY <1>3, <1>6
<1>8. QED
  BY <1>7 DEF q, r

(* The times of a window, and the checks of these times that passed.  They *)
(* are within the limit, and counted, as long as a check of the window may *)
(* still come to be counted: only then can one more pass.                  *)
InWindow(k, w) == {u \in Times : FloorToWindow(u, k[1]) = w}
StillCounts(k, w) == time < w + Window[k[1]] + MaxDelay
Counted(k, w) ==
  LET P == Passes(k, InWindow(k, w)) IN
    /\ IsFiniteSet(P)
    /\ Cardinality(P) <= Limit[k[1]]
    /\ w \in Times /\ StillCounts(k, w) => Cardinality(P) <= count[k][w]

(* A check under way took its time before, and not too long ago.           *)
ClockNear(v) ==
  /\ visit[v].step \in {"counting", "cleaning"} => visit[v].now <= time
  /\ visit[v].step = "counting" => time <= visit[v].now + MaxDelay

GateInv ==
  /\ GateTypeOK
  /\ \A v \in Visits : ClockNear(v)
  /\ \A k \in Keys, w \in Nat : Counted(k, w)

(* Every limit and window is a number; every time is one of Nat.           *)
LEMMA GateNumbers ==
  /\ Times \subseteq Nat
  /\ \A k \in Keys : /\ k[1] \in Dimensions
                     /\ Limit[k[1]] \in Nat /\ Window[k[1]] \in Nat \ {0}
                     /\ MaxDelay + Window[k[1]] <= Retention
  /\ MaxDelay \in Nat /\ Retention \in Nat /\ MaxTime \in Nat
BY LimitsAssumption, RetentionAssumption DEF Times, Keys, Dimensions

(* What a check under way is about.                                        *)
LEMMA UnderWay ==
  ASSUME GateTypeOK, NEW v \in Visits, visit[v].step \in {"counting", "cleaning"}
  PROVE  /\ visit[v] \in [step : {"counting", "cleaning"}, check : Dimensions, token : Tokens,
                          now : Times, limited : BOOLEAN]
         /\ Key(v) \in Keys /\ Key(v)[1] = visit[v].check
<1>1. visit[v] \in [step : {"counting", "cleaning"}, check : Dimensions, token : Tokens,
                    now : Times, limited : BOOLEAN]
  BY DEF GateTypeOK, Reading, Away
<1>2. visit[v].check \in {"SOURCE", "TOKEN"} /\ visit[v].token \in Tokens
  BY <1>1 DEF Dimensions
<1>3. QED
  BY <1>1, <1>2 DEF Key, Keys

(* The window of a check is one of the times, and starts before it.        *)
LEMMA WindowOf ==
  ASSUME NEW k \in Keys, NEW u \in Times
  PROVE  LET w == FloorToWindow(u, k[1]) IN
           w \in Times /\ w <= u /\ u < w + Window[k[1]]
<1>1. Window[k[1]] \in Nat \ {0} /\ u \in Nat /\ u <= MaxTime /\ MaxTime \in Nat
  BY GateNumbers DEF Times
<1> DEFINE w == (u \div Window[k[1]]) * Window[k[1]]
<1>2. w \in Nat /\ w <= u /\ u < w + Window[k[1]]
  BY <1>1, Floored
<1> HIDE DEF w
<1>3. w \in Times
  BY <1>1, <1>2 DEF Times
<1>4. QED
  BY <1>2, <1>3 DEF FloorToWindow, w

(* One check more passes: one pair more, in its window only.               *)
LEMMA OnePassMore ==
  ASSUME GateTypeOK, NEW k \in Keys, NEW u \in Times,
         passed' = [passed EXCEPT ![k] = [passed[k] EXCEPT ![u] = passed[k][u] + 1]],
         NEW j \in Keys, NEW times \in SUBSET Times
  PROVE  IF j = k /\ u \in times
           THEN /\ Passes(j, times)' = Passes(j, times) \cup {<<u, passed[k][u] + 1>>}
                /\ <<u, passed[k][u] + 1>> \notin Passes(j, times)
           ELSE Passes(j, times)' = Passes(j, times)
<1>1. passed[k][u] \in Nat /\ passed[k] \in [Times -> Nat]
  BY DEF GateTypeOK
<1>2. \A t \in times : passed'[j][t] = IF j = k /\ t = u THEN passed[k][u] + 1 ELSE passed[j][t]
  BY <1>1 DEF GateTypeOK
<1>3. 1..(passed[k][u] + 1) = (1..passed[k][u]) \cup {passed[k][u] + 1}
  BY <1>1
<1>4. CASE j = k /\ u \in times
  <2>1. Passes(j, times)' = Passes(j, times) \cup {<<u, passed[k][u] + 1>>}
    <3>1. \A x : x \in Passes(j, times)'
                 <=> \E t \in times : \E n \in 1..passed'[j][t] : x = <<t, n>>
      BY DEF Passes
    <3>2. \A x : x \in Passes(j, times)
                 <=> \E t \in times : \E n \in 1..passed[j][t] : x = <<t, n>>
      BY DEF Passes
    <3>3. 1..passed'[j][u] = (1..passed[j][u]) \cup {passed[k][u] + 1}
      BY <1>2, <1>3, <1>4
    <3>4. \A t \in times \ {u} : passed'[j][t] = passed[j][t]
      BY <1>2
    <3>5. QED
      BY <1>4, <3>1, <3>2, <3>3, <3>4
  <2>2. <<u, passed[k][u] + 1>> \notin Passes(j, times)
    BY <1>1, <1>4 DEF Passes
  <2>3. QED
    BY <1>4, <2>1, <2>2
<1>5. CASE ~(j = k /\ u \in times)
  <2>1. \A t \in times : passed'[j][t] = passed[j][t]
    BY <1>2, <1>5
  <2>2. QED
    BY <1>5, <2>1 DEF Passes
<1>6. QED
  BY <1>4, <1>5

(* Nothing has been counted at first.                                      *)
LEMMA GateInitially == GateInit => GateInv
<1> SUFFICES ASSUME GateInit PROVE GateInv
  OBVIOUS
<1>1. GateTypeOK /\ \A v \in Visits : ClockNear(v)
  BY GateNumbers DEF GateInit, GateTypeOK, ClockNear, Away, Times
<1>2. ASSUME NEW k \in Keys, NEW w \in Nat PROVE Counted(k, w)
  <2>1. Passes(k, InWindow(k, w)) = {}
    BY <1>2 DEF Passes, InWindow, GateInit
  <2>2. IsFiniteSet({}) /\ Cardinality({}) = 0
    BY FS_EmptySet
  <2>3. w \in Times => count[k][w] = 0
    BY <1>2 DEF GateInit
  <2>4. QED
    BY <2>1, <2>2, <2>3, GateNumbers DEF Counted
<1>3. QED
  BY <1>1, <1>2 DEF GateInv

(* The upsert counts every check that passes, in the window of its time.   *)
LEMMA IncrementKeeps ==
  ASSUME GateInv, NEW v \in Visits, IncrementAndCheck(v)
  PROVE  GateInv'
<1> DEFINE d == visit[v].check
           u == visit[v].now
           k == Key(v)
           w == FloorToWindow(u, d)
           limited == Exceeds(Incremented(v), d)
<1>1. /\ visit[v].step = "counting" /\ GateTypeOK /\ UNCHANGED time
      /\ k \in Keys /\ k[1] = d /\ d \in Dimensions /\ u \in Times /\ visit[v].token \in Tokens
      /\ time <= u + MaxDelay
  BY UnderWay DEF IncrementAndCheck, GateInv, ClockNear
<1>2. w \in Times /\ u < w + Window[d] /\ w <= u
  BY <1>1, WindowOf
<1>3. /\ count[k][w] \in Nat /\ count[k][w] <= Limit[d] + 1 /\ Limit[d] \in Nat
      /\ count \in [Keys -> [Times -> Nat]]
  BY <1>1, <1>2, GateNumbers DEF GateTypeOK
<1>4. /\ Incremented(v) \in Nat /\ Incremented(v) <= Limit[d] + 1
      /\ count[k][w] <= Incremented(v)
      /\ ~limited => Incremented(v) = count[k][w] + 1 /\ Incremented(v) <= Limit[d]
  BY <1>3 DEF Incremented, UpTo, Exceeds
<1>5. count' = [count EXCEPT ![k] = [count[k] EXCEPT ![w] = Incremented(v)]]
  BY DEF IncrementAndCheck
<1>6. \/ limited /\ passed' = passed
      \/ ~limited /\ passed' = [passed EXCEPT ![k] = [passed[k] EXCEPT ![u] = passed[k][u] + 1]]
  BY DEF IncrementAndCheck
<1>7. /\ limited \in BOOLEAN
      /\ \/ visit' = [visit EXCEPT ![v] = [visit[v] EXCEPT !.step = "cleaning", !.limited = limited]]
         \/ visit' = [visit EXCEPT ![v] = Decided(v, limited)]
  <2>1. limited \in BOOLEAN
    BY DEF Exceeds
  <2>2. visit = [x \in Visits |-> visit[x]]
    BY <1>1 DEF GateTypeOK
  <2>3. QED
    BY <2>1, <2>2 DEF IncrementAndCheck
<1>8. \A j \in Keys, t \in Times :
        count'[j][t] = IF j = k /\ t = w THEN Incremented(v) ELSE count[j][t]
  BY <1>1, <1>2, <1>3, <1>5
<1> HIDE DEF limited
<1>9. GateTypeOK'
  <2>1. count' \in [Keys -> [Times -> Nat]]
    BY <1>1, <1>2, <1>3, <1>4, <1>5
  <2>2. \A j \in Keys, t \in Times : count'[j][t] <= Limit[j[1]] + 1
    BY <1>1, <1>4, <1>8 DEF GateTypeOK
  <2>3. passed' \in [Keys -> [Times -> Nat]]
    <3>1. passed \in [Keys -> [Times -> Nat]] /\ passed[k] \in [Times -> Nat] /\ passed[k][u] \in Nat
      BY <1>1 DEF GateTypeOK
    <3>2. [passed[k] EXCEPT ![u] = passed[k][u] + 1] \in [Times -> Nat]
      BY <1>1, <3>1
    <3>3. QED
      BY <1>1, <1>6, <3>1, <3>2
  <2>4. visit' \in [Visits -> [step : {"counting", "cleaning"}, check : Dimensions,
                               token : Tokens, now : Times, limited : BOOLEAN]
                              \cup {Reading(t) : t \in Tokens} \cup {Away}]
    <3>1. [visit[v] EXCEPT !.step = "cleaning", !.limited = limited]
            \in [step : {"counting", "cleaning"}, check : Dimensions,
                 token : Tokens, now : Times, limited : BOOLEAN]
      BY <1>1, <1>7, UnderWay
    <3>2. Decided(v, limited) \in {Reading(t) : t \in Tokens} \cup {Away}
      BY <1>1 DEF Decided
    <3>3. QED
      BY <1>1, <1>7, <3>1, <3>2 DEF GateTypeOK
  <2>5. QED
    BY <1>1, <2>1, <2>2, <2>3, <2>4 DEF GateTypeOK
<1>10. \A x \in Visits : ClockNear(x)'
  <2>1. visit[v] \in [step : {"counting", "cleaning"}, check : Dimensions, token : Tokens,
                      now : Times, limited : BOOLEAN]
    BY <1>1, UnderWay
  <2>2. Decided(v, limited).step \in {"away", "reading"}
    BY DEF Decided, Away, Reading
  <2>3. QED
    BY <1>1, <1>7, <2>1, <2>2 DEF GateInv, GateTypeOK, ClockNear
<1>11. ASSUME NEW j \in Keys, NEW x \in Nat PROVE Counted(j, x)'
  <2> DEFINE P == Passes(j, InWindow(j, x))
  <2>1. /\ IsFiniteSet(P) /\ Cardinality(P) <= Limit[j[1]] /\ Cardinality(P) \in Nat
        /\ x \in Times /\ StillCounts(j, x) => Cardinality(P) <= count[j][x]
    BY FS_CardinalityType DEF GateInv, Counted
  <2>2. (InWindow(j, x))' = InWindow(j, x) /\ StillCounts(j, x)' = StillCounts(j, x)
    BY <1>1 DEF InWindow, StillCounts
  <2>3. x \in Times => count[j][x] <= count'[j][x]
    BY <1>3, <1>4, <1>8 DEF GateTypeOK
  <2>4. CASE (Passes(j, InWindow(j, x)))' = P
    <3>1. x \in Times => count[j][x] \in Nat /\ count'[j][x] \in Nat
      BY <1>1, <1>9 DEF GateTypeOK
    <3>2. QED
      BY <2>1, <2>2, <2>3, <2>4, <3>1 DEF Counted
  <2>5. CASE ~limited /\ j = k /\ u \in InWindow(j, x)
    <3>1. x = w /\ StillCounts(j, x)
      <4>1. x = w
        BY <1>1, <2>5 DEF InWindow
      <4>2. Window[d] \in Nat /\ MaxDelay \in Nat /\ time \in Nat /\ u \in Nat /\ w \in Nat
        BY <1>1, <1>2, GateNumbers DEF GateTypeOK
      <4>3. QED
        BY <1>1, <1>2, <2>5, <4>1, <4>2 DEF StillCounts
    <3>2. /\ (Passes(j, InWindow(j, x)))' = P \cup {<<u, passed[k][u] + 1>>}
          /\ <<u, passed[k][u] + 1>> \notin P
      BY <1>1, <1>6, <2>2, <2>5, OnePassMore DEF InWindow, Passes
    <3>3. /\ IsFiniteSet(P \cup {<<u, passed[k][u] + 1>>})
          /\ Cardinality(P \cup {<<u, passed[k][u] + 1>>}) = Cardinality(P) + 1
      BY <2>1, <3>2, FS_AddElement
    <3>4. Cardinality(P) <= count[k][w] /\ count'[k][w] = count[k][w] + 1 /\ count'[k][w] <= Limit[d]
      BY <1>1, <1>2, <1>4, <1>8, <2>1, <2>5, <3>1
    <3>5. QED
      BY <1>1, <1>3, <2>1, <2>5, <3>1, <3>2, <3>3, <3>4 DEF Counted
  <2>6. CASE limited \/ j # k \/ u \notin InWindow(j, x)
    <3>1. (Passes(j, InWindow(j, x)))' = P
      <4>1. CASE passed' = passed
        BY <2>2, <4>1 DEF Passes
      <4>2. CASE passed' # passed
        <5>1. ~limited /\ ~(j = k /\ u \in InWindow(j, x))
          BY <1>6, <2>6, <4>2
        <5>2. \A t \in InWindow(j, x) : passed'[j][t] = passed[j][t]
          <6>1. ASSUME NEW t \in InWindow(j, x) PROVE passed'[j][t] = passed[j][t]
            <7>1. t \in Times /\ passed[k] \in [Times -> Nat] /\ passed \in [Keys -> [Times -> Nat]]
              BY <1>1 DEF InWindow, GateTypeOK
            <7>2. passed'[j] = IF j = k THEN [passed[k] EXCEPT ![u] = passed[k][u] + 1] ELSE passed[j]
              BY <1>6, <5>1, <7>1
            <7>3. QED
              BY <5>1, <7>1, <7>2
          <6>2. QED
            BY <6>1
        <5>3. QED
          BY <2>2, <5>2 DEF Passes
      <4>3. QED
        BY <4>1, <4>2
    <3>2. QED
      BY <2>4, <3>1
  <2>7. QED
    BY <2>5, <2>6
<1>12. QED
  BY <1>9, <1>10, <1>11 DEF GateInv

(* No row is deleted of a window that may still be counted in.             *)
LEMMA CleanUpKeeps ==
  ASSUME GateInv, NEW v \in Visits, CleanUp(v)
  PROVE  GateInv'
<1>1. /\ visit[v].step = "cleaning" /\ GateTypeOK /\ UNCHANGED <<time, passed>>
      /\ visit[v].now \in Times /\ visit[v].now <= time /\ visit[v].token \in Tokens
      /\ time \in Nat
  BY UnderWay, GateNumbers DEF CleanUp, GateInv, ClockNear, GateTypeOK
<1>2. \A k \in Keys, w \in Times :
        count'[k][w] = IF Expired(w, visit[v].now) THEN 0 ELSE count[k][w]
  BY DEF CleanUp
<1>3. GateTypeOK'
  <2>1. count' \in [Keys -> [Times -> Nat]]
    BY <1>1 DEF CleanUp, GateTypeOK
  <2>2. \A k \in Keys, w \in Times : count'[k][w] <= Limit[k[1]] + 1
    BY <1>1, <1>2, GateNumbers DEF GateTypeOK
  <2>3. Decided(v, visit[v].limited) \in {Reading(t) : t \in Tokens} \cup {Away}
    BY <1>1 DEF Decided
  <2>4. QED
    BY <1>1, <2>1, <2>2, <2>3 DEF CleanUp, GateTypeOK
<1>4. \A x \in Visits : ClockNear(x)'
  BY <1>1 DEF CleanUp, GateInv, GateTypeOK, ClockNear, Decided, Away, Reading
<1>5. ASSUME NEW k \in Keys, NEW w \in Nat PROVE Counted(k, w)'
  <2>1. Counted(k, w) /\ Passes(k, InWindow(k, w))' = Passes(k, InWindow(k, w))
        /\ StillCounts(k, w)' = StillCounts(k, w)
    BY <1>1 DEF GateInv, Passes, InWindow, StillCounts
  <2>2. w \in Times /\ StillCounts(k, w) => ~Expired(w, visit[v].now)
    <3>1. /\ Window[k[1]] \in Nat /\ MaxDelay \in Nat /\ Retention \in Nat
          /\ MaxDelay + Window[k[1]] <= Retention /\ visit[v].now \in Nat
      BY <1>1, GateNumbers
    <3>2. QED
      BY <1>1, <3>1 DEF StillCounts, Expired
  <2>3. QED
    BY <1>2, <2>1, <2>2 DEF Counted
<1>6. QED
  BY <1>3, <1>4, <1>5 DEF GateInv

(* The other steps count nothing: the time passes, a check takes its time, *)
(* a request leaves.                                                       *)
LEMMA UncountedKeeps ==
  ASSUME GateInv, UNCHANGED <<count, passed>>, GateTypeOK', time <= time',
         \A v \in Visits : ClockNear(v)'
  PROVE  GateInv'
<1>1. ASSUME NEW k \in Keys, NEW w \in Nat PROVE Counted(k, w)'
  <2>1. Counted(k, w) /\ Passes(k, InWindow(k, w))' = Passes(k, InWindow(k, w))
    BY DEF GateInv, Passes, InWindow
  <2>2. StillCounts(k, w)' => StillCounts(k, w)
    <3>1. Window[k[1]] \in Nat /\ MaxDelay \in Nat /\ time \in Nat /\ time' \in Nat
      BY GateNumbers DEF GateInv, GateTypeOK
    <3>2. QED
      BY <3>1 DEF StillCounts
  <2>3. QED
    BY <2>1, <2>2 DEF Counted
<1>2. QED
  BY <1>1 DEF GateInv

(* Every step of the gate keeps what it counts. *)
LEMMA GateStep == GateInv /\ [GateNext]_gateVars => GateInv'
<1> SUFFICES ASSUME GateInv, [GateNext]_gateVars PROVE GateInv'
  OBVIOUS
<1>1. GateTypeOK /\ time \in Nat /\ MaxDelay \in Nat /\ \A v \in Visits : ClockNear(v)
  BY GateNumbers DEF GateInv, GateTypeOK
<1>2. CASE Tick
  <2>1. GateTypeOK' /\ time <= time'
    BY <1>1, <1>2, GateNumbers DEF Tick, GateTypeOK, Times
  <2>2. ASSUME NEW v \in Visits PROVE ClockNear(v)'
    <3>1. visit[v].step \in {"counting", "cleaning"} => visit[v].now \in Nat
      BY <1>1, UnderWay, GateNumbers
    <3>2. QED
      BY <1>1, <1>2, <3>1 DEF Tick, ClockNear
  <2>3. QED
    BY <1>2, <2>1, <2>2, UncountedKeeps DEF Tick
<1>3. ASSUME NEW v \in Visits, NEW t \in Tokens, NEW d \in Dimensions, Start(v, d, t)
      PROVE  GateInv'
  <2>1. GateTypeOK' /\ time' = time
    BY <1>1, <1>3 DEF Start, GateTypeOK
  <2>2. \A x \in Visits : ClockNear(x)'
    BY <1>1, <1>3 DEF Start, GateTypeOK, ClockNear
  <2>3. QED
    BY <1>1, <1>3, <2>1, <2>2, UncountedKeeps DEF Start
<1>4. ASSUME NEW v \in Visits, CheckToken(v)
      PROVE  GateInv'
  <2>1. visit[v].token \in Tokens
    BY <1>1, <1>4 DEF CheckToken, GateTypeOK, Reading, Away
  <2>2. QED
    BY <1>3, <1>4, <2>1 DEF CheckToken, Dimensions
<1>5. ASSUME NEW v \in Visits, RefuseBody(v)
      PROVE  GateInv'
  <2>1. GateTypeOK' /\ time' = time /\ \A x \in Visits : ClockNear(x)'
    BY <1>1, <1>5 DEF RefuseBody, GateTypeOK, ClockNear, Away
  <2>2. QED
    BY <1>1, <1>5, <2>1, UncountedKeeps DEF RefuseBody
<1>6. CASE UNCHANGED gateVars
  <2>1. GateTypeOK' /\ time' = time /\ \A x \in Visits : ClockNear(x)'
    BY <1>1, <1>6 DEF gateVars, GateTypeOK, ClockNear
  <2>2. QED
    BY <1>1, <1>6, <2>1, UncountedKeeps DEF gateVars
<1>7. QED
  BY <1>2, <1>3, <1>4, <1>5, <1>6, IncrementKeeps, CleanUpKeeps DEF GateNext, CheckSource, Dimensions

(* Two windows cover an interval of a window's length.                     *)
LEMMA TwoWindows ==
  ASSUME GateInv
  PROVE  NeverMoreThanTwice
<1> SUFFICES ASSUME NEW k \in Keys, NEW t \in Times
             PROVE  Cardinality(Passes(k, {u \in Times : t <= u /\ u < t + Window[k[1]]}))
                      <= 2 * Limit[k[1]]
  BY DEF NeverMoreThanTwice
<1> DEFINE w == FloorToWindow(t, k[1])
           near == {u \in Times : t <= u /\ u < t + Window[k[1]]}
           P == Passes(k, InWindow(k, w))
           Q == Passes(k, InWindow(k, w + Window[k[1]]))
<1>1. w \in Nat /\ w + Window[k[1]] \in Nat /\ Limit[k[1]] \in Nat
  BY WindowOf, GateNumbers
<1>2. near \subseteq InWindow(k, w) \cup InWindow(k, w + Window[k[1]])
  <2>1. ASSUME NEW u \in near
        PROVE  FloorToWindow(u, k[1]) \in {w, w + Window[k[1]]}
    <3>1. u \in Nat /\ t \in Nat /\ Window[k[1]] \in Nat \ {0} /\ t <= u /\ u < t + Window[k[1]]
      BY <2>1, GateNumbers
    <3>2. QED
      BY <3>1, SameOrNext DEF FloorToWindow
  <2>2. QED
    BY <2>1 DEF InWindow
<1>3. Passes(k, near) \subseteq P \cup Q
  BY <1>2 DEF Passes
<1>4. /\ IsFiniteSet(P) /\ IsFiniteSet(Q)
      /\ Cardinality(P) <= Limit[k[1]] /\ Cardinality(Q) <= Limit[k[1]]
  BY <1>1 DEF GateInv, Counted
<1> HIDE DEF P, Q, near
<1>5. /\ IsFiniteSet(P \cup Q)
      /\ Cardinality(P \cup Q) = Cardinality(P) + Cardinality(Q) - Cardinality(P \cap Q)
      /\ Cardinality(P) \in Nat /\ Cardinality(Q) \in Nat /\ Cardinality(P \cap Q) \in Nat
  BY <1>4, FS_Union, FS_Intersection, FS_CardinalityType
<1>6. Cardinality(Passes(k, near)) <= Cardinality(P \cup Q) /\ Cardinality(Passes(k, near)) \in Nat
  BY <1>3, <1>5, FS_Subset, FS_CardinalityType
<1>7. QED
  BY <1>1, <1>4, <1>5, <1>6 DEF near

(* However checks are delayed, whatever is cleaned up and however many     *)
(* requests and tokens there are: never more than twice the limit.         *)
THEOREM LimitHolds == Spec => []NeverMoreThanTwice
<1>1. Init => GateInv
  BY GateInitially DEF Init
<1>2. GateInv /\ [Next]_accessVars => GateInv'
  BY GateStep DEF Next, accessVars, gateVars
<1>3. GateInv => NeverMoreThanTwice
  BY TwoWindows
<1>4. QED
  BY <1>1, <1>2, <1>3, PTL DEF Spec

=============================================================================
