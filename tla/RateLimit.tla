------------------------------ MODULE RateLimit ------------------------------
(***************************************************************************)
(* The rate limit of the activation routes (activation/rate-limit.ts): a   *)
(* count per key and fixed window.  A check takes the time, and later its  *)
(* upsert increments the count of the window of that time; some checks     *)
(* then delete the windows that started more than the retention ago.       *)
(***************************************************************************)
EXTENDS Integers, FiniteSets

CONSTANTS
  Tokens,        \* token digests presented
  Visits,        \* POST requests in flight; bounds how many
  Limit,         \* SOURCE_LIMIT and TOKEN_LIMIT
  Window,        \* SOURCE_WINDOW_MS and TOKEN_WINDOW_MS, in ticks
  Retention,     \* RETENTION_MS, in ticks
  MaxDelay,      \* how long a check may wait for its upsert, in ticks
  MaxTime        \* bound

VARIABLES
  time,
  count,   \* RateLimitBucket rows: the count of each key and window, 0 where there is none
  visit,   \* requests on their way through the two checks
  passed   \* history: for each key and time, the checks of that time that passed

gateVars == <<time, count, visit, passed>>
-----------------------------------------------------------------------------
Dimensions == {"SOURCE", "TOKEN"}

ASSUME LimitsAssumption ==
  /\ MaxTime \in Nat /\ MaxDelay \in Nat /\ Retention \in Nat
  /\ \A d \in Dimensions : Limit[d] \in Nat /\ Window[d] \in Nat \ {0}

(* "so a row is never deleted while it could still be receiving            *)
(* increments"                                                             *)
ASSUME RetentionAssumption == \A d \in Dimensions : MaxDelay + Window[d] <= Retention

Times == 0..MaxTime
Keys == {<<"SOURCE", "unknown-source">>} \cup ({"TOKEN"} \X Tokens)
FloorToWindow(now, d) == (now \div Window[d]) * Window[d]

Away == [step |-> "away"]
Reading(t) == [step |-> "reading", token |-> t]
GateTypeOK ==
  /\ time \in Times
  /\ count \in [Keys -> [Times -> Nat]]
  /\ \A k \in Keys, t \in Times : count[k][t] <= Limit[k[1]] + 1
  /\ passed \in [Keys -> [Times -> Nat]]
  /\ visit \in [Visits -> [step : {"counting", "cleaning"}, check : Dimensions, token : Tokens,
                           now : Times, limited : BOOLEAN]
                          \cup {Reading(t) : t \in Tokens} \cup {Away}]

GateInit ==
  /\ time = 0
  /\ count = [k \in Keys |-> [t \in Times |-> 0]]
  /\ visit = [v \in Visits |-> Away]
  /\ passed = [k \in Keys |-> [t \in Times |-> 0]]
-----------------------------------------------------------------------------
Tick ==
  /\ time < MaxTime
  /\ \A v \in Visits : visit[v].step = "counting" => time < visit[v].now + MaxDelay
  /\ time' = time + 1
  /\ UNCHANGED <<count, visit, passed>>

(* The routes trust no header: every request has the one unknown source.   *)
(* Its origin, content type and declared length have been accepted.  Once  *)
(* its body is read and parsed, its token is checked.                      *)
Start(v, dimension, t) ==
  /\ visit' = [visit EXCEPT ![v] = [step |-> "counting", check |-> dimension, token |-> t,
                                    now |-> time, limited |-> FALSE]]
  /\ UNCHANGED <<time, count, passed>>
CheckSource(v, t) == visit[v] = Away /\ Start(v, "SOURCE", t)
CheckToken(v) == visit[v].step = "reading" /\ Start(v, "TOKEN", visit[v].token)

Key(v) == IF visit[v].check = "SOURCE" THEN <<"SOURCE", "unknown-source">>
          ELSE <<"TOKEN", visit[v].token>>

(* After a check the request goes on, or leaves: limited, or answered.     *)
Decided(v, limited) ==
  IF limited \/ visit[v].check = "TOKEN" THEN Away ELSE Reading(visit[v].token)

(* incrementAndCheck: one INSERT ... ON CONFLICT DO UPDATE ... RETURNING.  *)
(* Counts over the limit are all alike.  Then cleanup runs, or not.        *)
UpTo(n, max) == IF n > max THEN max ELSE n
Incremented(v) == UpTo(count[Key(v)][FloorToWindow(visit[v].now, visit[v].check)] + 1,
                       Limit[visit[v].check] + 1)
ExceedsByOne(n, d) == n > Limit[d] + 1
Exceeds(n, d) == n > Limit[d]
IncrementAndCheck(v) ==
  LET limited == Exceeds(Incremented(v), visit[v].check) IN
  /\ visit[v].step = "counting"
  /\ count' = [count EXCEPT ![Key(v)][FloorToWindow(visit[v].now, visit[v].check)] = Incremented(v)]
  /\ passed' = IF limited THEN passed
               ELSE [passed EXCEPT ![Key(v)][visit[v].now] = @ + 1]
  /\ \/ visit' = [visit EXCEPT ![v].step = "cleaning", ![v].limited = limited]
     \/ visit' = [visit EXCEPT ![v] = Decided(v, limited)]
  /\ UNCHANGED time

(* cleanupExpiredBuckets, with the time of the check it follows *)
Expired(w, now) == w + Retention < now
CleanUp(v) ==
  /\ visit[v].step = "cleaning"
  /\ count' = [k \in Keys |-> [w \in Times |->
                IF Expired(w, visit[v].now) THEN 0 ELSE count[k][w]]]
  /\ visit' = [visit EXCEPT ![v] = Decided(v, visit[v].limited)]
  /\ UNCHANGED <<time, passed>>

(* A body that is too long or not valid is refused before its token counts. *)
RefuseBody(v) ==
  /\ visit[v].step = "reading"
  /\ visit' = [visit EXCEPT ![v] = Away]
  /\ UNCHANGED <<time, count, passed>>

GateNext ==
  \/ Tick
  \/ \E v \in Visits :
       \/ \E t \in Tokens : CheckSource(v, t)
       \/ CheckToken(v) \/ IncrementAndCheck(v) \/ CleanUp(v) \/ RefuseBody(v)
-----------------------------------------------------------------------------
(* The checks that passed among those made at the given times. *)
Passes(k, times) == UNION {{u} \X (1..passed[k][u]) : u \in times}

(* Fixed windows let through twice the limit around a boundary, and never  *)
(* more, in any interval of a window's length, however the checks that     *)
(* took their time in it are delayed, and whichever rows are cleaned up.   *)
NeverMoreThanTwice ==
  \A k \in Keys, t \in Times :
    Cardinality(Passes(k, {u \in Times : t <= u /\ u < t + Window[k[1]]})) <= 2 * Limit[k[1]]

=============================================================================
