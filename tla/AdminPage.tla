------------------------------ MODULE AdminPage ------------------------------
(***************************************************************************)
(* What every panel of the admin pages lives in: one record on the server, *)
(* the page rendered from it, the requests the panel sends with fetch, and *)
(* router.refresh, which reads the record again and hands the panel new    *)
(* props, in order.  Other people change the record at any time, and so    *)
(* does a request whose answer this page has stopped waiting for.  A       *)
(* reload is a new page: Init, with others doing the rest.                 *)
(***************************************************************************)
EXTENDS Naturals

CONSTANTS
  Calls,       \* requests; bounds how many one page sends
  MaxVersion,  \* bound on the changes made to the record
  None

ASSUME NoneIsNoCall == None \notin Calls

VARIABLES
  row,      \* the record; at stands for its updatedAt
  props,    \* the record as the page's last render shows it
  asked,    \* a refresh was asked for and has not read the record yet
  reading,  \* what a refresh has read, until it is rendered
  call,     \* the requests
  current   \* the request the panel waits for, None when it may submit

pageVars == <<row, props, asked, reading, call, current>>
-----------------------------------------------------------------------------
Unsent == [stage |-> "unsent"]
Over == [stage |-> "over"]
InStage(c, s) == call[c].stage = s

PageInit(values) ==
  /\ row \in [value : values, at : {0}]
  /\ props = row
  /\ asked = FALSE /\ reading = None
  /\ call = [c \in Calls |-> Unsent]
  /\ current = None

(* fetch: sent, served at some time, answered once or never. *)
Send(c, ask) ==
  /\ current = None /\ call[c] = Unsent
  /\ call' = [call EXCEPT ![c] = [stage |-> "sent", ask |-> ask]]
  /\ current' = c
Answer(c, answer) ==
  call' = [call EXCEPT ![c] = IF current = c
                              THEN [stage |-> "answered", ask |-> call[c].ask, answer |-> answer]
                              ELSE Over]
Awaits(c) == current = c /\ InStage(c, "answered")
Finish(c) ==
  /\ call' = [call EXCEPT ![c] = Over]
  /\ current' = None

(* The catch of every submit handler, and a body it does not recognize:    *)
(* whether the server has acted, or will, the panel does not know.         *)
LoseAnswer(c) ==
  /\ current = c
  /\ call' = [call EXCEPT ![c] = IF InStage(c, "answered") THEN Over ELSE @]
  /\ current' = None
  /\ UNCHANGED <<row, props, asked, reading>>

(* A change of the record; updatedAt moves with it. *)
Update(value) ==
  /\ row.at < MaxVersion
  /\ row' = [value |-> value, at |-> row.at + 1]

(* router.refresh: reads are made one after the other. *)
Ask == asked' = TRUE
ReadPage ==
  /\ asked /\ reading = None
  /\ reading' = row /\ asked' = FALSE
  /\ UNCHANGED <<row, props, call, current>>
Render ==
  /\ reading # None
  /\ props' = reading /\ reading' = None

(* Another panel of the page has succeeded. *)
NeighbourAsks ==
  /\ ~asked
  /\ Ask
  /\ UNCHANGED <<row, props, reading, call, current>>

=============================================================================
