---------------------------- MODULE PanelsProofs ----------------------------
(***************************************************************************)
(* What module AdminPanels promises, proved for every set of requests,     *)
(* fields, texts, clients, responses, assignees and contacts and every     *)
(* number of changes: the forms, the panels of one action and the page that*)
(* takes in leads each have an invariant of what their requests know of the*)
(* record, and PanelsInv joins them.                                       *)
(***************************************************************************)
EXTENDS AdminPanels, TLAPS

(* Calls are rows of their own: what happens to one leaves the others.      *)
CallsApart == call = [c \in Calls |-> call[c]]

-----------------------------------------------------------------------------
(* The edit forms.  What a form has seen of the record is the record       *)
(* itself, unless somebody has changed it since.                           *)
IsData(data) == data = [f \in Fields |-> data[f]]
SeenAs(at, data) ==
  /\ at \in 0..row.at /\ IsData(data)
  /\ at = row.at => data = row.value.data

(* What a request of the form is about, and what its answer says.          *)
FormAsk(c) ==
  InStage(c, "sent") =>
    /\ SeenAs(call[c].ask.token, call[c].ask.seen)
    /\ DOMAIN call[c].ask.patch \subseteq call[c].ask.touched
FormAnswer(c) ==
  InStage(c, "answered") /\ call[c].answer.kind = "ok" =>
    SeenAs(call[c].answer.row.at, call[c].answer.row.value.data)

FormRecord ==
  /\ row = [value |-> [data |-> row.value.data, converted |-> row.value.converted], at |-> row.at]
  /\ row.at \in Nat /\ IsData(row.value.data)
FormInputs ==
  /\ SeenAs(token, baseline) /\ IsData(fields)
  /\ \A f \in Fields : fields[f] # baseline[f] => f \in touched
FormPage ==
  /\ SeenAs(props.at, props.value.data)
  /\ reading # None => SeenAs(reading.at, reading.value.data)
FormInv ==
  /\ CallsApart /\ form \in {"client", "lead"}
  /\ FormRecord /\ FormInputs /\ FormPage
  /\ \A c \in Calls : FormAsk(c) /\ FormAnswer(c)

(* A form starts from the record as it is, with no request.                *)
LEMMA FormInitially == EditInit => FormInv
<1> SUFFICES ASSUME EditInit PROVE FormInv
  OBVIOUS
<1>1. /\ row \in [value : [data : Contents, converted : {FALSE}], at : {0}]
      /\ props = row /\ reading = None /\ call = [c \in Calls |-> Unsent]
      /\ fields = row.value.data /\ baseline = row.value.data /\ token = row.at
      /\ form \in {"client", "lead"}
  BY DEF EditInit, PageInit
<1>2. FormRecord /\ 0 \in 0..row.at /\ row.at = 0
  BY <1>1 DEF FormRecord, IsData, Contents
<1>3. FormInputs /\ FormPage
  BY <1>1, <1>2 DEF FormInputs, FormPage, SeenAs, FormRecord
<1>4. QED
  BY <1>1, <1>2, <1>3 DEF FormInv, CallsApart, FormAsk, FormAnswer, InStage, Unsent

(* A change of the record makes what was seen of it older, not wrong.      *)
Later == row.at \in Nat /\ (row' = row \/ row'.at = row.at + 1)

(* What was seen of the record was seen of a version before or at the      *)
(* present one.                                                            *)
LEMMA SeenLater ==
  ASSUME Later, NEW at, NEW data, SeenAs(at, data)
  PROVE  at \in 0..row'.at /\ IsData(data) /\ (at = row'.at => data = row'.value.data)
BY DEF Later, SeenAs

(* The page has seen no later version than the record has.                 *)
LEMMA PageLater ==
  ASSUME FormPage, Later, UNCHANGED <<props, reading>>
  PROVE  FormPage'
BY SeenLater DEF FormPage, SeenAs, IsData

(* Nor do the inputs of a form come from a later one.                      *)
LEMMA InputsLater ==
  ASSUME FormInputs, Later, UNCHANGED <<fields, baseline, token, touched>>
  PROVE  FormInputs'
BY SeenLater DEF FormInputs, SeenAs, IsData

(* Nor does what a request names or an answer shows, if it is still about. *)
LEMMA CallLater ==
  ASSUME Later, NEW c \in Calls, FormAsk(c), FormAnswer(c),
         call'[c] = call[c] \/ call'[c].stage \notin {"sent", "answered"}
  PROVE  FormAsk(c)' /\ FormAnswer(c)'
<1>1. CASE call'[c] = call[c]
  <2>1. FormAsk(c)'
    <3>1. InStage(c, "sent") => /\ SeenAs(call[c].ask.token, call[c].ask.seen)
                                /\ DOMAIN call[c].ask.patch \subseteq call[c].ask.touched
      BY DEF FormAsk
    <3>2. QED
      BY <1>1, <3>1, SeenLater DEF FormAsk, SeenAs, IsData, InStage
  <2>2. FormAnswer(c)'
    BY <1>1, SeenLater DEF FormAnswer, SeenAs, IsData, InStage
  <2>3. QED
    BY <2>1, <2>2
<1>2. CASE call'[c].stage \notin {"sent", "answered"}
  BY <1>2 DEF FormAsk, FormAnswer, InStage
<1>3. QED
  BY <1>1, <1>2

(* What the server answers a request with becomes what it is about.        *)
LEMMA Answered ==
  ASSUME CallsApart, NEW c \in Calls, NEW answer, Answer(c, answer)
  PROVE  /\ CallsApart'
         /\ \A d \in Calls \ {c} : call'[d] = call[d]
         /\ call'[c] = IF current = c
                       THEN [stage |-> "answered", ask |-> call[c].ask, answer |-> answer]
                       ELSE Over
BY DEF CallsApart, Answer

(* A request that was answered is on its way no more.                      *)
LEMMA AnsweredLeaves ==
  ASSUME CallsApart, NEW c \in Calls, NEW answer, Answer(c, answer)
  PROVE  ~InStage(c, "sent")'
<1>1. call'[c] = IF current = c
                 THEN [stage |-> "answered", ask |-> call[c].ask, answer |-> answer]
                 ELSE Over
  BY Answered
<1>2. QED
  BY <1>1 DEF InStage, Over

(* A request that is sent, whose answer has come, or is given up.          *)
LEMMA SentOne ==
  ASSUME CallsApart, NEW c \in Calls, NEW ask, Send(c, ask)
  PROVE  /\ CallsApart' /\ \A d \in Calls \ {c} : call'[d] = call[d]
         /\ call'[c] = [stage |-> "sent", ask |-> ask]
BY DEF CallsApart, Send

(* The panel takes in the answer it has waited for.                        *)
LEMMA FinishedOne ==
  ASSUME CallsApart, NEW c \in Calls, Finish(c)
  PROVE  /\ CallsApart' /\ \A d \in Calls \ {c} : call'[d] = call[d]
         /\ call'[c] = Over
BY DEF CallsApart, Finish

(* The panel gives up waiting for an answer.                               *)
LEMMA LostOne ==
  ASSUME CallsApart, NEW c \in Calls, LoseAnswer(c)
  PROVE  /\ CallsApart' /\ \A d \in Calls \ {c} : call'[d] = call[d]
         /\ call'[c] \in {call[c], Over}
BY DEF CallsApart, LoseAnswer

(* A save: the record holds what it held but for the fields of the patch,  *)
(* and the answer shows the record.                                        *)
LEMMA WriteKeeps ==
  ASSUME FormInv, NEW c \in Calls, Write(c)
  PROVE  FormInv'
<1> DEFINE data == Merged(row.value.data, call[c].ask.patch)
           new == [row.value EXCEPT !.data = data]
<1>1. /\ IF new = row.value THEN UNCHANGED row ELSE row' = [value |-> new, at |-> row.at + 1]
      /\ Answer(c, [kind |-> "ok", row |-> row'])
      /\ UNCHANGED <<props, asked, reading, current, form, fields, baseline, token, lock, touched>>
  BY DEF Write, Update, formVars
<1>2. FormRecord /\ CallsApart
  BY DEF FormInv
<1>3. new = [data |-> data, converted |-> row.value.converted] /\ IsData(data)
  BY <1>2 DEF FormRecord, IsData, Merged
<1> HIDE DEF data
<1>4. Later /\ FormRecord'
  BY <1>1, <1>2, <1>3 DEF Later, FormRecord, IsData
<1>5. FormInputs' /\ FormPage'
  BY <1>1, <1>4, InputsLater, PageLater DEF FormInv
<1>6. /\ CallsApart' /\ \A d \in Calls \ {c} : call'[d] = call[d]
      /\ call'[c] = IF current = c
                    THEN [stage |-> "answered", ask |-> call[c].ask,
                          answer |-> [kind |-> "ok", row |-> row']]
                    ELSE Over
  BY <1>1, <1>2, Answered
<1>7. FormAsk(c)' /\ FormAnswer(c)'
  <2>1. /\ row'.at \in 0..row'.at /\ IsData(row'.value.data)
    BY <1>4 DEF FormRecord, IsData
  <2>2. QED
    BY <1>6, <2>1 DEF FormAsk, FormAnswer, InStage, Over, SeenAs, IsData
<1>8. \A d \in Calls \ {c} : FormAsk(d)' /\ FormAnswer(d)'
  BY <1>4, <1>6, CallLater DEF FormInv
<1>9. QED
  BY <1>1, <1>4, <1>5, <1>6, <1>7, <1>8 DEF FormInv

(* A refusal says nothing of the record.                                   *)
LEMMA RefusedKeeps ==
  ASSUME FormInv, NEW c \in Calls, NEW k \in {"refused", "conflict", "locked"}, Refused(c, k)
  PROVE  FormInv'
<1>1. /\ Answer(c, [kind |-> k]) /\ CallsApart /\ UNCHANGED row
      /\ UNCHANGED <<props, reading, form, fields, baseline, token, touched>>
  BY DEF Refused, formVars, FormInv
<1>2. Later /\ FormRecord'
  BY <1>1 DEF FormInv, FormRecord, Later, IsData
<1>3. FormInputs' /\ FormPage'
  BY <1>1, <1>2, InputsLater, PageLater DEF FormInv
<1>4. /\ CallsApart' /\ \A d \in Calls \ {c} : call'[d] = call[d]
      /\ call'[c] = IF current = c
                    THEN [stage |-> "answered", ask |-> call[c].ask, answer |-> [kind |-> k]]
                    ELSE Over
  BY <1>1, Answered
<1>5. FormAsk(c)' /\ FormAnswer(c)'
  BY <1>4 DEF FormAsk, FormAnswer, InStage, Over
<1>6. \A d \in Calls \ {c} : FormAsk(d)' /\ FormAnswer(d)'
  BY <1>2, <1>4, CallLater DEF FormInv
<1>7. QED
  BY <1>1, <1>2, <1>3, <1>4, <1>5, <1>6 DEF FormInv

(* What the form shows when it takes over a row it has seen.               *)
LEMMA ShowingKeeps ==
  ASSUME NEW r, SeenAs(r.at, r.value.data), Showing(r), UNCHANGED row
  PROVE  FormInputs'
BY DEF Showing, FormInputs, SeenAs, IsData

(* Every step of the forms keeps what they have seen.                      *)
LEMMA FormStep ==
  ASSUME FormInv, EditNext
  PROVE  FormInv'
<1>1. ASSUME NEW c \in Calls, UpdateClient(c) \/ RunOut(c) \/ UpdateLead(c)
      PROVE  FormInv'
  BY <1>1, WriteKeeps, RefusedKeeps DEF UpdateClient, RunOut, UpdateLead
<1>2. ASSUME UNCHANGED row
      PROVE  Later /\ FormRecord'
  BY <1>2 DEF FormInv, FormRecord, Later, IsData
<1>3. ASSUME UNCHANGED <<row, props, reading, form>>, FormInputs', CallsApart',
             NEW c \in Calls, FormAsk(c)', FormAnswer(c)',
             \A d \in Calls \ {c} : call'[d] = call[d]
      PROVE  FormInv'
  <2>1. Later /\ FormRecord' /\ FormPage'
    BY <1>2, <1>3, PageLater DEF FormInv
  <2>2. \A d \in Calls \ {c} : FormAsk(d)' /\ FormAnswer(d)'
    BY <1>3, <2>1, CallLater DEF FormInv
  <2>3. QED
    BY <1>3, <2>1, <2>2 DEF FormInv
<1>4. ASSUME NEW f \in Fields, NEW t, Type(f, t)
      PROVE  FormInv'
  <2>1. UNCHANGED <<row, props, reading, call, form, baseline, token>>
    BY <1>4 DEF Type, pageVars
  <2>2. FormInputs'
    BY <1>4, <2>1 DEF Type, FormInv, FormInputs, IsData, SeenAs
  <2>3. Later /\ FormRecord' /\ FormPage'
    BY <1>2, <2>1, PageLater DEF FormInv
  <2>4. \A d \in Calls : FormAsk(d)' /\ FormAnswer(d)'
    BY <2>1, <2>3, CallLater DEF FormInv
  <2>5. QED
    BY <2>1, <2>2, <2>3, <2>4 DEF FormInv, CallsApart
<1>5. ASSUME NEW c \in Calls, Submit(c)
      PROVE  FormInv'
  <2> DEFINE ask == [patch |-> Patch, token |-> token, seen |-> baseline, touched |-> touched]
  <2>1. /\ Send(c, ask) /\ CallsApart
        /\ UNCHANGED <<row, props, reading, form, fields, baseline, token, touched>>
    BY <1>5 DEF Submit, formVars, FormInv
  <2>2. FormInputs /\ FormInputs'
    BY <1>2, <2>1, InputsLater DEF FormInv
  <2>3. /\ CallsApart' /\ \A d \in Calls \ {c} : call'[d] = call[d]
        /\ call'[c] = [stage |-> "sent", ask |-> ask]
    BY <2>1, SentOne
  <2>4. DOMAIN Patch \subseteq touched
    BY <2>2 DEF Patch, FormInputs
  <2>5. FormAsk(c)' /\ FormAnswer(c)'
    BY <2>1, <2>2, <2>3, <2>4 DEF FormAsk, FormAnswer, InStage, FormInputs, SeenAs, IsData
  <2>6. QED
    BY <1>3, <2>1, <2>2, <2>3, <2>5
<1>6. ASSUME NEW c \in Calls, Saved(c)
      PROVE  FormInv'
  <2>1. /\ UNCHANGED <<row, props, reading, form>> /\ Showing(call[c].answer.row)
        /\ Finish(c) /\ CallsApart
        /\ SeenAs(call[c].answer.row.at, call[c].answer.row.value.data)
    BY <1>6 DEF Saved, Awaits, FormInv, FormAnswer
  <2>2. FormInputs'
    BY <2>1, ShowingKeeps
  <2>3. CallsApart' /\ (\A d \in Calls \ {c} : call'[d] = call[d]) /\ call'[c] = Over
    BY <2>1, FinishedOne
  <2>4. FormAsk(c)' /\ FormAnswer(c)'
    BY <2>3 DEF FormAsk, FormAnswer, InStage, Over
  <2>5. QED
    BY <1>3, <2>1, <2>2, <2>3, <2>4
<1>7. ASSUME NEW c \in Calls, NotSaved(c) \/ Unrecognized(c)
      PROVE  FormInv'
  <2>1. UNCHANGED <<row, props, reading, form, fields, baseline, token, touched>>
    BY <1>7 DEF NotSaved, Unrecognized, LoseAnswer, formVars
  <2>2. FormInputs' /\ Later
    BY <1>2, <2>1, InputsLater DEF FormInv
  <2>3. CallsApart' /\ (\A d \in Calls \ {c} : call'[d] = call[d]) /\ call'[c] \in {call[c], Over}
    BY <1>7, FinishedOne, LostOne DEF FormInv, NotSaved, Unrecognized
  <2>4. FormAsk(c)' /\ FormAnswer(c)'
    BY <2>2, <2>3, CallLater DEF Over, FormInv
  <2>5. QED
    BY <1>3, <2>1, <2>2, <2>3, <2>4
<1>8. ASSUME UNCHANGED <<row, call, form>>, FormInputs', FormPage'
      PROVE  FormInv'
  <2>1. Later /\ FormRecord'
    BY <1>2, <1>8
  <2>2. \A d \in Calls : FormAsk(d)' /\ FormAnswer(d)'
    BY <1>8, <2>1, CallLater DEF FormInv
  <2>3. QED
    BY <1>8, <2>1, <2>2 DEF FormInv, CallsApart
<1>9. ASSUME NEW l, NEW r, SeenAs(r.at, r.value.data), Rendered(l, r), UNCHANGED row
      PROVE  FormInputs'
  <2>1. CASE Adopted(l, r)
    BY <1>9, <2>1, ShowingKeeps DEF Rendered
  <2>2. CASE ~Adopted(l, r)
    BY <1>2, <1>9, <2>2, InputsLater DEF Rendered, FormInv
  <2>3. QED
    BY <2>1, <2>2
<1>10. CASE RenderForm
  <2>1. /\ SeenAs(reading.at, reading.value.data) /\ Rendered(lock, reading)
        /\ props' = reading /\ reading' = None
        /\ UNCHANGED <<row, call, form>>
    BY <1>10 DEF RenderForm, Render, FormInv, FormPage
  <2>2. FormInputs'
    BY <1>9, <2>1
  <2>3. FormPage'
    BY <2>1 DEF FormPage, SeenAs, IsData
  <2>4. QED
    BY <1>8, <2>1, <2>2, <2>3
<1>11. CASE ClickRefresh
  <2>1. /\ SeenAs(props.at, props.value.data) /\ Rendered("refreshing", props)
        /\ UNCHANGED <<row, props, reading, call, form>>
    BY <1>11 DEF ClickRefresh, FormInv, FormPage
  <2>2. FormInputs' /\ FormPage'
    BY <1>2, <1>9, <2>1, PageLater DEF FormInv
  <2>3. QED
    BY <1>8, <2>1, <2>2
<1>12. CASE OtherEdit
  <2>1. UNCHANGED <<props, reading, call, form, fields, baseline, token, touched>> /\ FormRecord
    BY <1>12 DEF OtherEdit, formVars, FormInv
  <2>2. PICK value : /\ Update(value) /\ IsData(value.data)
                     /\ value = [data |-> value.data, converted |-> value.converted]
    <3>1. \A d \in Contents : IsData(d)
      BY DEF Contents, IsData
    <3>2. row.value = [data |-> row.value.data, converted |-> row.value.converted]
      BY <2>1 DEF FormRecord
    <3>3. ASSUME NEW d \in Contents, Update([row.value EXCEPT !.data = d])
          PROVE  \E value : /\ Update(value) /\ IsData(value.data)
                            /\ value = [data |-> value.data, converted |-> value.converted]
      <4>1. [row.value EXCEPT !.data = d] = [data |-> d, converted |-> row.value.converted]
        BY <3>2
      <4>2. IsData(d)
        BY <3>1
      <4>3. QED
        BY <3>3, <4>1, <4>2
    <3>4. ASSUME Update([row.value EXCEPT !.converted = TRUE])
          PROVE  \E value : /\ Update(value) /\ IsData(value.data)
                            /\ value = [data |-> value.data, converted |-> value.converted]
      <4> DEFINE Becomes(t) == [data |-> row.value.data, converted |-> t]
      <4>0. \A t : [row.value EXCEPT !.converted = t] = Becomes(t)
        BY <3>2
      <4>1. [row.value EXCEPT !.converted = TRUE] = Becomes(TRUE)
        BY <4>0
      <4>2. IsData([data |-> row.value.data, converted |-> TRUE].data)
        BY <2>1 DEF FormRecord
      <4>3. QED
        BY <3>4, <4>1, <4>2
    <3>5. QED
      BY <1>12, <3>3, <3>4 DEF OtherEdit
  <2>3. Later /\ FormRecord'
    BY <2>1, <2>2 DEF Update, Later, FormRecord, IsData
  <2>4. FormInputs' /\ FormPage' /\ \A d \in Calls : FormAsk(d)' /\ FormAnswer(d)'
    BY <2>1, <2>3, InputsLater, PageLater, CallLater DEF FormInv
  <2>5. QED
    BY <2>1, <2>3, <2>4 DEF FormInv, CallsApart
<1>13. CASE (ReadPage \/ NeighbourAsks) /\ UNCHANGED formVars
  <2>1. /\ UNCHANGED <<row, props, call, form, fields, baseline, token, touched>>
        /\ reading' \in {reading, row} /\ FormRecord
    BY <1>13 DEF ReadPage, NeighbourAsks, formVars, FormInv
  <2>2. FormInputs' /\ SeenAs(row.at, row.value.data)
    BY <1>2, <2>1, InputsLater DEF FormInv, FormRecord, SeenAs
  <2>3. FormPage'
    BY <2>1, <2>2 DEF FormInv, FormPage, SeenAs, IsData
  <2>4. QED
    BY <1>8, <2>1, <2>2, <2>3
<1>14. QED
  BY <1>1, <1>4, <1>5, <1>6, <1>7, <1>10, <1>11, <1>12, <1>13
     DEF EditNext, SubmitClient, SubmitLead, ReceiveClient, ReceiveLead

(* A request that leaves the server with another record is one that was    *)
(* written, for a client only while the record was the one it names.       *)
LEMMA FormSaves ==
  ASSUME FormInv, EditNext, NEW c \in Calls, Saves(c)
  PROVE  Write(c) /\ (form = "client" => SameRow(c))
<1>1. ASSUME NEW d \in Calls, UpdateClient(d) \/ RunOut(d) \/ UpdateLead(d)
      PROVE  Write(d) /\ d = c /\ (form = "client" => SameRow(d))
  <2>1. row' # row /\ call'[c] # call[c] /\ CallsApart
    BY DEF Saves, InStage, FormInv
  <2>2. ASSUME NEW answer, Answer(d, answer) PROVE d = c
    BY <2>1, <2>2, Answered
  <2>3. Write(d) /\ (form = "client" => SameRow(d))
    BY <1>1, <2>1 DEF UpdateClient, RunOut, UpdateLead, Refused
  <2>4. QED
    BY <2>2, <2>3 DEF Write
<1>2. ~(UNCHANGED row) /\ ~(UNCHANGED call)
  BY DEF Saves, InStage
<1>3. QED
  BY <1>1, <1>2 DEF EditNext, SubmitClient, SubmitLead, Submit, ReceiveClient, ReceiveLead, Saved,
     NotSaved, Type, pageVars, Unrecognized, LoseAnswer, RenderForm, ClickRefresh, OtherEdit,
     ReadPage, NeighbourAsks

OverwriteStep == form = "client" => \A c \in Calls : Saves(c) => row.value.data = call[c].ask.seen
TypedStep ==
  form # None => \A c \in Calls : Saves(c) =>
    \A f \in Fields : row'.value.data[f] # row.value.data[f] => f \in call[c].ask.touched

(* The two action properties of the forms: what a save overwrites was      *)
(* seen, and what it changes was typed.                                    *)
LEMMA FormSteps ==
  ASSUME FormInv, EditNext
  PROVE  OverwriteStep /\ TypedStep
<1>1. ASSUME NEW c \in Calls, Saves(c), form = "client"
      PROVE  row.value.data = call[c].ask.seen
  <2>1. SameRow(c) /\ SeenAs(call[c].ask.token, call[c].ask.seen)
    BY <1>1, FormSaves DEF FormInv, FormAsk, Saves
  <2>2. QED
    BY <2>1 DEF SameRow, SeenAs
<1>2. ASSUME NEW c \in Calls, Saves(c), NEW f \in Fields, row'.value.data[f] # row.value.data[f]
      PROVE  f \in call[c].ask.touched
  <2>1. /\ DOMAIN call[c].ask.patch \subseteq call[c].ask.touched
        /\ row.value = [data |-> row.value.data, converted |-> row.value.converted]
    BY <1>2 DEF FormInv, FormAsk, Saves, FormRecord
  <2> DEFINE data == Merged(row.value.data, call[c].ask.patch)
  <2>2. row'.value = [row.value EXCEPT !.data = data]
    BY <1>2, FormSaves DEF Write, Update, Saves
  <2>3. row'.value.data = data
    <3> HIDE DEF data
    <3>1. QED
      BY <2>1, <2>2
  <2>4. f \in DOMAIN call[c].ask.patch
    BY <1>2, <2>3 DEF Merged
  <2>5. QED
    BY <2>1, <2>4
<1>3. QED
  BY <1>1, <1>2 DEF OverwriteStep, TypedStep

-----------------------------------------------------------------------------
(* The panels with a copy.  Their requests stay rows of their own.         *)
LEMMA CopyCalls ==
  ASSUME CallsApart, CopyNext
  PROVE  CallsApart'
<1>1. ASSUME NEW c \in Calls,
             (\E ask : Send(c, ask)) \/ (\E answer : Answer(c, answer)) \/ Finish(c) \/ LoseAnswer(c)
      PROVE  CallsApart'
  BY <1>1, SentOne, Answered, FinishedOne, LostOne
<1>2. UNCHANGED call => CallsApart'
  BY DEF CallsApart
<1>3. ASSUME NEW c \in Calls, NEW s,
             \/ SubmitLeadStatus(c) \/ SubmitBookingStatus(c)
             \/ AssignLead(c, s) \/ AssignClient(c, s) \/ AssignBooking(c, s) \/ AssignFinance(c, s)
             \/ EndLead(c) \/ EndClient(c) \/ EndFinance(c)
      PROVE  CallsApart'
  BY <1>1, <1>3 DEF SubmitLeadStatus, SubmitBookingStatus, AssignLead, AssignClient, AssignBooking,
     AssignFinance, EndLead, EndClient, EndFinance, Pick, Request
<1>4. ASSUME NEW c \in Calls,
             \/ UpdateLeadStatus(c) \/ UpdateBookingStatus(c) \/ SetAssignment(c) \/ EndAssignment(c)
      PROVE  CallsApart'
  <2>1. \E answer : Answer(c, answer)
    BY <1>4 DEF UpdateLeadStatus, UpdateBookingStatus, MoveStatus, SetAssignment, EndAssignment,
       Done, TurnedDown
  <2>2. QED
    BY <1>1, <2>1
<1>5. ASSUME NEW c \in Calls,
             \/ ConfirmStatus(c) \/ ConfirmBookingStatus(c) \/ ConfirmLeadAssignment(c)
             \/ ConfirmClientAssignment(c) \/ ConfirmBookingAssignment(c)
             \/ ConfirmFinanceAssignment(c) \/ ShowError(c) \/ Unconfirmed(c)
      PROVE  CallsApart'
  BY <1>1, <1>5 DEF ConfirmStatus, ConfirmBookingStatus, ConfirmLeadAssignment,
     ConfirmClientAssignment, ConfirmBookingAssignment, ConfirmFinanceAssignment, ShowResult,
     Succeeded, ShowError, Unconfirmed
<1>6. QED
  BY <1>2, <1>3, <1>4, <1>5 DEF CopyNext, SelectLeadStatus, SelectBookingStatus, Select,
     LoadAllEligible, RenderPanel, OtherChange, ReadPage, NeighbourAsks, pageVars

(* The copy is replaced by the result of a request or by a prop that moved.*)
CopyStays == copy' # copy => lastProp' # lastProp \/ current' # current

(* A success clears the panel of the request it waited for, and a render   *)
(* only replaces the copy when the prop has moved.                         *)
LEMMA CopySurvives ==
  ASSUME CopyNext
  PROVE  CopyStays
<1>1. ASSUME NEW c \in Calls, ShowResult(c) PROVE current' # current
  BY <1>1, NoneIsNoCall DEF ShowResult, Succeeded, Awaits, Finish
<1>2. RenderPanel => copy' = copy \/ lastProp' # lastProp
  BY DEF RenderPanel, PropChanged
<1>3. QED
  BY <1>1, <1>2 DEF CopyStays, CopyNext, copyVars, SelectLeadStatus, SelectBookingStatus, Select,
     SubmitLeadStatus, SubmitBookingStatus, Pick, AssignLead,
     AssignClient, AssignBooking, AssignFinance, Request, EndLead, EndClient, EndFinance,
     LoadAllEligible, UpdateLeadStatus, UpdateBookingStatus, MoveStatus, Done, TurnedDown,
     SetAssignment, EndAssignment, ConfirmStatus, ConfirmBookingStatus, ConfirmLeadAssignment,
     ConfirmClientAssignment, ConfirmBookingAssignment, ConfirmFinanceAssignment,
     Succeeded, ShowError, Unconfirmed, OtherChange

-----------------------------------------------------------------------------
(* The invitation's panel: its requests stay rows of their own as well.    *)
LEMMA InvitationCalls ==
  ASSUME CallsApart, InvitationNext
  PROVE  CallsApart'
<1>1. ASSUME NEW c \in Calls,
             (\E ask : Send(c, ask)) \/ (\E answer : Answer(c, answer)) \/ Finish(c) \/ LoseAnswer(c)
      PROVE  CallsApart'
  BY <1>1, SentOne, Answered, FinishedOne, LostOne
<1>2. UNCHANGED call => CallsApart'
  BY DEF CallsApart
<1>3. ASSUME NEW c \in Calls, PressPrepare(c) \/ PressConfirmManual(c) \/ PressRevoke(c)
                              \/ \E channel \in Channels : PressSend(c, channel)
      PROVE  CallsApart'
  BY <1>1, <1>3 DEF PressPrepare, PressConfirmManual, PressRevoke, PressSend, Request4
<1>4. ASSUME NEW c \in Calls, HandlePrepare(c) \/ HandleSend(c) \/ HandleResend(c)
               \/ DeliveryDisabled(c) \/ HandleConfirmManual(c) \/ HandleRevoke(c)
      PROVE  CallsApart'
  <2>1. \E answer : Answer(c, answer)
    BY <1>4 DEF HandlePrepare, HandleSend, HandleResend, DeliveryDisabled, HandleConfirmManual,
       HandleRevoke, Granted, Denied, Issue, Replied
  <2>2. QED
    BY <1>1, <2>1
<1>5. ASSUME NEW c \in Calls, ShowInvitation(c) \/ ShowInvitationError(c) \/ NotRecognized(c)
      PROVE  CallsApart'
  BY <1>1, <1>5 DEF ShowInvitation, ShowInvitationError, NotRecognized
<1>6. QED
  BY <1>2, <1>3, <1>4, <1>5 DEF InvitationNext, ClickRefreshInvitation, RenderInvitation,
     OtherInvitationChange, ReadPage, NeighbourAsks

-----------------------------------------------------------------------------
(* The panels of one action.  What may be asked for, by panel.             *)
Goals ==
  IF action = "convert" THEN Clients \cup {New} ELSE IF action = "respond" THEN Responses ELSE {New}
Situations == IF action = "convert" THEN SUBSET (Clients \cup {Hidden}) ELSE Nat
Traces == [outcome : Goals \cup {None}, made : Nat, standing : BOOLEAN, context : Situations]

(* What was done stays done, and once.                                     *)
DoneIs(x) == x # None /\ row.value.outcome = x
ActionAsk(c) == InStage(c, "sent") => call[c].ask.want \in Goals
ActionAnswer(c) ==
  InStage(c, "answered") /\ call[c].answer.kind = "ok" =>
    /\ DoneIs(call[c].answer.outcome)
    /\ action # "convert" => call[c].ask.want = call[c].answer.outcome
ActionPage ==
  /\ row.value \in Traces /\ row.at \in Nat /\ props.value \in Traces
  /\ reading # None => reading.value \in Traces
ActionCalls == \A c \in Calls : ActionAsk(c) /\ (action \in OneTime => ActionAnswer(c))
Once ==
  action \in OneTime =>
    /\ row.value.made = IF row.value.outcome = None THEN 0 ELSE 1
    /\ told # None => row.value.outcome = told
ActionInv ==
  CallsApart /\ action \in OneTime \cup Repeatable /\ ActionPage /\ ActionCalls /\ Once

(* Wider fields make a wider set of records.                               *)
LEMMA WiderRecords ==
  ASSUME NEW A, NEW B, NEW C, NEW D, NEW A1, NEW B1, NEW C1, NEW D1,
         A \subseteq A1, B \subseteq B1, C \subseteq C1, D \subseteq D1
  PROVE  [outcome : A, made : B, standing : C, context : D]
           \subseteq [outcome : A1, made : B1, standing : C1, context : D1]
OBVIOUS

(* The aims of a panel are those it may ask for, and doing nothing is      *)
(* none.                                                                   *)
LEMMA AimsAre ==
  ASSUME action \in OneTime \cup Repeatable
  PROVE  Aims[action] = Goals /\ None \notin Goals
BY NoneIsNoAim DEF Aims, Goals, OneTime, Repeatable

(* Nothing has been done by anybody when the page is opened.               *)
LEMMA ActionInitially == ActionInit => ActionInv
<1> SUFFICES ASSUME ActionInit PROVE ActionInv
  OBVIOUS
<1>1. /\ action \in OneTime \cup Repeatable /\ told = None
      /\ row \in [value : [outcome : {None}, made : {0}, standing : {TRUE},
                           context : IF action = "convert" THEN Context[action] ELSE {0}],
                  at : {0}]
      /\ props = row /\ reading = None /\ call = [c \in Calls |-> Unsent]
  BY DEF ActionInit, PageInit
<1>2. (IF action = "convert" THEN Context[action] ELSE {0}) \subseteq Situations
  BY <1>1 DEF Context, Situations, OneTime, Repeatable
<1>3. row.value \in Traces /\ row.at \in Nat /\ row.value.made = 0 /\ row.value.outcome = None
  <2>1. row.value \in [outcome : {None}, made : {0}, standing : {TRUE},
                       context : IF action = "convert" THEN Context[action] ELSE {0}]
    BY <1>1
  <2> HIDE DEF Situations
  <2>2. {None} \subseteq Goals \cup {None} /\ {0} \subseteq Nat /\ {TRUE} \subseteq BOOLEAN
    OBVIOUS
  <2>3. row.value \in Traces
    BY <1>2, <2>1, <2>2, WiderRecords DEF Traces
  <2>4. QED
    BY <1>1, <2>1, <2>3
<1>4. ActionPage /\ Once
  BY <1>1, <1>3 DEF ActionPage, Once
<1>5. QED
  BY <1>1, <1>4 DEF ActionInv, CallsApart, ActionCalls, ActionAsk, ActionAnswer, InStage, Unsent

(* A step that leaves the record and the panel, and of the calls changes   *)
(* one at most, to a request or an answer that is sound.                   *)
LEMMA OneCallMoves ==
  ASSUME ActionInv, UNCHANGED <<row, props, action>>, reading' \in {reading, None, row},
         NEW c \in Calls, CallsApart', \A d \in Calls \ {c} : call'[d] = call[d],
         ActionAsk(c)', action \in OneTime => ActionAnswer(c)',
         action \in OneTime => told' \in {told, None} \/ row.value.outcome = told'
  PROVE  ActionInv'
<1>1. ActionPage'
  BY DEF ActionInv, ActionPage, Traces, Goals, Situations
<1>2. Once'
  BY DEF ActionInv, Once
<1>3. \A d \in Calls \ {c} : ActionAsk(d)' /\ (action \in OneTime => ActionAnswer(d)')
  BY DEF ActionInv, ActionCalls, ActionAsk, ActionAnswer, InStage, DoneIs, Goals
<1>4. ActionCalls'
  BY <1>3 DEF ActionCalls
<1>5. QED
  BY <1>1, <1>2, <1>4 DEF ActionInv

(* What a call left as it is, or over, is about, while the record stays    *)
(* or is done for the first time.                                          *)
Kept == row'.value.outcome = row.value.outcome \/ row.value.outcome = None

(* A request goes on being about what its panel may ask for, and a success *)
(* about what was done, whatever else is done meanwhile.                   *)
LEMMA ActionCallLater ==
  ASSUME UNCHANGED action, Kept, NEW c \in Calls, ActionAsk(c), action \in OneTime => ActionAnswer(c),
         call'[c] = call[c] \/ call'[c].stage \notin {"sent", "answered"}
  PROVE  ActionAsk(c)' /\ (action \in OneTime => ActionAnswer(c)')
<1>1. CASE call'[c] = call[c]
  BY <1>1 DEF ActionAsk, ActionAnswer, DoneIs, Kept, Goals, InStage
<1>2. CASE call'[c].stage \notin {"sent", "answered"}
  BY <1>2 DEF ActionAsk, ActionAnswer, InStage
<1>3. QED
  BY <1>1, <1>2

(* The record does x for the first time, by this page or by others.        *)
Does(x) ==
  Update([row.value EXCEPT !.outcome = x, !.made = @ + 1,
                           !.context = IF action = "publish" THEN @ + 1 ELSE @])

(* What is done for the first time has then been done once, and no panel   *)
(* has said so yet.                                                        *)
LEMMA Doing ==
  ASSUME ActionInv, NEW x \in Goals, Does(x), action \in OneTime => row.value.outcome = None,
         UNCHANGED <<action, told, props, reading>>
  PROVE  ActionPage' /\ Once' /\ row'.value.outcome = x
<1>1. /\ row.value \in Traces /\ row.at \in Nat /\ action \in OneTime \cup Repeatable
  BY DEF ActionInv, ActionPage
<1>2. /\ row'.value = [row.value EXCEPT !.outcome = x, !.made = @ + 1,
                         !.context = IF action = "publish" THEN @ + 1 ELSE @]
      /\ row'.at = row.at + 1
  BY DEF Does, Update
<1>3. (IF action = "publish" THEN row.value.context + 1 ELSE row.value.context) \in Situations
  BY <1>1 DEF Traces, Situations
<1> DEFINE ctx == IF action = "publish" THEN row.value.context + 1 ELSE row.value.context
<1>4. /\ row'.value \in Traces /\ row'.value.outcome = x
      /\ row'.value.made = row.value.made + 1
  <2> HIDE DEF Situations
  <2>1. row'.value = [outcome |-> x, made |-> row.value.made + 1,
                      standing |-> row.value.standing, context |-> ctx]
    BY <1>1, <1>2 DEF Traces
  <2>2. row.value.made \in Nat /\ row.value.standing \in BOOLEAN /\ ctx \in Situations
    BY <1>1, <1>3 DEF Traces
  <2> HIDE DEF ctx
  <2>3. QED
    BY <2>1, <2>2 DEF Traces
<1>5. ActionPage'
  <2>1. Traces' = Traces
    BY DEF Traces, Goals, Situations
  <2>2. QED
    BY <1>1, <1>2, <1>4, <2>1 DEF ActionInv, ActionPage
<1>6. Once'
  <2>1. x # None
    BY <1>1, AimsAre
  <2>2. QED
    BY <1>4, <2>1 DEF ActionInv, Once
<1>7. QED
  BY <1>4, <1>5, <1>6

(* Another change of the record takes nothing back.                        *)
LEMMA ElseChanges ==
  ASSUME ActionInv, NEW s \in BOOLEAN, NEW k \in Situations,
         row'.value = [row.value EXCEPT !.standing = s, !.context = k], row'.at = row.at + 1,
         UNCHANGED <<action, told, props, reading, call>>
  PROVE  ActionInv'
<1>1. row.value \in Traces /\ row.at \in Nat
  BY DEF ActionInv, ActionPage
<1> HIDE DEF Situations
<1>2. /\ row'.value \in Traces /\ row'.value.outcome = row.value.outcome
      /\ row'.value.made = row.value.made
  BY <1>1 DEF Traces
<1>3. ActionPage'
  <2>1. Traces' = Traces
    BY DEF Traces, Goals, Situations
  <2>2. QED
    BY <1>1, <1>2, <2>1 DEF ActionInv, ActionPage
<1>4. Once'
  BY <1>2 DEF ActionInv, Once
<1>5. ActionCalls'
  BY <1>2, ActionCallLater DEF ActionInv, ActionCalls, Kept
<1>6. QED
  BY <1>3, <1>4, <1>5 DEF ActionInv, CallsApart

(* A step that touches neither the record nor the requests.                *)
LEMMA QuietKeeps ==
  ASSUME ActionInv, UNCHANGED <<row, props, call, action, told>>, reading' \in {reading, row}
  PROVE  ActionInv'
<1>1. ActionPage'
  BY DEF ActionInv, ActionPage, Traces, Goals, Situations
<1>2. Once' /\ CallsApart'
  BY DEF ActionInv, Once, CallsApart
<1>3. ActionCalls'
  BY ActionCallLater DEF ActionInv, ActionCalls, Kept
<1>4. QED
  BY <1>1, <1>2, <1>3 DEF ActionInv

(* A request for one of the aims of the panel.                             *)
LEMMA PressKeeps ==
  ASSUME ActionInv, NEW c \in Calls, NEW x \in Goals, NEW seen, Send(c, [want |-> x, seen |-> seen]),
         UNCHANGED <<row, props, reading, action, told>>
  PROVE  ActionInv'
<1>1. /\ CallsApart' /\ \A d \in Calls \ {c} : call'[d] = call[d]
      /\ call'[c] = [stage |-> "sent", ask |-> [want |-> x, seen |-> seen]]
  BY SentOne DEF ActionInv
<1>2. ActionAsk(c)' /\ ActionAnswer(c)'
  BY <1>1 DEF ActionAsk, ActionAnswer, InStage, Goals
<1>3. QED
  BY <1>1, <1>2, OneCallMoves

(* An answer that is no success, and a call that is over or left as it is. *)
LEMMA NoSuccessKeeps ==
  ASSUME ActionInv, NEW c \in Calls, UNCHANGED <<row, props, reading, action>>,
         CallsApart', \A d \in Calls \ {c} : call'[d] = call[d],
         \/ call'[c] \in {call[c], Over}
         \/ call'[c].stage = "answered" /\ call'[c].answer.kind # "ok",
         action \in OneTime => told' \in {told, None} \/ row.value.outcome = told'
  PROVE  ActionInv'
<1>1. ActionAsk(c) /\ (action \in OneTime => ActionAnswer(c)) /\ Kept
  BY DEF ActionInv, ActionCalls, Kept
<1>2. ActionAsk(c)' /\ (action \in OneTime => ActionAnswer(c)')
  <2>1. CASE call'[c] \in {call[c], Over}
    <3>1. call'[c] = call[c] \/ call'[c].stage \notin {"sent", "answered"}
      BY <2>1 DEF Over
    <3>2. QED
      BY <1>1, <3>1, ActionCallLater
  <2>2. CASE call'[c].stage = "answered" /\ call'[c].answer.kind # "ok"
    BY <2>2 DEF ActionAsk, ActionAnswer, InStage
  <2>3. QED
    BY <2>1, <2>2
<1>3. QED
  BY <1>2, OneCallMoves

(* A refusal.                                                              *)
LEMMA FailsKeeps ==
  ASSUME ActionInv, NEW c \in Calls, NEW k \in {"stale", "error"}, Fails(c, k)
  PROVE  ActionInv'
<1>1. /\ Answer(c, [kind |-> k]) /\ CallsApart
      /\ UNCHANGED <<row, props, reading, action, told>>
  BY DEF Fails, actionVars, ActionInv
<1>2. /\ CallsApart' /\ \A d \in Calls \ {c} : call'[d] = call[d]
      /\ call'[c] = IF current = c
                    THEN [stage |-> "answered", ask |-> call[c].ask, answer |-> [kind |-> k]]
                    ELSE Over
  BY <1>1, Answered
<1>3. \/ call'[c] \in {call[c], Over}
      \/ call'[c].stage = "answered" /\ call'[c].answer.kind # "ok"
  BY <1>2
<1>4. QED
  BY <1>1, <1>2, <1>3, NoSuccessKeeps

(* The first of its kind is done, and the answer says so.                  *)
LEMMA ActKeeps ==
  ASSUME ActionInv, NEW c \in Calls, Act(c)
  PROVE  ActionInv'
<1> DEFINE x == call[c].ask.want
<1>1. /\ InStage(c, "sent") /\ Does(x) /\ Answer(c, [kind |-> "ok", outcome |-> x])
      /\ ~DoneBefore /\ UNCHANGED <<props, reading, action, told>>
  BY DEF Act, Does, actionVars
<1>2. x \in Goals /\ CallsApart /\ action \in OneTime \cup Repeatable
  BY <1>1 DEF ActionInv, ActionCalls, ActionAsk
<1> HIDE DEF x
<1>3. action \in OneTime => row.value.outcome = None
  BY <1>1 DEF DoneBefore
<1>4. ActionPage' /\ Once' /\ row'.value.outcome = x
  BY <1>1, <1>2, <1>3, Doing
<1>5. /\ CallsApart' /\ \A d \in Calls \ {c} : call'[d] = call[d]
      /\ call'[c] = IF current = c
                    THEN [stage |-> "answered", ask |-> call[c].ask,
                          answer |-> [kind |-> "ok", outcome |-> x]]
                    ELSE Over
  BY <1>1, <1>2, Answered
<1>6. x # None
  BY <1>2, AimsAre
<1>7. Kept
  <2>1. CASE action \in OneTime
    BY <1>3, <2>1 DEF Kept
  <2>2. CASE action \in Repeatable
    <3>1. Goals = {New} /\ row.value.outcome \in {New, None}
      BY <2>2 DEF Goals, Repeatable, ActionInv, ActionPage, Traces
    <3>2. QED
      BY <1>2, <1>4, <3>1 DEF Kept
  <2>3. QED
    BY <1>2, <2>1, <2>2
<1>8. ActionAsk(c)' /\ ActionAnswer(c)'
  <2>1. CASE current = c
    BY <1>4, <1>5, <1>6, <2>1 DEF ActionAsk, ActionAnswer, InStage, DoneIs, x
  <2>2. CASE current # c
    BY <1>5, <2>2 DEF ActionAsk, ActionAnswer, InStage, Over
  <2>3. QED
    BY <2>1, <2>2
<1>9. ActionCalls'
  <2>1. \A d \in Calls \ {c} : ActionAsk(d)' /\ (action \in OneTime => ActionAnswer(d)')
    BY <1>1, <1>5, <1>7, ActionCallLater DEF ActionInv, ActionCalls
  <2>2. QED
    BY <1>1, <1>8, <2>1 DEF ActionCalls
<1>10. QED
  BY <1>1, <1>2, <1>4, <1>5, <1>9 DEF ActionInv

(* What was done before is answered with only where it is what is asked    *)
(* for, but that a conversion to a new client may find any other.          *)
LEMMA ReplayKeeps ==
  ASSUME ActionInv, NEW c \in Calls, Replay(c)
  PROVE  ActionInv'
<1>1. /\ InStage(c, "sent") /\ DoneBefore /\ Replayable(call[c].ask.want)
      /\ Answer(c, [kind |-> "ok", outcome |-> row.value.outcome])
      /\ UNCHANGED <<row, props, reading, action, told>>
  BY DEF Replay, actionVars
<1>2. /\ call[c].ask.want \in Goals /\ CallsApart /\ row.value.outcome \in Goals \cup {None}
      /\ action \in OneTime /\ row.value.outcome # None
  BY <1>1 DEF ActionInv, ActionCalls, ActionAsk, ActionPage, Traces, DoneBefore
<1>3. action # "convert" => call[c].ask.want = row.value.outcome
  <2>1. action # "respond"
    BY <1>1 DEF Replayable
  <2>2. QED
    BY <1>2, <2>1 DEF Goals, OneTime
<1>4. /\ CallsApart' /\ \A d \in Calls \ {c} : call'[d] = call[d]
      /\ call'[c] = IF current = c
                    THEN [stage |-> "answered", ask |-> call[c].ask,
                          answer |-> [kind |-> "ok", outcome |-> row.value.outcome]]
                    ELSE Over
  BY <1>1, <1>2, Answered
<1>5. ActionAsk(c)' /\ ActionAnswer(c)'
  <2>1. CASE current = c
    BY <1>1, <1>2, <1>3, <1>4, <2>1 DEF ActionAsk, ActionAnswer, InStage, DoneIs
  <2>2. CASE current # c
    BY <1>4, <2>2 DEF ActionAsk, ActionAnswer, InStage, Over
  <2>3. QED
    BY <2>1, <2>2
<1>6. QED
  BY <1>1, <1>4, <1>5, OneCallMoves

(* A success shown is the answer's, and so what was done.                  *)
LEMMA ShownKeeps ==
  ASSUME ActionInv, NEW c \in Calls, NEW a, NEW message, NEW next, Shown(c, a, message, next),
         action \in OneTime => message = row.value.outcome
  PROVE  ActionInv'
<1>1. /\ Finish(c) /\ InStage(c, "answered") /\ call[c].answer.kind = "ok" /\ told' = message
      /\ UNCHANGED <<row, props, reading, action>> /\ CallsApart
  BY DEF Shown, Awaits, ActionInv
<1>2. action \in OneTime => row.value.outcome = told'
  BY <1>1
<1>3. CallsApart' /\ (\A d \in Calls \ {c} : call'[d] = call[d]) /\ call'[c] = Over
  BY <1>1, FinishedOne
<1>4. QED
  BY <1>1, <1>2, <1>3, NoSuccessKeeps

(* A render, which may take the panel and the answers it waited for away.  *)
LEMMA RenderActionKeeps ==
  ASSUME ActionInv, RenderAction
  PROVE  ActionInv'
<1>1. /\ reading # None /\ props' = reading /\ reading' = None /\ UNCHANGED <<row, action>>
      /\ UNCHANGED told \/ told' = None
      /\ \/ UNCHANGED call
         \/ call' = [c \in Calls |-> IF InStage(c, "answered") THEN Over ELSE call[c]]
  BY DEF RenderAction, Render
<1>2. ActionPage'
  BY <1>1 DEF ActionInv, ActionPage, Traces, Goals, Situations
<1>3. Once'
  BY <1>1 DEF ActionInv, Once
<1>4. \A c \in Calls : call'[c] = call[c] \/ call'[c].stage \notin {"sent", "answered"}
  BY <1>1 DEF Over
<1>5. ActionCalls'
  BY <1>1, <1>4, ActionCallLater DEF ActionInv, ActionCalls, Kept
<1>6. CallsApart'
  BY <1>1 DEF ActionInv, CallsApart
<1>7. QED
  BY <1>1, <1>2, <1>3, <1>5, <1>6 DEF ActionInv

(* Others do it first, or change what it depends on.                       *)
LEMMA OtherActKeeps ==
  ASSUME ActionInv, OtherAct
  PROVE  ActionInv'
<1>1. /\ UNCHANGED <<action, told, props, reading, call>>
      /\ row.value \in Traces /\ row.at \in Nat /\ action \in OneTime \cup Repeatable
  BY DEF OtherAct, actionVars, ActionInv, ActionPage
<1>2. ASSUME action \in OneTime, row.value.outcome = None, NEW x \in Aims[action], Does(x)
      PROVE  ActionInv'
  <2>1. x \in Goals
    BY <1>1, <1>2, AimsAre
  <2>2. ActionPage' /\ Once' /\ row'.value.outcome = x
    BY <1>1, <1>2, <2>1, Doing
  <2>3. ActionCalls'
    BY <1>1, <1>2, ActionCallLater DEF ActionInv, ActionCalls, Kept
  <2>4. QED
    BY <1>1, <2>2, <2>3 DEF ActionInv, CallsApart
<1>3. ASSUME action = "publish",
             Update([row.value EXCEPT !.context = @ + 1, !.standing = @ /\ row.value.outcome = None])
      PROVE  ActionInv'
  <2>1. PICK s \in BOOLEAN : s = (row.value.standing /\ row.value.outcome = None)
    OBVIOUS
  <2>2. row.value.context + 1 \in Situations
    BY <1>1, <1>3 DEF Traces, Situations
  <2>3. /\ row'.value = [row.value EXCEPT !.standing = s, !.context = row.value.context + 1]
        /\ row'.at = row.at + 1
    BY <1>3, <2>1 DEF Update
  <2>4. QED
    BY <1>1, <2>1, <2>2, <2>3, ElseChanges
<1>4. ASSUME Update([row.value EXCEPT !.standing = FALSE])
      PROVE  ActionInv'
  <2>1. row.value.context \in Situations
    BY <1>1 DEF Traces
  <2>2. /\ row'.value = [row.value EXCEPT !.standing = FALSE, !.context = row.value.context]
        /\ row'.at = row.at + 1
    BY <1>1, <1>4 DEF Update, Traces
  <2>3. QED
    BY <1>1, <2>1, <2>2, ElseChanges
<1>5. ASSUME action = "convert", NEW k \in Clients \cup {Hidden},
             Update([row.value EXCEPT !.context = IF k \in @ THEN @ \ {k} ELSE @ \cup {k}])
      PROVE  ActionInv'
  <2> DEFINE ctx == IF k \in row.value.context THEN row.value.context \ {k}
                    ELSE row.value.context \cup {k}
  <2>1. ctx \in Situations
    BY <1>1, <1>5 DEF Traces, Situations
  <2>2. row.value.standing \in BOOLEAN
    BY <1>1 DEF Traces
  <2>3. row'.value = [row.value EXCEPT !.context = ctx] /\ row'.at = row.at + 1
    BY <1>5 DEF Update
  <2> HIDE DEF ctx
  <2>4. row'.value = [row.value EXCEPT !.standing = row.value.standing, !.context = ctx]
    <3> HIDE DEF Situations
    <3>1. QED
      BY <1>1, <2>3 DEF Traces
  <2>5. QED
    BY <1>1, <2>1, <2>2, <2>3, <2>4, ElseChanges
<1>6. QED
  BY <1>2, <1>3, <1>4, <1>5 DEF OtherAct, Does

(* Every step of the panels of one action.                                 *)
LEMMA ActionStep ==
  ASSUME ActionInv, ActionNext
  PROVE  ActionInv'
<1>1. ASSUME NEW x, Continue(x) PROVE ActionInv'
  BY <1>1, QuietKeeps DEF Continue, pageVars
<1>2. CASE Cancel
  BY <1>2, QuietKeeps DEF Cancel, pageVars
<1>3. ASSUME NEW c \in Calls, NEW a, NEW x \in Goals, Press(c, a, x) PROVE ActionInv'
  BY <1>3, PressKeeps DEF Press, actionVars
<1>4. ASSUME NEW c \in Calls,
             \/ Confirm(c) \/ PressPublish(c) \/ PressBook(c) \/ PressPropose(c) \/ PressRevise(c)
             \/ \E x \in Responses : PressRespond(c, x)
      PROVE  ActionInv'
  <2>1. CASE Confirm(c)
    <3>1. action = "convert" /\ chosen \in Offered /\ Press(c, "convert", chosen)
      BY <2>1 DEF Confirm
    <3>2. props.value.context \subseteq Clients \cup {Hidden}
      BY <3>1 DEF ActionInv, ActionPage, Traces, Situations
    <3>3. chosen \in Goals
      BY <3>1, <3>2 DEF Offered, Goals
    <3>4. QED
      BY <1>3, <3>1, <3>3
  <2>2. CASE PressPublish(c) \/ PressBook(c) \/ PressPropose(c) \/ PressRevise(c)
    <3>1. New \in Goals
      BY <2>2 DEF PressPublish, PressBook, PressPropose, PressRevise, Press, Goals
    <3>2. QED
      BY <1>3, <2>2, <3>1 DEF PressPublish, PressBook, PressPropose, PressRevise
  <2>3. ASSUME NEW x \in Responses, PressRespond(c, x) PROVE ActionInv'
    <3>1. x \in Goals
      BY <2>3 DEF PressRespond, Press, Goals
    <3>2. QED
      BY <1>3, <2>3, <3>1 DEF PressRespond
  <2>4. QED
    BY <1>4, <2>1, <2>2, <2>3
<1>5. ASSUME NEW c \in Calls, TurnDown(c) \/ ConflictsRunOut(c) PROVE ActionInv'
  BY <1>5, FailsKeeps DEF TurnDown, ConflictsRunOut
<1>6. ASSUME NEW c \in Calls, ShowConverted(c) \/ ShowPublished(c) \/ ShowBooked(c)
               \/ ShowResponse(c) \/ ShowProposal(c) \/ ShowRevision(c)
      PROVE  ActionInv'
  <2>1. PICK a, message, next :
          /\ Shown(c, a, message, next)
          /\ \/ message = call[c].answer.outcome
             \/ action # "convert" /\ message = call[c].ask.want
    BY <1>6 DEF ShowConverted, ShowPublished, ShowBooked, ShowResponse, ShowProposal,
       ShowRevision, Shown
  <2>2. action \in OneTime => message = row.value.outcome
    BY <2>1 DEF Shown, Awaits, ActionInv, ActionCalls, ActionAnswer, DoneIs
  <2>3. QED
    BY <2>1, <2>2, ShownKeeps
<1>7. ASSUME NEW c \in Calls, ShowRefusal(c) \/ Unrecognizable(c) PROVE ActionInv'
  <2>1. CallsApart /\ UNCHANGED <<row, props, reading, action, told>>
    BY <1>7 DEF ShowRefusal, Unrecognizable, LoseAnswer, actionVars, ActionInv
  <2>2. Finish(c) \/ LoseAnswer(c)
    BY <1>7 DEF ShowRefusal, Unrecognizable
  <2>3. /\ CallsApart' /\ \A d \in Calls \ {c} : call'[d] = call[d]
        /\ call'[c] \in {call[c], Over}
    BY <2>1, <2>2, FinishedOne, LostOne
  <2>4. QED
    BY <2>1, <2>3, NoSuccessKeeps
<1>8. CASE RefreshAfterError
  BY <1>8, QuietKeeps DEF RefreshAfterError, actionVars
<1>9. CASE (ReadPage \/ NeighbourAsks) /\ UNCHANGED actionVars
  BY <1>9, QuietKeeps DEF ReadPage, NeighbourAsks, actionVars
<1>10. QED
  BY <1>1, <1>2, <1>4, <1>5, <1>6, <1>7, <1>8, <1>9, ActKeeps, ReplayKeeps, RenderActionKeeps,
     OtherActKeeps DEF ActionNext

-----------------------------------------------------------------------------
(* The page that takes in leads.  People are told apart by their ids, and  *)
(* a lead's id is above all there are.                                     *)
Persons == [id : Nat, type : Types, contacts : Details, visible : BOOLEAN]
Apart(people, at) ==
  /\ at \in Nat /\ people \subseteq Persons
  /\ \A r \in people : r.id <= at
  /\ \A r, s \in people : r.id = s.id => r = s

(* What a search has come to: until the user's access is checked it holds  *)
(* whoever has matched all along and is of a type it has looked through.   *)
Searches == [contacts : Details, looked : SUBSET Types, found : SUBSET Nat, matches : SUBSET Nat,
             restricted : BOOLEAN, steady : SUBSET Nat]
ToldOf(ask) == ask.steady \subseteq ask.matches \/ ask.restricted
Noticed(ask, people) ==
  \/ \A r \in people : r.id \in ask.steady /\ r.type \in ask.looked => r.id \in ask.found
  \/ ask.looked = Types /\ ask.found = {} /\ ToldOf(ask)
Searched(ask, people, at) ==
  /\ ask \in Searches
  /\ ask.steady \subseteq Ids(Matching(people, ask.contacts))
  /\ ask.matches \subseteq 0..at
  /\ Noticed(ask, people)

Searching(c) ==
  /\ c = current => call[c].stage \in {"sent", "answered"}
  /\ InStage(c, "sent") =>
       /\ call[c].ask.contacts \in Details
       /\ c = current => /\ call[c] = [stage |-> "sent", ask |-> call[c].ask]
                         /\ Searched(call[c].ask, row.value, row.at)
Announced(c) ==
  InStage(c, "answered") /\ call[c].answer.kind = "ok" =>
    call[c].answer.lead \notin call[c].ask.matches /\ ToldOf(call[c].ask)
IntakeInv ==
  /\ CallsApart /\ Apart(row.value, row.at)
  /\ \A c \in Calls : Searching(c) /\ Announced(c)
  /\ DuplicatesAreTold

(* There is nobody at first, or one person, with the first id.             *)
LEMMA IntakeInitially == IntakeInit => IntakeInv
<1> SUFFICES ASSUME IntakeInit PROVE IntakeInv
  OBVIOUS
<1>1. /\ row \in [value : {{}} \cup {{r} : r \in {p \in People : p.id = 0 /\ SomeContact \in p.contacts}},
                  at : {0}]
      /\ call = [c \in Calls |-> Unsent] /\ current = None /\ result = None
  BY DEF IntakeInit, PageInit
<1>2. row.at = 0 /\ (row.value = {} \/ \E r \in People : r.id = 0 /\ row.value = {r})
  BY <1>1
<1>3. \A r \in People : r.id = 0 => r \in Persons
  BY DEF People, Persons
<1>4. Apart(row.value, row.at)
  BY <1>2, <1>3 DEF Apart
<1>5. QED
  BY <1>1, <1>4, NoneIsNoCall DEF IntakeInv, CallsApart, Searching, Announced, InStage, Unsent, DuplicatesAreTold

(* A search goes on soundly in what the record becomes: a new id is above  *)
(* those it knows, and nobody's type changes.                              *)
LEMMA SearchLater ==
  ASSUME NEW people, NEW at, NEW others, NEW ask, NEW steady, Apart(people, at),
         Searched(ask, people, at),
         \A r \in others : r.id = at + 1 \/ \E s \in people : s.id = r.id /\ s.type = r.type,
         steady \subseteq ask.steady, steady \subseteq Ids(Matching(others, ask.contacts))
  PROVE  Searched([ask EXCEPT !.steady = steady], others, at + 1)
<1> DEFINE new == [contacts |-> ask.contacts, looked |-> ask.looked, found |-> ask.found,
                   matches |-> ask.matches, restricted |-> ask.restricted, steady |-> steady]
<1>1. [ask EXCEPT !.steady = steady] = new
  BY DEF Searched, Searches
<1>2. /\ new.contacts = ask.contacts /\ new.looked = ask.looked
      /\ new.found = ask.found /\ new.matches = ask.matches /\ new.steady = steady
      /\ new.restricted = ask.restricted /\ new \in Searches
  BY DEF Searched, Searches
<1> HIDE DEF new
<1>3. \A i \in steady : i \in Nat /\ i <= at
  BY DEF Searched, Ids, Matching, Apart, Persons
<1>4. Noticed(new, others)
  <2>1. ASSUME \A r \in people : r.id \in ask.steady /\ r.type \in ask.looked => r.id \in ask.found,
               NEW r \in others, r.id \in steady, r.type \in ask.looked
        PROVE  r.id \in ask.found
    <3>1. r.id # at + 1
      BY <1>3, <2>1 DEF Apart
    <3>2. PICK s \in people : s.id = r.id /\ s.type = r.type
      BY <3>1
    <3>3. QED
      BY <2>1, <3>2
  <2>2. ToldOf(ask) => ToldOf(new)
    BY <1>2 DEF ToldOf
  <2>3. QED
    BY <1>2, <2>1, <2>2 DEF Searched, Noticed
<1>5. new.matches \subseteq 0..at + 1
  BY <1>2 DEF Searched, Apart
<1>6. QED
  BY <1>1, <1>2, <1>4, <1>5 DEF Searched

(* A search goes on soundly when people are only added.                    *)
LEMMA SearchGoesOn ==
  ASSUME NEW people, NEW at, NEW others, NEW ask, Apart(people, at), Searched(ask, people, at),
         \A r \in others : r.id = at + 1 \/ \E s \in people : s.id = r.id /\ s.type = r.type,
         people \subseteq others
  PROVE  Searched(ask, others, at + 1)
<1>1. ask.steady \subseteq Ids(Matching(others, ask.contacts))
  BY DEF Searched, Ids, Matching
<1>2. [ask EXCEPT !.steady = ask.steady] = ask
  BY DEF Searched, Searches
<1> DEFINE steady == ask.steady
<1>3. Searched([ask EXCEPT !.steady = steady], others, at + 1)
  BY <1>1, SearchLater
<1>4. QED
  BY <1>2, <1>3

(* The two queries, and the check of the user's access.                    *)
LEMMA LookingNotices ==
  ASSUME NEW people, NEW at, NEW ask, NEW type \in Types, Apart(people, at),
         Searched(ask, people, at), type \notin ask.looked
  PROVE  Searched([ask EXCEPT !.looked = @ \cup {type},
                     !.found = @ \cup Ids(Matching({r \in people : r.type = type}, ask.contacts))],
                  people, at)
<1> DEFINE more == Ids(Matching({r \in people : r.type = type}, ask.contacts))
           new == [contacts |-> ask.contacts, looked |-> ask.looked \cup {type},
                   found |-> ask.found \cup more, matches |-> ask.matches,
                   restricted |-> ask.restricted, steady |-> ask.steady]
<1>1. [ask EXCEPT !.looked = @ \cup {type}, !.found = @ \cup more] = new
  <2>1. ask \in Searches
    BY DEF Searched
  <2> HIDE DEF more
  <2>2. PICK e : e = [ask EXCEPT !.looked = @ \cup {type}, !.found = @ \cup more]
    OBVIOUS
  <2>3. e = new
    BY <2>1, <2>2 DEF Searches
  <2>4. QED
    BY <2>2, <2>3
<1>2. /\ new.contacts = ask.contacts /\ new.looked = ask.looked \cup {type}
      /\ new.found = ask.found \cup more /\ new.matches = ask.matches /\ new.steady = ask.steady
      /\ new \in Searches
  BY DEF Searched, Searches, Ids, Matching, Apart, Persons
<1> HIDE DEF new
<1>3. \A r \in people : r.id \in ask.steady /\ r.type = type => r.id \in more
  <2>1. ASSUME NEW r \in people, r.id \in ask.steady, r.type = type PROVE r.id \in more
    <3>1. PICK s \in people : s.id = r.id /\ s.contacts \cap ask.contacts # {}
      BY <2>1 DEF Searched, Ids, Matching
    <3>2. s = r
      BY <3>1 DEF Apart
    <3>3. QED
      BY <2>1, <3>1, <3>2 DEF Ids, Matching
  <2>2. QED
    BY <2>1
<1>4. \A r \in people : r.id \in ask.steady /\ r.type \in ask.looked => r.id \in ask.found
  BY DEF Searched, Noticed
<1>5. Noticed(new, people)
  BY <1>2, <1>3, <1>4 DEF Noticed
<1>6. QED
  BY <1>1, <1>2, <1>5 DEF Searched

(* The check names those of the people found whom the user may see, and    *)
(* says so when there are others.                                          *)
LEMMA CheckingTells ==
  ASSUME NEW people, NEW at, NEW ask, NEW names, NEW b \in BOOLEAN, Apart(people, at),
         Searched(ask, people, at), ask.looked = Types, ask.found # {},
         names \subseteq Ids(people), b \/ names = ask.found
  PROVE  Searched([ask EXCEPT !.found = {}, !.matches = names, !.restricted = b], people, at)
<1> DEFINE new == [contacts |-> ask.contacts, looked |-> ask.looked, found |-> {},
                   matches |-> names, restricted |-> b, steady |-> ask.steady]
<1>1. [ask EXCEPT !.found = {}, !.matches = names, !.restricted = b] = new
  <2>1. ask \in Searches
    BY DEF Searched
  <2>2. PICK e : e = [ask EXCEPT !.found = {}, !.matches = names, !.restricted = b]
    OBVIOUS
  <2>3. e = new
    BY <2>1, <2>2 DEF Searches
  <2>4. QED
    BY <2>2, <2>3
<1>2. /\ new.contacts = ask.contacts /\ new.looked = ask.looked
      /\ new.found = {} /\ new.matches = names /\ new.steady = ask.steady /\ new.restricted = b
      /\ new \in Searches
  BY DEF Searched, Searches, Ids, Apart, Persons
<1> HIDE DEF new
<1>3. ask.steady \subseteq ask.found
  BY DEF Searched, Noticed, Ids, Matching, Apart, Persons
<1>4. ToldOf(new)
  BY <1>2, <1>3 DEF ToldOf
<1>5. names \subseteq 0..at
  BY DEF Ids, Apart, Persons
<1>6. QED
  BY <1>1, <1>2, <1>4, <1>5 DEF Searched, Noticed

(* A request that has searched everywhere and named whom it found.         *)
LEMMA SearchedIsTold ==
  ASSUME NEW people, NEW at, NEW ask, Apart(people, at), Searched(ask, people, at),
         ask.looked = Types, ask.found = {}
  PROVE  ToldOf(ask) /\ at + 1 \notin ask.matches
<1>1. ask.steady \subseteq {} \/ ToldOf(ask)
  BY DEF Searched, Noticed, Ids, Matching, Apart, Persons
<1>2. QED
  BY <1>1 DEF ToldOf, Searched, Apart

(* The record and the success stay, and of the calls at most one moves, to *)
(* what is sound: the call searching is the page's own, or there is none.  *)
LEMMA OneSearchMoves ==
  ASSUME IntakeInv, NEW c \in Calls, UNCHANGED row, current' \in {current, None} \/ current' = c,
         CallsApart', \A d \in Calls \ {c} : call'[d] = call[d],
         Searching(c)', Announced(c)', DuplicatesAreTold'
  PROVE  IntakeInv'
<1>1. \A d \in Calls \ {c} : Searching(d)' /\ Announced(d)'
  BY NoneIsNoCall DEF IntakeInv, Searching, Announced, InStage
<1>2. QED
  BY <1>1 DEF IntakeInv

(* A new search has looked nowhere and found nobody.                       *)
LEMMA PressCreateKeeps ==
  ASSUME IntakeInv, NEW c \in Calls, NEW contacts \in Details, PressCreate(c, contacts)
  PROVE  IntakeInv'
<1> DEFINE ask == [contacts |-> contacts, looked |-> {}, found |-> {}, matches |-> {},
                   restricted |-> FALSE, steady |-> Ids(Matching(row.value, contacts))]
<1>1. /\ Send(c, ask) /\ current' = c /\ CallsApart /\ Apart(row.value, row.at)
      /\ UNCHANGED <<row, result>>
  BY DEF PressCreate, Send, intakeVars, IntakeInv
<1>2. Searched(ask, row.value, row.at)
  BY <1>1 DEF Searched, Searches, Noticed, Ids, Matching, Apart, Persons
<1> HIDE DEF ask
<1>3. /\ CallsApart' /\ \A d \in Calls \ {c} : call'[d] = call[d]
      /\ call'[c] = [stage |-> "sent", ask |-> ask]
  BY <1>1, SentOne
<1>4. Searching(c)' /\ Announced(c)'
  <2>1. ask.contacts \in Details
    BY <1>2 DEF Searched, Searches
  <2>2. QED
    BY <1>1, <1>2, <1>3, <2>1 DEF Searching, Announced, InStage
<1>5. DuplicatesAreTold'
  BY <1>1 DEF IntakeInv, DuplicatesAreTold
<1>6. QED
  BY <1>1, <1>3, <1>4, <1>5, OneSearchMoves

(* A search of the page's own that has got a step further.                 *)
LEMMA WorkingKeeps ==
  ASSUME IntakeInv, NEW c \in Calls, c = current, InStage(c, "sent"), NEW ask,
         Searched(ask, row.value, row.at), Working(c, ask)
  PROVE  IntakeInv'
<1>1. /\ call' = [call EXCEPT ![c] = [call[c] EXCEPT !.ask = ask]]
      /\ UNCHANGED <<row, current, result>>
  BY DEF Working, intakeVars
<1>2. call[c] = [stage |-> "sent", ask |-> call[c].ask] /\ CallsApart
  BY DEF IntakeInv, Searching
<1>3. [call[c] EXCEPT !.ask = ask] = [stage |-> "sent", ask |-> ask]
  BY <1>2
<1>4. /\ CallsApart' /\ \A d \in Calls \ {c} : call'[d] = call[d]
      /\ call'[c] = [stage |-> "sent", ask |-> ask]
  BY <1>1, <1>2, <1>3 DEF CallsApart
<1>5. Searching(c)' /\ Announced(c)'
  <2>1. ask.contacts \in Details
    BY DEF Searched, Searches
  <2>2. QED
    BY <1>1, <1>4, <2>1 DEF Searching, Announced, InStage
<1>6. DuplicatesAreTold'
  BY <1>1 DEF IntakeInv, DuplicatesAreTold
<1>7. QED
  BY <1>1, <1>4, <1>5, <1>6, OneSearchMoves

(* A search looks through leads or clients, or checks the user's access.   *)
LEMMA SearchKeeps ==
  ASSUME IntakeInv, NEW c \in Calls, c = current, InStage(c, "sent"),
         CheckAccess(c) \/ \E type \in Types : FindDuplicates(c, type)
  PROVE  IntakeInv'
<1> DEFINE ask == call[c].ask
<1>1. Searched(ask, row.value, row.at) /\ Apart(row.value, row.at)
  BY DEF IntakeInv, Searching
<1>2. ASSUME NEW type \in Types, FindDuplicates(c, type) PROVE IntakeInv'
  <2> DEFINE new == [ask EXCEPT !.looked = @ \cup {type},
                       !.found = @ \cup Ids(Matching({r \in row.value : r.type = type}, ask.contacts))]
  <2>1. type \notin ask.looked /\ Working(c, new)
    BY <1>2 DEF FindDuplicates
  <2> HIDE DEF ask
  <2>2. Searched(new, row.value, row.at)
    BY <1>1, <2>1, LookingNotices
  <2> HIDE DEF new
  <2>3. QED
    BY <2>1, <2>2, WorkingKeeps
<1>3. CASE CheckAccess(c)
  <2> DEFINE names == Ids({r \in row.value : r.id \in ask.found /\ r.visible})
  <2>1. PICK b \in BOOLEAN : b = (ask.found # names)
    OBVIOUS
  <2> DEFINE new == [ask EXCEPT !.found = {}, !.matches = names, !.restricted = b]
  <2>2. ask.looked = Types /\ ask.found # {} /\ Working(c, new)
    BY <1>3, <2>1 DEF CheckAccess
  <2>3. names \subseteq Ids(row.value) /\ (b \/ names = ask.found)
    BY <2>1 DEF Ids
  <2> HIDE DEF ask, names
  <2>4. Searched(new, row.value, row.at)
    BY <1>1, <2>2, <2>3, CheckingTells
  <2> HIDE DEF new
  <2>5. QED
    BY <2>2, <2>4, WorkingKeeps
<1>4. QED
  BY <1>2, <1>3

(* A lead is inserted: others' searches go on, and the page's own was done.*)
LEMMA InsertLeadKeeps ==
  ASSUME IntakeInv, NEW c \in Calls, InsertLead(c)
  PROVE  IntakeInv'
<1> DEFINE lead == [id |-> row.at + 1, type |-> "LEAD",
                    contacts |-> call[c].ask.contacts, visible |-> TRUE]
<1>1. /\ InStage(c, "sent")
      /\ c = current => call[c].ask.looked = Types /\ call[c].ask.found = {}
      /\ row'.value = row.value \cup {lead} /\ row'.at = row.at + 1
      /\ Answer(c, [kind |-> "ok", lead |-> row.at + 1])
      /\ UNCHANGED <<current, result>> /\ CallsApart /\ Apart(row.value, row.at)
  BY DEF InsertLead, Update, intakeVars, IntakeInv
<1>2. /\ CallsApart' /\ \A d \in Calls \ {c} : call'[d] = call[d]
      /\ call'[c] = IF current = c
                    THEN [stage |-> "answered", ask |-> call[c].ask,
                          answer |-> [kind |-> "ok", lead |-> row.at + 1]]
                    ELSE Over
  BY <1>1, Answered
<1>3. Searching(c)' /\ Announced(c)'
  <2>1. CASE current = c
    <3>1. ToldOf(call[c].ask) /\ row.at + 1 \notin call[c].ask.matches
      BY <1>1, <2>1, SearchedIsTold DEF IntakeInv, Searching
    <3>2. /\ call'[c].stage = "answered" /\ call'[c].ask = call[c].ask
          /\ call'[c].answer.lead = row.at + 1
      BY <1>2, <2>1
    <3>3. QED
      BY <3>1, <3>2 DEF Searching, Announced, InStage, ToldOf
  <2>2. CASE current # c
    BY <1>1, <1>2, <2>2 DEF Searching, Announced, InStage, Over
  <2>3. QED
    BY <2>1, <2>2
<1>4. \A d \in Calls \ {c} : Searching(d)' /\ Announced(d)'
  <2> SUFFICES ASSUME NEW d \in Calls \ {c} PROVE Searching(d)' /\ Announced(d)'
    OBVIOUS
  <2>1. Searching(d) /\ Announced(d)
    BY DEF IntakeInv
  <2>2. call'[d] = call[d]
    BY <1>2
  <2>3. Searched(call[d].ask, row.value, row.at) => Searched(call[d].ask, row'.value, row'.at)
    BY <1>1, SearchGoesOn
  <2>4. QED
    BY <1>1, <2>1, <2>2, <2>3 DEF Searching, Announced, InStage, ToldOf
<1>5. DuplicatesAreTold'
  BY <1>1 DEF IntakeInv, DuplicatesAreTold
<1>6. lead \in Persons /\ lead.id = row.at + 1
  <2>1. call[c].ask.contacts \in Details
    BY <1>1 DEF IntakeInv, Searching
  <2>2. row.at + 1 \in Nat /\ "LEAD" \in Types
    BY <1>1 DEF Apart, Types
  <2>3. QED
    BY <2>1, <2>2 DEF Persons
<1> HIDE DEF lead
<1>7. Apart(row'.value, row'.at)
  <2>1. \A r \in row.value : r.id <= row.at /\ r.id \in Nat
    BY <1>1 DEF Apart, Persons
  <2>2. QED
    BY <1>1, <1>6, <2>1 DEF Apart
<1>8. QED
  BY <1>1, <1>2, <1>3, <1>4, <1>5, <1>7 DEF IntakeInv

(* A request to take in a lead is refused.                                 *)
LEMMA RefuseLeadKeeps ==
  ASSUME IntakeInv, NEW c \in Calls, RefuseLead(c)
  PROVE  IntakeInv'
<1>1. Answer(c, [kind |-> "error"]) /\ UNCHANGED <<row, current, result>> /\ CallsApart
  BY DEF RefuseLead, intakeVars, IntakeInv
<1>2. /\ CallsApart' /\ \A d \in Calls \ {c} : call'[d] = call[d]
      /\ call'[c] = IF current = c
                    THEN [stage |-> "answered", ask |-> call[c].ask, answer |-> [kind |-> "error"]]
                    ELSE Over
  BY <1>1, Answered
<1>3. Searching(c)' /\ Announced(c)' /\ DuplicatesAreTold'
  BY <1>1, <1>2 DEF Searching, Announced, InStage, Over, DuplicatesAreTold, IntakeInv
<1>4. QED
  BY <1>1, <1>2, <1>3, OneSearchMoves

(* The form shows the answer: a success with whom its search has named.    *)
LEMMA ShowIntakeKeeps ==
  ASSUME IntakeInv, NEW c \in Calls, ShowCreated(c) \/ ShowIntakeError(c)
  PROVE  IntakeInv'
<1>1. Finish(c) /\ UNCHANGED row /\ CallsApart /\ InStage(c, "answered") /\ current' = None
  BY DEF ShowCreated, ShowIntakeError, Finish, Awaits, IntakeInv
<1>2. CallsApart' /\ (\A d \in Calls \ {c} : call'[d] = call[d]) /\ call'[c] = Over
  BY <1>1, FinishedOne
<1>3. Searching(c)' /\ Announced(c)'
  BY <1>1, <1>2, NoneIsNoCall DEF Searching, Announced, InStage, Over
<1>4. DuplicatesAreTold'
  <2>1. CASE ShowCreated(c)
    <3>1. call[c].answer.lead \notin call[c].ask.matches /\ ToldOf(call[c].ask)
      BY <1>1, <2>1 DEF ShowCreated, IntakeInv, Announced
    <3>2. /\ result'.lead = call[c].answer.lead /\ result'.matches = call[c].ask.matches
          /\ result'.restricted = call[c].ask.restricted /\ result'.steady = call[c].ask.steady
      BY <2>1 DEF ShowCreated
    <3>3. QED
      BY <3>1, <3>2 DEF ToldOf, DuplicatesAreTold
  <2>2. CASE ShowIntakeError(c)
    BY <2>2 DEF ShowIntakeError, intakeVars, IntakeInv, DuplicatesAreTold
  <2>3. QED
    BY <2>1, <2>2
<1>5. QED
  BY <1>1, <1>2, <1>3, <1>4, OneSearchMoves

(* The answer is lost, and of the search nothing is known any more.        *)
LEMMA UnreadableKeeps ==
  ASSUME IntakeInv, NEW c \in Calls, Unreadable(c)
  PROVE  IntakeInv'
<1> DEFINE next == IF InStage(c, "answered") THEN Over
                   ELSE [stage |-> "sent", ask |-> [contacts |-> call[c].ask.contacts]]
<1>1. /\ call' = [call EXCEPT ![c] = next] /\ current' = None /\ CallsApart
      /\ UNCHANGED <<row, result>> /\ c = current
  BY DEF Unreadable, intakeVars, IntakeInv
<1>2. CallsApart' /\ (\A d \in Calls \ {c} : call'[d] = call[d]) /\ call'[c] = next
  BY <1>1 DEF CallsApart
<1>3. Searching(c)' /\ Announced(c)'
  <2>1. CASE InStage(c, "answered")
    BY <1>1, <1>2, <2>1, NoneIsNoCall DEF Searching, Announced, InStage, Over
  <2>2. CASE ~InStage(c, "answered")
    <3>1. InStage(c, "sent") /\ call[c].ask.contacts \in Details
      BY <1>1, <2>2 DEF IntakeInv, Searching, InStage
    <3>2. /\ call'[c].stage = "sent" /\ call'[c].ask = [contacts |-> call[c].ask.contacts]
      BY <1>2, <2>2
    <3>3. QED
      BY <1>1, <3>1, <3>2, NoneIsNoCall DEF Searching, Announced, InStage
  <2>3. QED
    BY <2>1, <2>2
<1>4. DuplicatesAreTold'
  BY <1>1 DEF IntakeInv, DuplicatesAreTold
<1>5. QED
  BY <1>1, <1>2, <1>3, <1>4, OneSearchMoves

(* What others do to people: no id is given twice, and nobody's type is    *)
(* changed.                                                                *)
LEMMA OthersKeep ==
  ASSUME IntakeInv, NEW people, Others(people), Apart(people, row.at + 1),
         \A r \in people : r.id = row.at + 1 \/ \E s \in row.value : s.id = r.id /\ s.type = r.type
  PROVE  IntakeInv'
<1> DEFINE steady(c) == call[c].ask.steady \cap Ids(Matching(people, call[c].ask.contacts))
<1>1. /\ row'.value = people /\ row'.at = row.at + 1 /\ UNCHANGED <<current, result>>
      /\ call' = [c \in Calls |-> IF c = current /\ InStage(c, "sent")
                                 THEN [call[c] EXCEPT !.ask = [call[c].ask EXCEPT !.steady = steady(c)]]
                                 ELSE call[c]]
      /\ Apart(row.value, row.at)
  BY DEF Others, Update, intakeVars, IntakeInv
<1>2. CallsApart' /\ Apart(row'.value, row'.at)
  BY <1>1 DEF CallsApart
<1>3. \A c \in Calls : Searching(c)' /\ Announced(c)'
  <2> SUFFICES ASSUME NEW c \in Calls PROVE Searching(c)' /\ Announced(c)'
    OBVIOUS
  <2>1. Searching(c) /\ Announced(c)
    BY DEF IntakeInv
  <2>2. CASE c = current /\ InStage(c, "sent")
    <3> DEFINE ask == call[c].ask
               new == [ask EXCEPT !.steady = steady(c)]
    <3>1. /\ call[c] = [stage |-> "sent", ask |-> ask] /\ Searched(ask, row.value, row.at)
          /\ ask.contacts \in Details
      BY <2>1, <2>2 DEF Searching
    <3>2. call'[c] = [call[c] EXCEPT !.ask = new]
      BY <1>1, <2>2
    <3>3. /\ steady(c) \subseteq ask.steady
          /\ steady(c) \subseteq Ids(Matching(people, ask.contacts))
      OBVIOUS
    <3> HIDE DEF steady, ask
    <3>4. Searched(new, people, row.at + 1)
      BY <1>1, <3>1, <3>3, SearchLater
    <3>5. new.contacts \in Details
      BY <3>4 DEF Searched, Searches
    <3> HIDE DEF new
    <3>6. call'[c] = [stage |-> "sent", ask |-> new]
      BY <3>1, <3>2
    <3>7. call'[c].stage = "sent" /\ call'[c].ask = new
      BY <3>6
    <3>8. Searched(call'[c].ask, row'.value, row'.at)
      BY <1>1, <3>4, <3>7
    <3>9. QED
      BY <3>5, <3>6, <3>7, <3>8 DEF Searching, Announced, InStage
  <2>3. CASE ~(c = current /\ InStage(c, "sent"))
    BY <1>1, <2>1, <2>3 DEF Searching, Announced, InStage, ToldOf
  <2>4. QED
    BY <2>2, <2>3
<1>4. DuplicatesAreTold'
  BY <1>1 DEF IntakeInv, DuplicatesAreTold
<1>5. QED
  BY <1>2, <1>3, <1>4 DEF IntakeInv

(* Others take in somebody, with an id of their own.                       *)
LEMMA OtherTakesInKeeps ==
  ASSUME IntakeInv, NEW type \in Types, NEW contacts \in Details, OtherTakesIn(type, contacts)
  PROVE  IntakeInv'
<1> DEFINE r1 == [id |-> row.at + 1, type |-> type, contacts |-> contacts, visible |-> FALSE]
           people == row.value \cup {r1}
<1>1. Others(people) /\ Apart(row.value, row.at)
  BY DEF OtherTakesIn, IntakeInv
<1>2. r1 \in Persons /\ r1.id = row.at + 1
  <2>1. row.at + 1 \in Nat
    BY <1>1 DEF Apart
  <2>2. QED
    BY <2>1 DEF Persons
<1> HIDE DEF r1
<1>3. Apart(people, row.at + 1)
  <2>1. \A r \in row.value : r.id <= row.at /\ r.id \in Nat
    BY <1>1 DEF Apart, Persons
  <2>2. QED
    BY <1>1, <1>2, <2>1 DEF Apart
<1>4. \A r \in people : r.id = row.at + 1 \/ \E s \in row.value : s.id = r.id /\ s.type = r.type
  BY <1>2
<1> HIDE DEF people
<1>5. QED
  BY <1>1, <1>3, <1>4, OthersKeep

(* Somebody's details or visibility, and nothing else.                     *)
LEMMA ChangingKeeps ==
  ASSUME IntakeInv, NEW r \in row.value, NEW s \in Persons, s.id = r.id, s.type = r.type,
         Others((row.value \ {r}) \cup {s})
  PROVE  IntakeInv'
<1> DEFINE people == (row.value \ {r}) \cup {s}
<1>1. Apart(row.value, row.at)
  BY DEF IntakeInv
<1>2. Apart(people, row.at + 1)
  <2>1. \A p \in row.value : p.id <= row.at /\ p.id \in Nat
    BY <1>1 DEF Apart, Persons
  <2>2. people \subseteq Persons /\ row.at + 1 \in Nat /\ \A p \in people : p.id <= row.at + 1
    BY <1>1, <2>1 DEF Apart
  <2>3. \A p, q \in people : p.id = q.id => p = q
    BY <1>1 DEF Apart
  <2>4. QED
    BY <2>2, <2>3 DEF Apart
<1>3. \A p \in people : p.id = row.at + 1 \/ \E q \in row.value : q.id = p.id /\ q.type = p.type
  OBVIOUS
<1> HIDE DEF people
<1>4. QED
  BY <1>2, <1>3, OthersKeep DEF people

(* Every step of the page that takes in leads.                             *)
LEMMA IntakeStep ==
  ASSUME IntakeInv, IntakeNext
  PROVE  IntakeInv'
<1>1. row.value \subseteq Persons
  BY DEF IntakeInv, Apart
<1>2. ASSUME NEW contacts \in Details, NEW r \in row.value, OtherCorrects(r, contacts)
      PROVE  IntakeInv'
  <2> DEFINE s == [r EXCEPT !.contacts = contacts]
  <2>1. r \in Persons
    BY <1>1
  <2> HIDE DEF Details
  <2>2. s \in Persons /\ s.id = r.id /\ s.type = r.type
    BY <2>1 DEF Persons
  <2>3. Others((row.value \ {r}) \cup {s})
    BY <1>2 DEF OtherCorrects
  <2> HIDE DEF s
  <2>4. QED
    BY <2>2, <2>3, ChangingKeeps
<1>3. ASSUME NEW r \in row.value, OtherReassigns(r)
      PROVE  IntakeInv'
  <2>1. PICK b \in BOOLEAN : b = ~r.visible
    OBVIOUS
  <2> DEFINE s == [r EXCEPT !.visible = b]
  <2>2. r \in Persons
    BY <1>1
  <2>3. s \in Persons /\ s.id = r.id /\ s.type = r.type
    BY <2>1, <2>2 DEF Persons
  <2>4. Others((row.value \ {r}) \cup {s})
    BY <1>3, <2>1 DEF OtherReassigns
  <2> HIDE DEF s
  <2>5. QED
    BY <2>3, <2>4, ChangingKeeps
<1>4. CreateAnother => IntakeInv'
  BY DEF CreateAnother, pageVars, IntakeInv, CallsApart, Searching, Announced, InStage,
     DuplicatesAreTold
<1>5. QED
  BY <1>2, <1>3, <1>4, PressCreateKeeps, SearchKeeps, InsertLeadKeeps, RefuseLeadKeeps,
     ShowIntakeKeeps, UnreadableKeeps, OtherTakesInKeeps DEF IntakeNext

-----------------------------------------------------------------------------
(* The page: one panel, and nothing of the others.                         *)
Alone ==
  /\ kind # "form" => form = None
  /\ kind # "copy" => panel = None
  /\ kind # "action" => action = None
  /\ kind # "invitation" => displayed = None
  /\ kind # "intake" => result = None
PanelsInv ==
  /\ CallsApart /\ Alone
  /\ kind = "form" => FormInv
  /\ kind = "action" => ActionInv
  /\ kind = "intake" => IntakeInv

(* The page starts with its one panel as the panel starts.                 *)
LEMMA PanelsInitially == Init => PanelsInv
<1> SUFFICES ASSUME Init PROVE PanelsInv
  OBVIOUS
<1>1. CASE kind = "form" /\ EditInit /\ NoCopy /\ NoAction /\ NoInvitation /\ NoIntake
  BY <1>1, FormInitially
     DEF PanelsInv, Alone, NoCopy, NoAction, NoInvitation, NoIntake, FormInv
<1>2. CASE kind = "copy" /\ CopyInit /\ NoForm /\ NoAction /\ NoInvitation /\ NoIntake
  BY <1>2 DEF PanelsInv, Alone, NoForm, NoAction, NoInvitation, NoIntake, CallsApart, CopyInit,
     PageInit
<1>3. CASE kind = "action" /\ ActionInit /\ NoForm /\ NoCopy /\ NoInvitation /\ NoIntake
  BY <1>3, ActionInitially
     DEF PanelsInv, Alone, NoForm, NoCopy, NoInvitation, NoIntake, ActionInv
<1>4. CASE kind = "invitation" /\ InvitationInit /\ NoForm /\ NoCopy /\ NoAction /\ NoIntake
  BY <1>4 DEF PanelsInv, Alone, NoForm, NoCopy, NoAction, NoIntake, CallsApart, InvitationInit,
     PageInit
<1>5. CASE kind = "intake" /\ IntakeInit /\ NoForm /\ NoCopy /\ NoAction /\ NoInvitation
  BY <1>5, IntakeInitially
     DEF PanelsInv, Alone, NoForm, NoCopy, NoAction, NoInvitation, IntakeInv
<1>6. QED
  BY <1>1, <1>2, <1>3, <1>4, <1>5 DEF Init

(* Nothing of the invariant moves when nothing does.                       *)
LEMMA PanelsStill == PanelsInv /\ UNCHANGED panelVars => PanelsInv'
<1> SUFFICES ASSUME PanelsInv, UNCHANGED panelVars PROVE PanelsInv'
  OBVIOUS
<1>1. /\ UNCHANGED <<row, props, asked, reading, call, current, kind>>
      /\ UNCHANGED <<form, fields, baseline, token, lock, touched, panel>>
      /\ UNCHANGED <<action, state, chosen, told, displayed, result>>
  BY DEF panelVars, pageVars, formVars, copyVars, actionVars, invitationVars, intakeVars
<1>2. CallsApart' = CallsApart /\ Alone' = Alone
  BY <1>1 DEF CallsApart, Alone
<1>3. FormInv => FormInv'
  BY <1>1, <1>2 DEF FormInv, FormRecord, FormInputs, FormPage, FormAsk, FormAnswer, SeenAs, IsData,
     InStage
<1>4. ActionInv => ActionInv'
  BY <1>1, QuietKeeps
<1>5. IntakeInv => IntakeInv'
  BY <1>1, <1>2 DEF IntakeInv, Searching, Announced, InStage, DuplicatesAreTold
<1>6. QED
  BY <1>1, <1>2, <1>3, <1>4, <1>5 DEF PanelsInv

(* The step of the page is a step of its panel.                            *)
LEMMA PanelsStep == PanelsInv /\ [Next]_panelVars => PanelsInv'
<1> SUFFICES ASSUME PanelsInv, Next PROVE PanelsInv'
  BY PanelsStill
<1>1. CASE /\ kind = "form" /\ EditNext
           /\ UNCHANGED <<kind, copyVars, actionVars, invitationVars, intakeVars>>
  BY <1>1, FormStep DEF PanelsInv, Alone, FormInv, copyVars, actionVars, invitationVars, intakeVars
<1>2. CASE /\ kind = "copy" /\ CopyNext
           /\ UNCHANGED <<kind, formVars, actionVars, invitationVars, intakeVars>>
  BY <1>2, CopyCalls DEF PanelsInv, Alone, formVars, actionVars, invitationVars, intakeVars
<1>3. CASE /\ kind = "action" /\ ActionNext
           /\ UNCHANGED <<kind, formVars, copyVars, invitationVars, intakeVars>>
  BY <1>3, ActionStep DEF PanelsInv, Alone, ActionInv, formVars, copyVars, invitationVars, intakeVars
<1>4. CASE /\ kind = "invitation" /\ InvitationNext
           /\ UNCHANGED <<kind, formVars, copyVars, actionVars, intakeVars>>
  BY <1>4, InvitationCalls DEF PanelsInv, Alone, formVars, copyVars, actionVars, intakeVars
<1>5. CASE /\ kind = "intake" /\ IntakeNext
           /\ UNCHANGED <<kind, formVars, copyVars, actionVars, invitationVars>>
  BY <1>5, IntakeStep DEF PanelsInv, Alone, IntakeInv, formVars, copyVars, actionVars, invitationVars
<1>6. QED
  BY <1>1, <1>2, <1>3, <1>4, <1>5 DEF Next

(* The invariant of the page, with whichever panel it has.                 *)
THEOREM PanelsInvariant == Spec => []PanelsInv
<1>1. Init => PanelsInv
  BY PanelsInitially
<1>2. PanelsInv /\ [Next]_panelVars => PanelsInv'
  BY PanelsStep
<1>3. QED
  BY <1>1, <1>2, PTL DEF Spec

(* An action of one panel, publication, conversion, response or booking,   *)
(* is done once however often requests are lost and sent again, and what   *)
(* the panel says was done is what was done; a success of the page that    *)
(* takes in leads tells of every match there has been all along.           *)
THEOREM ActionsAreDoneOnce == Spec => []DoneOnceAndTrulyTold
<1>1. PanelsInv => DoneOnceAndTrulyTold
  <2> SUFFICES ASSUME PanelsInv PROVE DoneOnce /\ DuplicatesAreTold
    BY DEF DoneOnceAndTrulyTold
  <2>1. DoneOnce
    <3>1. CASE kind = "action"
      BY <3>1 DEF PanelsInv, ActionInv, Once, DoneOnce
    <3>2. CASE kind # "action"
      BY <3>2, NoneIsNoAim DEF PanelsInv, Alone, DoneOnce
    <3>3. QED
      BY <3>1, <3>2
  <2>2. DuplicatesAreTold
    BY DEF PanelsInv, Alone, IntakeInv, DuplicatesAreTold
  <2>3. QED
    BY <2>1, <2>2
<1>2. QED
  BY <1>1, PanelsInvariant, PTL

(* The steps of the page change the record as the form promises.           *)
LEMMA FormMoves == PanelsInv /\ [Next]_panelVars => [OverwriteStep /\ TypedStep]_row
<1> SUFFICES ASSUME PanelsInv, [Next]_panelVars, row' # row PROVE OverwriteStep /\ TypedStep
  OBVIOUS
<1>1. Next
  BY DEF panelVars, pageVars
<1>2. CASE kind = "form"
  BY <1>1, <1>2, FormSteps DEF Next, PanelsInv
<1>3. CASE kind # "form"
  BY <1>3, NoneIsNoForm DEF PanelsInv, Alone, OverwriteStep, TypedStep
<1>4. QED
  BY <1>2, <1>3

(* A client saved from the form was, until then, what its user was shown.  *)
THEOREM SavesOverwriteTheSeen == Spec => OverwritesOnlyWhatWasSeen
<1>1. PanelsInv /\ [Next]_panelVars =>
        [form = "client" => \A c \in Calls : Saves(c) => row.value.data = call[c].ask.seen]_row
  BY FormMoves DEF OverwriteStep
<1>2. QED
  BY <1>1, PanelsInvariant, PTL DEF Spec, OverwritesOnlyWhatWasSeen

(* A save changes no field its user has not typed in.                      *)
THEOREM SavesAreTyped == Spec => SavesOnlyWhatWasTyped
<1>1. PanelsInv /\ [Next]_panelVars =>
        [form # None => \A c \in Calls : Saves(c) =>
           \A f \in Fields : row'.value.data[f] # row.value.data[f] => f \in call[c].ask.touched]_row
  BY FormMoves DEF TypedStep
<1>2. QED
  BY <1>1, PanelsInvariant, PTL DEF Spec, SavesOnlyWhatWasTyped

(* A panel's own result stays on it until the record it shows has changed, *)
(* or its next request has succeeded.                                      *)
THEOREM OwnResultsStay == Spec => OwnResultSurvives
<1>1. PanelsInv /\ [Next]_panelVars =>
        [copy' # copy => lastProp' # lastProp \/ current' # current]_copyVars
  <2> SUFFICES ASSUME PanelsInv, [Next]_panelVars, ~(UNCHANGED copyVars) PROVE CopyStays
    BY DEF CopyStays
  <2>1. Next
    BY DEF panelVars
  <2>2. kind = "copy" /\ CopyNext
    BY <2>1 DEF Next
  <2>3. QED
    BY <2>2, CopySurvives
<1>2. QED
  BY <1>1, PanelsInvariant, PTL DEF Spec, OwnResultSurvives

=============================================================================
