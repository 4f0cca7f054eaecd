--------------------------- MODULE OutreachProofs ---------------------------
(***************************************************************************)
(* What TLAPS proves of module Outreach for every set of leads and of      *)
(* handlers, any number of steps, of runs and of handlers' acts: typing,   *)
(* that a suppressed contact gets at most the message that was in flight,  *)
(* that no step reaches a contact twice unless somebody approved it again  *)
(* or its record was lost, and that a batch does not write to whom it      *)
(* heard from.                                                             *)
(***************************************************************************)
EXTENDS Outreach, WellFoundedInduction, TLAPS

-----------------------------------------------------------------------------
(* Greatest steps.                                                         *)

\* Every non-empty set of natural numbers has a least element.
LEMMA LeastNumber ==
  ASSUME NEW T, T \subseteq Nat, T # {}
  PROVE  \E n \in T : \A m \in T : n <= m
<1> DEFINE R == OpToRel(<, Nat)
<1>1. \A n, m \in Nat : <<m, n>> \in R <=> m < n
  BY DEF OpToRel
<1>2. IsWellFoundedOn(R, Nat)
  BY NatLessThanWellFounded
<1> HIDE DEF R
<1>3. PICK n \in T : \A m \in T : ~ (<<m, n>> \in R)
  BY <1>2, WFMin
<1>4. \A m \in T : ~ (m < n)
  BY <1>1, <1>3
<1> QED BY <1>4

\* A non-empty set of steps has a last one.
LEMMA LastOfSteps ==
  ASSUME NEW T, T \subseteq Steps, T # {}
  PROVE  \E s \in T : \A t \in T : t <= s
<1> DEFINE left == {LastStep - s : s \in T}
<1>1. \A s \in T : s \in Nat /\ LastStep - s \in Nat
  BY StepsAssumption DEF Steps
<1>2. PICK n \in left : \A m \in left : n <= m
  <2>1. left \subseteq Nat /\ left # {}
    BY <1>1
  <2> HIDE DEF left
  <2> QED BY <2>1, LeastNumber
<1>3. PICK s \in T : n = LastStep - s
  BY <1>2
<1>4. ASSUME NEW t \in T PROVE t <= s
  <2>1. LastStep - s <= LastStep - t
    BY <1>2, <1>3
  <2> QED BY <1>1, <2>1, StepsAssumption
<1> QED BY <1>4

-----------------------------------------------------------------------------
(* Rows.                                                                   *)

\* Only a lead with its first contact is in the sequence: whoever accepts a
\* referral leaves a row that nobody can queue.
Sound(row) == row \in Row /\ (row.status = "active" => row.contact = "first")

\* The row's lead is not due and will not be by waiting.
Quiet(row) == ~InSequence(row)

LEMMA NewRowSound == Sound(NewRow) /\ Quiet(NewRow)
  BY StepsAssumption DEF NewRow, Sound, Row, Statuses, Contacts, Quiet, InSequence

\* What a row must be checked for after a field was set.
LEMMA StoppedSound ==
  ASSUME NEW row, Sound(row), NEW status \in Stops
  PROVE  /\ Sound(Stopped(row, status)) /\ Quiet(Stopped(row, status))
         /\ Stopped(row, status).contact = row.contact
         /\ Stopped(row, status).status = status
<1>1. /\ status \in Statuses /\ status # "active" /\ 0 \in 0..LastStep
      /\ FALSE \in BOOLEAN
  BY StepsAssumption DEF Statuses, Stops
<1>2. row \in Row
  BY DEF Sound
<1>3. Stopped(row, status) \in Row
  BY <1>1, <1>2 DEF Stopped, Row
<1>4. Stopped(row, status).contact = row.contact /\ Stopped(row, status).status = status
  BY <1>2 DEF Stopped, Row
<1> QED BY <1>1, <1>3, <1>4 DEF Sound, Quiet, InSequence

LEMMA QueuedSound ==
  ASSUME NEW row, Sound(row), row.contact = "first"
  PROVE  Sound(Queued(row))
<1>1. /\ row \in Row /\ "active" \in Statuses /\ 0 \in 0..LastStep /\ FALSE \in BOOLEAN
  BY StepsAssumption DEF Sound, Statuses
<1>2. Queued(row) \in Row
  BY <1>1 DEF Queued, Row
<1>3. Queued(row).contact = row.contact
  BY <1>1 DEF Queued, Row
<1> QED BY <1>2, <1>3 DEF Sound

LEMMA AdvancedSound ==
  ASSUME NEW row, Sound(row), InSequence(row)
  PROVE  Sound(Advanced(row))
<1>1. /\ row \in Row /\ row.step + 1 \in 0..LastStep
      /\ (row.step + 1 < LastStep) \in BOOLEAN
  BY StepsAssumption DEF Sound, Row, InSequence
<1>2. Advanced(row) \in Row
  BY <1>1 DEF Advanced, Row
<1>3. Advanced(row).contact = row.contact /\ Advanced(row).status = row.status
  BY <1>1 DEF Advanced, Row
<1> QED BY <1>2, <1>3 DEF Sound

LEMMA RestoredSound ==
  ASSUME NEW l \in Leads, NEW row, Sound(row), row.contact = "first",
         HasSent(l, row, 1)
  PROVE  Sound(Restored(l, row))
<1> DEFINE steps == {s \in Steps : HasSent(l, row, s)}
           last == CHOOSE s \in steps : \A t \in steps : t <= s
<1>1. 1 \in steps /\ steps \subseteq Steps
  BY StepsAssumption DEF Steps
<1>2. last \in steps
  <2>1. \E s \in steps : \A t \in steps : t <= s
    BY <1>1, LastOfSteps
  <2> QED BY <2>1
<1>3. /\ last \in 0..LastStep /\ (last < LastStep) \in BOOLEAN
      /\ "active" \in Statuses /\ row \in Row
  BY <1>1, <1>2, StepsAssumption DEF Steps, Statuses, Sound
<1>4. Restored(l, row) =
        [row EXCEPT !.status = "active", !.step = last, !.waiting = last < LastStep,
                    !.thread = TRUE]
  BY DEF Restored
<1> HIDE DEF last
<1>5. Restored(l, row) \in Row
  BY <1>3, <1>4 DEF Row
<1>6. Restored(l, row).contact = row.contact
  BY <1>3, <1>4 DEF Row
<1> QED BY <1>5, <1>6 DEF Sound

LEMMA AnsweredSound ==
  ASSUME NEW row, Sound(row), NEW kind \in Kinds \cup {"none"}, Concerns(row, kind)
  PROVE  /\ Sound(Answered(row, kind))
         /\ kind \in Decisive \/ Quiet(row) => Quiet(Answered(row, kind))
<1>1. kind \in {"answer", "refusal", "referral", "stop", "bounce", "away", "auto"}
  BY DEF Kinds, Concerns
<1>2. CASE kind \in {"answer", "refusal"}
  BY <1>2, StoppedSound DEF Answered, Stops
<1>3. CASE kind = "referral"
  <2>1. Answered(row, kind) = [Stopped(row, "replied") EXCEPT !.referral = "pending"]
    BY <1>3 DEF Answered
  <2>2. Sound(Stopped(row, "replied")) /\ Stopped(row, "replied").status = "replied"
    BY StoppedSound DEF Stops, Stopped, Sound, Row
  <2> QED BY <2>1, <2>2 DEF Sound, Row, Quiet, InSequence
<1>4. CASE kind = "stop"
  BY <1>4, StoppedSound DEF Answered, Stops
<1>5. CASE kind = "bounce"
  BY <1>5, StoppedSound DEF Answered, Stops
<1>6. CASE kind = "away"
  <2>1. Answered(row, kind) = [row EXCEPT !.waiting = TRUE]
    BY <1>6 DEF Answered
  <2> QED BY <1>6, <2>1 DEF Sound, Row, Quiet, InSequence, Decisive
<1>7. CASE kind = "auto"
  BY <1>7 DEF Answered, Decisive
<1> QED BY <1>1, <1>2, <1>3, <1>4, <1>5, <1>6, <1>7

-----------------------------------------------------------------------------
(* What the runner and the handlers hold between two of their steps.       *)

Inboxes == [Leads -> Kinds \cup {"none"}]

LEMMA MailKinds ==
  ASSUME NEW m \in Mails \cup {NoMail}
  PROVE  m.kind \in Kinds \cup {"none"}
  BY MailsAssumption DEF Kinds, NoMail

RunnerStates == [phase : Phases, todo : SUBSET Leads, current : SUBSET Leads,
                 drafted : BOOLEAN, inbox : Inboxes]

HandlerStates == [op : Ops, lead : Leads, row : Row, step : 0..LastStep,
                  kind : Kinds \cup {"none"}]

Message(l) == <<l, copy[l].contact, StepDue(l)>>

Batch == {"send", "sending", "mark", "record", "advance"}
WithMessage == {"sending", "mark", "record", "advance"}

RowsSound ==
  /\ \A l \in Leads : Sound(lead[l]) /\ Sound(copy[l])
  /\ \A h \in Handlers : handler[h] # NoOp => Sound(handler[h].row)

\* What a handler looked at when it began still holds of its copy.
HandlersRead ==
  \A h \in Handlers :
    /\ handler[h].op = "sync" => Concerns(handler[h].row, handler[h].kind)
    /\ handler[h].op = "queue" => Eligible(handler[h].row)
    /\ handler[h].op \in {"approve", "edit"} => handler[h].step \in Steps

\* What a phase of the runner looked at when it read its leads still holds of
\* its copies, and at most one message is under way.
RunnerReads ==
  /\ runner.phase = "enqueue" => \A l \in runner.todo : Eligible(copy[l])
  /\ runner.phase = "sync" => \A l \in runner.todo : Concerns(copy[l], runner.inbox[l])
  /\ runner.phase \in Batch =>
       \A l \in runner.todo \cup runner.current : InSequence(copy[l])
  /\ IF runner.phase \in WithMessage
     THEN \E l \in Leads : runner.current = {l} /\ l \notin runner.todo
     ELSE runner.current = {}
  /\ runner.phase = "mark" => \A l \in runner.current : Message(l) \in got

Typed == TypeOK /\ RowsSound /\ HandlersRead /\ RunnerReads

-----------------------------------------------------------------------------
(* What the pieces of the actions do, field by field.                      *)

LEMMA RunnerTyped ==
  ASSUME TypeOK
  PROVE  /\ runner \in RunnerStates /\ runner.phase \in Phases
         /\ runner.todo \subseteq Leads /\ runner.current \subseteq Leads
         /\ runner.inbox \in Inboxes /\ runner.drafted \in BOOLEAN
         /\ copy \in [Leads -> Row] /\ lead \in [Leads -> Row]
  BY DEF TypeOK, RunnerStates, Inboxes

LEMMA NothingReadTyped == NothingRead \in Inboxes /\ Idle \in RunnerStates
  BY DEF NothingRead, Inboxes, Idle, Busy, RunnerStates, Phases

LEMMA FinishEffect ==
  ASSUME TypeOK, NEW l \in Leads, Finish(l)
  PROVE  /\ runner' \in RunnerStates
         /\ runner'.phase = IF runner.phase = "advance" THEN "send" ELSE runner.phase
         /\ runner'.todo = runner.todo \ {l} /\ runner'.current = {}
         /\ \A k \in Leads \ {l} : runner'.inbox[k] = runner.inbox[k]
         /\ copy' \in [Leads -> Row]
         /\ copy'[l] = NewRow
         /\ \A k \in Leads \ {l} : copy'[k] = copy[k]
<1> DEFINE inbox == [runner.inbox EXCEPT ![l] = "none"]
           phase == IF runner.phase = "advance" THEN "send" ELSE runner.phase
<1>1. runner \in RunnerStates /\ runner.inbox \in Inboxes /\ copy \in [Leads -> Row]
  BY RunnerTyped
<1>2. inbox \in Inboxes /\ \A k \in Leads \ {l} : inbox[k] = runner.inbox[k]
  BY <1>1 DEF Inboxes
<1>3. phase \in Phases
  BY <1>1 DEF RunnerStates, Phases
<1>4. runner' = [runner EXCEPT !.phase = phase, !.todo = @ \ {l}, !.current = {},
                               !.drafted = FALSE, !.inbox = inbox]
  BY <1>1 DEF Finish, RunnerStates
<1> HIDE DEF inbox, phase
<1>5. runner' = [phase |-> phase, todo |-> runner.todo \ {l}, current |-> {},
                 drafted |-> FALSE, inbox |-> inbox]
  BY <1>1, <1>4 DEF RunnerStates
<1>6. runner' \in RunnerStates
  BY <1>1, <1>2, <1>3, <1>5 DEF RunnerStates
<1>7. NewRow \in Row
  BY NewRowSound DEF Sound
<1>8. copy' = [copy EXCEPT ![l] = NewRow]
  BY DEF Finish
<1> QED BY <1>1, <1>2, <1>5, <1>6, <1>7, <1>8 DEF phase

LEMMA ReadEffect ==
  ASSUME TypeOK, NEW phase \in Phases, NEW leads \in SUBSET Leads,
         NEW inbox \in Inboxes, ReadWith(phase, leads, inbox)
  PROVE  /\ runner' \in RunnerStates
         /\ runner'.phase = phase /\ runner'.todo = leads /\ runner'.current = {}
         /\ runner'.inbox = inbox
         /\ copy' \in [Leads -> Row]
         /\ \A l \in Leads : copy'[l] = IF l \in leads THEN lead[l] ELSE NewRow
<1>1. runner' = [phase |-> phase, todo |-> leads, current |-> {}, drafted |-> FALSE,
                 inbox |-> inbox]
  BY DEF ReadWith, Busy
<1>2. lead \in [Leads -> Row] /\ NewRow \in Row
  BY RunnerTyped, NewRowSound DEF Sound
<1> QED BY <1>1, <1>2 DEF ReadWith, RunnerStates

\* A runner that ends leaves nothing behind.
LEMMA IdleEffect ==
  ASSUME TypeOK, runner' = Idle, copy' = [l \in Leads |-> NewRow]
  PROVE  /\ runner' \in RunnerStates /\ runner'.phase = "idle"
         /\ runner'.todo = {} /\ runner'.current = {}
         /\ copy' \in [Leads -> Row] /\ \A l \in Leads : copy'[l] = NewRow
<1>1. NewRow \in Row
  BY NewRowSound DEF Sound
<1> QED BY <1>1, NothingReadTyped DEF Idle, Busy

LEMMA WriteEffect ==
  ASSUME TypeOK, NEW l \in Leads, NEW row \in Row, Write(l, row)
  PROVE  /\ lead' \in [Leads -> Row] /\ lead'[l] = row
         /\ \A k \in Leads \ {l} : lead'[k] = lead[k]
  BY RunnerTyped DEF Write

LEMMA SetDraftEffect ==
  ASSUME TypeOK, NEW l \in Leads, NEW s \in Steps, NEW status \in DraftStates,
         SetDraft(l, s, status)
  PROVE  /\ draft' \in [Leads -> [Steps -> DraftStates]]
         /\ draft'[l][s] = status
         /\ \A k \in Leads, t \in Steps :
              k # l \/ t # s => draft'[k][t] = draft[k][t]
  BY DEF SetDraft, TypeOK

LEMMA HandlerTyped ==
  ASSUME TypeOK, NEW h \in Handlers, handler[h].op # "idle"
  PROVE  /\ handler[h] \in HandlerStates /\ handler[h] # NoOp
         /\ handler[h].lead \in Leads /\ handler[h].row \in Row
         /\ handler[h].kind \in Kinds \cup {"none"}
<1>1. handler[h] # NoOp
  BY DEF NoOp
<1> QED BY <1>1 DEF TypeOK, HandlerStates

LEMMA BeginEffect ==
  ASSUME TypeOK, NEW h \in Handlers, NEW op \in Ops, NEW l \in Leads,
         NEW s \in 0..LastStep, Begin(h, op, l, s)
  PROVE  /\ handler' \in [Handlers -> {NoOp} \cup HandlerStates]
         /\ handler'[h].op = op /\ handler'[h].lead = l /\ handler'[h].row = lead[l]
         /\ handler'[h].step = s /\ (op = "sync" => handler'[h].kind = mail[l].kind)
         /\ \A g \in Handlers \ {h} : handler'[g] = handler[g]
<1> DEFINE kind == IF op = "sync" THEN mail[l].kind ELSE "none"
           new == [op |-> op, lead |-> l, row |-> lead[l], step |-> s, kind |-> kind]
<1>1. lead[l] \in Row /\ mail[l].kind \in Kinds \cup {"none"}
      /\ handler \in [Handlers -> {NoOp} \cup HandlerStates]
  BY MailKinds DEF TypeOK, HandlerStates
<1>2. kind \in Kinds \cup {"none"} /\ (op = "sync" => kind = mail[l].kind)
  BY <1>1
<1>3. handler' = [handler EXCEPT ![h] = new]
  BY DEF Begin
<1> HIDE DEF kind
<1>4. new \in HandlerStates
  BY <1>1, <1>2 DEF HandlerStates
<1> QED BY <1>1, <1>2, <1>3, <1>4

LEMMA WriteBackEffect ==
  ASSUME TypeOK, NEW h \in Handlers, NEW op \in Ops, NEW l \in Leads, NEW row \in Row,
         WriteBack(h, op, l, row)
  PROVE  /\ handler[h].op = op /\ handler[h].lead = l /\ handler[h] # NoOp
         /\ handler' \in [Handlers -> {NoOp} \cup HandlerStates] /\ handler'[h] = NoOp
         /\ \A g \in Handlers \ {h} : handler'[g] = handler[g]
         /\ lead' \in [Leads -> Row] /\ lead'[l] = row
         /\ \A k \in Leads \ {l} : lead'[k] = lead[k]
         /\ clobbered \subseteq clobbered' /\ clobbered' \subseteq clobbered \cup {l}
         /\ l \in clobbered' \/ lead[l] = handler[h].row
<1>1. handler[h].op = op /\ handler[h].op # "idle"
  BY DEF WriteBack, Ops
<1>2. handler \in [Handlers -> {NoOp} \cup HandlerStates]
  BY DEF TypeOK, HandlerStates
<1>3. handler' = [handler EXCEPT ![h] = NoOp]
  BY DEF WriteBack
<1>4. /\ lead' \in [Leads -> Row] /\ lead'[l] = row
      /\ \A k \in Leads \ {l} : lead'[k] = lead[k]
  BY WriteEffect DEF WriteBack
<1>5. handler[h] # NoOp
  BY <1>1 DEF NoOp
<1> QED BY <1>1, <1>2, <1>3, <1>4, <1>5 DEF WriteBack

-----------------------------------------------------------------------------
(* Typing, and what the copies are good for: the runner.                   *)

Messages == Leads \X Contacts \X Steps

\* A step of the runner that touches neither the handlers nor the inbox.
LEMMA RunnerStep ==
  ASSUME Typed, UNCHANGED <<handler, mail>>,
         lead' \in [Leads -> Row], copy' \in [Leads -> Row], runner' \in RunnerStates,
         \A l \in Leads : Sound(lead'[l]) /\ Sound(copy'[l]),
         draft' \in [Leads -> [Steps -> DraftStates]],
         banned' \subseteq Leads \X Places,
         ledger' \in [sent : SUBSET Messages, stopped : SUBSET (Leads \X Contacts)],
         got' \subseteq Messages, twice' \subseteq got', excused' \subseteq got',
         late' \in [Leads -> 0..2],
         heard' \subseteq Leads, ignored' \subseteq Leads, clobbered' \subseteq Leads,
         RunnerReads'
  PROVE  Typed'
<1>1. TypeOK'
  BY DEF Typed, TypeOK, RunnerStates, Inboxes, Messages
<1>2. RowsSound'
  BY DEF Typed, RowsSound
<1>3. HandlersRead'
  BY DEF Typed, HandlersRead
<1> QED BY <1>1, <1>2, <1>3 DEF Typed

LEMMA TypedFields ==
  ASSUME Typed
  PROVE  /\ TypeOK
         /\ \A l \in Leads : lead[l] \in Row /\ copy[l] \in Row
         /\ \A l \in Leads : Sound(lead[l]) /\ Sound(copy[l])
         /\ lead \in [Leads -> Row] /\ copy \in [Leads -> Row]
         /\ runner \in RunnerStates
         /\ draft \in [Leads -> [Steps -> DraftStates]]
         /\ banned \subseteq Leads \X Places
         /\ ledger \in [sent : SUBSET Messages, stopped : SUBSET (Leads \X Contacts)]
         /\ got \subseteq Messages /\ twice \subseteq got /\ excused \subseteq got
         /\ late \in [Leads -> 0..2] /\ mail \in [Leads -> Mails \cup {NoMail}]
         /\ heard \subseteq Leads /\ ignored \subseteq Leads /\ clobbered \subseteq Leads
  BY RunnerTyped DEF Typed, TypeOK, RowsSound, Messages, Inboxes

\* A phase begins with the rows that it is about.
LEMMA ReadStep ==
  ASSUME Typed, NEW phase \in {"enqueue", "sync", "send"}, NEW leads \in SUBSET Leads,
         NEW inbox \in Inboxes, ReadWith(phase, leads, inbox),
         phase = "enqueue" => \A l \in leads : Eligible(lead[l]),
         phase = "sync" => \A l \in leads : Concerns(lead[l], inbox[l]),
         phase = "send" => \A l \in leads : InSequence(lead[l]),
         UNCHANGED <<tables, handler, mail, deliveries, excused>>,
         ledger' \in {ledger, NoLedger}, heard' \subseteq Leads, clobbered' \subseteq Leads
  PROVE  Typed'
<1>1. TypeOK /\ phase \in Phases
  BY DEF Typed, Phases
<1>2. /\ runner' \in RunnerStates
      /\ runner'.phase = phase /\ runner'.todo = leads /\ runner'.current = {}
      /\ runner'.inbox = inbox
      /\ copy' \in [Leads -> Row]
      /\ \A l \in Leads : copy'[l] = IF l \in leads THEN lead[l] ELSE NewRow
  BY <1>1, ReadEffect
<1>3. \A l \in Leads : Sound(lead'[l]) /\ Sound(copy'[l])
  BY <1>2, TypedFields, NewRowSound DEF tables
<1>4. RunnerReads'
  BY <1>2 DEF RunnerReads, Batch, WithMessage
<1>5. ledger' \in [sent : SUBSET Messages, stopped : SUBSET (Leads \X Contacts)]
  BY TypedFields DEF NoLedger
<1> QED BY <1>2, <1>3, <1>4, <1>5, TypedFields, RunnerStep DEF tables, deliveries

\* A lead of the current phase is dealt with, by writing a sound row for it or
\* by leaving its row.
LEMMA FinishStep ==
  ASSUME Typed, NEW l \in Leads, Finish(l),
         lead' = lead \/ \E row : Sound(row) /\ Write(l, row),
         runner.phase \in {"enqueue", "sync", "send", "advance"},
         runner.phase = "advance" => l \in runner.current,
         UNCHANGED <<draft, handler, mail, observed, clobbered>>,
         banned' \subseteq Leads \X Places,
         ledger' \in [sent : SUBSET Messages, stopped : SUBSET (Leads \X Contacts)]
  PROVE  Typed'
<1>1. TypeOK
  BY DEF Typed
<1>2. /\ runner' \in RunnerStates
      /\ runner'.phase = IF runner.phase = "advance" THEN "send" ELSE runner.phase
      /\ runner'.todo = runner.todo \ {l} /\ runner'.current = {}
      /\ \A k \in Leads \ {l} : runner'.inbox[k] = runner.inbox[k]
      /\ copy' \in [Leads -> Row]
      /\ copy'[l] = NewRow
      /\ \A k \in Leads \ {l} : copy'[k] = copy[k]
  BY <1>1, FinishEffect
<1>3. lead' \in [Leads -> Row] /\ \A k \in Leads : Sound(lead'[k])
  <2>1. CASE lead' = lead
    BY <2>1, TypedFields
  <2>2. ASSUME NEW row, Sound(row), Write(l, row)
        PROVE  lead' \in [Leads -> Row] /\ \A k \in Leads : Sound(lead'[k])
    <3>1. row \in Row
      BY <2>2 DEF Sound
    <3>2. /\ lead' \in [Leads -> Row] /\ lead'[l] = row
          /\ \A k \in Leads \ {l} : lead'[k] = lead[k]
      BY <1>1, <2>2, <3>1, WriteEffect
    <3> QED BY <2>2, <3>2, TypedFields
  <2> QED BY <2>1, <2>2
<1>4. \A k \in Leads : Sound(copy'[k])
  BY <1>2, TypedFields, NewRowSound
<1>5. RunnerReads'
  <2>1. runner.todo \subseteq Leads
    BY <1>1, RunnerTyped
  <2> QED BY <1>2, <2>1 DEF Typed, RunnerReads, Batch, WithMessage
<1> QED BY <1>2, <1>3, <1>4, <1>5, TypedFields, RunnerStep DEF observed, deliveries

\* The leads that have a message under way are in the sequence, and the step due
\* is a step.
LEMMA UnderWay ==
  ASSUME Typed, NEW l \in Leads, l \in runner.current \/ InPhase("send", l)
  PROVE  /\ InSequence(copy[l]) /\ StepDue(l) \in Steps /\ StepDue(l) \in 0..LastStep
         /\ copy[l].contact = "first" /\ Message(l) \in Messages
         /\ l \in runner.current => runner.phase \in WithMessage /\ runner.current = {l}
         /\ Sound(copy[l])
<1>1. InSequence(copy[l])
      /\ (l \in runner.current => runner.phase \in WithMessage /\ runner.current = {l})
  BY DEF Typed, RunnerReads, InPhase, Batch, WithMessage
<1>2. Sound(copy[l]) /\ copy[l] \in Row
  BY TypedFields
<1>3. StepDue(l) \in Steps /\ StepDue(l) \in 0..LastStep
  BY <1>1, <1>2, StepsAssumption DEF StepDue, Steps, InSequence, Row
<1>4. copy[l].contact = "first"
  BY <1>1, <1>2 DEF Sound, InSequence
<1> QED BY <1>1, <1>2, <1>3, <1>4 DEF Message, Messages, Contacts

LEMMA BansTyped ==
  ASSUME NEW l \in Leads, NEW row \in Row, NEW kind
  PROVE  /\ Bans(l, row, kind) \subseteq Leads \X Places
         /\ LedgerStops(l, row, kind) \subseteq Leads \X Contacts
  BY DEF Bans, LedgerStops, Places, Row, Contacts

LEMMA LedgerGrows ==
  ASSUME Typed, NEW stops \in SUBSET (Leads \X Contacts), NEW sent \in SUBSET Messages
  PROVE  /\ [ledger EXCEPT !.stopped = @ \cup stops]
              \in [sent : SUBSET Messages, stopped : SUBSET (Leads \X Contacts)]
         /\ [ledger EXCEPT !.sent = @ \cup sent]
              \in [sent : SUBSET Messages, stopped : SUBSET (Leads \X Contacts)]
<1>1. ledger \in [sent : SUBSET Messages, stopped : SUBSET (Leads \X Contacts)]
  BY TypedFields
<1> QED BY <1>1

LEMMA BeforeBatchTyped ==
  ASSUME Typed,
         \/ StartRunner \/ FetchInbox \/ ReadDue \/ EndRun
         \/ \E l \in Leads : EnqueueLead(l) \/ SyncLead(l)
  PROVE  Typed'
<1> USE TypedFields
<1>1. CASE StartRunner
  <2> DEFINE leads == {l \in Leads : Eligible(lead[l])}
  <2>1. ReadWith("enqueue", leads, NothingRead)
    BY <1>1 DEF StartRunner, Read
  <2>2. leads \in SUBSET Leads /\ \A l \in leads : Eligible(lead[l])
    OBVIOUS
  <2> HIDE DEF leads
  <2>3. UNCHANGED <<tables, handler, clobbered, mail, observed>> /\ ledger' \in {ledger, NoLedger}
    BY <1>1 DEF StartRunner, api
  <2> QED BY <2>1, <2>2, <2>3, ReadStep, NothingReadTyped DEF observed
<1>2. CASE FetchInbox
  <2>0. PICK fetched \in SUBSET Leads :
          /\ ReadWith("sync", {l \in fetched : Matches(lead[l], mail[l])},
                      [l \in Leads |-> IF l \in {k \in fetched : Matches(lead[k], mail[k])}
                                      THEN mail[l].kind ELSE "none"])
          /\ heard' = Answering(fetched)
    BY <1>2 DEF FetchInbox
  <2> DEFINE about == {l \in fetched : Matches(lead[l], mail[l])}
             inbox == [l \in Leads |-> IF l \in about THEN mail[l].kind ELSE "none"]
  <2>1. ReadWith("sync", about, inbox)
    BY <2>0
  <2>2. inbox \in Inboxes
    BY MailKinds DEF Inboxes
  <2>3. about \in SUBSET Leads /\ \A l \in about : Concerns(lead[l], inbox[l])
    BY DEF Matches
  <2> HIDE DEF about, inbox
  <2>4. /\ UNCHANGED <<tables, ledger, handler, mail, deliveries, excused>>
        /\ heard' \subseteq Leads /\ clobbered' = {}
    BY <1>2, <2>0 DEF FetchInbox, Answering
  <2> QED BY <2>1, <2>2, <2>3, <2>4, ReadStep
<1>3. CASE ReadDue
  <2> DEFINE leads == {l \in Leads : Due(lead[l])}
  <2>1. ReadWith("send", leads, NothingRead)
    BY <1>3 DEF ReadDue, Read
  <2>2. leads \in SUBSET Leads /\ \A l \in leads : InSequence(lead[l])
    BY DEF Due
  <2> HIDE DEF leads
  <2>3. UNCHANGED <<tables, ledger, handler, clobbered, mail, observed>>
    BY <1>3 DEF ReadDue, api
  <2> QED BY <2>1, <2>2, <2>3, ReadStep, NothingReadTyped DEF observed
<1>4. CASE EndRun
  <2>1. /\ runner' \in RunnerStates /\ runner'.phase = "idle"
        /\ runner'.todo = {} /\ runner'.current = {}
        /\ copy' \in [Leads -> Row] /\ \A l \in Leads : copy'[l] = NewRow
    BY <1>4, IdleEffect DEF EndRun
  <2>2. UNCHANGED <<tables, ledger, handler, clobbered, mail, observed>>
    BY <1>4 DEF EndRun, api
  <2>3. RunnerReads'
    BY <2>1 DEF RunnerReads, Batch, WithMessage
  <2>4. \A l \in Leads : Sound(lead'[l]) /\ Sound(copy'[l])
    BY <2>1, <2>2, NewRowSound DEF tables
  <2> QED BY <2>1, <2>2, <2>3, <2>4, RunnerStep DEF tables, observed, deliveries
<1>5. ASSUME NEW l \in Leads, EnqueueLead(l) PROVE Typed'
  <2>1. l \in runner.todo /\ runner.phase = "enqueue" /\ Finish(l)
    BY <1>5 DEF EnqueueLead, InPhase
  <2>2. Sound(copy[l]) /\ Eligible(copy[l])
    BY <2>1 DEF Typed, RunnerReads
  <2>3. copy[l].contact = "first"
    BY <2>2 DEF Eligible, Verified
  <2>4. Sound([copy[l] EXCEPT !.status = "suppressed"])
    <3>1. copy[l] \in Row /\ "suppressed" \in Statuses
      BY <2>2 DEF Sound, Statuses, Stops
    <3>2. [copy[l] EXCEPT !.status = "suppressed"] \in Row
      BY <3>1 DEF Row
    <3> QED BY <2>3, <3>1, <3>2 DEF Sound, Row
  <2>5. \E row : Sound(row) /\ Write(l, row)
    <3>1. ASSUME Suppressed(l, copy[l]) \/ IsStopped(l, copy[l])
          PROVE  Write(l, [copy[l] EXCEPT !.status = "suppressed"])
      BY <1>5, <3>1 DEF EnqueueLead
    <3>2. ASSUME ~(Suppressed(l, copy[l]) \/ IsStopped(l, copy[l])), HasSent(l, copy[l], 1)
          PROVE  Sound(Restored(l, copy[l])) /\ Write(l, Restored(l, copy[l]))
      <4>1. Write(l, Restored(l, copy[l]))
        BY <1>5, <3>2 DEF EnqueueLead
      <4> QED BY <2>2, <2>3, <3>2, <4>1, RestoredSound
    <3>3. ASSUME ~(Suppressed(l, copy[l]) \/ IsStopped(l, copy[l])), ~HasSent(l, copy[l], 1)
          PROVE  Sound(Queued(copy[l])) /\ Write(l, Queued(copy[l]))
      <4>1. Write(l, Queued(copy[l]))
        BY <1>5, <3>3 DEF EnqueueLead
      <4> QED BY <2>2, <2>3, <4>1, QueuedSound
    <3> QED BY <2>4, <3>1, <3>2, <3>3
  <2>6. UNCHANGED <<draft, banned, ledger, handler, clobbered, mail, observed>>
    BY <1>5 DEF EnqueueLead, api
  <2> QED BY <2>1, <2>5, <2>6, FinishStep
<1>6. ASSUME NEW l \in Leads, SyncLead(l) PROVE Typed'
  <2> DEFINE kind == runner.inbox[l]
  <2>1. l \in runner.todo /\ runner.phase = "sync" /\ Finish(l)
    BY <1>6 DEF SyncLead, InPhase
  <2>2. Sound(copy[l]) /\ copy[l] \in Row /\ kind \in Kinds \cup {"none"}
        /\ Concerns(copy[l], kind)
    BY <2>1 DEF Typed, RunnerReads, RunnerStates, Inboxes
  <2>3. Sound(Answered(copy[l], kind))
    BY <2>2, AnsweredSound
  <2>4. /\ Write(l, Answered(copy[l], kind))
        /\ banned' = banned \cup Bans(l, copy[l], kind)
        /\ ledger' = [ledger EXCEPT !.stopped = @ \cup LedgerStops(l, copy[l], kind)]
        /\ UNCHANGED <<draft, handler, clobbered, mail, observed>>
    BY <1>6 DEF SyncLead, api
  <2> HIDE DEF kind
  <2>5. /\ banned' \subseteq Leads \X Places
        /\ ledger' \in [sent : SUBSET Messages, stopped : SUBSET (Leads \X Contacts)]
    BY <2>2, <2>4, BansTyped, LedgerGrows
  <2> QED BY <2>1, <2>3, <2>4, <2>5, FinishStep
<1> QED BY <1>1, <1>2, <1>3, <1>4, <1>5, <1>6

\* Whatever a message does to the observations, they stay what they are.
LEMMA ReachesTyped ==
  ASSUME Typed, NEW l \in runner.current, Reaches(l)
  PROVE  /\ Message(l) \in got' /\ got \subseteq got' /\ got' \subseteq Messages
         /\ twice' \subseteq got' /\ late' \in [Leads -> 0..2]
         /\ heard' = heard /\ ignored' \subseteq Leads
<1>1. l \in Leads
  BY RunnerTyped DEF Typed
<1>2. Message(l) \in Messages
  BY <1>1, UnderWay
<1>3. got' = got \cup {Message(l)} /\ twice' \subseteq twice \cup {Message(l)}
      /\ heard' = heard /\ ignored' \subseteq ignored \cup {l}
  BY DEF Reaches, Message
<1>4. late' \in [Leads -> 0..2]
  <2>1. late' = late \/ late' = [late EXCEPT ![l] = Count(@)]
    BY DEF Reaches
  <2>2. late \in [Leads -> 0..2] /\ Count(late[l]) \in 0..2
    BY <1>1, TypedFields DEF Count
  <2> QED BY <2>1, <2>2
<1> QED BY <1>1, <1>2, <1>3, <1>4, TypedFields

\* The runner goes from one of the steps of a message to the next.
LEMMA NextPhase ==
  ASSUME Typed, NEW phase \in WithMessage, runner.phase \in WithMessage,
         runner' = [runner EXCEPT !.phase = phase],
         copy' = copy, got \subseteq got',
         phase = "mark" => \A l \in runner.current : Message(l) \in got'
  PROVE  /\ runner' \in RunnerStates /\ RunnerReads'
         /\ runner'.phase = phase /\ runner'.current = runner.current
         /\ runner'.todo = runner.todo /\ runner'.drafted = runner.drafted
<1>1. runner \in RunnerStates /\ phase \in Phases
  BY TypedFields DEF WithMessage, Phases
<1>2. /\ runner' \in RunnerStates /\ runner'.phase = phase
      /\ runner'.current = runner.current /\ runner'.todo = runner.todo
      /\ runner'.drafted = runner.drafted
  BY <1>1 DEF RunnerStates
<1>3. RunnerReads'
  BY <1>2 DEF Typed, RunnerReads, WithMessage, Batch, Message, StepDue
<1> QED BY <1>2, <1>3

\* The message under way failed or was refused: on to the next lead.
LEMMA LeaveMessage ==
  ASSUME Typed, NEW l \in runner.current, runner.phase = "sending",
         runner' = [runner EXCEPT !.phase = "send", !.current = {}, !.drafted = FALSE],
         copy' = [copy EXCEPT ![l] = NewRow]
  PROVE  /\ runner' \in RunnerStates /\ RunnerReads'
         /\ runner'.phase = "send" /\ runner'.current = {} /\ runner'.todo = runner.todo
         /\ copy' \in [Leads -> Row] /\ \A k \in Leads : Sound(copy'[k])
         /\ \A k \in Leads \ {l} : copy'[k] = copy[k]
<1>1. runner \in RunnerStates /\ runner.current \subseteq Leads /\ runner.todo \subseteq Leads
  BY TypedFields, RunnerTyped
<1>2. runner' \in RunnerStates /\ runner'.phase = "send" /\ runner'.current = {}
      /\ runner'.todo = runner.todo
  BY <1>1 DEF RunnerStates, Phases
<1>3. /\ copy' \in [Leads -> Row] /\ \A k \in Leads : Sound(copy'[k])
      /\ \A k \in Leads \ {l} : copy'[k] = copy[k]
  BY <1>1, TypedFields, NewRowSound DEF Sound
<1>4. l \notin runner.todo
  BY DEF Typed, RunnerReads, WithMessage
<1>5. RunnerReads'
  BY <1>1, <1>2, <1>3, <1>4 DEF Typed, RunnerReads, WithMessage, Batch
<1> QED BY <1>2, <1>3, <1>5

LEMMA LoopTyped ==
  ASSUME Typed, NEW l \in Leads,
         \/ DropSuppressed(l) \/ SkipSent(l) \/ PassOver(l) \/ Advance(l)
  PROVE  Typed'
<1> USE TypedFields
<1>1. CASE DropSuppressed(l)
  <2>1. /\ runner.phase = "send" /\ Finish(l) /\ Write(l, Stopped(copy[l], "suppressed"))
        /\ UNCHANGED <<draft, banned, ledger, handler, clobbered, mail, observed>>
    BY <1>1 DEF DropSuppressed, InPhase, api
  <2>2. Sound(Stopped(copy[l], "suppressed"))
    BY StoppedSound DEF Stops
  <2> QED BY <2>1, <2>2, FinishStep
<1>2. CASE SkipSent(l)
  <2>1. /\ runner.phase = "send" /\ Finish(l) /\ Write(l, Advanced(copy[l]))
        /\ UNCHANGED <<draft, banned, ledger, handler, clobbered, mail, observed>>
    BY <1>2 DEF SkipSent, InPhase, api
  <2>2. InPhase("send", l)
    BY <1>2 DEF SkipSent
  <2>3. Sound(Advanced(copy[l]))
    BY <2>2, UnderWay, AdvancedSound
  <2> QED BY <2>1, <2>3, FinishStep
<1>3. CASE PassOver(l)
  <2>1. /\ runner.phase = "send" /\ Finish(l)
        /\ UNCHANGED <<lead, draft, banned, ledger, handler, clobbered, mail, observed>>
    BY <1>3 DEF PassOver, InPhase, api, tables
  <2> QED BY <2>1, FinishStep
<1>4. CASE Advance(l)
  <2>1. /\ runner.phase = "advance" /\ l \in runner.current
        /\ Finish(l) /\ Write(l, Advanced(copy[l]))
        /\ UNCHANGED <<draft, banned, ledger, handler, clobbered, mail, observed>>
    BY <1>4 DEF Advance, api
  <2>2. Sound(Advanced(copy[l]))
    BY <2>1, UnderWay, AdvancedSound
  <2> QED BY <2>1, <2>2, FinishStep
<1> QED BY <1>1, <1>2, <1>3, <1>4

LEMMA MessageTyped ==
  ASSUME Typed, NEW l \in Leads,
         \/ StartSend(l) \/ Sent(l) \/ SendFails(l) \/ Refused(l)
         \/ MarkDraft(l) \/ RecordSent(l)
  PROVE  Typed'
<1> USE TypedFields
<1>1. CASE StartSend(l)
  <2>1. /\ runner.phase = "send" /\ l \in runner.todo /\ InPhase("send", l)
        /\ runner' = [runner EXCEPT !.phase = "sending", !.todo = @ \ {l},
                         !.current = {l}, !.drafted = draft[l][StepDue(l)] # "none"]
        /\ UNCHANGED <<lead, draft, banned, ledger, copy, handler, clobbered, mail>>
        /\ UNCHANGED <<got, twice, late, ignored, excused, heard>>
    BY <1>1 DEF StartSend, InPhase, api, tables, observed, deliveries
  <2>2. (draft[l][StepDue(l)] # "none") \in BOOLEAN
    OBVIOUS
  <2>3. runner' \in RunnerStates /\ runner'.phase = "sending" /\ runner'.current = {l}
        /\ runner'.todo = runner.todo \ {l}
    BY <2>1, <2>2 DEF RunnerStates, Phases
  <2>4. RunnerReads'
    BY <2>1, <2>3 DEF Typed, RunnerReads, WithMessage, Batch
  <2> QED BY <2>1, <2>3, <2>4, RunnerStep
<1>2. CASE Sent(l)
  <2>1. /\ runner.phase = "sending" /\ l \in runner.current /\ Reaches(l)
        /\ runner' = [runner EXCEPT !.phase = "mark"]
        /\ UNCHANGED <<lead, draft, banned, ledger, copy, handler, clobbered, mail, excused>>
    BY <1>2 DEF Sent, api, tables
  <2>2. runner.current = {l}
    BY <2>1, UnderWay
  <2>3. /\ Message(l) \in got' /\ got \subseteq got' /\ got' \subseteq Messages
        /\ twice' \subseteq got' /\ late' \in [Leads -> 0..2]
        /\ heard' = heard /\ ignored' \subseteq Leads
    BY <2>1, ReachesTyped
  <2>4. runner' \in RunnerStates /\ RunnerReads'
    BY <2>1, <2>2, <2>3, NextPhase DEF WithMessage
  <2> QED BY <2>1, <2>3, <2>4, RunnerStep
<1>3. CASE SendFails(l)
  <2>1. /\ runner.phase = "sending" /\ l \in runner.current
        /\ runner' = [runner EXCEPT !.phase = "send", !.current = {}, !.drafted = FALSE]
        /\ copy' = [copy EXCEPT ![l] = NewRow]
        /\ UNCHANGED <<lead, draft, banned, ledger, handler, clobbered, mail>>
    BY <1>3 DEF SendFails, api, tables
  <2>2. /\ got' \subseteq Messages /\ twice' \subseteq got' /\ excused' \subseteq got'
        /\ late' \in [Leads -> 0..2] /\ heard' = heard /\ ignored' \subseteq Leads
    <3>1. \/ UNCHANGED observed
          \/ Reaches(l) /\ excused' = excused \cup {Message(l)}
      BY <1>3 DEF SendFails, Message
    <3>2. CASE UNCHANGED observed
      BY <3>2 DEF observed, deliveries
    <3>3. CASE Reaches(l) /\ excused' = excused \cup {Message(l)}
      BY <2>1, <3>3, ReachesTyped
    <3> QED BY <3>1, <3>2, <3>3
  <2>3. /\ runner' \in RunnerStates /\ RunnerReads'
        /\ copy' \in [Leads -> Row] /\ \A k \in Leads : Sound(copy'[k])
    BY <2>1, LeaveMessage
  <2> QED BY <2>1, <2>2, <2>3, RunnerStep
<1>4. CASE Refused(l)
  <2>1. /\ runner.phase = "sending" /\ l \in runner.current
        /\ Write(l, Stopped(copy[l], "bounced"))
        /\ banned' = banned \cup Bans(l, copy[l], "bounce")
        /\ ledger' = [ledger EXCEPT !.stopped = @ \cup LedgerStops(l, copy[l], "bounce")]
        /\ runner' = [runner EXCEPT !.phase = "send", !.current = {}, !.drafted = FALSE]
        /\ copy' = [copy EXCEPT ![l] = NewRow]
        /\ UNCHANGED <<draft, handler, clobbered, mail>>
        /\ UNCHANGED <<got, twice, late, ignored, excused, heard>>
    BY <1>4 DEF Refused, api, observed, deliveries
  <2>2. Sound(Stopped(copy[l], "bounced")) /\ Stopped(copy[l], "bounced") \in Row
    BY StoppedSound DEF Stops, Sound
  <2>3. lead' \in [Leads -> Row] /\ \A k \in Leads : Sound(lead'[k])
    BY <2>1, <2>2, WriteEffect
  <2>4. /\ banned' \subseteq Leads \X Places
        /\ ledger' \in [sent : SUBSET Messages, stopped : SUBSET (Leads \X Contacts)]
    BY <2>1, BansTyped, LedgerGrows
  <2>5. /\ runner' \in RunnerStates /\ RunnerReads'
        /\ copy' \in [Leads -> Row] /\ \A k \in Leads : Sound(copy'[k])
    BY <2>1, LeaveMessage
  <2> QED BY <2>1, <2>3, <2>4, <2>5, RunnerStep
<1>5. CASE MarkDraft(l)
  <2>1. /\ runner.phase = "mark" /\ l \in runner.current
        /\ runner' = [runner EXCEPT !.phase = "record"]
        /\ draft' = draft \/ SetDraft(l, StepDue(l), "sent")
        /\ UNCHANGED <<lead, banned, ledger, copy, handler, clobbered, mail>>
        /\ UNCHANGED <<got, twice, late, ignored, excused, heard>>
    BY <1>5 DEF MarkDraft, api, observed, deliveries
  <2>2. draft' \in [Leads -> [Steps -> DraftStates]]
    <3>1. StepDue(l) \in Steps /\ "sent" \in DraftStates
      BY <2>1, UnderWay DEF DraftStates
    <3> QED BY <2>1, <3>1, SetDraftEffect
  <2>3. runner' \in RunnerStates /\ RunnerReads'
    BY <2>1, NextPhase DEF WithMessage
  <2> QED BY <2>1, <2>2, <2>3, RunnerStep
<1>6. CASE RecordSent(l)
  <2>1. /\ runner.phase = "record" /\ l \in runner.current
        /\ runner' = [runner EXCEPT !.phase = "advance"]
        /\ ledger' = [ledger EXCEPT !.sent = @ \cup {Message(l)}]
        /\ UNCHANGED <<lead, draft, banned, copy, handler, clobbered, mail>>
        /\ UNCHANGED <<got, twice, late, ignored, excused, heard>>
    BY <1>6 DEF RecordSent, api, tables, deliveries, Message
  <2>2. Message(l) \in Messages
    BY <2>1, UnderWay
  <2>3. ledger' \in [sent : SUBSET Messages, stopped : SUBSET (Leads \X Contacts)]
    BY <2>1, <2>2, LedgerGrows
  <2>4. runner' \in RunnerStates /\ RunnerReads'
    BY <2>1, NextPhase DEF WithMessage
  <2> QED BY <2>1, <2>3, <2>4, RunnerStep
<1> QED BY <1>1, <1>2, <1>3, <1>4, <1>5, <1>6

LEMMA DeathTyped ==
  ASSUME Typed, RunnerDies
  PROVE  Typed'
<1> USE TypedFields
<1>1. /\ runner' \in RunnerStates /\ runner'.phase = "idle"
      /\ runner'.todo = {} /\ runner'.current = {}
      /\ copy' \in [Leads -> Row] /\ \A l \in Leads : copy'[l] = NewRow
  BY IdleEffect DEF RunnerDies
<1>2. /\ UNCHANGED <<lead, draft, banned, ledger, handler, clobbered, mail>>
      /\ UNCHANGED <<got, twice, late, ignored, heard>>
      /\ excused' = IF runner.phase = "mark"
                    THEN excused \cup {Message(l) : l \in runner.current} ELSE excused
  BY DEF RunnerDies, api, tables, deliveries, Message
<1>3. excused' \subseteq got'
  BY <1>2 DEF Typed, RunnerReads
<1>4. RunnerReads'
  BY <1>1 DEF RunnerReads, Batch, WithMessage
<1>5. \A l \in Leads : Sound(lead'[l]) /\ Sound(copy'[l])
  BY <1>1, <1>2, NewRowSound
<1> QED BY <1>1, <1>2, <1>3, <1>4, <1>5, RunnerStep

LEMMA RunnerKeepsTyped ==
  ASSUME Typed, Runner
  PROVE  Typed'
  BY BeforeBatchTyped, LoopTyped, MessageTyped, DeathTyped DEF Runner

-----------------------------------------------------------------------------
(* Typing, and what the copies are good for: the handlers, mail and time.  *)

\* A step that leaves the runner alone.
LEMMA OutsideStep ==
  ASSUME Typed, UNCHANGED <<ledger, runner, copy, got, twice, late, ignored>>,
         lead' \in [Leads -> Row], \A l \in Leads : Sound(lead'[l]),
         draft' \in [Leads -> [Steps -> DraftStates]],
         banned' \subseteq Leads \X Places,
         handler' \in [Handlers -> {NoOp} \cup HandlerStates],
         \A h \in Handlers : handler'[h] # NoOp => Sound(handler'[h].row),
         HandlersRead',
         mail' \in [Leads -> Mails \cup {NoMail}], excused' \subseteq got,
         heard' \subseteq Leads, clobbered' \subseteq Leads
  PROVE  Typed'
<1>1. TypeOK'
  BY DEF Typed, TypeOK, HandlerStates, Inboxes
<1>2. RowsSound'
  BY TypedFields DEF RowsSound
<1>3. RunnerReads'
  BY DEF Typed, RunnerReads, Message, StepDue
<1> QED BY <1>1, <1>2, <1>3 DEF Typed

LEMMA HandlerFields ==
  ASSUME Typed
  PROVE  /\ handler \in [Handlers -> {NoOp} \cup HandlerStates]
         /\ \A h \in Handlers : handler[h] # NoOp =>
              /\ handler[h] \in HandlerStates /\ handler[h].lead \in Leads
              /\ Sound(handler[h].row) /\ handler[h].row \in Row
              /\ handler[h].kind \in Kinds \cup {"none"}
  BY DEF Typed, TypeOK, HandlerStates, RowsSound, Sound

LEMMA BeginStep ==
  ASSUME Typed, NEW h \in Handlers, NEW op \in Ops, NEW l \in Leads,
         NEW s \in 0..LastStep, Begin(h, op, l, s),
         op = "sync" => Concerns(lead[l], mail[l].kind),
         op = "queue" => Eligible(lead[l]),
         op \in {"approve", "edit"} => s \in Steps,
         banned' \subseteq Leads \X Places,
         UNCHANGED <<lead, draft, worker, clobbered, mail, observed>>
  PROVE  Typed'
<1>1. /\ handler' \in [Handlers -> {NoOp} \cup HandlerStates]
      /\ handler'[h].op = op /\ handler'[h].lead = l /\ handler'[h].row = lead[l]
      /\ handler'[h].step = s /\ (op = "sync" => handler'[h].kind = mail[l].kind)
      /\ \A g \in Handlers \ {h} : handler'[g] = handler[g]
  BY TypedFields, BeginEffect
<1>2. HandlersRead'
  BY <1>1 DEF Typed, HandlersRead
<1>3. \A g \in Handlers : handler'[g] # NoOp => Sound(handler'[g].row)
  BY <1>1, TypedFields, HandlerFields
<1> QED BY <1>1, <1>2, <1>3, TypedFields, OutsideStep DEF worker, observed, deliveries

LEMMA BeginsTyped ==
  ASSUME Typed, NEW h \in Handlers, NEW l \in Leads,
         \/ BeginReview(h, l) \/ BeginSuppress(h, l) \/ BeginReferral(h, l)
         \/ BeginSync(h, l) \/ BeginQueue(h, l) \/ BeginCrawl(h, l)
         \/ \E s \in Steps : BeginApprove(h, l, s) \/ BeginEdit(h, l, s)
  PROVE  Typed'
<1> USE TypedFields
<1>1. 0 \in 0..LastStep /\ \A s \in Steps : s \in 0..LastStep
  BY StepsAssumption DEF Steps
<1>2. CASE BeginReview(h, l)
  BY <1>1, <1>2, BeginStep DEF BeginReview, Ops, tables
<1>3. CASE BeginSuppress(h, l)
  <2>1. banned' \subseteq Leads \X Places
    BY <1>3 DEF BeginSuppress, Places, Row
  <2> QED BY <1>1, <1>3, <2>1, BeginStep DEF BeginSuppress, Ops
<1>4. CASE BeginReferral(h, l)
  BY <1>1, <1>4, BeginStep DEF BeginReferral, Ops, tables
<1>5. CASE BeginSync(h, l)
  BY <1>1, <1>5, BeginStep DEF BeginSync, Matches, Ops, tables
<1>6. CASE BeginQueue(h, l)
  BY <1>1, <1>6, BeginStep DEF BeginQueue, Ops, tables
<1>7. CASE BeginCrawl(h, l)
  BY <1>1, <1>7, BeginStep DEF BeginCrawl, Ops, tables
<1>8. ASSUME NEW s \in Steps, BeginApprove(h, l, s) PROVE Typed'
  BY <1>1, <1>8, BeginStep DEF BeginApprove, Ops, tables
<1>9. ASSUME NEW s \in Steps, BeginEdit(h, l, s) PROVE Typed'
  BY <1>1, <1>9, BeginStep DEF BeginEdit, Ops, tables
<1> QED BY <1>2, <1>3, <1>4, <1>5, <1>6, <1>7, <1>8, <1>9

\* A handler that writes a sound row back.
LEMMA WriteBackStep ==
  ASSUME Typed, NEW h \in Handlers, NEW op \in Ops, NEW l \in Leads, NEW row, Sound(row),
         WriteBack(h, op, l, row),
         banned' \subseteq Leads \X Places, heard' \subseteq Leads,
         UNCHANGED <<draft, worker, mail, deliveries, excused>>
  PROVE  Typed'
<1>0. row \in Row
  BY DEF Sound
<1>1. /\ handler' \in [Handlers -> {NoOp} \cup HandlerStates] /\ handler'[h] = NoOp
      /\ \A g \in Handlers \ {h} : handler'[g] = handler[g]
      /\ lead' \in [Leads -> Row] /\ lead'[l] = row
      /\ \A k \in Leads \ {l} : lead'[k] = lead[k]
      /\ clobbered' \subseteq clobbered \cup {l}
  BY <1>0, TypedFields, WriteBackEffect
<1>2. HandlersRead'
  BY <1>1 DEF Typed, HandlersRead, NoOp
<1>3. \A g \in Handlers : handler'[g] # NoOp => Sound(handler'[g].row)
  BY <1>1, HandlerFields
<1>4. \A k \in Leads : Sound(lead'[k])
  BY <1>1, TypedFields
<1>5. clobbered' \subseteq Leads
  BY <1>1, TypedFields
<1> QED BY <1>1, <1>2, <1>3, <1>4, <1>5, TypedFields, OutsideStep DEF worker, deliveries

\* The rows that the handlers write back.
LEMMA RowsOfHandlers ==
  ASSUME Typed, NEW h \in Handlers, handler[h] # NoOp
  PROVE  LET row == MyRow(h)
         IN /\ \A right \in BOOLEAN : Sound([row EXCEPT !.ready = @ /\ right])
            /\ Sound([row EXCEPT !.status = "new", !.step = 0, !.ready = TRUE,
                        !.waiting = FALSE, !.contact = "referred", !.thread = FALSE,
                        !.referral = "accepted"])
            /\ Sound([row EXCEPT !.referral = "declined"])
            /\ Sound([row EXCEPT !.status = "suppressed"])
            /\ \A status \in Statuses, ready \in BOOLEAN :
                 Sound([NewRow EXCEPT !.status = status, !.step = row.step, !.ready = ready])
<1> DEFINE row == MyRow(h)
<1>1. Sound(row) /\ row \in Row
  BY HandlerFields DEF MyRow
<1>2. "new" \in Statuses /\ "suppressed" \in Statuses /\ 0 \in 0..LastStep
      /\ "referred" \in Contacts /\ "first" \in Contacts /\ TRUE \in BOOLEAN /\ FALSE \in BOOLEAN
  BY StepsAssumption DEF Statuses, Stops, Contacts
<1> HIDE DEF row
<1>3. ASSUME NEW right \in BOOLEAN PROVE Sound([row EXCEPT !.ready = @ /\ right])
  <2> DEFINE ready == row.ready /\ right
             new == [row EXCEPT !.ready = ready]
  <2>1. ready \in BOOLEAN /\ new = [row EXCEPT !.ready = @ /\ right]
    OBVIOUS
  <2> HIDE DEF ready
  <2>2. new \in Row /\ new.status = row.status /\ new.contact = row.contact
    BY <1>1, <2>1 DEF Row
  <2> QED BY <1>1, <2>1, <2>2 DEF Sound
<1>4. Sound([row EXCEPT !.status = "new", !.step = 0, !.ready = TRUE,
               !.waiting = FALSE, !.contact = "referred", !.thread = FALSE,
               !.referral = "accepted"])
  <2> DEFINE new == [row EXCEPT !.status = "new", !.step = 0, !.ready = TRUE,
                       !.waiting = FALSE, !.contact = "referred", !.thread = FALSE,
                       !.referral = "accepted"]
  <2>1. new \in Row
    BY <1>1, <1>2 DEF Row
  <2>2. new.status = "new"
    BY <1>1 DEF Row
  <2> QED BY <2>1, <2>2 DEF Sound
<1>5. Sound([row EXCEPT !.referral = "declined"])
  BY <1>1 DEF Sound, Row
<1>6. Sound([row EXCEPT !.status = "suppressed"])
  <2>1. [row EXCEPT !.status = "suppressed"] \in Row
    BY <1>1, <1>2 DEF Row
  <2>2. [row EXCEPT !.status = "suppressed"].status = "suppressed"
    BY <1>1 DEF Row
  <2> QED BY <2>1, <2>2 DEF Sound
<1>7. ASSUME NEW status \in Statuses, NEW ready \in BOOLEAN
      PROVE  Sound([NewRow EXCEPT !.status = status, !.step = row.step, !.ready = ready])
  <2> DEFINE new == [NewRow EXCEPT !.status = status, !.step = row.step, !.ready = ready]
  <2>1. row.step \in 0..LastStep
    BY <1>1 DEF Row
  <2>2. NewRow \in Row /\ NewRow.contact = "first"
    BY NewRowSound DEF Sound, NewRow
  <2>3. new \in Row
    BY <2>1, <2>2 DEF Row
  <2>4. new.contact = "first"
    BY <2>2 DEF Row
  <2> QED BY <2>3, <2>4 DEF Sound
<1> QED BY <1>3, <1>4, <1>5, <1>6, <1>7 DEF row

LEMMA WritesTyped ==
  ASSUME Typed, NEW h \in Handlers, NEW l \in Leads, handler[h] # NoOp,
         \/ Review(h, l) \/ Suppress(h, l) \/ AcceptReferral(h, l)
         \/ DeclineReferral(h, l) \/ Sync(h, l) \/ Queue(h, l) \/ Crawl(h, l)
  PROVE  Typed'
<1> USE TypedFields
<1> DEFINE row == MyRow(h)
<1>0. Sound(row) /\ row \in Row
  BY HandlerFields DEF MyRow
<1>1. CASE Review(h, l)
  <2>1. PICK right \in BOOLEAN :
          WriteBack(h, "review", l, [row EXCEPT !.ready = @ /\ right])
    BY <1>1 DEF Review
  <2>2. Sound([row EXCEPT !.ready = @ /\ right])
    BY RowsOfHandlers
  <2>3. UNCHANGED <<draft, banned, worker, mail, deliveries, excused, heard>>
    BY <1>1 DEF Review, observed
  <2> QED BY <2>1, <2>2, <2>3, WriteBackStep DEF Ops
<1>2. CASE Suppress(h, l)
  <2>1. WriteBack(h, "suppress", l, Stopped(row, "suppressed"))
        /\ UNCHANGED <<draft, banned, worker, mail, deliveries, excused, heard>>
    BY <1>2 DEF Suppress, observed
  <2>2. Sound(Stopped(row, "suppressed"))
    BY <1>0, StoppedSound DEF Stops
  <2> QED BY <2>1, <2>2, WriteBackStep DEF Ops
<1>3. CASE AcceptReferral(h, l)
  <2> DEFINE new == [row EXCEPT !.status = "new", !.step = 0, !.ready = TRUE,
                       !.waiting = FALSE, !.contact = "referred", !.thread = FALSE,
                       !.referral = "accepted"]
  <2>1. WriteBack(h, "referral", l, new) /\ heard' = heard \ {l}
        /\ UNCHANGED <<draft, banned, worker, mail, deliveries, excused>>
    BY <1>3 DEF AcceptReferral
  <2>2. Sound(new)
    BY RowsOfHandlers
  <2> QED BY <2>1, <2>2, WriteBackStep DEF Ops
<1>4. CASE DeclineReferral(h, l)
  <2>1. WriteBack(h, "referral", l, [row EXCEPT !.referral = "declined"])
        /\ UNCHANGED <<draft, banned, worker, mail, deliveries, excused, heard>>
    BY <1>4 DEF DeclineReferral, observed
  <2>2. Sound([row EXCEPT !.referral = "declined"])
    BY RowsOfHandlers
  <2> QED BY <2>1, <2>2, WriteBackStep DEF Ops
<1>5. CASE Sync(h, l)
  <2> DEFINE kind == handler[h].kind
  <2>1. WriteBack(h, "sync", l, Answered(row, kind))
        /\ banned' = banned \cup Bans(l, row, kind)
        /\ UNCHANGED <<draft, worker, mail, deliveries, excused, heard>>
    BY <1>5 DEF Sync, observed
  <2>2. kind \in Kinds \cup {"none"} /\ Concerns(row, kind)
    BY <2>1, HandlerFields DEF WriteBack, Typed, HandlersRead, MyRow
  <2>3. Sound(Answered(row, kind))
    BY <1>0, <2>2, AnsweredSound
  <2>4. banned' \subseteq Leads \X Places
    BY <1>0, <2>1, BansTyped
  <2> QED BY <2>1, <2>3, <2>4, WriteBackStep DEF Ops
<1>6. CASE Queue(h, l)
  <2> DEFINE new == IF Suppressed(l, row) THEN [row EXCEPT !.status = "suppressed"]
                    ELSE Queued(row)
  <2>1. WriteBack(h, "queue", l, new) /\ heard' = heard \ {l}
        /\ UNCHANGED <<draft, banned, worker, mail, deliveries, excused>>
    BY <1>6 DEF Queue
  <2>2. row.contact = "first"
    BY <2>1 DEF WriteBack, Typed, HandlersRead, MyRow, Eligible, Verified
  <2>3. Sound(new)
    BY <1>0, <2>2, QueuedSound, RowsOfHandlers
  <2> QED BY <2>1, <2>3, WriteBackStep DEF Ops
<1>7. CASE Crawl(h, l)
  <2>1. PICK found \in {"new", "needs_contact", "suppressed"}, ready \in BOOLEAN :
          WriteBack(h, "crawl", l,
            [NewRow EXCEPT
               !.status = IF row.status = "new" THEN found ELSE row.status,
               !.step = row.step, !.ready = ready])
    BY <1>7 DEF Crawl
  <2> DEFINE status == IF row.status = "new" THEN found ELSE row.status
  <2>2. status \in Statuses
    BY <1>0 DEF Statuses, Stops, Row
  <2>3. Sound([NewRow EXCEPT !.status = status, !.step = row.step, !.ready = ready])
    BY <2>2, RowsOfHandlers
  <2>4. UNCHANGED <<draft, banned, worker, mail, deliveries, excused, heard>>
    BY <1>7 DEF Crawl, observed
  <2> QED BY <2>1, <2>3, <2>4, WriteBackStep DEF Ops
<1> QED BY <1>1, <1>2, <1>3, <1>4, <1>5, <1>6, <1>7

\* A step of somebody who changes a draft, and perhaps ends a handler.
LEMMA DraftStep ==
  ASSUME Typed, NEW l \in Leads, NEW s \in Steps, NEW status \in DraftStates,
         SetDraft(l, s, status),
         \/ handler' = handler
         \/ \E h \in Handlers : handler' = [handler EXCEPT ![h] = NoOp],
         excused' \subseteq got,
         UNCHANGED <<lead, banned, worker, clobbered, mail, deliveries, heard>>
  PROVE  Typed'
<1>1. draft' \in [Leads -> [Steps -> DraftStates]]
  BY TypedFields, SetDraftEffect
<1>2. /\ handler' \in [Handlers -> {NoOp} \cup HandlerStates]
      /\ \A g \in Handlers : handler'[g] # NoOp => Sound(handler'[g].row)
  BY HandlerFields
<1>3. \A g \in Handlers : handler'[g] = handler[g] \/ handler'[g] = NoOp
  BY HandlerFields
<1>4. HandlersRead'
  BY <1>3 DEF Typed, HandlersRead, NoOp
<1> QED BY <1>1, <1>2, <1>4, TypedFields, OutsideStep DEF worker, deliveries

LEMMA DraftsTyped ==
  ASSUME Typed,
         \/ \E h \in Handlers : Approve(h) \/ Edit(h)
         \/ \E l \in Leads :
              \/ PrepareDraft(l)
              \/ \E s \in Steps : ViewDraft(l, s) \/ Reject(l, s) \/ Reset(l, s)
  PROVE  Typed'
<1> USE TypedFields
<1>1. ASSUME NEW h \in Handlers, Approve(h) PROVE Typed'
  <2>1. handler[h].op = "approve" /\ handler[h] # NoOp
    BY <1>1 DEF Approve, EndDraft, NoOp
  <2>2. handler[h].lead \in Leads /\ handler[h].step \in Steps
    BY <2>1, HandlerFields DEF Typed, HandlersRead
  <2>3. /\ SetDraft(handler[h].lead, handler[h].step, "approved")
        /\ handler' = [handler EXCEPT ![h] = NoOp]
        /\ excused' \subseteq got
        /\ UNCHANGED <<lead, banned, worker, clobbered, mail, deliveries, heard>>
    BY <1>1 DEF Approve, EndDraft
  <2> QED BY <2>2, <2>3, DraftStep DEF DraftStates
<1>2. ASSUME NEW h \in Handlers, Edit(h) PROVE Typed'
  <2>1. handler[h].op = "edit" /\ handler[h] # NoOp
    BY <1>2 DEF Edit, EndDraft, NoOp
  <2>2. handler[h].lead \in Leads /\ handler[h].step \in Steps
    BY <2>1, HandlerFields DEF Typed, HandlersRead
  <2>3. /\ SetDraft(handler[h].lead, handler[h].step, "pending")
        /\ handler' = [handler EXCEPT ![h] = NoOp]
        /\ UNCHANGED <<lead, banned, worker, clobbered, mail, deliveries, excused, heard>>
    BY <1>2 DEF Edit, EndDraft, observed
  <2> QED BY <2>2, <2>3, DraftStep DEF DraftStates
<1>3. ASSUME NEW l \in Leads, PrepareDraft(l) PROVE Typed'
  <2>1. lead[l].step + 1 \in Steps
    BY <1>3, StepsAssumption DEF PrepareDraft, Due, InSequence, Steps, Row
  <2>2. /\ SetDraft(l, lead[l].step + 1, "pending")
        /\ UNCHANGED <<lead, banned, worker, handler, clobbered, mail, deliveries, excused, heard>>
    BY <1>3 DEF PrepareDraft, RenderDraft, api, observed
  <2> QED BY <2>1, <2>2, DraftStep DEF DraftStates
<1>4. ASSUME NEW l \in Leads, NEW s \in Steps, ViewDraft(l, s) PROVE Typed'
  <2>1. /\ SetDraft(l, s, "pending")
        /\ UNCHANGED <<lead, banned, worker, handler, clobbered, mail, deliveries, excused, heard>>
    BY <1>4 DEF ViewDraft, RenderDraft, api, observed
  <2> QED BY <2>1, DraftStep DEF DraftStates
<1>5. ASSUME NEW l \in Leads, NEW s \in Steps, Reject(l, s) PROVE Typed'
  <2>1. /\ SetDraft(l, s, "rejected")
        /\ UNCHANGED <<lead, banned, worker, handler, clobbered, mail, deliveries, excused, heard>>
    BY <1>5 DEF Reject, api, observed
  <2> QED BY <2>1, DraftStep DEF DraftStates
<1>6. ASSUME NEW l \in Leads, NEW s \in Steps, Reset(l, s) PROVE Typed'
  <2>1. /\ SetDraft(l, s, "pending")
        /\ UNCHANGED <<lead, banned, worker, handler, clobbered, mail, deliveries, excused, heard>>
    BY <1>6 DEF Reset, api, observed
  <2> QED BY <2>1, DraftStep DEF DraftStates
<1> QED BY <1>1, <1>2, <1>3, <1>4, <1>5, <1>6

\* The date passes in a row: nothing else that anybody looked at changes.
LEMMA WaitedRow ==
  ASSUME NEW row, Sound(row)
  PROVE  LET after == [row EXCEPT !.waiting = FALSE]
         IN /\ Sound(after) /\ after \in Row /\ after.contact = row.contact
            /\ after.step = row.step /\ after.status = row.status
            /\ InSequence(after) <=> InSequence(row)
            /\ Eligible(after) <=> Eligible(row)
            /\ \A kind : Concerns(after, kind) <=> Concerns(row, kind)
<1> DEFINE after == [row EXCEPT !.waiting = FALSE]
<1>1. row \in Row
  BY DEF Sound
<1>2. after \in Row /\ after.contact = row.contact /\ after.step = row.step
      /\ after.status = row.status /\ after.ready = row.ready
  BY <1>1 DEF Row
<1> HIDE DEF after
<1> USE <1>2
<1>3. Sound(after)
  BY DEF Sound
<1>4. InSequence(after) <=> InSequence(row)
  BY DEF InSequence
<1>5. Eligible(after) <=> Eligible(row)
  BY DEF Eligible, Verified
<1>6. \A kind : Concerns(after, kind) <=> Concerns(row, kind)
  BY <1>4 DEF Concerns
<1> QED BY <1>3, <1>4, <1>5, <1>6 DEF after

\* For what anybody looks at, the rows are alike.
Alike(after, row) ==
  /\ Sound(after) /\ after.contact = row.contact /\ after.step = row.step
  /\ after.status = row.status
  /\ InSequence(after) <=> InSequence(row)
  /\ Eligible(after) <=> Eligible(row)
  /\ \A kind : Concerns(after, kind) <=> Concerns(row, kind)

LEMMA AlikeAfterwards ==
  ASSUME NEW row, Sound(row), NEW after,
         after = row \/ after = [row EXCEPT !.waiting = FALSE]
  PROVE  Alike(after, row)
<1>1. CASE after = row
  BY <1>1 DEF Alike
<1>2. CASE after = [row EXCEPT !.waiting = FALSE]
  BY <1>2, WaitedRow DEF Alike
<1> QED BY <1>1, <1>2

LEMMA WaitOverEffect ==
  ASSUME Typed, NEW l \in Leads, WaitOver(l)
  PROVE  /\ lead' \in [Leads -> Row] /\ copy' \in [Leads -> Row]
         /\ \A k \in Leads :
              /\ lead'[k] = lead[k] \/ lead'[k] = [lead[k] EXCEPT !.waiting = FALSE]
              /\ copy'[k] = copy[k] \/ copy'[k] = [copy[k] EXCEPT !.waiting = FALSE]
         /\ handler' \in [Handlers -> {NoOp} \cup HandlerStates]
         /\ \A h \in Handlers : handler[h] = NoOp => handler'[h] = NoOp
         /\ \A h \in Handlers : handler[h] # NoOp =>
              /\ handler'[h] # NoOp /\ handler'[h].op = handler[h].op
              /\ handler'[h].lead = handler[h].lead /\ handler'[h].step = handler[h].step
              /\ handler'[h].kind = handler[h].kind
              /\ \/ handler'[h].row = handler[h].row
                 \/ handler'[h].row = [handler[h].row EXCEPT !.waiting = FALSE]
<1>1. \A k \in Leads : [lead[k] EXCEPT !.waiting = FALSE] \in Row
                       /\ [copy[k] EXCEPT !.waiting = FALSE] \in Row
  BY TypedFields, WaitedRow
<1>2. lead' = [lead EXCEPT ![l] = [lead[l] EXCEPT !.waiting = FALSE]]
      /\ copy' = [copy EXCEPT ![l] = [copy[l] EXCEPT !.waiting = FALSE]]
  BY DEF WaitOver, Write
<1>3. ASSUME NEW h \in Handlers, handler[h] # NoOp
      PROVE  /\ handler'[h] \in HandlerStates
             /\ handler'[h].op = handler[h].op
             /\ handler'[h].lead = handler[h].lead /\ handler'[h].step = handler[h].step
             /\ handler'[h].kind = handler[h].kind
             /\ \/ handler'[h].row = handler[h].row
                \/ handler'[h].row = [handler[h].row EXCEPT !.waiting = FALSE]
  <2> DEFINE row == [handler[h].row EXCEPT !.waiting = FALSE]
  <2>1. handler[h] \in HandlerStates /\ row \in Row
    BY <1>3, HandlerFields, WaitedRow
  <2>2. handler'[h] = handler[h] \/ handler'[h] = [handler[h] EXCEPT !.row = row]
    BY <1>3, HandlerFields DEF WaitOver
  <2> HIDE DEF row
  <2>3. CASE handler'[h] = handler[h]
    BY <2>1, <2>3
  <2>4. CASE handler'[h] = [handler[h] EXCEPT !.row = row]
    BY <2>1, <2>4 DEF HandlerStates, row
  <2> QED BY <2>2, <2>3, <2>4
<1>4. \A h \in Handlers : handler[h] = NoOp => handler'[h] = NoOp
  BY DEF WaitOver
<1>5. handler' \in [Handlers -> {NoOp} \cup HandlerStates]
  <2>1. \A h \in Handlers : handler'[h] \in {NoOp} \cup HandlerStates
    BY <1>3, <1>4
  <2>2. handler' = [h \in Handlers |-> handler'[h]]
    BY DEF WaitOver
  <2> QED BY <2>1, <2>2
<1>6. \A h \in Handlers : handler[h] # NoOp => handler'[h] # NoOp
  <2>1. \A h \in Handlers : handler[h] # NoOp => handler'[h].op \in Ops
    BY <1>3, HandlerFields DEF HandlerStates
  <2>2. NoOp.op \notin Ops
    BY DEF NoOp, Ops
  <2> QED BY <2>1, <2>2
<1> QED BY <1>1, <1>2, <1>3, <1>4, <1>5, <1>6, TypedFields

LEMMA WaitOverTyped ==
  ASSUME Typed, NEW l \in Leads, WaitOver(l)
  PROVE  Typed'
<1> USE TypedFields
<1>1. /\ lead' \in [Leads -> Row] /\ copy' \in [Leads -> Row]
      /\ \A k \in Leads :
           /\ lead'[k] = lead[k] \/ lead'[k] = [lead[k] EXCEPT !.waiting = FALSE]
           /\ copy'[k] = copy[k] \/ copy'[k] = [copy[k] EXCEPT !.waiting = FALSE]
      /\ handler' \in [Handlers -> {NoOp} \cup HandlerStates]
  BY WaitOverEffect
<1>2. UNCHANGED <<draft, banned, ledger, runner, clobbered, mail, got, twice, late, ignored,
                  excused, heard>>
  BY DEF WaitOver, observed, deliveries
<1>3. \A k \in Leads : Alike(lead'[k], lead[k]) /\ Alike(copy'[k], copy[k])
  BY <1>1, AlikeAfterwards
<1>4. RunnerReads'
  <2>1. runner.todo \subseteq Leads /\ runner.current \subseteq Leads
    BY RunnerTyped
  <2>2. RunnerReads
    BY DEF Typed
  <2>3. runner' = runner /\ got' = got
    BY <1>2
  <2> QED BY <1>3, <2>1, <2>2, <2>3 DEF RunnerReads, Message, StepDue, Batch, Alike
<1>5. HandlersRead' /\ \A h \in Handlers : handler'[h] # NoOp => Sound(handler'[h].row)
  <2>1. ASSUME NEW h \in Handlers, handler[h] # NoOp
        PROVE  /\ Alike(handler'[h].row, handler[h].row) /\ handler'[h].op = handler[h].op
               /\ handler'[h].step = handler[h].step /\ handler'[h].kind = handler[h].kind
    BY <2>1, HandlerFields, WaitOverEffect, AlikeAfterwards
  <2>2. \A h \in Handlers : handler[h] = NoOp => handler'[h] = NoOp
    BY WaitOverEffect
  <2>3. HandlersRead
    BY DEF Typed
  <2> QED BY <2>1, <2>2, <2>3 DEF HandlersRead, NoOp, Alike
<1>6. TypeOK'
  BY <1>1, <1>2 DEF TypeOK, HandlerStates
<1>7. RowsSound'
  BY <1>3, <1>5 DEF RowsSound, Alike
<1> QED BY <1>4, <1>5, <1>6, <1>7 DEF Typed

LEMMA MailTyped ==
  ASSUME Typed, NEW l \in Leads, MailArrives(l)
  PROVE  Typed'
<1>1. PICK m \in Mails : mail' = [mail EXCEPT ![l] = m]
  BY DEF MailArrives
<1>2. mail' \in [Leads -> Mails \cup {NoMail}]
  BY <1>1, TypedFields
<1>3. UNCHANGED <<lead, draft, banned, ledger, runner, copy, handler, clobbered>>
      /\ UNCHANGED <<got, twice, late, ignored, excused, heard>>
  BY DEF MailArrives, tables, worker, api, observed, deliveries
<1>4. HandlersRead' /\ \A h \in Handlers : handler'[h] # NoOp => Sound(handler'[h].row)
  BY <1>3, HandlerFields DEF Typed, HandlersRead
<1> QED BY <1>2, <1>3, <1>4, HandlerFields, TypedFields, OutsideStep

LEMMA StutterTyped ==
  ASSUME Typed, UNCHANGED vars
  PROVE  Typed'
<1>1. UNCHANGED <<lead, draft, banned, ledger, runner, copy, handler, clobbered, mail>>
      /\ UNCHANGED <<got, twice, late, ignored, excused, heard>>
  BY DEF vars, tables, worker, api, observed, deliveries
<1>2. HandlersRead' /\ \A h \in Handlers : handler'[h] # NoOp => Sound(handler'[h].row)
  BY <1>1, HandlerFields DEF Typed, HandlersRead
<1> QED BY <1>1, <1>2, HandlerFields, TypedFields, OutsideStep

LEMMA TypedInit == Init => Typed
<1> SUFFICES ASSUME Init PROVE Typed
  OBVIOUS
<1>1. NewRow \in Row /\ Sound(NewRow)
  BY NewRowSound DEF Sound
<1>2. TypeOK
  <2>1. runner \in RunnerStates /\ mail \in [Leads -> Mails \cup {NoMail}]
    BY NothingReadTyped DEF Init
  <2>2. draft \in [Leads -> [Steps -> DraftStates]]
    BY DEF Init, DraftStates
  <2>3. ledger \in [sent : SUBSET (Leads \X Contacts \X Steps),
                    stopped : SUBSET (Leads \X Contacts)]
    BY DEF Init, NoLedger
  <2> QED BY <1>1, <2>1, <2>2, <2>3 DEF Init, TypeOK, RunnerStates, Inboxes
<1>3. RowsSound
  BY <1>1 DEF Init, RowsSound
<1>4. HandlersRead
  BY DEF Init, HandlersRead, NoOp
<1>5. RunnerReads
  BY DEF Init, Idle, Busy, RunnerReads, Batch, WithMessage
<1> QED BY <1>2, <1>3, <1>4, <1>5 DEF Typed

LEMMA TypedNext == Typed /\ [Next]_vars => Typed'
<1> SUFFICES ASSUME Typed, [Next]_vars PROVE Typed'
  OBVIOUS
<1>1. CASE Runner
  BY <1>1, RunnerKeepsTyped
<1>2. CASE Api
  BY <1>2, BeginsTyped, WritesTyped, DraftsTyped DEF Api
<1>3. CASE \E l \in Leads : MailArrives(l) \/ WaitOver(l)
  BY <1>3, MailTyped, WaitOverTyped
<1>4. CASE UNCHANGED vars
  BY <1>4, StutterTyped
<1> QED BY <1>1, <1>2, <1>3, <1>4 DEF Next

\* Every variable holds what the code gives it.  What makes it inductive: a lead
\* in the sequence has its first contact and a step to come, also in every copy
\* that a handler or the runner works with, and those copies are still what the
\* handler looked at when it began.
THEOREM OutreachTyped == Spec => []TypeOK
<1>1. Spec => []Typed
  BY TypedInit, TypedNext, PTL DEF Spec
<1>2. Typed => TypeOK
  BY DEF Typed
<1> QED BY <1>1, <1>2, PTL

-----------------------------------------------------------------------------
(* The invariants.                                                         *)

Listed(l) == <<l, "domain">> \in banned \/ <<l, "first">> \in banned

\* Whoever got something late is on the list and has nothing under way.
SuppInv ==
  \A l \in Leads :
    /\ late[l] <= 1
    /\ late[l] = 1 => Listed(l) /\ ~(runner.phase = "sending" /\ l \in runner.current)

\* A delivered step is excused, or its draft is not approved (any more), or the
\* runner is about to mark that draft.
DraftsAreSpent ==
  \A m \in got \ excused :
    \/ draft[m[1]][m[3]] # "approved"
    \/ runner.phase = "mark" /\ \E l \in runner.current : m = Message(l)

\* The message under way was not delivered before, but for an excused one, and
\* its draft is one that the runner will mark.
UnderWayIsNew ==
  runner.phase \in {"sending", "mark"} =>
    /\ runner.drafted
    /\ runner.phase = "sending" =>
         \A l \in runner.current : Message(l) \notin got \ excused

OnceInv == RequireApproval => twice \subseteq excused /\ DraftsAreSpent /\ UnderWayIsNew

\* Between the sync and the end of the batch, a lead that was heard is stopped,
\* or waits in the sync for an answer that stops it, and the batch has left it out.
HeardInv ==
  runner.phase \in {"sync"} \cup Batch =>
    \A l \in heard \ clobbered :
      /\ l \notin runner.current
      /\ l \in runner.todo => runner.phase = "sync" /\ runner.inbox[l] \in Decisive
      /\ l \notin runner.todo => Quiet(lead[l])

-----------------------------------------------------------------------------
(* What a step does to messages, lists and drafts.                         *)

MessageKept(l) == copy'[l].contact = copy[l].contact /\ copy'[l].step = copy[l].step

\* The steps that deliver nothing, approve nothing and do not go on with a message.
Harmless ==
  /\ UNCHANGED <<got, twice, excused, late, ignored>>
  /\ banned \subseteq banned'
  /\ \A l \in Leads, s \in Steps : draft'[l][s] = "approved" => draft[l][s] = "approved"
  /\ runner.phase = "mark" \/ runner'.phase \in {"sending", "mark"} =>
       runner' = runner /\ \A l \in runner.current : MessageKept(l)

LEMMA DraftWithdrawn ==
  ASSUME Typed, NEW l \in Leads, NEW s \in Steps, NEW status \in DraftStates \ {"approved"},
         SetDraft(l, s, status)
  PROVE  \A k \in Leads, t \in Steps : draft'[k][t] = "approved" => draft[k][t] = "approved"
<1>1. /\ draft'[l][s] = status
      /\ \A k \in Leads, t \in Steps : k # l \/ t # s => draft'[k][t] = draft[k][t]
  BY TypedFields, SetDraftEffect
<1> QED BY <1>1

LEMMA RunnerHarmless ==
  ASSUME Typed,
         \/ StartRunner \/ FetchInbox \/ ReadDue \/ EndRun
         \/ \E l \in Leads :
              \/ EnqueueLead(l) \/ SyncLead(l) \/ DropSuppressed(l) \/ SkipSent(l)
              \/ PassOver(l) \/ Refused(l) \/ RecordSent(l) \/ Advance(l)
  PROVE  Harmless
<1> USE TypedFields
<1>1. CASE StartRunner
  BY <1>1 DEF StartRunner, Read, ReadWith, Busy, Harmless, tables, observed, deliveries
<1>2. CASE FetchInbox
  BY <1>2 DEF FetchInbox, PhaseOver, ReadWith, Busy, Harmless, tables, deliveries
<1>3. CASE ReadDue
  BY <1>3 DEF ReadDue, PhaseOver, Read, ReadWith, Busy, Harmless, tables, observed, deliveries
<1>4. CASE EndRun
  BY <1>4 DEF EndRun, Idle, Busy, Harmless, tables, observed, deliveries
<1>5. ASSUME NEW l \in Leads, Finish(l),
             runner.phase \in {"enqueue", "sync", "send", "advance"},
             banned \subseteq banned', UNCHANGED <<draft, observed>>
      PROVE  Harmless
  <2>1. runner'.phase = IF runner.phase = "advance" THEN "send" ELSE runner.phase
    BY <1>5, FinishEffect
  <2>2. runner'.phase \notin {"sending", "mark"}
    BY <1>5, <2>1
  <2> QED BY <1>5, <2>2 DEF Harmless, observed, deliveries
<1>6. ASSUME NEW l \in Leads, EnqueueLead(l) PROVE Harmless
  BY <1>5, <1>6 DEF EnqueueLead, InPhase
<1>7. ASSUME NEW l \in Leads, SyncLead(l) PROVE Harmless
  BY <1>5, <1>7 DEF SyncLead, InPhase
<1>8. ASSUME NEW l \in Leads, DropSuppressed(l) PROVE Harmless
  BY <1>5, <1>8 DEF DropSuppressed, InPhase
<1>9. ASSUME NEW l \in Leads, SkipSent(l) PROVE Harmless
  BY <1>5, <1>9 DEF SkipSent, InPhase
<1>10. ASSUME NEW l \in Leads, PassOver(l) PROVE Harmless
  BY <1>5, <1>10 DEF PassOver, InPhase, tables
<1>11. ASSUME NEW l \in Leads, Refused(l) PROVE Harmless
  <2>1. runner'.phase = "send"
    BY <1>11, LeaveMessage DEF Refused
  <2> QED BY <1>11, <2>1 DEF Refused, Harmless, observed, deliveries
<1>12. ASSUME NEW l \in Leads, RecordSent(l) PROVE Harmless
  <2>1. runner'.phase = "advance"
    BY <1>12 DEF RecordSent, RunnerStates
  <2> QED BY <1>12, <2>1 DEF RecordSent, Harmless, tables, deliveries
<1>13. ASSUME NEW l \in Leads, Advance(l) PROVE Harmless
  BY <1>5, <1>13 DEF Advance
<1> QED BY <1>1, <1>2, <1>3, <1>4, <1>6, <1>7, <1>8, <1>9, <1>10, <1>11, <1>12, <1>13

LEMMA ApiHarmless ==
  ASSUME Typed, Api
  PROVE  Harmless \/ \E h \in Handlers : Approve(h)
<1> USE TypedFields
<1>1. ASSUME UNCHANGED <<got, twice, excused, late, ignored, draft, runner, copy>>, banned \subseteq banned'
      PROVE  Harmless
  BY <1>1 DEF Harmless, MessageKept
<1>2. ASSUME NEW h \in Handlers, NEW l \in Leads,
             \/ BeginReview(h, l) \/ BeginReferral(h, l)
             \/ BeginSync(h, l) \/ BeginQueue(h, l) \/ BeginCrawl(h, l)
             \/ \E s \in Steps : BeginApprove(h, l, s) \/ BeginEdit(h, l, s)
      PROVE  Harmless
  <2>1. UNCHANGED <<tables, worker, observed>>
    BY <1>2 DEF BeginReview, BeginReferral, BeginSync, BeginQueue, BeginCrawl,
                BeginApprove, BeginEdit
  <2> QED BY <1>1, <2>1 DEF tables, worker, observed, deliveries
<1>3. ASSUME NEW h \in Handlers, NEW l \in Leads, BeginSuppress(h, l)
      PROVE  Harmless
  BY <1>1, <1>3 DEF BeginSuppress, worker, observed, deliveries
<1>4. ASSUME NEW h \in Handlers, NEW l \in Leads,
             \/ Review(h, l) \/ Suppress(h, l) \/ AcceptReferral(h, l)
             \/ DeclineReferral(h, l) \/ Sync(h, l) \/ Queue(h, l) \/ Crawl(h, l)
      PROVE  Harmless
  <2>1. UNCHANGED <<draft, worker, deliveries, excused>> /\ banned \subseteq banned'
    BY <1>4 DEF Review, Suppress, AcceptReferral, DeclineReferral, Sync, Queue, Crawl, observed
  <2> QED BY <1>1, <2>1 DEF worker, deliveries
<1>5. ASSUME NEW l \in Leads, NEW s \in Steps, NEW status \in DraftStates \ {"approved"},
             SetDraft(l, s, status), UNCHANGED <<banned, worker, observed>>
      PROVE  Harmless
  <2>1. \A k \in Leads, t \in Steps : draft'[k][t] = "approved" => draft[k][t] = "approved"
    BY <1>5, DraftWithdrawn
  <2>2. UNCHANGED <<got, twice, excused, late, ignored, banned, runner, copy>>
    BY <1>5 DEF worker, observed, deliveries
  <2> QED BY <2>1, <2>2 DEF Harmless, MessageKept
<1>6. ASSUME NEW h \in Handlers, Edit(h) PROVE Harmless
  <2>1. handler[h].op = "edit" /\ handler[h] # NoOp
    BY <1>6 DEF Edit, EndDraft, NoOp
  <2>2. handler[h].lead \in Leads /\ handler[h].step \in Steps
    BY <2>1, HandlerFields DEF Typed, HandlersRead
  <2>3. SetDraft(handler[h].lead, handler[h].step, "pending")
        /\ UNCHANGED <<banned, worker, observed>>
    BY <1>6 DEF Edit, EndDraft
  <2> QED BY <1>5, <2>2, <2>3 DEF DraftStates
<1>7. ASSUME NEW l \in Leads, PrepareDraft(l) PROVE Harmless
  <2>1. lead[l].step + 1 \in Steps
    BY <1>7, StepsAssumption DEF PrepareDraft, Due, InSequence, Steps, Row
  <2> QED BY <1>5, <1>7, <2>1 DEF PrepareDraft, RenderDraft, DraftStates
<1>8. ASSUME NEW l \in Leads, NEW s \in Steps, ViewDraft(l, s) \/ Reject(l, s) \/ Reset(l, s)
      PROVE  Harmless
  BY <1>5, <1>8 DEF ViewDraft, Reject, Reset, RenderDraft, DraftStates
<1> QED BY <1>2, <1>3, <1>4, <1>6, <1>7, <1>8 DEF Api

LEMMA StepKinds ==
  ASSUME Typed, [Next]_vars
  PROVE  \/ Harmless
         \/ \E l \in Leads : StartSend(l) \/ Sent(l) \/ SendFails(l) \/ MarkDraft(l)
         \/ RunnerDies
         \/ \E h \in Handlers : Approve(h)
<1>1. CASE Runner
  BY <1>1, RunnerHarmless DEF Runner
<1>2. CASE Api
  BY <1>2, ApiHarmless
<1>3. ASSUME NEW l \in Leads, MailArrives(l) PROVE Harmless
  BY <1>3 DEF MailArrives, Harmless, tables, worker, observed, deliveries, MessageKept
<1>4. ASSUME NEW l \in Leads, WaitOver(l) PROVE Harmless
  <2>1. \A k \in Leads : MessageKept(k)
    <3>1. \A k \in Leads : copy'[k] = copy[k] \/ copy'[k] = [copy[k] EXCEPT !.waiting = FALSE]
      BY <1>4, WaitOverEffect
    <3>2. \A k \in Leads : Alike(copy'[k], copy[k])
      BY <3>1, TypedFields, AlikeAfterwards
    <3> QED BY <3>2 DEF MessageKept, Alike
  <2>2. UNCHANGED <<draft, banned, runner, got, twice, excused, late, ignored>>
    BY <1>4 DEF WaitOver, observed, deliveries
  <2>3. runner.current \subseteq Leads
    BY RunnerTyped, TypedFields
  <2> QED BY <2>1, <2>2, <2>3 DEF Harmless
<1>5. CASE UNCHANGED vars
  BY <1>5 DEF vars, tables, worker, observed, deliveries, Harmless, MessageKept
<1> QED BY <1>1, <1>2, <1>3, <1>4, <1>5 DEF Next

-----------------------------------------------------------------------------
(* A suppressed contact.                                                   *)

\* The message under way, if one is.
LEMMA MessageUnderWay ==
  ASSUME Typed, NEW l \in Leads, l \in runner.current
  PROVE  runner.current = {l} /\ copy[l].contact = "first"
         /\ Message(l) \in Messages /\ Message(l)[1] = l /\ Message(l)[3] = StepDue(l)
         /\ StepDue(l) \in Steps
  BY UnderWay DEF Message

LEMMA SuppAfterReaches ==
  ASSUME Typed, SuppInv, NEW l \in Leads, l \in runner.current, runner.phase = "sending",
         Reaches(l), banned' = banned, runner'.phase # "sending"
  PROVE  SuppInv'
<1>1. copy[l].contact = "first"
  BY MessageUnderWay
<1>2. late[l] = 0
  <2>1. late[l] \in 0..2
    BY TypedFields
  <2> QED BY <2>1 DEF SuppInv
<1>3. late \in [Leads -> 0..2]
  BY TypedFields
<1>4. \/ late' = late
      \/ Listed(l) /\ late' = [late EXCEPT ![l] = 1]
  BY <1>1, <1>2 DEF Reaches, Suppressed, Listed, Count
<1>5. \A k \in Leads \ {l} : late'[k] = late[k]
  BY <1>3, <1>4
<1>6. late'[l] = 0 \/ (late'[l] = 1 /\ Listed(l))
  BY <1>2, <1>3, <1>4
<1>7. \A k \in Leads : Listed(k)' <=> Listed(k)
  BY DEF Listed
<1> QED BY <1>5, <1>6, <1>7 DEF SuppInv

LEMMA SuppNext ==
  ASSUME Typed, SuppInv, [Next]_vars
  PROVE  SuppInv'
<1>1. CASE Harmless
  <2>1. late' = late /\ \A l \in Leads : Listed(l) => Listed(l)'
    BY <1>1 DEF Harmless, Listed
  <2>2. runner'.phase = "sending" => runner' = runner
    BY <1>1 DEF Harmless
  <2> QED BY <2>1, <2>2 DEF SuppInv
<1>2. ASSUME NEW l \in Leads, StartSend(l) PROVE SuppInv'
  <2>1. InPhase("send", l) /\ ~Suppressed(l, copy[l]) /\ UNCHANGED <<banned, late>>
    BY <1>2 DEF StartSend, Blocked, tables, observed, deliveries
  <2>2. copy[l].contact = "first"
    BY <2>1, UnderWay
  <2>3. ~Listed(l)
    BY <2>1, <2>2 DEF Suppressed, Listed
  <2>4. runner'.current = {l}
    BY <1>2, TypedFields DEF StartSend, RunnerStates
  <2> QED BY <2>1, <2>3, <2>4 DEF SuppInv, Listed
<1>3. ASSUME NEW l \in Leads, Sent(l) PROVE SuppInv'
  <2>1. runner'.phase = "mark"
    BY <1>3, TypedFields DEF Sent, RunnerStates
  <2>2. l \in runner.current /\ runner.phase = "sending" /\ Reaches(l) /\ banned' = banned
    BY <1>3 DEF Sent, tables
  <2> QED BY <2>1, <2>2, SuppAfterReaches
<1>4. ASSUME NEW l \in Leads, SendFails(l) PROVE SuppInv'
  <2>1. runner'.phase = "send" /\ l \in runner.current /\ runner.phase = "sending"
        /\ banned' = banned
    BY <1>4, LeaveMessage DEF SendFails, tables
  <2>2. CASE UNCHANGED observed
    <3>1. late' = late
      BY <2>2 DEF observed, deliveries
    <3> QED BY <2>1, <3>1 DEF SuppInv, Listed
  <2>3. CASE Reaches(l)
    BY <2>1, <2>3, SuppAfterReaches
  <2> QED BY <1>4, <2>2, <2>3 DEF SendFails
<1>5. ASSUME NEW l \in Leads, MarkDraft(l) PROVE SuppInv'
  <2>1. runner'.phase = "record"
    BY <1>5, TypedFields DEF MarkDraft, RunnerStates
  <2>2. UNCHANGED <<banned, late>>
    BY <1>5 DEF MarkDraft, observed, deliveries
  <2> QED BY <2>1, <2>2 DEF SuppInv, Listed
<1>6. CASE RunnerDies
  <2>1. runner'.phase = "idle"
    BY <1>6 DEF RunnerDies, Idle, Busy
  <2>2. UNCHANGED <<banned, late>>
    BY <1>6 DEF RunnerDies, tables, deliveries
  <2> QED BY <2>1, <2>2 DEF SuppInv, Listed
<1>7. ASSUME NEW h \in Handlers, Approve(h) PROVE SuppInv'
  BY <1>7 DEF Approve, worker, deliveries, SuppInv, Listed
<1> QED BY <1>1, <1>2, <1>3, <1>4, <1>5, <1>6, <1>7, StepKinds

\* Once a contact is on the suppression list, nothing more reaches it but the
\* one message that was with the SMTP server: for any number of leads, handlers,
\* runs and steps.  The check at the head of the loop looks at the table as it
\* is, so a message leaves only for a contact that is not on the list; the list
\* only grows, and the late message marks its contact as listed for good.
THEOREM SuppressedForGood == Spec => []SuppressionHolds
<1>1. Init => SuppInv
  BY DEF Init, SuppInv
<1>2. Typed /\ SuppInv /\ [Next]_vars => SuppInv'
  BY SuppNext
<1>3. Spec => [](Typed /\ SuppInv)
  BY <1>1, <1>2, TypedInit, TypedNext, PTL DEF Spec
<1>4. SuppInv => SuppressionHolds
  BY DEF SuppInv, SuppressionHolds
<1> QED BY <1>3, <1>4, PTL

-----------------------------------------------------------------------------
(* A step that is delivered twice.                                         *)

LEMMA OnceAfterReaches ==
  ASSUME Typed, OnceInv, RequireApproval, NEW l \in Leads, l \in runner.current,
         runner.phase = "sending", Reaches(l), excused \subseteq excused'
  PROVE  /\ twice' \subseteq excused'
         /\ got' = got \cup {Message(l)}
         /\ \A m \in got \ excused : draft[m[1]][m[3]] # "approved"
<1>1. twice \subseteq excused /\ Message(l) \notin got \ excused
      /\ \A m \in got \ excused : draft[m[1]][m[3]] # "approved"
  BY DEF OnceInv, UnderWayIsNew, DraftsAreSpent
<1>2. got' = got \cup {Message(l)}
      /\ twice' = IF Message(l) \in got THEN twice \cup {Message(l)} ELSE twice
  BY DEF Reaches, Message
<1> QED BY <1>1, <1>2

LEMMA OnceNext ==
  ASSUME Typed, OnceInv, RequireApproval, [Next]_vars
  PROVE  (twice \subseteq excused /\ DraftsAreSpent /\ UnderWayIsNew)'
<1> USE TypedFields
<1>0. twice \subseteq excused /\ DraftsAreSpent /\ UnderWayIsNew
  BY DEF OnceInv
<1>a. \A m \in got : m[1] \in Leads /\ m[3] \in Steps
  BY DEF Messages
<1>1. CASE Harmless
  <2>1. UNCHANGED <<got, twice, excused>>
    BY <1>1 DEF Harmless
  <2>2. runner.phase = "mark" \/ runner'.phase \in {"sending", "mark"} =>
          /\ runner' = runner
          /\ \A l \in runner.current : Message(l)' = Message(l)
    BY <1>1 DEF Harmless, MessageKept, Message, StepDue
  <2>3. \A m \in got : draft'[m[1]][m[3]] = "approved" => draft[m[1]][m[3]] = "approved"
    BY <1>1, <1>a DEF Harmless
  <2>4. DraftsAreSpent'
    <3> SUFFICES ASSUME NEW m \in got \ excused, draft'[m[1]][m[3]] = "approved"
                 PROVE  runner'.phase = "mark" /\ \E l \in runner'.current : m = Message(l)'
      BY <2>1 DEF DraftsAreSpent
    <3>1. runner.phase = "mark" /\ \E l \in runner.current : m = Message(l)
      BY <1>0, <2>3 DEF DraftsAreSpent
    <3> QED BY <2>2, <3>1
  <2>5. UnderWayIsNew'
    BY <1>0, <2>1, <2>2 DEF UnderWayIsNew
  <2> QED BY <1>0, <2>1, <2>4, <2>5
<1>2. ASSUME NEW l \in Leads, StartSend(l)
      PROVE  (twice \subseteq excused /\ DraftsAreSpent /\ UnderWayIsNew)'
  <2>1. /\ InPhase("send", l) /\ draft[l][StepDue(l)] = "approved"
        /\ UNCHANGED <<draft, copy, got, twice, excused>>
    BY <1>2 DEF StartSend, DraftAllows, tables, observed, deliveries
  <2>2. \A m \in got \ excused : draft[m[1]][m[3]] # "approved"
    BY <1>0, <2>1 DEF DraftsAreSpent, InPhase
  <2>3. runner'.phase = "sending" /\ runner'.current = {l} /\ runner'.drafted = TRUE
    BY <1>2, <2>1 DEF StartSend, RunnerStates
  <2>4. Message(l) \notin got \ excused
    BY <2>1, <2>2 DEF Message
  <2>5. DraftsAreSpent'
    BY <2>1, <2>2 DEF DraftsAreSpent
  <2>6. UnderWayIsNew'
    BY <2>1, <2>3, <2>4 DEF UnderWayIsNew, Message, StepDue
  <2> QED BY <1>0, <2>1, <2>5, <2>6
<1>3. ASSUME NEW l \in Leads, Sent(l)
      PROVE  (twice \subseteq excused /\ DraftsAreSpent /\ UnderWayIsNew)'
  <2>1. /\ l \in runner.current /\ runner.phase = "sending" /\ Reaches(l)
        /\ UNCHANGED <<draft, copy, excused>>
    BY <1>3 DEF Sent, tables
  <2>2. /\ twice' \subseteq excused'
        /\ got' = got \cup {Message(l)}
        /\ \A m \in got \ excused : draft[m[1]][m[3]] # "approved"
    BY <2>1, OnceAfterReaches
  <2>3. runner'.phase = "mark" /\ runner'.current = runner.current /\ runner'.drafted = runner.drafted
    BY <1>3 DEF Sent, RunnerStates
  <2>4. Message(l)' = Message(l)
    BY <2>1 DEF Message, StepDue
  <2>5. DraftsAreSpent'
    BY <2>1, <2>2, <2>3, <2>4 DEF DraftsAreSpent
  <2>6. UnderWayIsNew'
    BY <1>0, <2>1, <2>3 DEF UnderWayIsNew
  <2> QED BY <2>2, <2>5, <2>6
<1>4. ASSUME NEW l \in Leads, SendFails(l)
      PROVE  (twice \subseteq excused /\ DraftsAreSpent /\ UnderWayIsNew)'
  <2>1. /\ l \in runner.current /\ runner.phase = "sending" /\ draft' = draft
        /\ runner'.phase = "send"
    BY <1>4, LeaveMessage DEF SendFails, tables
  <2>2. \A m \in got \ excused : draft[m[1]][m[3]] # "approved"
    BY <1>0, <2>1 DEF DraftsAreSpent
  <2>3. twice' \subseteq excused' /\ got' \ excused' \subseteq got \ excused
    <3>1. \/ UNCHANGED observed
          \/ Reaches(l) /\ excused' = excused \cup {Message(l)}
      BY <1>4 DEF SendFails, Message
    <3>2. CASE UNCHANGED observed
      BY <1>0, <3>2 DEF observed, deliveries
    <3>3. CASE Reaches(l) /\ excused' = excused \cup {Message(l)}
      <4>1. twice' \subseteq excused' /\ got' = got \cup {Message(l)}
        BY <2>1, <3>3, OnceAfterReaches
      <4> QED BY <3>3, <4>1
    <3> QED BY <3>1, <3>2, <3>3
  <2>4. DraftsAreSpent'
    BY <2>1, <2>2, <2>3 DEF DraftsAreSpent
  <2>5. UnderWayIsNew'
    BY <2>1 DEF UnderWayIsNew
  <2> QED BY <2>3, <2>4, <2>5
<1>5. ASSUME NEW l \in Leads, MarkDraft(l)
      PROVE  (twice \subseteq excused /\ DraftsAreSpent /\ UnderWayIsNew)'
  <2>1. /\ l \in runner.current /\ runner.phase = "mark"
        /\ UNCHANGED <<got, twice, excused>>
    BY <1>5 DEF MarkDraft, observed, deliveries
  <2>2. runner.drafted /\ runner.current = {l} /\ StepDue(l) \in Steps
        /\ Message(l)[1] = l /\ Message(l)[3] = StepDue(l)
    BY <1>0, <2>1, MessageUnderWay DEF UnderWayIsNew
  <2>3. /\ draft'[l][StepDue(l)] = "sent"
        /\ \A k \in Leads, t \in Steps : k # l \/ t # StepDue(l) => draft'[k][t] = draft[k][t]
    BY <1>5, <2>2, SetDraftEffect DEF MarkDraft, DraftStates
  <2>4. runner'.phase = "record"
    BY <1>5 DEF MarkDraft, RunnerStates
  <2>5. \A m \in got \ excused : draft'[m[1]][m[3]] # "approved"
    <3> SUFFICES ASSUME NEW m \in got \ excused PROVE draft'[m[1]][m[3]] # "approved"
      OBVIOUS
    <3>1. CASE m = Message(l)
      BY <2>2, <2>3, <3>1
    <3>2. CASE m # Message(l)
      <4>1. draft[m[1]][m[3]] # "approved"
        BY <1>0, <2>2, <3>2 DEF DraftsAreSpent
      <4>2. m[1] \in Leads /\ m[3] \in Steps
        BY <1>a
      <4> QED BY <2>3, <4>1, <4>2
    <3> QED BY <3>1, <3>2
  <2>6. DraftsAreSpent'
    BY <2>1, <2>5 DEF DraftsAreSpent
  <2>7. UnderWayIsNew'
    BY <2>4 DEF UnderWayIsNew
  <2> QED BY <1>0, <2>1, <2>6, <2>7
<1>6. ASSUME RunnerDies
      PROVE  (twice \subseteq excused /\ DraftsAreSpent /\ UnderWayIsNew)'
  <2>1. runner'.phase = "idle" /\ UNCHANGED <<draft, got, twice>>
    BY <1>6 DEF RunnerDies, Idle, Busy, tables, deliveries
  <2>2. excused' = IF runner.phase = "mark"
                   THEN excused \cup {Message(l) : l \in runner.current} ELSE excused
    BY <1>6 DEF RunnerDies, Message
  <2>3. excused \subseteq excused'
        /\ \A m \in got \ excused' : draft[m[1]][m[3]] # "approved"
    BY <1>0, <2>2 DEF DraftsAreSpent
  <2>4. DraftsAreSpent'
    BY <2>1, <2>3 DEF DraftsAreSpent
  <2>5. UnderWayIsNew'
    BY <2>1 DEF UnderWayIsNew
  <2> QED BY <1>0, <2>1, <2>3, <2>4, <2>5
<1>7. ASSUME NEW h \in Handlers, Approve(h)
      PROVE  (twice \subseteq excused /\ DraftsAreSpent /\ UnderWayIsNew)'
  <2>1. handler[h].op = "approve" /\ handler[h] # NoOp
    BY <1>7 DEF Approve, EndDraft, NoOp
  <2> DEFINE l == handler[h].lead
             s == handler[h].step
  <2>2. l \in Leads /\ s \in Steps
    BY <2>1, HandlerFields DEF Typed, HandlersRead
  <2>3. /\ SetDraft(l, s, "approved") /\ UNCHANGED <<runner, copy, got, twice>>
        /\ excused' = excused \cup {m \in got : m[1] = l /\ m[3] = s}
    BY <1>7 DEF Approve, EndDraft, worker, deliveries
  <2> HIDE DEF l, s
  <2>4. \A k \in Leads, t \in Steps : k # l \/ t # s => draft'[k][t] = draft[k][t]
    BY <2>2, <2>3, SetDraftEffect DEF DraftStates
  <2>5. \A m \in got \ excused' : m \in got \ excused /\ draft'[m[1]][m[3]] = draft[m[1]][m[3]]
    BY <1>a, <2>3, <2>4
  <2>6. \A k \in Leads : Message(k)' = Message(k)
    BY <2>3 DEF Message, StepDue
  <2>7. DraftsAreSpent'
    <3>1. runner.current \subseteq Leads
      BY RunnerTyped
    <3> QED BY <1>0, <2>3, <2>5, <2>6, <3>1 DEF DraftsAreSpent
  <2>8. UnderWayIsNew'
    <3>1. runner.current \subseteq Leads
      BY RunnerTyped
    <3> QED BY <1>0, <2>3, <2>6, <3>1 DEF UnderWayIsNew
  <2> QED BY <1>0, <2>3, <2>7, <2>8
<1> QED BY <1>1, <1>2, <1>3, <1>4, <1>5, <1>6, <1>7, StepKinds

\* No contact receives a step twice unless somebody approved its draft again or
\* the record of the first delivery was lost: for any number of leads, handlers,
\* runs and steps.  The ledger cannot be what prevents it (a new runner has an
\* empty one), nor the rows, which everybody overwrites: it is the draft.  A
\* message leaves only with an approved draft, and a delivered one is no longer
\* approved, but for the moment between the delivery and the mark.
THEOREM NeverSentAgain == Spec => []NeverTwiceUnexcused
<1>1. Init => OnceInv
  BY DEF Init, Idle, Busy, OnceInv, DraftsAreSpent, UnderWayIsNew
<1>2. Typed /\ OnceInv /\ [Next]_vars => OnceInv'
  <2> SUFFICES ASSUME Typed, OnceInv, [Next]_vars, RequireApproval
               PROVE  (twice \subseteq excused /\ DraftsAreSpent /\ UnderWayIsNew)'
    BY DEF OnceInv
  <2> QED BY OnceNext
<1>3. Spec => [](Typed /\ OnceInv)
  BY <1>1, <1>2, TypedInit, TypedNext, PTL DEF Spec
<1>4. OnceInv => NeverTwiceUnexcused
  BY DEF OnceInv, NeverTwiceUnexcused
<1> QED BY <1>3, <1>4, PTL

-----------------------------------------------------------------------------
(* A contact that has answered.                                            *)

Heard == heard \ clobbered

LEMMA HeardReads ==
  ASSUME Typed, FetchInbox \/ ReadDue, HeardInv
  PROVE  HeardInv'
<1> USE TypedFields
<1>1. CASE FetchInbox
  <2>0. PICK fetched \in SUBSET Leads :
          /\ ReadWith("sync", {l \in fetched : Matches(lead[l], mail[l])},
                      [l \in Leads |-> IF l \in {k \in fetched : Matches(lead[k], mail[k])}
                                      THEN mail[l].kind ELSE "none"])
          /\ heard' = Answering(fetched)
    BY <1>1 DEF FetchInbox
  <2> DEFINE about == {l \in fetched : Matches(lead[l], mail[l])}
             inbox == [l \in Leads |-> IF l \in about THEN mail[l].kind ELSE "none"]
  <2>1. /\ runner'.todo = about /\ runner'.current = {} /\ runner'.inbox = inbox
        /\ runner'.phase = "sync" /\ lead' = lead
    BY <1>1, <2>0 DEF FetchInbox, ReadWith, Busy, tables
  <2>2. ASSUME NEW l \in Answering(fetched), l \in about
        PROVE  inbox[l] \in Decisive
    BY <2>2 DEF Answering
  <2>3. ASSUME NEW l \in Answering(fetched), l \notin about
        PROVE  Quiet(lead[l])
    <3>1. /\ mail[l].kind \in Decisive /\ Attributable(lead[l], mail[l])
          /\ ~Matches(lead[l], mail[l])
      BY <2>3 DEF Answering
    <3> QED BY <3>1 DEF Matches, Concerns, Quiet, Decisive
  <2>4. Answering(fetched) \subseteq Leads
    BY DEF Answering
  <2> HIDE DEF about, inbox
  <2> QED BY <2>0, <2>1, <2>2, <2>3, <2>4 DEF HeardInv
<1>2. CASE ReadDue
  <2>1. /\ runner'.todo = {l \in Leads : Due(lead[l])} /\ runner'.current = {}
        /\ runner'.phase = "send" /\ UNCHANGED <<lead, heard, clobbered>>
    BY <1>2 DEF ReadDue, Read, ReadWith, Busy, tables, observed, api
  <2>2. runner.phase = "sync" /\ runner.todo = {}
    BY <1>2 DEF ReadDue, PhaseOver
  <2>3. \A l \in Heard : Quiet(lead[l])
    BY <2>2 DEF HeardInv, Heard
  <2>4. \A l \in Heard : l \notin runner'.todo
    BY <2>1, <2>3 DEF Due, Quiet
  <2> QED BY <2>1, <2>3, <2>4 DEF HeardInv, Heard
<1> QED BY <1>1, <1>2

\* Another lead's row is written, or this one's mail was applied.
LEMMA HeardFinish ==
  ASSUME Typed, HeardInv, NEW l \in Leads, Finish(l), l \in runner.todo \cup runner.current,
         runner.phase \in {"sync", "send", "advance"},
         \A k \in Leads \ {l} : lead'[k] = lead[k],
         runner.phase = "sync" /\ l \in Heard => Quiet(lead'[l]),
         UNCHANGED <<heard, clobbered>>
  PROVE  HeardInv'
<1>1. /\ runner'.phase = IF runner.phase = "advance" THEN "send" ELSE runner.phase
      /\ runner'.todo = runner.todo \ {l} /\ runner'.current = {}
      /\ \A k \in Leads \ {l} : runner'.inbox[k] = runner.inbox[k]
  BY TypedFields, FinishEffect
<1>2. Heard \subseteq Leads /\ Heard' = Heard
  BY TypedFields DEF Heard
<1>3. ASSUME NEW k \in Heard, k # l
      PROVE  /\ k \in runner.todo => runner.phase = "sync" /\ runner.inbox[k] \in Decisive
             /\ k \notin runner.todo => Quiet(lead[k])
  BY DEF HeardInv, Heard, Batch
<1>4. ASSUME l \in Heard
      PROVE  Quiet(lead'[l]) /\ l \notin runner'.todo
  <2>1. runner.phase = "sync"
    BY <1>4 DEF HeardInv, Heard, Batch
  <2> QED BY <1>1, <1>4, <2>1
<1>5. ASSUME NEW k \in Heard
      PROVE  /\ k \notin runner'.current
             /\ k \in runner'.todo => runner'.phase = "sync" /\ runner'.inbox[k] \in Decisive
             /\ k \notin runner'.todo => Quiet(lead'[k])
  <2>1. CASE k = l
    BY <1>1, <1>4, <2>1
  <2>2. CASE k # l
    BY <1>1, <1>2, <1>3, <2>2
  <2> QED BY <2>1, <2>2
<1> QED BY <1>2, <1>5 DEF HeardInv, Heard

LEMMA HeardRunner ==
  ASSUME Typed, HeardInv, NEW l \in Leads,
         \/ SyncLead(l) \/ DropSuppressed(l) \/ SkipSent(l) \/ PassOver(l) \/ Advance(l)
  PROVE  HeardInv'
<1> USE TypedFields
<1>1. CASE SyncLead(l)
  <2> DEFINE kind == runner.inbox[l]
  <2>1. runner.phase = "sync" /\ l \in runner.todo /\ Finish(l)
        /\ Write(l, Answered(copy[l], kind)) /\ UNCHANGED <<heard, clobbered>>
    BY <1>1 DEF SyncLead, InPhase, api, observed
  <2>2. kind \in Kinds \cup {"none"} /\ Concerns(copy[l], kind)
    BY <2>1 DEF Typed, RunnerReads, RunnerStates, Inboxes
  <2>3. /\ Sound(Answered(copy[l], kind))
        /\ kind \in Decisive => Quiet(Answered(copy[l], kind))
    BY <2>2, AnsweredSound
  <2>4. l \in Heard => kind \in Decisive
    BY <2>1 DEF HeardInv, Heard
  <2>5. lead' = [lead EXCEPT ![l] = Answered(copy[l], kind)]
    BY <2>1 DEF Write
  <2> HIDE DEF kind
  <2>6. /\ \A k \in Leads \ {l} : lead'[k] = lead[k]
        /\ l \in Heard => Quiet(lead'[l])
    BY <2>3, <2>4, <2>5
  <2> QED BY <2>1, <2>6, HeardFinish
<1>2. ASSUME NEW row, Write(l, row) \/ lead' = lead
      PROVE  \A k \in Leads \ {l} : lead'[k] = lead[k]
  BY <1>2 DEF Write
<1>3. CASE DropSuppressed(l)
  <2>1. Write(l, Stopped(copy[l], "suppressed"))
    BY <1>3 DEF DropSuppressed
  <2>2. \A k \in Leads \ {l} : lead'[k] = lead[k]
    BY <1>2, <2>1
  <2> QED BY <1>3, <2>2, HeardFinish DEF DropSuppressed, InPhase, api, observed
<1>4. CASE SkipSent(l)
  <2>1. Write(l, Advanced(copy[l]))
    BY <1>4 DEF SkipSent
  <2>2. \A k \in Leads \ {l} : lead'[k] = lead[k]
    BY <1>2, <2>1
  <2> QED BY <1>4, <2>2, HeardFinish DEF SkipSent, InPhase, api, observed
<1>5. CASE PassOver(l)
  BY <1>5, HeardFinish DEF PassOver, InPhase, api, observed, tables
<1>6. CASE Advance(l)
  <2>1. Write(l, Advanced(copy[l]))
    BY <1>6 DEF Advance
  <2>2. \A k \in Leads \ {l} : lead'[k] = lead[k]
    BY <1>2, <2>1
  <2> QED BY <1>6, <2>2, HeardFinish DEF Advance, api, observed
<1> QED BY <1>1, <1>3, <1>4, <1>5, <1>6

\* The message under way is not for a lead that was heard.
LEMMA HeardMessage ==
  ASSUME Typed, HeardInv, NEW l \in Leads,
         \/ StartSend(l) \/ Sent(l) \/ SendFails(l) \/ Refused(l)
         \/ MarkDraft(l) \/ RecordSent(l)
  PROVE  HeardInv' /\ (l \in runner.current => l \notin Heard)
<1> USE TypedFields
<1>0. l \in runner.current => l \notin Heard
  <2>1. l \in runner.current => runner.phase \in WithMessage
    BY UnderWay
  <2> QED BY <2>1 DEF HeardInv, Heard, WithMessage, Batch
<1>1. CASE StartSend(l)
  <2>1. /\ runner.phase = "send" /\ l \in runner.todo
        /\ runner'.phase = "sending" /\ runner'.todo = runner.todo \ {l}
        /\ runner'.current = {l} /\ UNCHANGED <<lead, heard, clobbered>>
    BY <1>1 DEF StartSend, InPhase, RunnerStates, tables, api, observed
  <2>2. \A k \in Heard : k \notin runner.todo /\ Quiet(lead[k])
    BY <2>1 DEF HeardInv, Heard, Batch
  <2> QED BY <1>0, <2>1, <2>2 DEF HeardInv, Heard
<1>2. ASSUME runner.phase \in WithMessage, runner'.current \subseteq runner.current,
             runner'.todo = runner.todo, \A k \in Leads \ runner.current : lead'[k] = lead[k],
             UNCHANGED <<heard, clobbered>>
      PROVE  HeardInv'
  <2>1. \A k \in Heard : k \notin runner.current /\ k \notin runner.todo /\ Quiet(lead[k])
    BY <1>2 DEF HeardInv, Heard, WithMessage, Batch
  <2>2. Heard \subseteq Leads /\ Heard' = Heard
    BY <1>2 DEF Heard
  <2>3. \A k \in Heard : k \notin runner'.current /\ k \notin runner'.todo /\ Quiet(lead'[k])
    BY <1>2, <2>1, <2>2
  <2> QED BY <2>2, <2>3 DEF HeardInv, Heard
<1>3. CASE Sent(l)
  <2>1. runner'.current = runner.current /\ runner'.todo = runner.todo
    BY <1>3 DEF Sent, RunnerStates
  <2>2. UNCHANGED <<lead, heard, clobbered>> /\ runner.phase \in WithMessage
    BY <1>3 DEF Sent, Reaches, tables, api, WithMessage
  <2> QED BY <1>0, <1>2, <2>1, <2>2
<1>4. CASE SendFails(l)
  <2>1. runner'.current = {} /\ runner'.todo = runner.todo
    BY <1>4, LeaveMessage DEF SendFails
  <2>2. UNCHANGED <<lead, heard, clobbered>> /\ runner.phase \in WithMessage
    BY <1>4 DEF SendFails, Reaches, tables, api, observed, WithMessage
  <2> QED BY <1>0, <1>2, <2>1, <2>2
<1>5. CASE Refused(l)
  <2>1. runner'.current = {} /\ runner'.todo = runner.todo
    BY <1>5, LeaveMessage DEF Refused
  <2>2. UNCHANGED <<heard, clobbered>> /\ runner.phase \in WithMessage /\ l \in runner.current
    BY <1>5 DEF Refused, api, observed, WithMessage
  <2>3. lead' = [lead EXCEPT ![l] = Stopped(copy[l], "bounced")]
    BY <1>5 DEF Refused, Write
  <2>4. \A k \in Leads \ runner.current : lead'[k] = lead[k]
    BY <2>2, <2>3
  <2> QED BY <1>0, <1>2, <2>1, <2>2, <2>4
<1>6. CASE MarkDraft(l)
  <2>1. runner'.current = runner.current /\ runner'.todo = runner.todo
    BY <1>6 DEF MarkDraft, RunnerStates
  <2>2. UNCHANGED <<lead, heard, clobbered>> /\ runner.phase \in WithMessage
    BY <1>6 DEF MarkDraft, api, observed, WithMessage
  <2> QED BY <1>0, <1>2, <2>1, <2>2
<1>7. CASE RecordSent(l)
  <2>1. runner'.current = runner.current /\ runner'.todo = runner.todo
    BY <1>7 DEF RecordSent, RunnerStates
  <2>2. UNCHANGED <<lead, heard, clobbered>> /\ runner.phase \in WithMessage
    BY <1>7 DEF RecordSent, api, tables, WithMessage
  <2> QED BY <1>0, <1>2, <2>1, <2>2
<1> QED BY <1>0, <1>1, <1>3, <1>4, <1>5, <1>6, <1>7

LEMMA HeardOutside ==
  ASSUME Typed, HeardInv, runner' = runner,
         \A l \in heard' \ clobbered' : l \in Heard /\ (Quiet(lead[l]) => Quiet(lead'[l]))
  PROVE  HeardInv'
  BY DEF HeardInv, Heard

\* A handler that takes the lead out of the heard ones, writes over what somebody
\* else wrote, or leaves a quiet row quiet.
LEMMA HeardWriteBack ==
  ASSUME Typed, HeardInv, NEW h \in Handlers, NEW op \in Ops, NEW l \in Leads,
         NEW row, Sound(row), WriteBack(h, op, l, row),
         runner' = runner, heard' \subseteq heard,
         l \in heard' => (Quiet(MyRow(h)) => Quiet(row))
  PROVE  HeardInv'
<1>1. row \in Row
  BY DEF Sound
<1>2. /\ lead'[l] = row /\ \A k \in Leads \ {l} : lead'[k] = lead[k]
      /\ clobbered \subseteq clobbered'
      /\ l \in clobbered' \/ lead[l] = handler[h].row
  BY <1>1, TypedFields, WriteBackEffect
<1>3. \A k \in heard' \ clobbered' : k \in Leads /\ k \in Heard
  BY <1>2, TypedFields DEF Heard
<1>4. l \in heard' \ clobbered' => (Quiet(lead[l]) => Quiet(lead'[l]))
  BY <1>2 DEF MyRow
<1>5. \A k \in heard' \ clobbered' : Quiet(lead[k]) => Quiet(lead'[k])
  BY <1>2, <1>3, <1>4
<1> QED BY <1>3, <1>5, HeardOutside

LEMMA HeardWrites ==
  ASSUME Typed, HeardInv, NEW h \in Handlers, NEW l \in Leads, handler[h] # NoOp,
         \/ Review(h, l) \/ Suppress(h, l) \/ AcceptReferral(h, l)
         \/ DeclineReferral(h, l) \/ Sync(h, l) \/ Queue(h, l) \/ Crawl(h, l)
  PROVE  HeardInv'
<1> USE TypedFields
<1> DEFINE row == MyRow(h)
<1>0. Sound(row) /\ row \in Row
  BY HandlerFields DEF MyRow
<1>a. runner' = runner
  BY DEF Review, Suppress, AcceptReferral, DeclineReferral, Sync, Queue, Crawl, worker
<1>1. CASE Review(h, l)
  <2>1. PICK right \in BOOLEAN :
          WriteBack(h, "review", l, [row EXCEPT !.ready = @ /\ right])
    BY <1>1 DEF Review
  <2> DEFINE new == [row EXCEPT !.ready = @ /\ right]
  <2>2. Sound(new)
    BY RowsOfHandlers
  <2>3. new.status = row.status /\ new.step = row.step
    BY <1>0 DEF Row
  <2>4. heard' = heard
    BY <1>1 DEF Review, observed
  <2> HIDE DEF new
  <2>5. Quiet(row) => Quiet(new)
    BY <2>3 DEF Quiet, InSequence
  <2>6. WriteBack(h, "review", l, new)
    BY <2>1 DEF new
  <2> QED BY <1>a, <2>2, <2>4, <2>5, <2>6, HeardWriteBack DEF Ops
<1>2. CASE Suppress(h, l)
  <2>1. WriteBack(h, "suppress", l, Stopped(row, "suppressed")) /\ heard' = heard
    BY <1>2 DEF Suppress, observed
  <2>2. Sound(Stopped(row, "suppressed")) /\ Quiet(Stopped(row, "suppressed"))
    BY <1>0, StoppedSound DEF Stops
  <2> QED BY <1>a, <2>1, <2>2, HeardWriteBack DEF Ops
<1>3. CASE AcceptReferral(h, l)
  <2> DEFINE new == [row EXCEPT !.status = "new", !.step = 0, !.ready = TRUE,
                       !.waiting = FALSE, !.contact = "referred", !.thread = FALSE,
                       !.referral = "accepted"]
  <2>1. WriteBack(h, "referral", l, new) /\ heard' = heard \ {l}
    BY <1>3 DEF AcceptReferral
  <2>2. Sound(new)
    BY RowsOfHandlers
  <2> HIDE DEF new
  <2> QED BY <1>a, <2>1, <2>2, HeardWriteBack DEF Ops
<1>4. CASE DeclineReferral(h, l)
  <2> DEFINE new == [row EXCEPT !.referral = "declined"]
  <2>1. WriteBack(h, "referral", l, new) /\ heard' = heard
    BY <1>4 DEF DeclineReferral, observed
  <2>2. Sound(new)
    BY RowsOfHandlers
  <2>3. new.status = row.status /\ new.step = row.step
    BY <1>0 DEF Row
  <2> HIDE DEF new
  <2>4. Quiet(row) => Quiet(new)
    BY <2>3 DEF Quiet, InSequence
  <2> QED BY <1>a, <2>1, <2>2, <2>4, HeardWriteBack DEF Ops
<1>5. CASE Sync(h, l)
  <2> DEFINE kind == handler[h].kind
  <2>1. WriteBack(h, "sync", l, Answered(row, kind)) /\ heard' = heard
    BY <1>5 DEF Sync, observed
  <2>2. kind \in Kinds \cup {"none"} /\ Concerns(row, kind)
    BY <2>1, HandlerFields DEF WriteBack, Typed, HandlersRead, MyRow
  <2>3. Sound(Answered(row, kind)) /\ (Quiet(row) => Quiet(Answered(row, kind)))
    BY <1>0, <2>2, AnsweredSound
  <2> HIDE DEF kind
  <2> QED BY <1>a, <2>1, <2>3, HeardWriteBack DEF Ops
<1>6. CASE Queue(h, l)
  <2> DEFINE new == IF Suppressed(l, row) THEN [row EXCEPT !.status = "suppressed"]
                    ELSE Queued(row)
  <2>1. WriteBack(h, "queue", l, new) /\ heard' = heard \ {l}
    BY <1>6 DEF Queue
  <2>2. row.contact = "first"
    BY <2>1 DEF WriteBack, Typed, HandlersRead, MyRow, Eligible, Verified
  <2>3. Sound(new)
    BY <1>0, <2>2, QueuedSound, RowsOfHandlers
  <2> HIDE DEF new
  <2> QED BY <1>a, <2>1, <2>3, HeardWriteBack DEF Ops
<1>7. CASE Crawl(h, l)
  <2>1. PICK found \in {"new", "needs_contact", "suppressed"}, ready \in BOOLEAN :
          WriteBack(h, "crawl", l,
            [NewRow EXCEPT
               !.status = IF row.status = "new" THEN found ELSE row.status,
               !.step = row.step, !.ready = ready])
    BY <1>7 DEF Crawl
  <2> DEFINE status == IF row.status = "new" THEN found ELSE row.status
             new == [NewRow EXCEPT !.status = status, !.step = row.step, !.ready = ready]
  <2>2. status \in Statuses /\ (status = "active" => row.status = "active")
    BY <1>0 DEF Statuses, Stops, Row
  <2>3. WriteBack(h, "crawl", l, new)
    BY <2>1
  <2> HIDE DEF status
  <2>4. Sound(new)
    BY <2>2, RowsOfHandlers
  <2>5. new.status = status /\ new.step = row.step
    BY DEF NewRow
  <2>6. heard' = heard
    BY <1>7 DEF Crawl, observed
  <2> HIDE DEF new
  <2>7. Quiet(row) => Quiet(new)
    BY <2>2, <2>5 DEF Quiet, InSequence
  <2> QED BY <1>a, <2>3, <2>4, <2>6, <2>7, HeardWriteBack DEF Ops
<1> QED BY <1>1, <1>2, <1>3, <1>4, <1>5, <1>6, <1>7

LEMMA HeardNext ==
  ASSUME Typed, HeardInv, [Next]_vars
  PROVE  HeardInv'
<1> USE TypedFields
<1>0. ASSUME runner'.phase \in {"idle", "enqueue"}
      PROVE  HeardInv'
  BY <1>0 DEF HeardInv, Batch
<1>a. ASSUME UNCHANGED <<lead, runner, heard, clobbered>>
      PROVE  HeardInv'
  BY <1>a DEF HeardInv
<1>1. CASE StartRunner \/ EndRun \/ RunnerDies
  <2>1. runner'.phase \in {"idle", "enqueue"}
    BY <1>1 DEF StartRunner, Read, ReadWith, EndRun, RunnerDies, Idle, Busy
  <2> QED BY <1>0, <2>1
<1>2. CASE FetchInbox \/ ReadDue
  BY <1>2, HeardReads
<1>3. ASSUME NEW l \in Leads, EnqueueLead(l) PROVE HeardInv'
  <2>1. runner'.phase = "enqueue"
    BY <1>3, FinishEffect DEF EnqueueLead, InPhase
  <2> QED BY <1>0, <2>1
<1>4. CASE Runner
  BY <1>1, <1>2, <1>3, <1>4, HeardRunner, HeardMessage DEF Runner
<1>5. ASSUME NEW h \in Handlers, NEW l \in Leads,
             \/ BeginReview(h, l) \/ BeginSuppress(h, l) \/ BeginReferral(h, l)
             \/ BeginSync(h, l) \/ BeginQueue(h, l) \/ BeginCrawl(h, l)
             \/ \E s \in Steps : BeginApprove(h, l, s) \/ BeginEdit(h, l, s)
      PROVE  HeardInv'
  <2>1. UNCHANGED <<lead, worker, clobbered, observed>>
    BY <1>5 DEF BeginReview, BeginSuppress, BeginReferral, BeginSync, BeginQueue,
                BeginCrawl, BeginApprove, BeginEdit, tables
  <2> QED BY <1>a, <2>1 DEF worker, observed
<1>6. ASSUME NEW h \in Handlers, Approve(h) \/ Edit(h) PROVE HeardInv'
  BY <1>a, <1>6 DEF Approve, Edit, worker, observed
<1>7. ASSUME NEW l \in Leads,
             \/ PrepareDraft(l)
             \/ \E s \in Steps : ViewDraft(l, s) \/ Reject(l, s) \/ Reset(l, s)
      PROVE  HeardInv'
  <2>1. UNCHANGED <<lead, worker, api, observed>>
    BY <1>7 DEF PrepareDraft, ViewDraft, RenderDraft, Reject, Reset
  <2> QED BY <1>a, <2>1 DEF worker, api, observed
<1>8. CASE Api
  BY <1>5, <1>6, <1>7, <1>8, HeardWrites DEF Api
<1>9. ASSUME NEW l \in Leads, MailArrives(l) PROVE HeardInv'
  BY <1>a, <1>9 DEF MailArrives, tables, worker, api, observed
<1>10. ASSUME NEW l \in Leads, WaitOver(l) PROVE HeardInv'
  <2>1. \A k \in Leads : lead'[k] = lead[k] \/ lead'[k] = [lead[k] EXCEPT !.waiting = FALSE]
    BY <1>10, WaitOverEffect
  <2>2. \A k \in Leads : Alike(lead'[k], lead[k])
    BY <2>1, AlikeAfterwards
  <2>3. UNCHANGED <<runner, heard, clobbered>>
    BY <1>10 DEF WaitOver, observed
  <2> QED BY <2>2, <2>3, HeardOutside DEF Alike, Quiet, Heard
<1>11. CASE UNCHANGED vars
  BY <1>a, <1>11 DEF vars, tables, worker, api, observed
<1> QED BY <1>4, <1>8, <1>9, <1>10, <1>11 DEF Next

LEMMA IgnoredNext ==
  ASSUME Typed, HeardInv, ignored = {}, [Next]_vars
  PROVE  ignored' = {}
<1>1. CASE Harmless
  BY <1>1 DEF Harmless
<1>2. ASSUME NEW l \in Leads, Reaches(l), l \in runner.current, Sent(l) \/ SendFails(l)
      PROVE  ignored' = {}
  <2>1. l \notin Heard
    BY <1>2, HeardMessage
  <2> QED BY <1>2, <2>1 DEF Reaches, Heard
<1>3. ASSUME NEW l \in Leads, StartSend(l) \/ Sent(l) \/ SendFails(l) \/ MarkDraft(l)
      PROVE  ignored' = {}
  BY <1>2, <1>3 DEF StartSend, Sent, SendFails, MarkDraft, observed, deliveries
<1>4. CASE RunnerDies
  BY <1>4 DEF RunnerDies, deliveries
<1>5. ASSUME NEW h \in Handlers, Approve(h) PROVE ignored' = {}
  BY <1>5 DEF Approve, deliveries
<1> QED BY <1>1, <1>3, <1>4, <1>5, StepKinds

\* A contact whose answer the sync of a batch could fetch and attribute, by the
\* address or by the thread the row still has, gets nothing from that batch: for
\* any number of leads, handlers, runs and steps, whatever part of the inbox each
\* sync fetches.  What the sync leaves of a lead that was heard is a row without a
\* next step, and the batch reads the leads that are due after it; whoever puts
\* the lead back in between wrote over another's row, accepted a referral or
\* queued the lead.
THEOREM HeardLeadsAreLeft == Spec => []AnswersAreHeard
<1>1. Init => HeardInv /\ AnswersAreHeard
  BY DEF Init, Idle, Busy, HeardInv, Batch, AnswersAreHeard
<1>2. Typed /\ HeardInv /\ AnswersAreHeard /\ [Next]_vars => HeardInv' /\ AnswersAreHeard'
  BY HeardNext, IgnoredNext DEF AnswersAreHeard
<1> QED BY <1>1, <1>2, TypedInit, TypedNext, PTL DEF Spec

=============================================================================
