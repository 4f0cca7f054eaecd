-------------------------- MODULE MailboxesProofs --------------------------
(***************************************************************************)
(* What TLAPS proves of module Mailboxes for every set of campaigns, leads,*)
(* machines and mailboxes, all limits and every number of steps and days:  *)
(* a machine's ledger holds what the machine sent, no mailbox passes the   *)
(* cap that this history gives it, and all that leaves leaves as module    *)
(* Posting says.                                                           *)
(*                                                                         *)
(* What rows and copies of rows say is never more than what left: a step   *)
(* they count was sent, and a mailbox they name opened the thread.  They   *)
(* may say less, and then either the lead is one of the forgotten ones or  *)
(* the ledger at hand knows the rest.                                      *)
(***************************************************************************)
EXTENDS Mailboxes, FiniteSetTheorems, TLAPS

-----------------------------------------------------------------------------
(* Typing.                                                                 *)

Days == Nat \cup {None}

Rows == [status : {"active", "bounced"}, step : Nat, box : Boxes \cup {None},
         last : Days, next : Days]

Budgets == [cap : Int, sent : Nat, paused : BOOLEAN]

\* A batch under way that began with the mailboxes in on.
BatchesWith(on) ==
  [active : {TRUE}, machine : Machines, campaign : Campaigns, date : Nat,
   states : [on -> Budgets], failures : Nat, todo : SUBSET Leads, rows : [Leads -> Rows]]

Writers == [active : {TRUE}, lead : Leads, row : Rows]

Records == [lead : Leads, step : Nat, box : Boxes, day : Nat, machine : Machines]

Typed ==
  /\ day \in Nat
  /\ lead \in [Leads -> Rows]
  /\ ledger \in [Machines -> [Campaigns -> SUBSET Records]]
  /\ batch = Idle \/ \E on \in SUBSET Boxes : batch \in BatchesWith(on)
  /\ writer = NoWriter \/ writer \in Writers
  /\ sends \in SUBSET Records /\ IsFiniteSet(sends)
  /\ forgotten \subseteq Leads

-----------------------------------------------------------------------------
(* The inductive invariant.                                                *)

LedgersAreTheSends == \A m \in Machines, c \in Campaigns : ledger[m][c] = SendsOf(m, c)

\* Messages are dated in the order of the batches.
DatesInOrder ==
  /\ \A s \in sends : s.day <= day
  /\ batch.active => batch.date <= day /\ \A s \in sends : s.day <= batch.date

\* A row says of its lead nothing that did not leave ...
Knows(S, l, row) ==
  /\ row.step <= LastStep
  /\ \A k \in 1..row.step : \E s \in S : s.lead = l /\ s.step = k
  /\ row.box # None => \E s \in S : s.lead = l /\ s.step = 1 /\ s.box = row.box

\* ... and one that may be sent from has its mailbox, or is known as forgotten.
Remembered(S, F, l, row) ==
  row.status = "active" /\ row.box = None /\ (\E s \in S : s.lead = l) => l \in F

RowsKnow == \A l \in Leads : Knows(sends, l, lead[l]) /\ Remembered(sends, forgotten, l, lead[l])

CopiesKnow ==
  batch.active =>
    \A l \in batch.todo :
      LET row == batch.rows[l]
      IN /\ CampaignOf[l] = batch.campaign
         /\ row.status = "active" /\ row.step < LastStep
         /\ Knows(sends, l, row) /\ Remembered(sends, forgotten, l, row)

WriterKnows == writer.active => Knows(sends, writer.lead, writer.row)

\* The days a mailbox was used on, and that one of them is the first.
DaysOf(records, box) == {r.day : r \in {s \in records : s.box = box}}

HasFirstDay(records, box) ==
  DaysOf(records, box) # {} =>
    \E f \in DaysOf(records, box) : \A e \in DaysOf(records, box) : f <= e

FirstDays == \A m \in Machines, c \in Campaigns, b \in Boxes : HasFirstDay(SendsOf(m, c), b)

ThreadInv ==
  LedgersAreTheSends /\ DatesInOrder /\ RowsKnow /\ CopiesKnow /\ WriterKnows /\ FirstDays

\* A batch counts what its machine really sent for its campaign from each mailbox
\* under its date, and works with the cap that this whole history gives.
BudgetsAreTrue ==
  batch.active =>
    LET sent == SendsOf(batch.machine, batch.campaign)
    IN \A b \in DOMAIN batch.states :
         /\ batch.states[b].sent = Cardinality(SentBy(sent, b, batch.date))
         /\ batch.states[b].cap = CapOnDay(b, DaysActive(sent, b, batch.date))

MailInv == Typed /\ ThreadInv /\ BudgetsAreTrue /\ CapsHold

-----------------------------------------------------------------------------
(* Caps and days.                                                          *)

\* The cap of a day on which the mailbox is active is a number of messages.
LEMMA CapIsNat ==
  ASSUME NEW b \in Boxes, NEW n \in Nat \ {0}
  PROVE  CapOnDay(b, n) \in Nat
<1>1. n - 1 \in Nat /\ WarmupStep \in Nat /\ WarmupStart \in Nat /\ DailyLimit \in Nat
      /\ Limit[b] \in Nat
  BY MailboxesAssumption
<1>2. \A x, y \in Nat : x * y \in Nat
  OBVIOUS
<1>3. WarmupStep * (n - 1) \in Nat
  BY <1>1, <1>2
<1>4. WarmupStart + WarmupStep * (n - 1) \in Nat
  BY <1>1, <1>3
<1>5. Smaller(DailyLimit, WarmupStart + WarmupStep * (n - 1)) \in Nat
  BY <1>1, <1>4 DEF Smaller
<1> QED BY <1>1, <1>5 DEF CapOnDay, Smaller

\* The days of warm-up are counted from a first day that exists.
LEMMA ActiveDays ==
  ASSUME NEW S \in SUBSET Records, NEW b \in Boxes, NEW d \in Nat,
         \A r \in S : r.day <= d, HasFirstDay(S, b)
  PROVE  DaysActive(S, b, d) \in Nat \ {0}
<1> DEFINE days == DaysOf(S, b)
<1>1. \A e \in days : e \in Nat /\ e <= d
  BY DEF DaysOf, Records
<1>2. DaysActive(S, b, d) = IF days = {} THEN 1
                            ELSE d - (CHOOSE f \in days : \A e \in days : f <= e) + 1
  BY DEF DaysActive, DaysOf
<1>3. CASE days = {}
  BY <1>2, <1>3
<1>4. CASE days # {}
  <2>1. \E f \in days : \A e \in days : f <= e
    BY <1>4 DEF HasFirstDay
  <2>2. (CHOOSE f \in days : \A e \in days : f <= e) \in days
    BY <2>1
  <2> HIDE DEF days
  <2> QED BY <1>1, <1>2, <1>4, <2>2
<1> QED BY <1>3, <1>4

\* A message with the latest date leaves the first day, and so the warm-up, as it
\* was, and begins the warm-up of a mailbox that was not used.
LEMMA ActiveDaysAfterSend ==
  ASSUME NEW S \in SUBSET Records, NEW r \in Records, NEW b \in Boxes, NEW d \in Nat,
         \A s \in S : s.day <= r.day, HasFirstDay(S, b), d = r.day \/ DaysOf(S, b) # {}
  PROVE  /\ HasFirstDay(S \cup {r}, b)
         /\ DaysActive(S \cup {r}, b, d) = DaysActive(S, b, d)
<1> DEFINE days == DaysOf(S, b)
           then == DaysOf(S \cup {r}, b)
           First(D) == CHOOSE f \in D : \A e \in D : f <= e
<1>0. r.day \in Nat
  BY DEF Records
<1>1. then = IF r.box = b THEN days \cup {r.day} ELSE days
  BY DEF DaysOf
<1>2. \A e \in days : e \in Nat /\ e <= r.day
  BY DEF DaysOf, Records
<1>3. DaysActive(S, b, d) = IF days = {} THEN 1 ELSE d - First(days) + 1
  BY DEF DaysActive, DaysOf
<1>4. DaysActive(S \cup {r}, b, d) = IF then = {} THEN 1 ELSE d - First(then) + 1
  BY DEF DaysActive, DaysOf
<1>5. days # {} => First(days) \in days /\ \A e \in days : First(days) <= e
  BY DEF HasFirstDay
<1>6. HasFirstDay(S, b) <=> (days # {} => \E f \in days : \A e \in days : f <= e)
  BY DEF HasFirstDay
<1>7. HasFirstDay(S \cup {r}, b) <=> (then # {} => \E f \in then : \A e \in then : f <= e)
  BY DEF HasFirstDay
<1>a. d = r.day \/ days # {}
  OBVIOUS
<1> HIDE DEF days, then
<1>8. CASE then = days
  BY <1>3, <1>4, <1>6, <1>7, <1>8
<1>9. CASE days = {} /\ then = {r.day}
  <2>1. First(then) = r.day /\ d = r.day
    BY <1>9, <1>a
  <2> HIDE DEF First
  <2>2. d - First(then) + 1 = 1
    BY <2>1
  <2>3. DaysActive(S, b, d) = 1 /\ DaysActive(S \cup {r}, b, d) = 1
    BY <1>3, <1>4, <1>9, <2>2
  <2>4. \E f \in then : \A e \in then : f <= e
    BY <1>0, <1>9
  <2> QED BY <1>7, <2>3, <2>4
<1>10. CASE days # {} /\ then = days \cup {r.day}
  <2>1. /\ First(days) \in then /\ First(days) \in Nat
        /\ \A e \in then : First(days) <= e
    BY <1>2, <1>5, <1>10
  <2>2. \A f \in then : (\A e \in then : f <= e) => f = First(days)
    <3> HIDE DEF First
    <3>1. \A f \in then : f \in Nat
      BY <1>0, <1>2, <1>10
    <3> QED BY <2>1, <3>1
  <2>3. First(then) = First(days)
    <3>1. First(then) \in then /\ \A e \in then : First(then) <= e
      BY <2>1
    <3> QED BY <2>2, <3>1
  <2> HIDE DEF First
  <2> QED BY <1>3, <1>4, <1>7, <1>10, <2>1, <2>3
<1> QED BY <1>1, <1>8, <1>9, <1>10

\* The sends of a machine for a campaign, from a mailbox under a date.
LEMMA Counted ==
  ASSUME Typed, NEW m, NEW c, NEW b, NEW d
  PROVE  /\ SendsOf(m, c) \in SUBSET Records
         /\ IsFiniteSet(SentBy(SendsOf(m, c), b, d))
         /\ Cardinality(SentBy(SendsOf(m, c), b, d)) \in Nat
<1>1. SendsOf(m, c) \subseteq sends /\ SentBy(SendsOf(m, c), b, d) \subseteq sends
  BY DEF SendsOf, SentBy
<1> QED BY <1>1, FS_Subset, FS_CardinalityType DEF Typed

-----------------------------------------------------------------------------
(* What rows say of the messages that left.                                *)

LEMMA KnowsMore ==
  ASSUME NEW S, NEW T, S \subseteq T, NEW l, NEW row, Knows(S, l, row)
  PROVE  Knows(T, l, row)
  BY DEF Knows

\* A row of another lead is as well remembered as before, also when a crawl
\* makes more leads forgotten.
LEMMA RememberedElse ==
  ASSUME NEW S, NEW T, NEW F, NEW G, NEW l, NEW row, Remembered(S, F, l, row),
         l \in F => l \in G,
         (\E s \in T : s.lead = l) => (\E s \in S : s.lead = l)
  PROVE  Remembered(T, G, l, row)
  BY DEF Remembered

-----------------------------------------------------------------------------
(* What the steps of a batch do, field by field.                           *)

LEMMA BatchFields ==
  ASSUME Typed, batch.active
  PROVE  /\ DOMAIN batch.states \subseteq Boxes
         /\ batch.states \in [DOMAIN batch.states -> Budgets]
         /\ batch \in BatchesWith(DOMAIN batch.states)
         /\ batch.machine \in Machines /\ batch.campaign \in Campaigns
         /\ batch.date \in Nat /\ batch.todo \subseteq Leads
         /\ batch.rows \in [Leads -> Rows] /\ batch.failures \in Nat
<1>1. batch # Idle
  BY DEF Idle
<1>2. PICK on \in SUBSET Boxes : batch \in BatchesWith(on)
  BY <1>1 DEF Typed
<1>3. batch.states \in [on -> Budgets] /\ DOMAIN batch.states = on
  BY <1>2 DEF BatchesWith
<1> QED BY <1>2, <1>3 DEF BatchesWith

LEMMA NewRowTyped == NewRow \in Rows /\ NewRow.box = None /\ NewRow.step = 0
  BY DEF NewRow, Rows, Days

LEMMA NewRowKnows == \A S, l : Knows(S, l, NewRow)
  BY NewRowTyped, MailboxesAssumption DEF Knows

\* A new batch has a budget for every mailbox that is on, and copies the rows of
\* its campaign's due leads.
LEMMA StartEffect ==
  ASSUME Typed, ThreadInv, NEW m \in Machines, NEW c \in Campaigns, NEW on \in SUBSET Boxes,
         StartBatch(m, c, on)
  PROVE  /\ batch' \in BatchesWith(on)
         /\ batch'.active /\ batch'.machine = m /\ batch'.campaign = c /\ batch'.date = day
         /\ DOMAIN batch'.states = on
         /\ \A b \in on :
              /\ batch'.states[b].sent = Cardinality(SentBy(SendsOf(m, c), b, day))
              /\ batch'.states[b].cap = CapOnDay(b, DaysActive(SendsOf(m, c), b, day))
         /\ \A l \in batch'.todo :
              /\ l \in Leads /\ CampaignOf[l] = c /\ batch'.rows[l] = lead[l]
              /\ lead[l].status = "active" /\ lead[l].step < LastStep
<1> DEFINE states == [b \in on |-> StateOf(m, c, b, on)]
           rows == [l \in Leads |-> IF l \in DueOf(c) THEN lead[l] ELSE NewRow]
<1>1. batch' = [active |-> TRUE, machine |-> m, campaign |-> c, date |-> day,
                states |-> states, failures |-> 0, todo |-> DueOf(c), rows |-> rows]
  BY DEF StartBatch
<1>2. rows \in [Leads -> Rows] /\ \A l \in DueOf(c) : rows[l] = lead[l]
  BY NewRowTyped DEF Typed, DueOf
<1>3. /\ DueOf(c) \subseteq Leads
      /\ \A l \in DueOf(c) : /\ CampaignOf[l] = c
                             /\ lead[l].status = "active" /\ lead[l].step < LastStep
  BY DEF DueOf, Due
<1>4. ASSUME NEW b \in on
      PROVE  /\ StateOf(m, c, b, on) \in Budgets
             /\ StateOf(m, c, b, on).sent = Cardinality(SentBy(SendsOf(m, c), b, day))
             /\ StateOf(m, c, b, on).cap = CapOnDay(b, DaysActive(SendsOf(m, c), b, day))
  <2>1. ledger[m][c] = SendsOf(m, c)
    BY DEF ThreadInv, LedgersAreTheSends
  <2>2. Cardinality(SentBy(SendsOf(m, c), b, day)) \in Nat
    BY Counted
  <2>3. \A r \in SendsOf(m, c) : r.day <= day
    BY DEF SendsOf, ThreadInv, DatesInOrder
  <2>4. SendsOf(m, c) \in SUBSET Records /\ HasFirstDay(SendsOf(m, c), b) /\ day \in Nat
    BY Counted DEF ThreadInv, FirstDays, Typed
  <2>5. DaysActive(SendsOf(m, c), b, day) \in Nat \ {0}
    BY <2>3, <2>4, ActiveDays
  <2>6. CapOnDay(b, DaysActive(SendsOf(m, c), b, day)) \in Nat
    BY <2>5, CapIsNat
  <2> QED BY <2>1, <2>2, <2>6 DEF StateOf, Budgets
<1>5. states \in [on -> Budgets] /\ day \in Nat
  BY <1>4 DEF Typed
<1> HIDE DEF states, rows
<1>6. batch' \in BatchesWith(on)
  BY <1>1, <1>2, <1>3, <1>5 DEF BatchesWith
<1>7. /\ batch'.states = states /\ batch'.rows = rows /\ batch'.todo = DueOf(c)
      /\ batch'.active /\ batch'.machine = m /\ batch'.campaign = c /\ batch'.date = day
  BY <1>1
<1> QED BY <1>2, <1>3, <1>4, <1>6, <1>7 DEF states

\* b is the batch after lead l was dealt with.
Without(l, b) ==
  /\ b \in BatchesWith(DOMAIN batch.states)
  /\ b.active /\ b.machine = batch.machine /\ b.campaign = batch.campaign
  /\ b.date = batch.date /\ b.todo = batch.todo \ {l}
  /\ \A k \in batch.todo \ {l} : b.rows[k] = batch.rows[k]

\* A lead the batch is done with leaves the list, and the other copies stay.
LEMMA DoneEffect ==
  ASSUME Typed, batch.active, NEW l \in batch.todo
  PROVE  Without(l, Done(l)) /\ Done(l).states = batch.states
<1> DEFINE rows == [batch.rows EXCEPT ![l] = NewRow]
<1>1. /\ batch \in BatchesWith(DOMAIN batch.states)
      /\ batch.todo \subseteq Leads /\ batch.rows \in [Leads -> Rows]
  BY BatchFields
<1>2. rows \in [Leads -> Rows] /\ \A k \in batch.todo \ {l} : rows[k] = batch.rows[k]
  BY <1>1, NewRowTyped
<1> HIDE DEF rows
<1>3. Done(l) = [batch EXCEPT !.todo = @ \ {l}, !.rows = rows]
  BY <1>1 DEF Done, rows, BatchesWith
<1> QED BY <1>1, <1>2, <1>3 DEF BatchesWith, Without

LEMMA CloseEffect ==
  ASSUME NEW b
  PROVE  Close(b) = Idle \/ Close(b) = b
  BY DEF Close

LEMMA StepOfNext ==
  ASSUME Typed, ThreadInv, NEW l \in Leads, IsNext(l)
  PROVE  /\ batch.active /\ l \in batch.todo /\ CampaignOf[l] = batch.campaign
         /\ batch.rows[l] \in Rows /\ batch.rows[l].status = "active"
         /\ Knows(sends, l, batch.rows[l]) /\ Remembered(sends, forgotten, l, batch.rows[l])
         /\ NextStep(l) = batch.rows[l].step + 1 /\ NextStep(l) \in 1..LastStep
         /\ File = SendsOf(batch.machine, batch.campaign)
<1>1. batch.active /\ l \in batch.todo
  BY DEF IsNext
<1>2. batch.rows[l] \in Rows /\ batch.machine \in Machines /\ batch.campaign \in Campaigns
  BY <1>1, BatchFields
<1>3. /\ CampaignOf[l] = batch.campaign
      /\ batch.rows[l].status = "active" /\ batch.rows[l].step < LastStep
      /\ Knows(sends, l, batch.rows[l]) /\ Remembered(sends, forgotten, l, batch.rows[l])
  BY <1>1 DEF ThreadInv, CopiesKnow
<1>4. NextStep(l) = batch.rows[l].step + 1 /\ NextStep(l) \in 1..LastStep
  BY <1>2, <1>3, MailboxesAssumption DEF NextStep, Rows
<1>5. File = SendsOf(batch.machine, batch.campaign)
  BY <1>2 DEF File, ThreadInv, LedgersAreTheSends
<1> QED BY <1>1, <1>2, <1>3, <1>4, <1>5

\* A follow-up is sent from a mailbox that opened the thread, as the copy or the
\* ledger names it, or the lead is forgotten and the ledger does not know it.
LEMMA FollowUpFromOpener ==
  ASSUME Typed, ThreadInv, NEW l \in Leads, IsNext(l), NextStep(l) > 1
  PROVE  LET openers == {s \in sends : s.lead = l /\ s.step = 1}
         IN \/ BoxFor(l) \in {s.box : s \in openers}
            \/ l \in forgotten /\ batch.machine \notin {s.machine : s \in openers}
<1> DEFINE openers == {s \in sends : s.lead = l /\ s.step = 1}
           mine == {s \in File : s.lead = l /\ s.step = 1}
           first == {r.box : r \in mine}
           row == batch.rows[l]
<1>1. /\ CampaignOf[l] = batch.campaign /\ row \in Rows /\ row.status = "active"
      /\ Knows(sends, l, row) /\ Remembered(sends, forgotten, l, row)
      /\ row.step > 0 /\ row.step \in Nat
      /\ File = SendsOf(batch.machine, batch.campaign)
  BY StepOfNext DEF Rows
<1>2. BoxFor(l) = Owner(l)
  BY DEF BoxFor
<1>3. mine = {s \in openers : s.machine = batch.machine}
  BY <1>1 DEF SendsOf
<1>4. CASE row.box # None
  BY <1>1, <1>2, <1>4 DEF Owner, Knows
<1>5. CASE row.box = None /\ mine # {}
  <2>1. first # {} /\ Owner(l) = (CHOOSE b \in first : TRUE)
    BY <1>5 DEF Owner
  <2>2. Owner(l) \in first
    BY <2>1
  <2> QED BY <1>2, <1>3, <2>2
<1>6. CASE row.box = None /\ mine = {}
  <2>1. \E s \in sends : s.lead = l
    <3>1. 1 \in 1..row.step
      BY <1>1
    <3> QED BY <1>1, <3>1 DEF Knows
  <2>2. l \in forgotten
    BY <1>1, <1>6, <2>1 DEF Remembered
  <2> QED BY <1>3, <1>6, <2>2
<1> QED BY <1>4, <1>5, <1>6

\* What a row becomes when a step is counted.
LEMMA AdvancedEffect ==
  ASSUME NEW row \in Rows, NEW step \in Nat, NEW date \in Nat
  PROVE  /\ Advanced(row, step, date) \in Rows
         /\ Advanced(row, step, date).step = step
         /\ Advanced(row, step, date).box = row.box
<1>1. date + Wait \in Nat
  BY MailboxesAssumption
<1> DEFINE next == IF step < LastStep THEN date + Wait ELSE None
<1>2. next \in Days
  BY <1>1 DEF Days
<1>3. Advanced(row, step, date) = [row EXCEPT !.step = step, !.last = date, !.next = next]
  BY DEF Advanced
<1> HIDE DEF next
<1> QED BY <1>2, <1>3 DEF Rows, Days

TheRecord(l) == [lead |-> l, step |-> NextStep(l), box |-> BoxFor(l), day |-> batch.date,
                 machine |-> batch.machine]

LEMMA RecordFields ==
  ASSUME NEW l
  PROVE  /\ TheRecord(l).lead = l /\ TheRecord(l).step = NextStep(l)
         /\ TheRecord(l).box = BoxFor(l) /\ TheRecord(l).day = batch.date
         /\ TheRecord(l).machine = batch.machine
  BY DEF TheRecord

\* What sending does: one message more, in the ledger of the batch too.
LEMMA SendRecords ==
  ASSUME Typed, ThreadInv, NEW l \in Leads, Send(l)
  PROVE  LET r == TheRecord(l)
         IN /\ r \in Records /\ r \notin sends
            /\ \A s \in SendsOf(batch.machine, batch.campaign) :
                 s.lead # l \/ s.step # NextStep(l)
            /\ sends' = sends \cup {r} /\ day' = day /\ writer' = writer
            /\ forgotten' = IF NextStep(l) = 1 THEN forgotten \ {l} ELSE forgotten
            /\ \A m \in Machines, c \in Campaigns : SendsOf(m, c)' =
                 IF m = batch.machine /\ c = batch.campaign THEN SendsOf(m, c) \cup {r}
                 ELSE SendsOf(m, c)
            /\ \A m \in Machines, c \in Campaigns : ledger'[m][c] = SendsOf(m, c)'
            /\ ledger' \in [Machines -> [Campaigns -> SUBSET Records]]
            /\ BoxFor(l) \in DOMAIN batch.states
            /\ batch.states[BoxFor(l)].sent < batch.states[BoxFor(l)].cap
<1> DEFINE r == TheRecord(l)
           b == BoxFor(l)
           step == NextStep(l)
<1>0. IsNext(l) /\ ~HasSent(l, step) /\ MaySend(l)
  BY DEF Send, Attempt
<1>1. /\ batch.active /\ l \in batch.todo /\ CampaignOf[l] = batch.campaign
      /\ step \in 1..LastStep
      /\ File = SendsOf(batch.machine, batch.campaign)
  BY <1>0, StepOfNext
<1>2. /\ DOMAIN batch.states \subseteq Boxes /\ batch.machine \in Machines
      /\ batch.campaign \in Campaigns /\ batch.date \in Nat
      /\ batch.states \in [DOMAIN batch.states -> Budgets]
  BY <1>1, BatchFields
<1>3. /\ b \in DOMAIN batch.states
      /\ batch.states[b].sent < batch.states[b].cap
  <2>1. b \in DOMAIN batch.states /\ Remaining(batch.states[b]) > 0
    BY <1>0 DEF MaySend
  <2>2. batch.states[b] \in Budgets
    BY <1>2, <2>1
  <2> HIDE DEF b
  <2> QED BY <2>1, <2>2 DEF Remaining, Budgets
<1>4. r \in Records
  <2>1. step \in Nat /\ b \in Boxes
    BY <1>1, <1>2, <1>3, MailboxesAssumption
  <2> HIDE DEF b, step
  <2> QED BY <1>2, <2>1 DEF TheRecord, Records, b, step
<1>5. \A s \in SendsOf(batch.machine, batch.campaign) : s.lead # l \/ s.step # step
  BY <1>0, <1>1 DEF HasSent
<1>6. /\ sends' = sends \cup {r} /\ day' = day /\ writer' = writer
      /\ forgotten' = IF step = 1 THEN forgotten \ {l} ELSE forgotten
      /\ ledger' = [ledger EXCEPT ![batch.machine][batch.campaign] =
                      {s \in @ : s.lead # l \/ s.step # step} \cup {r}]
  BY DEF Send, TheRecord
<1>7. r.lead = l /\ r.step = step /\ r.box = b /\ r.day = batch.date /\ r.machine = batch.machine
  BY RecordFields
<1> HIDE DEF r, b, step
<1>8. r \notin sends
  BY <1>1, <1>5, <1>7 DEF SendsOf
<1>9. ASSUME NEW m \in Machines, NEW c \in Campaigns
      PROVE  SendsOf(m, c)' = IF m = batch.machine /\ c = batch.campaign
                              THEN SendsOf(m, c) \cup {r} ELSE SendsOf(m, c)
  BY <1>1, <1>6, <1>7 DEF SendsOf
<1>10. ASSUME NEW m \in Machines, NEW c \in Campaigns
       PROVE  ledger'[m][c] = SendsOf(m, c)' /\ ledger'[m][c] \in SUBSET Records
  <2>1. /\ ledger \in [Machines -> [Campaigns -> SUBSET Records]]
        /\ ledger[m][c] = SendsOf(m, c)
    BY DEF Typed, ThreadInv, LedgersAreTheSends
  <2>2. CASE m = batch.machine /\ c = batch.campaign
    <3>1. ledger'[m][c] = {s \in ledger[m][c] : s.lead # l \/ s.step # step} \cup {r}
      BY <1>2, <1>6, <2>1, <2>2
    <3>2. {s \in ledger[m][c] : s.lead # l \/ s.step # step} = ledger[m][c]
      BY <1>5, <2>1, <2>2
    <3> QED BY <1>4, <1>9, <2>1, <2>2, <3>1, <3>2
  <2>3. CASE m # batch.machine \/ c # batch.campaign
    <3>1. ledger'[m][c] = ledger[m][c]
      BY <1>6, <2>1, <2>3
    <3> QED BY <1>9, <2>1, <2>3, <3>1
  <2> QED BY <2>2, <2>3
<1>11. ledger' \in [Machines -> [Campaigns -> SUBSET Records]]
  <2>1. ledger \in [Machines -> [Campaigns -> SUBSET Records]]
    BY DEF Typed
  <2> DEFINE files == {s \in ledger[batch.machine][batch.campaign] : s.lead # l \/ s.step # step}
                        \cup {r}
  <2>2. files \in SUBSET Records
    BY <1>2, <1>4, <2>1
  <2>3. ledger' = [ledger EXCEPT ![batch.machine][batch.campaign] = files]
    BY <1>2, <1>6, <2>1
  <2> HIDE DEF files
  <2> QED BY <1>2, <2>1, <2>2, <2>3
<1> QED BY <1>3, <1>4, <1>5, <1>6, <1>8, <1>9, <1>10, <1>11 DEF r, b, step

\* ... the row a step further, the batch one lead shorter and the budget of the
\* mailbox one smaller.
LEMMA SendEffect ==
  ASSUME Typed, ThreadInv, NEW l \in Leads, Send(l)
  PROVE  LET b == BoxFor(l)
             step == NextStep(l)
         IN /\ lead' \in [Leads -> Rows]
            /\ lead'[l].step = step
            /\ lead'[l].box = IF step = 1 THEN b ELSE batch.rows[l].box
            /\ \A k \in Leads \ {l} : lead'[k] = lead[k]
            /\ \/ batch' = Idle
               \/ /\ Without(l, batch')
                  /\ batch'.states = [batch.states EXCEPT ![b].sent = @ + 1]
<1> DEFINE b == BoxFor(l)
           step == NextStep(l)
<1>1. /\ batch.active /\ l \in batch.todo /\ batch.rows[l] \in Rows /\ step \in Nat
  BY StepOfNext, MailboxesAssumption DEF Send, Attempt
<1>2. /\ DOMAIN batch.states \subseteq Boxes /\ batch.date \in Nat
      /\ batch.states \in [DOMAIN batch.states -> Budgets]
  BY <1>1, BatchFields
<1>3. b \in DOMAIN batch.states
  BY SendRecords
<1>4. /\ lead' \in [Leads -> Rows] /\ lead'[l].step = step
      /\ lead'[l].box = IF step = 1 THEN b ELSE batch.rows[l].box
      /\ \A k \in Leads \ {l} : lead'[k] = lead[k]
  <2> DEFINE adv == Advanced(batch.rows[l], step, batch.date)
             box == IF step = 1 THEN b ELSE adv.box
             row == [adv EXCEPT !.box = box]
  <2>1. lead' = [lead EXCEPT ![l] = row]
    BY DEF Send
  <2>2. adv \in Rows /\ adv.step = step /\ adv.box = batch.rows[l].box
    BY <1>1, <1>2, AdvancedEffect
  <2>3. box \in Boxes \cup {None}
    BY <1>2, <1>3, <2>2 DEF Rows
  <2>4. box = IF step = 1 THEN b ELSE batch.rows[l].box
    BY <2>2
  <2> HIDE DEF adv, box
  <2>5. row \in Rows /\ row.step = step /\ row.box = box
    BY <2>2, <2>3 DEF Rows
  <2> HIDE DEF row
  <2> QED BY <2>1, <2>4, <2>5 DEF Typed
<1>5. \/ batch' = Idle
      \/ /\ Without(l, batch')
         /\ batch'.states = [batch.states EXCEPT ![b].sent = @ + 1]
  <2> DEFINE done == Done(l)
             states == [batch.states EXCEPT ![b].sent = @ + 1]
             then == [done EXCEPT !.states[b].sent = @ + 1, !.failures = 0]
  <2>1. Without(l, done) /\ done.states = batch.states
    BY <1>1, DoneEffect
  <2>2. batch' = Close(then)
    BY DEF Send
  <2>3. states \in [DOMAIN batch.states -> Budgets]
    <3> HIDE DEF b
    <3>1. batch.states[b] \in Budgets
      BY <1>2, <1>3
    <3>2. [batch.states[b] EXCEPT !.sent = @ + 1] \in Budgets
      BY <3>1 DEF Budgets
    <3> QED BY <1>2, <3>2
  <2> HIDE DEF done, b
  <2>4. then = [done EXCEPT !.states = states, !.failures = 0]
    BY <2>1 DEF BatchesWith, Without
  <2> HIDE DEF states, then
  <2>5. Without(l, then) /\ then.states = states
    BY <2>1, <2>3, <2>4 DEF BatchesWith, Without
  <2> QED BY <2>2, <2>5, CloseEffect DEF states
<1> QED BY <1>4, <1>5

\* The other ways of being done with a lead: the ledger, the day and what left
\* stay; the row stays, or is the copy, stopped or at a step that the ledger has.
LEMMA OtherEffect ==
  ASSUME Typed, ThreadInv, NEW l \in Leads,
         SkipSent(l) \/ Skip(l) \/ Refused(l) \/ SendFails(l)
  PROVE  /\ UNCHANGED <<day, ledger, writer, sends, forgotten>>
         /\ lead' \in [Leads -> Rows]
         /\ Knows(sends, l, lead'[l]) /\ Remembered(sends, forgotten, l, lead'[l])
         /\ \A k \in Leads \ {l} : lead'[k] = lead[k]
         /\ batch.active /\ l \in batch.todo
         /\ \/ batch' = Idle
            \/ Without(l, batch') /\ batch'.states = batch.states
<1> DEFINE row == batch.rows[l]
           step == NextStep(l)
           done == Done(l)
<1>0. IsNext(l)
  BY DEF SkipSent, Skip, Refused, SendFails, Attempt
<1>1. /\ batch.active /\ l \in batch.todo /\ row \in Rows /\ row.status = "active"
      /\ Knows(sends, l, row) /\ Remembered(sends, forgotten, l, row)
      /\ step = row.step + 1 /\ step \in 1..LastStep
      /\ File = SendsOf(batch.machine, batch.campaign)
  BY <1>0, StepOfNext
<1>2. Without(l, done) /\ done.states = batch.states /\ done.failures \in Nat
  BY <1>1, DoneEffect DEF Without, BatchesWith
<1>3. /\ Knows(sends, l, lead[l]) /\ Remembered(sends, forgotten, l, lead[l])
      /\ lead \in [Leads -> Rows] /\ day \in Nat
  BY DEF Typed, ThreadInv, RowsKnow
<1>4. batch' = Idle \/ (Without(l, batch') /\ batch'.states = batch.states)
  <2>1. CASE batch' = Close(done)
    BY <1>2, <2>1, CloseEffect
  <2>2. CASE Failed(l)
    <3> DEFINE failures == done.failures + 1
               then == [done EXCEPT !.failures = failures]
    <3>1. batch' = Idle \/ batch' = Close(then)
      BY <2>2 DEF Failed
    <3>2. failures \in Nat
      BY <1>2
    <3> HIDE DEF done, failures
    <3>3. Without(l, then) /\ then.states = batch.states
      BY <1>2, <3>2 DEF Without, BatchesWith
    <3> HIDE DEF then
    <3> QED BY <3>1, <3>3, CloseEffect
  <2> QED BY <2>1, <2>2 DEF SkipSent, Skip, Refused, SendFails
<1>5. UNCHANGED <<day, ledger, writer, sends, forgotten>>
  BY DEF SkipSent, Skip, Refused, SendFails, observed
<1>6. /\ lead' \in [Leads -> Rows]
      /\ Knows(sends, l, lead'[l]) /\ Remembered(sends, forgotten, l, lead'[l])
      /\ \A k \in Leads \ {l} : lead'[k] = lead[k]
  <2>1. CASE Skip(l) \/ SendFails(l)
    BY <1>3, <2>1 DEF Skip, SendFails
  <2>2. CASE Refused(l)
    <3> DEFINE new == [row EXCEPT !.status = "bounced", !.next = None]
    <3>1. lead' = [lead EXCEPT ![l] = new]
      BY <2>2 DEF Refused
    <3> HIDE DEF row
    <3>2. new \in Rows /\ new.step = row.step /\ new.box = row.box /\ new.status # "active"
      BY <1>1 DEF Rows, Days
    <3>3. Knows(sends, l, new) /\ Remembered(sends, forgotten, l, new)
      BY <1>1, <3>2 DEF Knows, Remembered
    <3> HIDE DEF new
    <3> QED BY <1>3, <3>1, <3>2, <3>3
  <2>3. CASE SkipSent(l)
    <3> DEFINE new == Advanced(row, step, day)
    <3>1. lead' = [lead EXCEPT ![l] = new]
      BY <2>3 DEF SkipSent
    <3>2. new \in Rows /\ new.step = step /\ new.box = row.box
      <4>1. step \in Nat
        BY <1>1, MailboxesAssumption
      <4> HIDE DEF row, step
      <4> QED BY <1>1, <1>3, <4>1, AdvancedEffect
    <3>3. \E s \in sends : s.lead = l /\ s.step = step
      BY <1>1, <2>3 DEF SkipSent, HasSent, SendsOf
    <3>4. new.status = row.status
      BY <1>1 DEF Advanced, Rows
    <3> HIDE DEF new, row, step
    <3>5. \A k \in 1..step : \E s \in sends : s.lead = l /\ s.step = k
      <4>1. ASSUME NEW k \in 1..step PROVE \E s \in sends : s.lead = l /\ s.step = k
        <5>1. k = step \/ k \in 1..row.step
          BY <1>1 DEF Rows
        <5> QED BY <1>1, <3>3, <5>1 DEF Knows
      <4> QED BY <4>1
    <3>6. Knows(sends, l, new) /\ Remembered(sends, forgotten, l, new)
      BY <1>1, <3>2, <3>4, <3>5, MailboxesAssumption DEF Knows, Remembered
    <3> QED BY <1>3, <3>1, <3>2, <3>6
  <2> QED BY <2>1, <2>2, <2>3
<1> QED BY <1>1, <1>4, <1>5, <1>6

\* What a bounce or a crawl writes: a row that says no more than the one it read,
\* and may be sent from only as a forgotten one.
LEMMA RowEffect ==
  ASSUME Typed, ThreadInv, Bounce \/ Crawl
  PROVE  /\ UNCHANGED <<day, ledger, batch, sends>> /\ writer' = NoWriter
         /\ forgotten \subseteq forgotten' /\ forgotten' \subseteq Leads
         /\ lead' \in [Leads -> Rows]
         /\ \A k \in Leads :
              \/ lead'[k] = lead[k]
              \/ Knows(sends, k, lead'[k]) /\ Remembered(sends, forgotten', k, lead'[k])
<1> DEFINE l == writer.lead
           old == writer.row
<1>1. writer \in Writers /\ writer.active
  BY DEF Bounce, Crawl, WriteBack, Typed, NoWriter
<1>2. l \in Leads /\ old \in Rows /\ Knows(sends, l, old)
  BY <1>1 DEF Writers, ThreadInv, WriterKnows
<1>3. lead \in [Leads -> Rows] /\ forgotten \subseteq Leads
  BY DEF Typed
<1>4. CASE Bounce
  <2> DEFINE row == [old EXCEPT !.status = "bounced", !.next = None]
  <2>1. lead' = [lead EXCEPT ![l] = row] /\ forgotten' = forgotten
        /\ UNCHANGED <<day, ledger, batch, sends>> /\ writer' = NoWriter
    BY <1>4 DEF Bounce, WriteBack
  <2> HIDE DEF old, l
  <2>2. row \in Rows /\ row.step = old.step /\ row.box = old.box /\ row.status # "active"
    BY <1>2 DEF Rows, Days
  <2>3. Knows(sends, l, row) /\ Remembered(sends, forgotten', l, row)
    BY <1>2, <2>2 DEF Knows, Remembered
  <2> HIDE DEF row
  <2> QED BY <1>2, <1>3, <2>1, <2>2, <2>3
<1>5. CASE Crawl
  <2> DEFINE row == [NewRow EXCEPT !.status = old.status, !.step = old.step]
  <2>1. lead' = [lead EXCEPT ![l] = row] /\ forgotten' = forgotten \cup {l}
        /\ UNCHANGED <<day, ledger, batch, sends>> /\ writer' = NoWriter
    BY <1>5 DEF Crawl, WriteBack
  <2> HIDE DEF old, l
  <2>2. row \in Rows /\ row.step = old.step /\ row.box = None
    BY <1>2 DEF Rows, Days, NewRow
  <2>3. Knows(sends, l, row) /\ Remembered(sends, forgotten', l, row)
    BY <1>2, <2>1, <2>2 DEF Knows, Remembered
  <2> HIDE DEF row
  <2> QED BY <1>2, <1>3, <2>1, <2>2, <2>3
<1> QED BY <1>4, <1>5

-----------------------------------------------------------------------------
(* The invariant is inductive: types, rows and copies.                     *)

LEMMA InitMail == Init => MailInv
<1> SUFFICES ASSUME Init PROVE MailInv
  OBVIOUS
<1>1. \A m, c : SendsOf(m, c) = {}
  BY DEF Init, SendsOf
<1>2. Typed
  BY NewRowTyped, FS_EmptySet DEF Init, Typed
<1>3. FirstDays
  BY <1>1 DEF FirstDays, HasFirstDay, DaysOf
<1>4. LedgersAreTheSends /\ DatesInOrder
  BY <1>1 DEF Init, LedgersAreTheSends, DatesInOrder, Idle
<1>5. RowsKnow
  BY NewRowKnows DEF Init, RowsKnow, Remembered
<1>6. CopiesKnow /\ WriterKnows
  BY DEF Init, CopiesKnow, WriterKnows, Idle, NoWriter
<1>7. CapsHold /\ BudgetsAreTrue
  BY <1>1 DEF Init, CapsHold, BudgetsAreTrue, Idle
<1> QED BY <1>2, <1>3, <1>4, <1>5, <1>6, <1>7 DEF MailInv, ThreadInv

LEMMA NextTyped ==
  ASSUME Typed, ThreadInv, [Next]_vars
  PROVE  Typed'
<1>1. ASSUME NEW m \in Machines, NEW c \in Campaigns, NEW on \in SUBSET Boxes \ {{}},
             StartBatch(m, c, on)
      PROVE  Typed'
  <2>1. batch' \in BatchesWith(on) /\ on \in SUBSET Boxes
    BY <1>1, StartEffect
  <2>2. UNCHANGED <<day, lead, ledger, writer, sends, forgotten>>
    BY <1>1 DEF StartBatch, observed
  <2> QED BY <2>1, <2>2 DEF Typed
<1>2. ASSUME NEW l \in Leads, Send(l) PROVE Typed'
  <2> DEFINE r == TheRecord(l)
  <2>1. /\ r \in Records /\ sends' = sends \cup {r} /\ day' = day /\ writer' = writer
        /\ forgotten' \subseteq forgotten
        /\ ledger' \in [Machines -> [Campaigns -> SUBSET Records]]
    BY <1>2, SendRecords
  <2>2. lead' \in [Leads -> Rows]
        /\ (batch' = Idle \/ batch' \in BatchesWith(DOMAIN batch.states))
    BY <1>2, SendEffect DEF Without
  <2>3. DOMAIN batch.states \in SUBSET Boxes
    BY <1>2, BatchFields DEF Send, Attempt, IsNext
  <2> HIDE DEF r
  <2>4. IsFiniteSet(sends')
    BY <2>1, FS_AddElement DEF Typed
  <2> QED BY <2>1, <2>2, <2>3, <2>4 DEF Typed
<1>3. ASSUME NEW l \in Leads, SkipSent(l) \/ Skip(l) \/ Refused(l) \/ SendFails(l) PROVE Typed'
  <2>1. /\ UNCHANGED <<day, ledger, writer, sends, forgotten>> /\ lead' \in [Leads -> Rows]
        /\ batch.active
        /\ (batch' = Idle \/ batch' \in BatchesWith(DOMAIN batch.states))
    BY <1>3, OtherEffect DEF Without
  <2>2. DOMAIN batch.states \in SUBSET Boxes
    BY <2>1, BatchFields
  <2> QED BY <2>1, <2>2 DEF Typed
<1>4. ASSUME NEW l \in Leads, ReadLead(l) PROVE Typed'
  <2>1. writer' \in Writers
    BY <1>4 DEF ReadLead, Typed, Writers
  <2>2. UNCHANGED <<day, lead, ledger, batch, sends, forgotten>>
    BY <1>4 DEF ReadLead, observed
  <2> QED BY <2>1, <2>2 DEF Typed
<1>5. ASSUME Bounce \/ Crawl PROVE Typed'
  <2>1. /\ UNCHANGED <<day, ledger, batch, sends>> /\ writer' = NoWriter
        /\ forgotten' \subseteq Leads /\ lead' \in [Leads -> Rows]
    BY <1>5, RowEffect
  <2> QED BY <2>1 DEF Typed
<1>6. ASSUME EndBatch PROVE Typed'
  BY <1>6 DEF EndBatch, Typed, observed
<1>7. ASSUME NextDay PROVE Typed'
  BY <1>7 DEF NextDay, Typed, observed
<1>8. ASSUME UNCHANGED vars PROVE Typed'
  BY <1>8 DEF vars, Typed
<1> QED BY <1>1, <1>2, <1>3, <1>4, <1>5, <1>6, <1>7, <1>8 DEF Next

\* Nothing leaves, and what is written to a row is known.
LEMMA QuietThreads ==
  ASSUME Typed, ThreadInv, UNCHANGED <<ledger, sends>>, day' \in Nat, day <= day',
         forgotten \subseteq forgotten',
         \A k \in Leads :
           lead'[k] = lead[k] \/ (Knows(sends, k, lead'[k]) /\ Remembered(sends, forgotten', k, lead'[k])),
         ~batch'.active \/ batch' = batch \/ (batch.active /\ \E l \in Leads : Without(l, batch')),
         writer'.active => Knows(sends, writer'.lead, writer'.row)
  PROVE  ThreadInv'
<1>0. day \in Nat /\ \A s \in sends : s.day \in Nat
  BY DEF Typed, Records
<1>1. \A m, c : SendsOf(m, c)' = SendsOf(m, c)
  BY DEF SendsOf
<1>2. LedgersAreTheSends' /\ FirstDays'
  BY <1>1 DEF ThreadInv, LedgersAreTheSends, FirstDays
<1>3. RowsKnow'
  <2>1. ASSUME NEW k \in Leads
        PROVE  Knows(sends, k, lead'[k]) /\ Remembered(sends, forgotten', k, lead'[k])
    <3>1. Knows(sends, k, lead[k]) /\ Remembered(sends, forgotten, k, lead[k])
      BY DEF ThreadInv, RowsKnow
    <3>2. Remembered(sends, forgotten', k, lead[k])
      BY <3>1 DEF Remembered
    <3> QED BY <3>1, <3>2
  <2> QED BY <2>1 DEF RowsKnow
<1>4. WriterKnows'
  BY DEF WriterKnows
<1>5. CASE ~batch'.active
  <2>1. \A s \in sends : s.day <= day'
    BY <1>0 DEF ThreadInv, DatesInOrder
  <2> QED BY <1>2, <1>3, <1>4, <1>5, <2>1 DEF ThreadInv, DatesInOrder, CopiesKnow
<1>6. CASE batch'.active
  <2>1. batch.active /\ batch'.campaign = batch.campaign /\ batch'.date = batch.date
        /\ batch'.todo \subseteq batch.todo
        /\ \A k \in batch'.todo : batch'.rows[k] = batch.rows[k]
    BY <1>6 DEF Without
  <2>2. batch.date \in Nat
    BY <2>1, BatchFields
  <2>3. DatesInOrder'
    BY <1>0, <2>1, <2>2 DEF ThreadInv, DatesInOrder
  <2>4. ASSUME NEW k \in batch'.todo
        PROVE  /\ CampaignOf[k] = batch'.campaign
               /\ batch'.rows[k].status = "active" /\ batch'.rows[k].step < LastStep
               /\ Knows(sends, k, batch'.rows[k]) /\ Remembered(sends, forgotten', k, batch'.rows[k])
    <3>1. /\ CampaignOf[k] = batch.campaign
          /\ batch.rows[k].status = "active" /\ batch.rows[k].step < LastStep
          /\ Knows(sends, k, batch.rows[k]) /\ Remembered(sends, forgotten, k, batch.rows[k])
      BY <2>1 DEF ThreadInv, CopiesKnow
    <3>2. Remembered(sends, forgotten', k, batch.rows[k])
      BY <3>1 DEF Remembered
    <3> QED BY <2>1, <3>1, <3>2
  <2>5. CopiesKnow'
    BY <2>4 DEF CopiesKnow
  <2> QED BY <1>2, <1>3, <1>4, <2>3, <2>5 DEF ThreadInv
<1> QED BY <1>5, <1>6

\* A message leaves: its record is in the ledger, and its lead's row has its step,
\* and its mailbox when it opens the thread.
LEMMA SendThreads ==
  ASSUME Typed, ThreadInv, NEW l \in Leads, Send(l)
  PROVE  ThreadInv'
<1> DEFINE r == TheRecord(l)
           b == BoxFor(l)
           step == NextStep(l)
           row == batch.rows[l]
<1>1. /\ r \in Records /\ sends' = sends \cup {r} /\ day' = day /\ writer' = writer
      /\ forgotten' = IF step = 1 THEN forgotten \ {l} ELSE forgotten
      /\ \A m \in Machines, c \in Campaigns : SendsOf(m, c)' =
           IF m = batch.machine /\ c = batch.campaign THEN SendsOf(m, c) \cup {r}
           ELSE SendsOf(m, c)
      /\ \A m \in Machines, c \in Campaigns : ledger'[m][c] = SendsOf(m, c)'
      /\ b \in DOMAIN batch.states
  BY SendRecords
<1>2. r.lead = l /\ r.step = step /\ r.box = b /\ r.day = batch.date
  BY RecordFields
<1>3. /\ lead'[l] \in Rows /\ lead'[l].step = step
      /\ lead'[l].box = IF step = 1 THEN b ELSE row.box
      /\ \A k \in Leads \ {l} : lead'[k] = lead[k]
      /\ batch' = Idle \/ Without(l, batch')
  BY SendEffect
<1>4. /\ batch.active /\ l \in batch.todo /\ row \in Rows /\ row.status = "active"
      /\ Knows(sends, l, row) /\ Remembered(sends, forgotten, l, row)
      /\ step = row.step + 1 /\ step \in 1..LastStep
  BY StepOfNext DEF Send, Attempt
<1>5. b # None
  BY <1>1, <1>4, BatchFields, MailboxesAssumption
<1>6. batch.date \in Nat /\ batch.date <= day /\ \A s \in sends : s.day <= batch.date
  BY <1>4, BatchFields DEF ThreadInv, DatesInOrder
<1> HIDE DEF r, b, step
<1>7. LedgersAreTheSends'
  BY <1>1 DEF LedgersAreTheSends
<1>8. DatesInOrder'
  <2>1. \A s \in sends' : s.day <= batch.date /\ s.day <= day
    <3>1. day \in Nat /\ \A s \in sends : s.day <= day
      BY DEF Typed, ThreadInv, DatesInOrder
    <3> QED BY <1>1, <1>2, <1>6, <3>1
  <2>2. batch'.active => batch'.date = batch.date
    BY <1>3 DEF Idle, Without
  <2> QED BY <1>1, <1>6, <2>1, <2>2 DEF DatesInOrder
<1>9. FirstDays'
  <2>1. ASSUME NEW m \in Machines, NEW c \in Campaigns, NEW x \in Boxes
        PROVE  HasFirstDay(SendsOf(m, c)', x)
    <3>1. /\ SendsOf(m, c) \in SUBSET Records /\ HasFirstDay(SendsOf(m, c), x)
          /\ \A s \in SendsOf(m, c) : s.day <= r.day
      BY <1>2, <1>6, Counted DEF ThreadInv, FirstDays, SendsOf
    <3>2. HasFirstDay(SendsOf(m, c) \cup {r}, x)
      BY <1>1, <1>2, <1>6, <3>1, ActiveDaysAfterSend
    <3> QED BY <1>1, <3>1, <3>2
  <2> QED BY <2>1 DEF FirstDays
<1>10. RowsKnow'
  <2>1. Knows(sends', l, lead'[l])
    <3>1. r \in sends'
      BY <1>1
    <3>2. ASSUME NEW k \in 1..step PROVE \E s \in sends' : s.lead = l /\ s.step = k
      <4>1. k = step \/ k \in 1..row.step
        BY <1>4 DEF Rows
      <4> QED BY <1>1, <1>2, <1>4, <3>1, <4>1 DEF Knows
    <3>3. lead'[l].box # None =>
            \E s \in sends' : s.lead = l /\ s.step = 1 /\ s.box = lead'[l].box
      BY <1>1, <1>2, <1>3, <1>4, <3>1 DEF Knows
    <3>4. step <= LastStep
      BY <1>4, MailboxesAssumption
    <3> QED BY <1>3, <3>2, <3>3, <3>4 DEF Knows
  <2>2. Remembered(sends', forgotten', l, lead'[l])
    <3>1. CASE step = 1
      BY <1>3, <1>5, <3>1 DEF Remembered
    <3>2. CASE step # 1
      <4>1. 1 \in 1..row.step
        BY <1>4, <3>2 DEF Rows
      <4>2. \E s \in sends : s.lead = l
        BY <1>4, <4>1 DEF Knows
      <4> QED BY <1>1, <1>3, <1>4, <3>2, <4>2 DEF Remembered
    <3> QED BY <3>1, <3>2
  <2>3. ASSUME NEW k \in Leads \ {l}
        PROVE  Knows(sends', k, lead'[k]) /\ Remembered(sends', forgotten', k, lead'[k])
    <3>1. Knows(sends, k, lead[k]) /\ Remembered(sends, forgotten, k, lead[k])
      BY DEF ThreadInv, RowsKnow
    <3>2. k \in forgotten => k \in forgotten'
      BY <1>1
    <3>3. (\E s \in sends' : s.lead = k) => (\E s \in sends : s.lead = k)
      BY <1>1, <1>2
    <3>4. Knows(sends', k, lead[k])
      BY <1>1, <3>1, KnowsMore
    <3>5. Remembered(sends', forgotten', k, lead[k])
      BY <3>1, <3>2, <3>3, RememberedElse
    <3> QED BY <1>3, <3>4, <3>5
  <2> QED BY <2>1, <2>2, <2>3 DEF RowsKnow
<1>11. CopiesKnow'
  <2>1. ASSUME batch'.active, NEW k \in batch'.todo
        PROVE  /\ CampaignOf[k] = batch'.campaign
               /\ batch'.rows[k].status = "active" /\ batch'.rows[k].step < LastStep
               /\ Knows(sends', k, batch'.rows[k])
               /\ Remembered(sends', forgotten', k, batch'.rows[k])
    <3>1. /\ k # l /\ k \in batch.todo /\ batch'.campaign = batch.campaign
          /\ batch'.rows[k] = batch.rows[k]
      BY <1>3, <2>1 DEF Idle, Without
    <3>2. /\ CampaignOf[k] = batch.campaign
          /\ batch.rows[k].status = "active" /\ batch.rows[k].step < LastStep
          /\ Knows(sends, k, batch.rows[k]) /\ Remembered(sends, forgotten, k, batch.rows[k])
      BY <1>4, <3>1 DEF ThreadInv, CopiesKnow
    <3>3. k \in forgotten => k \in forgotten'
      BY <1>1, <3>1
    <3>4. (\E s \in sends' : s.lead = k) => (\E s \in sends : s.lead = k)
      BY <1>1, <1>2, <3>1
    <3>5. Knows(sends', k, batch.rows[k])
      BY <1>1, <3>2, KnowsMore
    <3>6. Remembered(sends', forgotten', k, batch.rows[k])
      BY <3>2, <3>3, <3>4, RememberedElse
    <3> QED BY <3>1, <3>2, <3>5, <3>6
  <2> QED BY <2>1 DEF CopiesKnow
<1>12. WriterKnows'
  <2>1. writer.active => Knows(sends, writer.lead, writer.row)
    BY DEF ThreadInv, WriterKnows
  <2>2. writer.active => Knows(sends', writer.lead, writer.row)
    BY <1>1, <2>1, KnowsMore
  <2> QED BY <1>1, <2>2 DEF WriterKnows
<1> QED BY <1>7, <1>8, <1>9, <1>10, <1>11, <1>12 DEF ThreadInv

LEMMA NextThreads ==
  ASSUME Typed, ThreadInv, [Next]_vars
  PROVE  ThreadInv'
<1>0. day \in Nat /\ (writer.active => Knows(sends, writer.lead, writer.row))
  BY DEF Typed, ThreadInv, WriterKnows
<1>1. ASSUME NEW m \in Machines, NEW c \in Campaigns, NEW on \in SUBSET Boxes \ {{}},
             StartBatch(m, c, on)
      PROVE  ThreadInv'
  <2>1. UNCHANGED <<day, lead, ledger, writer, sends, forgotten>>
    BY <1>1 DEF StartBatch, observed
  <2>2. /\ batch'.campaign = c /\ batch'.date = day
        /\ \A l \in batch'.todo :
             /\ l \in Leads /\ CampaignOf[l] = c /\ batch'.rows[l] = lead[l]
             /\ lead[l].status = "active" /\ lead[l].step < LastStep
    BY <1>1, StartEffect
  <2>3. LedgersAreTheSends' /\ RowsKnow' /\ WriterKnows' /\ FirstDays'
    BY <2>1 DEF ThreadInv, LedgersAreTheSends, RowsKnow, WriterKnows, FirstDays, SendsOf
  <2>4. DatesInOrder'
    BY <1>0, <2>1, <2>2 DEF ThreadInv, DatesInOrder
  <2>5. ASSUME NEW l \in batch'.todo
        PROVE  /\ Knows(sends, l, batch'.rows[l])
               /\ Remembered(sends, forgotten, l, batch'.rows[l])
    BY <2>2 DEF ThreadInv, RowsKnow
  <2>6. CopiesKnow'
    BY <2>1, <2>2, <2>5 DEF CopiesKnow
  <2> QED BY <2>3, <2>4, <2>6 DEF ThreadInv
<1>2. ASSUME NEW l \in Leads, Send(l) PROVE ThreadInv'
  BY <1>2, SendThreads
<1>3. ASSUME NEW l \in Leads, SkipSent(l) \/ Skip(l) \/ Refused(l) \/ SendFails(l)
      PROVE  ThreadInv'
  <2>1. /\ UNCHANGED <<day, ledger, writer, sends, forgotten>> /\ batch.active
        /\ Knows(sends, l, lead'[l]) /\ Remembered(sends, forgotten, l, lead'[l])
        /\ \A k \in Leads \ {l} : lead'[k] = lead[k]
        /\ (batch' = Idle \/ Without(l, batch'))
    BY <1>3, OtherEffect
  <2>2. ~batch'.active \/ (batch.active /\ \E k \in Leads : Without(k, batch'))
    BY <2>1 DEF Idle
  <2> QED BY <1>0, <2>1, <2>2, QuietThreads
<1>4. ASSUME NEW l \in Leads, ReadLead(l) PROVE ThreadInv'
  <2>1. UNCHANGED <<day, lead, ledger, batch, sends, forgotten>>
        /\ writer' = [active |-> TRUE, lead |-> l, row |-> lead[l]]
    BY <1>4 DEF ReadLead, observed
  <2>2. Knows(sends, writer'.lead, writer'.row)
    BY <2>1 DEF ThreadInv, RowsKnow
  <2> QED BY <1>0, <2>1, <2>2, QuietThreads
<1>5. ASSUME Bounce \/ Crawl PROVE ThreadInv'
  <2>1. /\ UNCHANGED <<day, ledger, batch, sends>> /\ writer' = NoWriter
        /\ forgotten \subseteq forgotten'
        /\ \A k \in Leads :
             \/ lead'[k] = lead[k]
             \/ Knows(sends, k, lead'[k]) /\ Remembered(sends, forgotten', k, lead'[k])
    BY <1>5, RowEffect
  <2>2. ~writer'.active
    BY <2>1 DEF NoWriter
  <2> QED BY <1>0, <2>1, <2>2, QuietThreads
<1>6. ASSUME EndBatch PROVE ThreadInv'
  <2>1. UNCHANGED <<day, lead, ledger, writer, sends, forgotten>> /\ ~batch'.active
    BY <1>6 DEF EndBatch, observed, Idle
  <2> QED BY <1>0, <2>1, QuietThreads
<1>7. ASSUME NextDay \/ UNCHANGED vars PROVE ThreadInv'
  <2>1. UNCHANGED <<lead, ledger, batch, writer, sends, forgotten>>
        /\ day' \in Nat /\ day <= day'
    BY <1>0, <1>7 DEF NextDay, observed, vars
  <2> QED BY <1>0, <2>1, QuietThreads
<1> QED BY <1>1, <1>2, <1>3, <1>4, <1>5, <1>6, <1>7 DEF Next

-----------------------------------------------------------------------------
(* The invariant is inductive: budgets and caps.                           *)

LEMMA CountOneMore ==
  ASSUME NEW S \in SUBSET Records, NEW r \in Records, r \notin S,
         NEW b, NEW d, IsFiniteSet(SentBy(S, b, d))
  PROVE  Cardinality(SentBy(S \cup {r}, b, d)) =
           IF r.box = b /\ r.day = d THEN Cardinality(SentBy(S, b, d)) + 1
           ELSE Cardinality(SentBy(S, b, d))
<1>1. SentBy(S \cup {r}, b, d) =
        IF r.box = b /\ r.day = d THEN SentBy(S, b, d) \cup {r} ELSE SentBy(S, b, d)
  BY DEF SentBy
<1>2. r \notin SentBy(S, b, d)
  BY DEF SentBy
<1> QED BY <1>1, <1>2, FS_AddElement

\* Nothing leaves, and a batch has the budgets it had.
LEMMA QuietBudgets ==
  ASSUME MailInv, sends' = sends,
         \/ ~batch'.active
         \/ /\ batch.active
            /\ batch'.machine = batch.machine /\ batch'.campaign = batch.campaign
            /\ batch'.date = batch.date /\ batch'.states = batch.states
  PROVE  BudgetsAreTrue' /\ CapsHold'
<1>1. \A m, c : SendsOf(m, c)' = SendsOf(m, c)
  BY DEF SendsOf
<1>2. CapsHold'
  BY <1>1 DEF MailInv, CapsHold
<1>3. BudgetsAreTrue'
  BY <1>1 DEF MailInv, BudgetsAreTrue
<1> QED BY <1>2, <1>3

\* The message counts against the mailbox it leaves from and against its date, in
\* its machine's ledger of its campaign, and against nothing else.
LEMMA SendBudgets ==
  ASSUME MailInv, NEW l \in Leads, Send(l)
  PROVE  BudgetsAreTrue' /\ CapsHold'
<1>0. Typed /\ ThreadInv /\ BudgetsAreTrue /\ CapsHold
  BY DEF MailInv
<1>4. batch.active /\ CampaignOf[l] = batch.campaign
  BY <1>0, StepOfNext DEF Send, Attempt
<1>a. PICK m \in Machines, c \in Campaigns : m = batch.machine /\ c = batch.campaign
  BY <1>0, <1>4, BatchFields
<1> DEFINE b == BoxFor(l)
           r == TheRecord(l)
           date == batch.date
           sent == SendsOf(m, c)
           then == sent \cup {r}
<1>1. /\ r \in Records /\ r \notin sends /\ sends' = sends \cup {r}
      /\ b \in DOMAIN batch.states /\ batch.states[b].sent < batch.states[b].cap
      /\ \A n \in Machines, d \in Campaigns : SendsOf(n, d)' =
           IF n = m /\ d = c THEN SendsOf(n, d) \cup {r} ELSE SendsOf(n, d)
  BY <1>0, <1>a, SendRecords
<1>2. \/ batch' = Idle
      \/ /\ Without(l, batch')
         /\ batch'.states = [batch.states EXCEPT ![b].sent = @ + 1]
  BY <1>0, SendEffect
<1>3. /\ r.lead = l /\ r.box = b /\ r.day = date /\ r.machine = m
  BY <1>a, RecordFields
<1>5. /\ DOMAIN batch.states \subseteq Boxes /\ date \in Nat
      /\ batch.states \in [DOMAIN batch.states -> Budgets]
  BY <1>0, <1>4, BatchFields
<1>6. \A s \in sends : s.day <= date
  BY <1>0, <1>4 DEF ThreadInv, DatesInOrder
<1>7. sent \in SUBSET Records /\ r \notin sent /\ sent \subseteq sends
  BY <1>0, <1>1, Counted DEF SendsOf
<1>8. SendsOf(m, c)' = then
  BY <1>1
<1>9. \A x \in DOMAIN batch.states :
        /\ batch.states[x].sent = Cardinality(SentBy(sent, x, date))
        /\ batch.states[x].cap = CapOnDay(x, DaysActive(sent, x, date))
  BY <1>0, <1>4, <1>a DEF BudgetsAreTrue
<1>10. \A x \in Boxes : HasFirstDay(sent, x)
  BY <1>0, <1>5 DEF ThreadInv, FirstDays
<1>11. \A x, d : IsFiniteSet(SentBy(sent, x, d)) /\ Cardinality(SentBy(sent, x, d)) \in Nat
  BY <1>0, Counted
<1> HIDE DEF b, r, date, sent
<1>12. ASSUME NEW x \in Boxes, NEW d \in Nat, d = date \/ DaysOf(sent, x) # {}
       PROVE  /\ Cardinality(SentBy(then, x, d)) =
                   IF x = b /\ d = date THEN Cardinality(SentBy(sent, x, d)) + 1
                   ELSE Cardinality(SentBy(sent, x, d))
              /\ DaysActive(then, x, d) = DaysActive(sent, x, d)
  <2>1. DaysActive(sent \cup {r}, x, d) = DaysActive(sent, x, d)
    <3>1. \A s \in sent : s.day <= r.day
      BY <1>3, <1>6, <1>7
    <3>2. HasFirstDay(sent, x) /\ (d = r.day \/ DaysOf(sent, x) # {})
      BY <1>3, <1>10, <1>12
    <3> QED BY <1>1, <1>7, <3>1, <3>2, ActiveDaysAfterSend
  <2>2. Cardinality(SentBy(sent \cup {r}, x, d)) =
          IF r.box = x /\ r.day = d THEN Cardinality(SentBy(sent, x, d)) + 1
          ELSE Cardinality(SentBy(sent, x, d))
    BY <1>1, <1>7, <1>11, CountOneMore
  <2> QED BY <1>3, <2>1, <2>2
<1> HIDE DEF then
<1>13. CapsHold'
  <2> SUFFICES ASSUME NEW n \in Machines, NEW d \in Campaigns, NEW s \in SendsOf(n, d)'
               PROVE  Cardinality(SentBy(SendsOf(n, d)', s.box, s.day))
                        <= CapOnDay(s.box, DaysActive(SendsOf(n, d)', s.box, s.day))
    BY DEF CapsHold
  <2>1. \A x \in SendsOf(n, d) :
          Cardinality(SentBy(SendsOf(n, d), x.box, x.day))
            <= CapOnDay(x.box, DaysActive(SendsOf(n, d), x.box, x.day))
    BY <1>0 DEF CapsHold
  <2>2. CASE n # m \/ d # c
    <3>1. SendsOf(n, d)' = SendsOf(n, d)
      BY <1>1, <2>2
    <3> QED BY <2>1, <3>1
  <2>3. CASE n = m /\ d = c
    <3>1. SendsOf(n, d)' = then /\ SendsOf(n, d) = sent
      BY <1>8, <2>3 DEF sent
    <3>2. CASE s.box = b /\ s.day = date
      <4>1. Cardinality(SentBy(sent, b, date)) < CapOnDay(b, DaysActive(sent, b, date))
        BY <1>1, <1>9
      <4>2. /\ batch.states[b].cap \in Int
            /\ batch.states[b].cap = CapOnDay(b, DaysActive(sent, b, date))
        BY <1>1, <1>5, <1>9 DEF Budgets
      <4>3. /\ Cardinality(SentBy(then, b, date)) = Cardinality(SentBy(sent, b, date)) + 1
            /\ DaysActive(then, b, date) = DaysActive(sent, b, date)
        BY <1>1, <1>5, <1>12
      <4>4. Cardinality(SentBy(then, b, date)) <= CapOnDay(b, DaysActive(then, b, date))
        BY <1>11, <4>1, <4>2, <4>3
      <4> QED BY <3>1, <3>2, <4>4
    <3>3. CASE ~(s.box = b /\ s.day = date)
      <4>1. s \in sent
        BY <1>3, <3>1, <3>3 DEF then
      <4>2. DaysOf(sent, s.box) # {} /\ s.box \in Boxes /\ s.day \in Nat
        BY <1>7, <4>1 DEF DaysOf, Records
      <4>3. /\ Cardinality(SentBy(then, s.box, s.day)) = Cardinality(SentBy(sent, s.box, s.day))
            /\ DaysActive(then, s.box, s.day) = DaysActive(sent, s.box, s.day)
        BY <1>12, <3>3, <4>2
      <4> QED BY <2>1, <3>1, <4>1, <4>3
    <3> QED BY <3>2, <3>3
  <2> QED BY <2>2, <2>3
<1>14. BudgetsAreTrue'
  <2>1. CASE batch' = Idle
    BY <2>1 DEF BudgetsAreTrue, Idle
  <2>2. CASE Without(l, batch') /\ batch'.states = [batch.states EXCEPT ![b].sent = @ + 1]
    <3>1. batch'.machine = m /\ batch'.campaign = c
          /\ batch'.date = date /\ DOMAIN batch'.states = DOMAIN batch.states
      BY <1>a, <2>2 DEF Without, date
    <3>2. ASSUME NEW x \in DOMAIN batch.states
          PROVE  /\ batch'.states[x].sent = Cardinality(SentBy(then, x, date))
                 /\ batch'.states[x].cap = CapOnDay(x, DaysActive(then, x, date))
      <4>1. x \in Boxes /\ batch.states[x] \in Budgets
        BY <1>5
      <4>2. batch'.states[x] = IF x = b THEN [batch.states[x] EXCEPT !.sent = @ + 1]
                               ELSE batch.states[x]
        BY <1>1, <1>5, <2>2
      <4>3. /\ batch'.states[x].cap = batch.states[x].cap
            /\ batch'.states[x].sent = IF x = b THEN batch.states[x].sent + 1
                                       ELSE batch.states[x].sent
        BY <4>1, <4>2 DEF Budgets
      <4>4. /\ Cardinality(SentBy(then, x, date)) =
                 IF x = b THEN Cardinality(SentBy(sent, x, date)) + 1
                 ELSE Cardinality(SentBy(sent, x, date))
            /\ DaysActive(then, x, date) = DaysActive(sent, x, date)
        BY <1>5, <1>12, <4>1
      <4> QED BY <1>9, <4>3, <4>4
    <3> QED BY <1>8, <3>1, <3>2 DEF BudgetsAreTrue
  <2> QED BY <1>2, <2>1, <2>2
<1> QED BY <1>13, <1>14

LEMMA NextMail == MailInv /\ [Next]_vars => MailInv'
<1> SUFFICES ASSUME MailInv, [Next]_vars PROVE MailInv'
  OBVIOUS
<1>0. Typed /\ ThreadInv
  BY DEF MailInv
<1>1. Typed' /\ ThreadInv'
  BY <1>0, NextTyped, NextThreads
<1>2. ASSUME NEW m \in Machines, NEW c \in Campaigns, NEW on \in SUBSET Boxes \ {{}},
             StartBatch(m, c, on)
      PROVE  BudgetsAreTrue' /\ CapsHold'
  <2>1. sends' = sends
    BY <1>2 DEF StartBatch, observed
  <2>2. /\ batch'.machine = m /\ batch'.campaign = c /\ batch'.date = day
        /\ DOMAIN batch'.states = on
        /\ \A b \in on :
             /\ batch'.states[b].sent = Cardinality(SentBy(SendsOf(m, c), b, day))
             /\ batch'.states[b].cap = CapOnDay(b, DaysActive(SendsOf(m, c), b, day))
    BY <1>0, <1>2, StartEffect
  <2>3. \A n, d : SendsOf(n, d)' = SendsOf(n, d)
    BY <2>1 DEF SendsOf
  <2>5. BudgetsAreTrue'
    BY <2>2, <2>3 DEF BudgetsAreTrue
  <2>6. CapsHold'
    BY <2>1, <2>3 DEF MailInv, CapsHold
  <2> QED BY <2>5, <2>6
<1>3. ASSUME NEW l \in Leads, Send(l) PROVE BudgetsAreTrue' /\ CapsHold'
  BY <1>3, SendBudgets
<1>4. ASSUME NEW l \in Leads, SkipSent(l) \/ Skip(l) \/ Refused(l) \/ SendFails(l)
      PROVE  BudgetsAreTrue' /\ CapsHold'
  <2>1. /\ sends' = sends /\ batch.active
        /\ batch' = Idle \/ (Without(l, batch') /\ batch'.states = batch.states)
    BY <1>0, <1>4, OtherEffect
  <2> QED BY <2>1, QuietBudgets DEF Idle, Without
<1>5. ASSUME NEW l \in Leads, ReadLead(l) PROVE BudgetsAreTrue' /\ CapsHold'
  <2>1. sends' = sends /\ batch' = batch
    BY <1>5 DEF ReadLead, observed
  <2> QED BY <2>1, QuietBudgets
<1>6. ASSUME Bounce \/ Crawl PROVE BudgetsAreTrue' /\ CapsHold'
  <2>1. sends' = sends /\ batch' = batch
    BY <1>6 DEF Bounce, Crawl, WriteBack
  <2> QED BY <2>1, QuietBudgets
<1>7. ASSUME EndBatch PROVE BudgetsAreTrue' /\ CapsHold'
  <2>1. sends' = sends /\ ~batch'.active
    BY <1>7 DEF EndBatch, Idle, observed
  <2> QED BY <2>1, QuietBudgets
<1>8. ASSUME NextDay \/ UNCHANGED vars PROVE BudgetsAreTrue' /\ CapsHold'
  <2>1. sends' = sends /\ batch' = batch
    BY <1>8 DEF NextDay, vars, observed
  <2> QED BY <2>1, QuietBudgets
<1>9. BudgetsAreTrue' /\ CapsHold'
  BY <1>2, <1>3, <1>4, <1>5, <1>6, <1>7, <1>8 DEF Next
<1> QED BY <1>1, <1>9 DEF MailInv

LEMMA AlwaysMail == Spec => []MailInv
  BY InitMail, NextMail, PTL DEF Spec

-----------------------------------------------------------------------------
(* Theorems.                                                               *)

\* The ledger file of a campaign on a machine holds exactly the messages that left
\* from there for the campaign's leads: append never writes over a record of
\* another day or mailbox, since the ledger is asked before a step is sent again.
THEOREM LedgerIsTheTruth == Spec => []LedgersAreTheSends
<1>1. MailInv => LedgersAreTheSends
  BY DEF MailInv, ThreadInv
<1> QED BY <1>1, AlwaysMail, PTL

\* By the ledger of one machine no campaign passes the cap of a mailbox under any
\* date, however its batches are cut up and past however many midnights they run:
\* what a batch counts and caps is what that machine's whole history of sends gives.
THEOREM CapsAlwaysHold == Spec => []CapsHold
<1>1. MailInv => CapsHold
  BY DEF MailInv
<1> QED BY <1>1, AlwaysMail, PTL

-----------------------------------------------------------------------------
(* Mailboxes implements Posting.                                           *)

\* A message that a batch sends may leave: the steps before it are sent and it is
\* not, it leaves from the mailbox of its thread unless that is lost, and what the
\* batch has left for that mailbox is what the history leaves.
LEMMA SendPosts ==
  ASSUME MailInv, NEW l \in Leads, Send(l)
  PROVE  Promise!Post
<1> DEFINE b == BoxFor(l)
           step == NextStep(l)
           r == TheRecord(l)
           thread == {s \in sends : s.lead = l}
           openers == {s \in sends : s.lead = l /\ s.step = 1}
           beside == SendsOf(batch.machine, batch.campaign)
<1>0. Typed /\ ThreadInv /\ BudgetsAreTrue
  BY DEF MailInv
<1>1. /\ r \notin sends /\ sends' = sends \cup {r} /\ day' = day
      /\ forgotten' = IF step = 1 THEN forgotten \ {l} ELSE forgotten
      /\ \A s \in beside : s.lead # l \/ s.step # step
      /\ b \in DOMAIN batch.states /\ batch.states[b].sent < batch.states[b].cap
  BY <1>0, SendRecords
<1>2. /\ r.lead = l /\ r.step = step /\ r.box = b /\ r.day = batch.date
      /\ r.machine = batch.machine
  BY RecordFields
<1>3. IsNext(l)
  BY DEF Send, Attempt
<1>4. /\ batch.active /\ CampaignOf[l] = batch.campaign /\ batch.rows[l] \in Rows
      /\ Knows(sends, l, batch.rows[l]) /\ step = batch.rows[l].step + 1 /\ step \in 1..LastStep
  BY <1>0, <1>3, StepOfNext
<1>5. 1..(step - 1) \subseteq {s.step : s \in thread}
  <2>1. 1..(step - 1) = 1..batch.rows[l].step
    BY <1>4 DEF Rows
  <2> QED BY <1>4, <2>1 DEF Knows
<1>6. step > 1 =>
        \/ b \in {s.box : s \in openers}
        \/ l \in forgotten /\ batch.machine \notin {s.machine : s \in openers}
  <2>1. step > 1 => step # 1
    BY <1>4
  <2> QED BY <1>0, <1>3, <2>1, FollowUpFromOpener
<1>7. batch.date <= day
  BY <1>0, <1>4 DEF ThreadInv, DatesInOrder
<1>8. Cardinality(SentBy(beside, b, batch.date)) < CapOnDay(b, DaysActive(beside, b, batch.date))
  BY <1>0, <1>1, <1>4 DEF BudgetsAreTrue
<1>9. /\ Promise!SentBy(beside, b, batch.date) = SentBy(beside, b, batch.date)
      /\ Promise!DaysActive(beside, b, batch.date) = DaysActive(beside, b, batch.date)
  BY DEF Promise!SentBy, SentBy, Promise!DaysActive, DaysActive
<1>10. \A n : Promise!CapOnDay(b, n) = CapOnDay(b, n)
  BY DEF Promise!CapOnDay, CapOnDay, Promise!Smaller, Smaller
<1> HIDE DEF b, step, r
<1>11. /\ Promise!ThreadOf(r.lead) = thread
       /\ Promise!OpenersOf(r.lead) = openers
       /\ Promise!SendsOf(r.machine, CampaignOf[r.lead]) = beside
  BY <1>2, <1>4 DEF Promise!ThreadOf, Promise!OpenersOf, Promise!SendsOf, SendsOf
<1> HIDE DEF thread, openers, beside
<1>12. Promise!MayLeave(r)
  <2>1. /\ r.step \in 1..LastStep
        /\ 1..(r.step - 1) \subseteq {s.step : s \in Promise!ThreadOf(r.lead)}
    BY <1>2, <1>4, <1>5, <1>11
  <2>2. \A s \in Promise!SendsOf(r.machine, CampaignOf[r.lead]) : s.lead # r.lead \/ s.step # r.step
    BY <1>1, <1>2, <1>11
  <2>3. r.step > 1 =>
          \/ r.box \in {s.box : s \in Promise!OpenersOf(r.lead)}
          \/ /\ r.lead \in forgotten
             /\ r.machine \notin {s.machine : s \in Promise!OpenersOf(r.lead)}
    BY <1>2, <1>6, <1>11
  <2>4. r.day <= day
    BY <1>2, <1>7
  <2>5. Promise!Cardinality(Promise!SentBy(beside, b, batch.date))
          = Cardinality(SentBy(beside, b, batch.date))
    BY <1>9 DEF Promise!Cardinality, Cardinality
  <2>6. Promise!Cardinality(
          Promise!SentBy(Promise!SendsOf(r.machine, CampaignOf[r.lead]), r.box, r.day))
          < Promise!CapOnDay(r.box,
              Promise!DaysActive(Promise!SendsOf(r.machine, CampaignOf[r.lead]), r.box, r.day))
    BY <1>2, <1>8, <1>9, <1>10, <1>11, <2>5
  <2> QED BY <2>1, <2>2, <2>3, <2>4, <2>6 DEF Promise!MayLeave
<1>13. r \in sends' \ sends
  BY <1>1
<1>14. forgotten' = IF r.step = 1 THEN forgotten \ {r.lead} ELSE forgotten
  BY <1>1, <1>2
<1> QED BY <1>1, <1>12, <1>13, <1>14 DEF Promise!Post

\* What leaves the mailboxes leaves as Posting promises, for any campaigns, leads,
\* machines, mailboxes and limits: in the order of the steps, not twice from one
\* machine, from a mailbox of the thread unless the lead is forgotten and the
\* machine does not know it, and within what the date leaves; a crawl may forget a
\* lead, and nothing else is seen from outside.
THEOREM Refinement == Spec => PostsAsPromised
<1>1. Init => Promise!Init
  BY DEF Init, Promise!Init
<1>2. MailInv /\ [Next]_vars => [Promise!Next]_<<day, sends, forgotten>>
  <2> SUFFICES ASSUME MailInv, [Next]_vars
               PROVE  Promise!Next \/ UNCHANGED <<day, sends, forgotten>>
    OBVIOUS
  <2>1. ASSUME NEW l \in Leads, Send(l) PROVE Promise!Next
    BY <2>1, SendPosts DEF Promise!Next
  <2>2. ASSUME NextDay PROVE Promise!Next
    BY <2>2 DEF NextDay, observed, Promise!Next, Promise!Midnight
  <2>3. ASSUME Crawl PROVE Promise!Next
    <3>1. writer.lead \in Leads
      <4>1. writer.active /\ (writer = NoWriter \/ writer \in Writers)
        BY <2>3 DEF Crawl, WriteBack, MailInv, Typed
      <4>2. writer # NoWriter
        BY <4>1 DEF NoWriter
      <4>3. writer \in Writers
        BY <4>1, <4>2
      <4> QED BY <4>3 DEF Writers
    <3>2. DOMAIN CampaignOf = Leads
      BY MailboxesAssumption
    <3>3. forgotten' = forgotten \cup {writer.lead} /\ UNCHANGED <<day, sends>>
      BY <2>3 DEF Crawl, WriteBack
    <3> QED BY <3>1, <3>2, <3>3 DEF Promise!Next, Promise!Forget
  <2>4. ASSUME NEW l \in Leads,
               SkipSent(l) \/ Skip(l) \/ Refused(l) \/ SendFails(l) \/ ReadLead(l)
        PROVE  UNCHANGED <<day, sends, forgotten>>
    BY <2>4 DEF SkipSent, Skip, Refused, SendFails, ReadLead, observed
  <2>5. ASSUME NEW m \in Machines, NEW c \in Campaigns, NEW on \in SUBSET Boxes \ {{}},
               StartBatch(m, c, on)
        PROVE  UNCHANGED <<day, sends, forgotten>>
    BY <2>5 DEF StartBatch, observed
  <2>6. ASSUME EndBatch \/ Bounce \/ UNCHANGED vars PROVE UNCHANGED <<day, sends, forgotten>>
    BY <2>6 DEF EndBatch, Bounce, WriteBack, vars, observed
  <2> QED BY <2>1, <2>2, <2>3, <2>4, <2>5, <2>6 DEF Next
<1> QED BY <1>1, <1>2, AlwaysMail, PTL DEF Spec, PostsAsPromised, Promise!Spec

=============================================================================
