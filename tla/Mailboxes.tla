----------------------------- MODULE Mailboxes -----------------------------
(***************************************************************************)
(* The mailboxes of the outreach: which one a message leaves from, and how *)
(* many leave it in a day (outreach/mailboxes.py, outreach/ledger.py and   *)
(* the loop of sequencer.send_due).                                        *)
(*                                                                         *)
(* A send batch belongs to one campaign.  It computes every mailbox's      *)
(* budget from that campaign's ledger file on its machine and from the     *)
(* bounced leads, then works through the campaign's due leads: follow-ups  *)
(* first, from the mailbox of the thread, then new threads from the least  *)
(* loaded mailbox.  It dates everything by the day it began, also when it  *)
(* runs past midnight (--ignore-window).                                   *)
(*                                                                         *)
(* Ledger files do not travel: a GitHub runner begins without one and      *)
(* takes its own along when it ends (outreach.yml), an operator's machine  *)
(* keeps its file.  So each machine has its own, and the leads table is    *)
(* all that the next one knows.  The workflow's concurrency group runs one *)
(* batch at a time, but the crawler and the reply sync read and write      *)
(* leads meanwhile, and operators enable and disable mailboxes.            *)
(*                                                                         *)
(* Which draft is approved, and so whether a machine without the record    *)
(* sends a message again, and who is suppressed, is module Outreach's:     *)
(* here any draft may be approved, and a suppressed lead is skipped.       *)
(***************************************************************************)
EXTENDS Warmup

CONSTANTS
  None,
  Campaigns,
  Machines,    \* where batches run, each with its ledger files
  Leads,
  CampaignOf,  \* [Leads -> Campaigns]
  Boxes,       \* 1..n: the mailboxes' slots, in the order of their addresses
  MinSends, MaxBouncePercent,
  LastStep,    \* steps are 1..LastStep
  Wait,        \* days between two steps
  MaxDay       \* bound: days that pass

ASSUME MailboxesAssumption ==
  /\ CampaignOf \in [Leads -> Campaigns]
  /\ Boxes = 1..Cardinality(Boxes) /\ Boxes # {} /\ None \notin Boxes
  /\ Limit \in [Boxes -> Nat]
  /\ {DailyLimit, WarmupStart, WarmupStep, MinSends, MaxBouncePercent, MaxDay} \subseteq Nat
  /\ LastStep \in Nat /\ LastStep > 0 /\ Wait \in Nat

VARIABLES
  day,     \* the calendar day
  lead,    \* the leads table: step reached, thread's mailbox, day of the last send
  ledger,  \* the sends of each campaign's ledger file on each machine
  batch,   \* the send batch under way, or Idle
  writer,  \* the crawler or an API handler with its copy of a row, or NoWriter
  sends,   \* observation: the messages that left
  forgotten \* observation: leads whose row a crawl overwrote since their thread began

vars == <<day, lead, ledger, batch, writer, sends, forgotten>>
observed == <<sends, forgotten>>

Idle == [active |-> FALSE]
NoWriter == [active |-> FALSE]

NewRow == [status |-> "active", step |-> 0, box |-> None, last |-> None, next |-> None]

Init ==
  /\ day = 1
  /\ lead = [l \in Leads |-> NewRow]
  /\ ledger = [m \in Machines |-> [c \in Campaigns |-> {}]]
  /\ batch = Idle
  /\ writer = NoWriter
  /\ sends = {} /\ forgotten = {}

-----------------------------------------------------------------------------
(* Budgets.                                                                *)

Lowest(boxes) == CHOOSE b \in boxes : \A a \in boxes : b <= a

\* bounced_today: a lead without a mailbox belongs to the first one.
BouncedToday(c, box, on) ==
  {l \in Leads :
     /\ CampaignOf[l] = c /\ lead[l].status = "bounced" /\ lead[l].last = day
     /\ box = IF lead[l].box = None THEN Lowest(on) ELSE lead[l].box}

\* MailboxPool.states
StateOf(m, c, box, on) ==
  LET sent == Cardinality(SentBy(ledger[m][c], box, day))
      bounced == Cardinality(BouncedToday(c, box, on))
  IN [cap |-> CapOnDay(box, DaysActive(ledger[m][c], box, day)), sent |-> sent,
      paused |-> sent >= MinSends /\ 100 * bounced > MaxBouncePercent * sent]

\* Faulty variant: the budget is what it was when the batch began.
RemainingAtStart(s) ==
  IF s.paused THEN 0 ELSE s.cap

Remaining(s) ==
  IF s.paused \/ s.sent >= s.cap THEN 0 ELSE s.cap - s.sent

HasBudget(states) == \E b \in DOMAIN states : Remaining(states[b]) > 0

\* pick_for_new_thread: loads are compared as fractions, ties by address.
LessLoaded(states, a, b) ==
  LET s == states[a]  t == states[b]
  IN \/ s.sent * t.cap < t.sent * s.cap
     \/ s.sent * t.cap = t.sent * s.cap /\ a <= b

PickForNewThread(states) ==
  LET open == {b \in DOMAIN states : Remaining(states[b]) > 0}
  IN CHOOSE a \in open : \A b \in open : LessLoaded(states, a, b)

-----------------------------------------------------------------------------
(* The batch.                                                              *)

\* due_leads
Due(l) ==
  LET row == lead[l]
  IN /\ row.status = "active" /\ row.step < LastStep
     /\ row.step = 0 \/ row.next = None \/ row.next <= day

DueOf(c) == {l \in Leads : CampaignOf[l] = c /\ Due(l)}

\* A campaign's batch begins on a machine, with the mailboxes that are enabled now.
StartBatch(m, c, on) ==
  LET due == DueOf(c)
      states == [b \in on |-> StateOf(m, c, b, on)]
  IN /\ ~batch.active /\ due # {}
     /\ HasBudget(states)
     /\ batch' = [active |-> TRUE, machine |-> m, campaign |-> c, date |-> day,
                  states |-> states, failures |-> 0, todo |-> due,
                  rows |-> [l \in Leads |-> IF l \in due THEN lead[l] ELSE NewRow]]
     /\ UNCHANGED <<day, lead, ledger, writer, observed>>

\* The ledger file the batch works with.
File == ledger[batch.machine][batch.campaign]

\* Faulty variant: the ledger is not asked.
OwnerInRow(l) == IF batch.rows[l].box # None THEN batch.rows[l].box ELSE Lowest(DOMAIN batch.states)

\* The mailbox of the thread: the row's, or the ledger's, or the first one.
Owner(l) ==
  LET first == {r.box : r \in {s \in File : s.lead = l /\ s.step = 1}}
  IN IF batch.rows[l].box # None THEN batch.rows[l].box
     ELSE IF first # {} THEN CHOOSE b \in first : TRUE
     ELSE Lowest(DOMAIN batch.states)

NextStep(l) == batch.rows[l].step + 1

\* Follow-ups come first.
IsNext(l) ==
  /\ batch.active /\ l \in batch.todo
  /\ HasBudget(batch.states)
  /\ NextStep(l) = 1 => \A k \in batch.todo : NextStep(k) = 1

BoxFor(l) == IF NextStep(l) = 1 THEN PickForNewThread(batch.states) ELSE Owner(l)

MaySend(l) ==
  LET b == BoxFor(l)
  IN b \in DOMAIN batch.states /\ Remaining(batch.states[b]) > 0

Done(l) == [batch EXCEPT !.todo = @ \ {l}, !.rows[l] = NewRow]

\* The batch ends with its last lead.
Close(b) == IF b.todo = {} THEN Idle ELSE b

HasSent(l, step) == \E r \in File : r.lead = l /\ r.step = step

\* _advance, on some date.
Advanced(row, step, date) ==
  [row EXCEPT !.step = step, !.last = date,
              !.next = IF step < LastStep THEN date + Wait ELSE None]

\* The ledger has the step: the row catches up, by the clock.
SkipSent(l) ==
  /\ IsNext(l) /\ HasSent(l, NextStep(l))
  /\ lead' = [lead EXCEPT ![l] = Advanced(batch.rows[l], NextStep(l), day)]
  /\ batch' = Close(Done(l))
  /\ UNCHANGED <<day, ledger, writer, observed>>

\* The draft is not approved, or the mailbox of the thread is not configured,
\* paused or has nothing left.
Skip(l) ==
  /\ IsNext(l) /\ ~HasSent(l, NextStep(l))
  /\ batch' = Close(Done(l))
  /\ UNCHANGED <<day, lead, ledger, writer, observed>>

Attempt(l) == IsNext(l) /\ ~HasSent(l, NextStep(l)) /\ MaySend(l)

\* The message leaves: ledger, then the whole row, then the budget.
Send(l) ==
  LET b == BoxFor(l)
      step == NextStep(l)
      record == [lead |-> l, step |-> step, box |-> b, day |-> batch.date,
                 machine |-> batch.machine]
  IN /\ Attempt(l)
     /\ sends' = sends \cup {record}
     /\ forgotten' = IF step = 1 THEN forgotten \ {l} ELSE forgotten
     /\ ledger' = [ledger EXCEPT ![batch.machine][batch.campaign] =
                     {r \in @ : r.lead # l \/ r.step # step} \cup {record}]
     /\ lead' = [lead EXCEPT ![l] =
          [Advanced(batch.rows[l], step, batch.date) EXCEPT !.box = IF step = 1 THEN b ELSE @]]
     /\ batch' = Close([Done(l) EXCEPT !.states[b].sent = @ + 1, !.failures = 0])
     /\ UNCHANGED <<day, writer>>

\* The third failure in a row ends the batch.
Failed(l) ==
  batch' = IF batch.failures = 2 THEN Idle
           ELSE Close([Done(l) EXCEPT !.failures = @ + 1])

\* recipient_refused stops the lead; other failures leave it due.
Refused(l) ==
  /\ Attempt(l)
  /\ lead' = [lead EXCEPT ![l] = [batch.rows[l] EXCEPT !.status = "bounced", !.next = None]]
  /\ Failed(l)
  /\ UNCHANGED <<day, ledger, writer, observed>>

SendFails(l) ==
  /\ Attempt(l)
  /\ Failed(l)
  /\ UNCHANGED <<day, lead, ledger, writer, observed>>

\* No mailbox has anything left, the batch limit is reached, or the runner is gone.
EndBatch ==
  /\ batch.active
  /\ batch' = Idle
  /\ UNCHANGED <<day, lead, ledger, writer, observed>>

-----------------------------------------------------------------------------
(* Meanwhile.                                                              *)

\* The crawler or a reply sync reads a lead that was written to or is about to be.
ReadLead(l) ==
  /\ ~writer.active
  /\ writer' = [active |-> TRUE, lead |-> l, row |-> lead[l]]
  /\ UNCHANGED <<day, lead, ledger, batch, observed>>

WriteBack(row) ==
  /\ writer.active
  /\ lead' = [lead EXCEPT ![writer.lead] = row]
  /\ writer' = NoWriter
  /\ UNCHANGED <<day, ledger, batch, sends>>

\* apply_inbound finds a bounce.
Bounce ==
  /\ WriteBack([writer.row EXCEPT !.status = "bounced", !.next = None])
  /\ writer.row.status = "active" /\ writer.row.step \in 1..(LastStep - 1)
  /\ UNCHANGED forgotten

\* process_company saves a lead it finds again: a fresh row with the status of
\* the one it read.
Crawl ==
  /\ WriteBack([NewRow EXCEPT !.status = writer.row.status, !.step = writer.row.step])
  /\ forgotten' = forgotten \cup {writer.lead}

\* Midnight, also in the middle of a batch.
NextDay ==
  /\ day < MaxDay
  /\ day' = day + 1
  /\ UNCHANGED <<lead, ledger, batch, writer, observed>>

Next ==
  \/ \E m \in Machines, c \in Campaigns, on \in SUBSET Boxes \ {{}} : StartBatch(m, c, on)
  \/ \E l \in Leads :
       SkipSent(l) \/ Skip(l) \/ Send(l) \/ Refused(l) \/ SendFails(l) \/ ReadLead(l)
  \/ EndBatch \/ Bounce \/ Crawl \/ NextDay

Spec == Init /\ [][Next]_vars

-----------------------------------------------------------------------------
(* Properties.                                                             *)

SendsOf(m, c) == {s \in sends : s.machine = m /\ CampaignOf[s.lead] = c}

\* By the ledger of one machine, a campaign sends no more from a mailbox under
\* one date than the mailbox's cap for as many days as that ledger has used it:
\* however often its batches start and stop and with whatever mailboxes, whether
\* they run past midnight, and whatever the crawler does to the rows.  (Machines
\* and campaigns that share a mailbox do not count each other's sends, and a
\* batch past midnight has a budget beside the next day's.)
CapsHold ==
  \A m \in Machines, c \in Campaigns :
    LET sent == SendsOf(m, c)
    IN \A s \in sent :
         Cardinality(SentBy(sent, s.box, s.day)) <= CapOnDay(s.box, DaysActive(sent, s.box, s.day))

Promise == INSTANCE Posting

\* What leaves the mailboxes leaves as Posting says, message by message: after the
\* steps before it, never twice from one machine, from a mailbox of its thread
\* unless the row and the ledger that know it are lost, and while the history of
\* the machine's sends, not the batch's count of them, leaves room for it.
PostsAsPromised == Promise!Spec

=============================================================================
