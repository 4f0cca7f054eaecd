------------------------------ MODULE Outreach ------------------------------
(***************************************************************************)
(* Emailing the leads of a campaign: email 1 and its follow-ups.           *)
(*                                                                         *)
(* A send runner (outreach.yml, cli.py cmd_send) queues new leads, applies *)
(* the replies found in the inbox, reads the leads that are due and sends  *)
(* to them one at a time, half a minute to two minutes apart.  The API     *)
(* changes the same rows meanwhile: operators review, suppress and redraft *)
(* leads, sync the inbox, and the crawler saves leads it finds again.      *)
(*                                                                         *)
(* Nobody locks a lead.  Both sides read the whole row, change some fields *)
(* of their copy and write the whole copy back (update_lead, save_lead),   *)
(* so every handler is two actions here and a runner works on the copies   *)
(* it read at the start of its batch.                                      *)
(***************************************************************************)
EXTENDS Integers, FiniteSets

CONSTANTS
  Leads,           \* buyers of one campaign
  LastStep,        \* the steps are 1..LastStep: email_1, followup_1, followup_2
  RequireApproval, \* OutreachSettings.require_approval
  Handlers,        \* bound: API handlers (and crawler saves) under way at once
  Mails,           \* bound: the mails that may arrive
  MaxRuns,         \* bound: send runners started
  MaxActs          \* bound: handlers started

ASSUME StepsAssumption == LastStep \in Nat \ {0}
ASSUME ApprovalAssumption == RequireApproval \in BOOLEAN
ASSUME MailsAssumption ==
  Mails \subseteq
    [kind : {"answer", "refusal", "referral", "stop", "bounce", "away", "auto"},
     named : BOOLEAN]
ASSUME BoundsAssumption == MaxRuns \in Nat /\ MaxActs \in Nat

VARIABLES
  lead,     \* the leads table
  draft,    \* the status of each lead's draft for each step
  banned,   \* the suppressions table
  ledger,   \* the ledger file the current runner works with
  runner,   \* the send runner: phase, leads left in it, the lead being sent
            \* and whether it has a draft, the mails fetched
  copy,     \* the runner's copies of the rows
  handler,  \* the API handlers
  mail,     \* what the inbox holds for each lead
  spent,    \* counters for the bounds
  got,      \* observation: steps that reached a contact
  twice,    \* observation: steps that reached a contact twice
  excused,  \* observation: delivered steps that were approved again, or whose
            \* delivery the runner could not record
  late,     \* observation: deliveries to a contact that was suppressed (to 2)
  heard,    \* observation: leads with an answer among the mails the runner
            \* could fetch, and no operator reopened or queued since
  clobbered, \* observation: leads that a handler wrote from an outdated copy
            \* since the runner read the inbox
  ignored   \* observation: leads heard, not clobbered, that the same runner
            \* wrote to all the same

-----------------------------------------------------------------------------
(* Rows.                                                                   *)

Steps == 1..LastStep
Contacts == {"first", "referred"}

\* sequence_status: "active" after n steps stands for queued (n = 0),
\* email_1_sent, followup_1_sent and followup_2_sent.
Stops == {"replied", "bounced", "unsubscribed", "suppressed"}
Statuses == {"new", "needs_contact", "active"} \cup Stops

\* "thread" is whether thread_message_id is set.
Row == [status : Statuses, step : 0..LastStep, ready : BOOLEAN,
        waiting : BOOLEAN, contact : Contacts, thread : BOOLEAN,
        referral : {"none", "pending", "accepted", "declined"}]

NewRow == [status |-> "new", step |-> 0, ready |-> TRUE, waiting |-> FALSE,
           contact |-> "first", thread |-> FALSE, referral |-> "none"]

DraftStates == {"none", "pending", "approved", "rejected", "sent"}

\* ACTIVE: the statuses that still have a next step.
InSequence(row) == row.status = "active" /\ row.step < LastStep

\* due_leads: a queued lead is always due, the others after their wait.
Due(row) == InSequence(row) /\ (row.step = 0 \/ ~row.waiting)

\* The crawler validates the addresses it finds; a referred one is UNVERIFIED.
Verified(row) == row.contact = "first"

Eligible(row) ==
  row.ready /\ Verified(row) /\ row.status \in {"new", "needs_contact"}

\* Suppressions are by domain and by address.
Places == {"domain"} \cup Contacts
Suppressed(l, row) == <<l, "domain">> \in banned \/ <<l, row.contact>> \in banned

\* stop_lead.
Stopped(row, status) ==
  [row EXCEPT !.status = status, !.step = 0, !.ready = FALSE, !.waiting = FALSE]

Queued(row) == [row EXCEPT !.status = "active", !.step = 0, !.waiting = FALSE]

\* _advance: the step is sent, the next one waits; email 1 opens the thread.
Advanced(row) ==
  [row EXCEPT !.step = @ + 1, !.waiting = row.step + 1 < LastStep,
              !.thread = @ \/ row.step = 0]

-----------------------------------------------------------------------------
(* The ledger file.                                                        *)

NoLedger == [sent |-> {}, stopped |-> {}]

HasSent(l, row, step) == <<l, row.contact, step>> \in ledger.sent
IsStopped(l, row) == <<l, row.contact>> \in ledger.stopped

\* _restore_from_ledger: the last of the steps in the file.
Restored(l, row) ==
  LET steps == {s \in Steps : HasSent(l, row, s)}
      last == CHOOSE s \in steps : \A t \in steps : t <= s
  IN [row EXCEPT !.status = "active", !.step = last, !.waiting = last < LastStep,
                 !.thread = TRUE]

-----------------------------------------------------------------------------
(* apply_inbound, for one lead and the mail that answers what its first    *)
(* contact was sent.  A mail is "named" when it shows that contact's       *)
(* address, as its sender or in the body of a bounce; a colleague's answer *)
(* and a bounce without the address only quote the thread.                 *)

Kinds == {"answer", "refusal", "referral", "stop", "bounce", "away", "auto"}

NoMail == [kind |-> "none", named |-> FALSE]

\* The lead is found by the address or by the thread.
Attributable(row, m) ==
  /\ m # NoMail
  /\ (m.named /\ row.contact = "first") \/ row.thread

\* A bounce is looked for among the replied leads too; the rest only among
\* the leads in sequence.
Concerns(row, kind) ==
  /\ kind # "none"
  /\ InSequence(row) \/ (kind = "bounce" /\ row.status = "replied")

Matches(row, m) == Attributable(row, m) /\ Concerns(row, m.kind)

Answered(row, kind) ==
  CASE kind \in {"answer", "refusal"} -> Stopped(row, "replied")
    [] kind = "referral" -> [Stopped(row, "replied") EXCEPT !.referral = "pending"]
    [] kind = "stop" -> Stopped(row, "unsubscribed")
    [] kind = "bounce" -> Stopped(row, "bounced")
    [] kind = "away" -> [row EXCEPT !.waiting = TRUE]
    [] kind = "auto" -> row

\* What it adds to the suppressions and to the ledger's stops.
Bans(l, row, kind) ==
  IF kind \in {"refusal", "stop", "bounce"} THEN {<<l, row.contact>>} ELSE {}
LedgerStops(l, row, kind) ==
  IF kind \in {"stop", "bounce"} THEN {<<l, row.contact>>} ELSE {}

Decisive == {"answer", "refusal", "referral", "stop", "bounce"}

-----------------------------------------------------------------------------
Phases == {"idle", "enqueue", "sync", "send", "sending", "mark", "record", "advance"}

NothingRead == [l \in Leads |-> "none"]

Busy(phase, todo, inbox) ==
  [phase |-> phase, todo |-> todo, current |-> {}, drafted |-> FALSE, inbox |-> inbox]

Idle == Busy("idle", {}, NothingRead)

Ops == {"review", "suppress", "referral", "sync", "queue", "crawl", "approve", "edit"}

NoOp == [op |-> "idle"]

Init ==
  /\ lead = [l \in Leads |-> NewRow]
  /\ draft = [l \in Leads |-> [s \in Steps |-> "none"]]
  /\ banned = {}
  /\ ledger = NoLedger
  /\ runner = Idle
  /\ copy = [l \in Leads |-> NewRow]
  /\ handler = [h \in Handlers |-> NoOp]
  /\ mail = [l \in Leads |-> NoMail]
  /\ spent = [runs |-> 0, acts |-> 0]
  /\ got = {} /\ twice = {} /\ excused = {}
  /\ late = [l \in Leads |-> 0]
  /\ heard = {}
  /\ ignored = {}
  /\ clobbered = {}

deliveries == <<got, twice, late, ignored>>
observed == <<deliveries, excused, heard>>
tables == <<lead, draft, banned>>
worker == <<ledger, runner, copy>>
api == <<handler, clobbered>>

vars == <<tables, worker, api, mail, spent, observed>>

-----------------------------------------------------------------------------
(* The send runner: cmd_send.                                              *)

Write(l, row) == lead' = [lead EXCEPT ![l] = row]

\* A lead of the current phase is dealt with; its copy is not used again.
Finish(l) ==
  /\ runner' = [runner EXCEPT !.phase = IF @ = "advance" THEN "send" ELSE @,
                              !.todo = @ \ {l}, !.current = {}, !.drafted = FALSE,
                              !.inbox[l] = "none"]
  /\ copy' = [copy EXCEPT ![l] = NewRow]

\* A phase reads the leads it is about.
ReadWith(phase, leads, inbox) ==
  /\ runner' = Busy(phase, leads, inbox)
  /\ copy' = [l \in Leads |-> IF l \in leads THEN lead[l] ELSE NewRow]

Read(phase, leads) == ReadWith(phase, leads, NothingRead)

InPhase(phase, l) == runner.phase = phase /\ l \in runner.todo

PhaseOver(phase) == runner.phase = phase /\ runner.todo = {}

\* The ledger file outlives the runner on an operator's machine; a GitHub
\* runner checks out the repository and starts without one.
StartRunner ==
  /\ runner.phase = "idle" /\ spent.runs < MaxRuns
  /\ spent' = [spent EXCEPT !.runs = @ + 1]
  /\ ledger' \in {ledger, NoLedger}
  /\ Read("enqueue", {l \in Leads : Eligible(lead[l])})
  /\ UNCHANGED <<tables, api, mail, observed>>

\* enqueue, one lead.
EnqueueLead(l) ==
  /\ InPhase("enqueue", l)
  /\ Write(l, IF Suppressed(l, copy[l]) \/ IsStopped(l, copy[l])
              THEN [copy[l] EXCEPT !.status = "suppressed"]
              ELSE IF HasSent(l, copy[l], 1) THEN Restored(l, copy[l])
              ELSE Queued(copy[l]))
  /\ Finish(l)
  /\ UNCHANGED <<draft, banned, ledger, api, mail, spent, observed>>

\* Of the leads whose mail was fetched, those with an answer in it that the
\* address or the row's thread tells to be theirs.
Answering(fetched) ==
  {l \in fetched : mail[l].kind \in Decisive /\ Attributable(lead[l], mail[l])}

\* Faulty variant: a mail is looked up by its sender only.
FetchBySender ==
  /\ PhaseOver("enqueue")
  /\ \E fetched \in SUBSET Leads :
       LET about == {l \in fetched : Matches(lead[l], mail[l]) /\ mail[l].named}
       IN /\ ReadWith("sync", about,
                      [l \in Leads |-> IF l \in about THEN mail[l].kind ELSE "none"])
          /\ heard' = Answering(fetched)
  /\ clobbered' = {}
  /\ UNCHANGED <<tables, ledger, handler, mail, spent, deliveries, excused>>

\* sync_replies: the inbox, then the leads it may be about.  What is fetched is
\* any part of it: mail older than fourteen days is not asked for, a search
\* that fails gives nothing and a message that cannot be fetched is skipped,
\* and the batch goes on all the same.
FetchInbox ==
  /\ PhaseOver("enqueue")
  /\ \E fetched \in SUBSET Leads :
       LET about == {l \in fetched : Matches(lead[l], mail[l])}
       IN /\ ReadWith("sync", about,
                      [l \in Leads |-> IF l \in about THEN mail[l].kind ELSE "none"])
          /\ heard' = Answering(fetched)
  /\ clobbered' = {}
  /\ UNCHANGED <<tables, ledger, handler, mail, spent, deliveries, excused>>

SyncLead(l) ==
  /\ InPhase("sync", l)
  /\ LET kind == runner.inbox[l]
     IN /\ Write(l, Answered(copy[l], kind))
        /\ banned' = banned \cup Bans(l, copy[l], kind)
        /\ ledger' = [ledger EXCEPT !.stopped = @ \cup LedgerStops(l, copy[l], kind)]
  /\ Finish(l)
  /\ UNCHANGED <<draft, api, mail, spent, observed>>

\* send_due: due_leads.
ReadDue ==
  /\ PhaseOver("sync")
  /\ Read("send", {l \in Leads : Due(lead[l])})
  /\ UNCHANGED <<tables, ledger, api, mail, spent, observed>>

\* Faulty variant: only the ledger of this machine is asked.
BlockedByLedgerOnly(l) == IsStopped(l, copy[l])

\* The check at the head of the loop.
Blocked(l) == Suppressed(l, copy[l]) \/ IsStopped(l, copy[l])

StepDue(l) == copy[l].step + 1

DropSuppressed(l) ==
  /\ InPhase("send", l)
  /\ Blocked(l)
  /\ Write(l, Stopped(copy[l], "suppressed"))
  /\ Finish(l)
  /\ UNCHANGED <<draft, banned, ledger, api, mail, spent, observed>>

\* The ledger has the step: advance without sending.
SkipSent(l) ==
  /\ InPhase("send", l)
  /\ ~Blocked(l) /\ HasSent(l, copy[l], StepDue(l))
  /\ Write(l, Advanced(copy[l]))
  /\ Finish(l)
  /\ UNCHANGED <<draft, banned, ledger, api, mail, spent, observed>>

\* The draft waits for approval or was rejected, or the mailbox of the thread
\* has no budget left.
PassOver(l) ==
  /\ InPhase("send", l)
  /\ ~Blocked(l) /\ ~HasSent(l, copy[l], StepDue(l))
  /\ Finish(l)
  /\ UNCHANGED <<tables, ledger, api, mail, spent, observed>>

DraftAllows(l, s) ==
  IF RequireApproval THEN draft[l][s] = "approved" ELSE draft[l][s] # "rejected"

\* The copy passes every check and the message goes to the SMTP server.
StartSend(l) ==
  /\ InPhase("send", l)
  /\ ~Blocked(l) /\ ~HasSent(l, copy[l], StepDue(l))
  /\ DraftAllows(l, StepDue(l))
  /\ runner' = [runner EXCEPT !.phase = "sending", !.todo = @ \ {l}, !.current = {l},
                              !.drafted = draft[l][StepDue(l)] # "none"]
  /\ UNCHANGED <<tables, ledger, copy, api, mail, spent, observed>>

\* A message reaches its contact.
Count(n) == IF n < 2 THEN n + 1 ELSE n

Reaches(l) ==
  LET message == <<l, copy[l].contact, StepDue(l)>>
  IN /\ got' = got \cup {message}
     /\ twice' = IF message \in got THEN twice \cup {message} ELSE twice
     /\ late' = IF Suppressed(l, copy[l]) THEN [late EXCEPT ![l] = Count(@)] ELSE late
     /\ ignored' = IF l \in heard \ clobbered /\ copy[l].contact = "first"
                   THEN ignored \cup {l} ELSE ignored
     /\ UNCHANGED heard

Sent(l) ==
  /\ runner.phase = "sending" /\ l \in runner.current
  /\ Reaches(l)
  /\ runner' = [runner EXCEPT !.phase = "mark"]
  /\ UNCHANGED <<tables, ledger, copy, api, mail, spent, excused>>

\* The connection broke: the server may have taken the message before.
SendFails(l) ==
  /\ runner.phase = "sending" /\ l \in runner.current
  /\ \/ UNCHANGED observed
     \/ /\ Reaches(l)
        /\ excused' = excused \cup {<<l, copy[l].contact, StepDue(l)>>}
  /\ runner' = [runner EXCEPT !.phase = "send", !.current = {}, !.drafted = FALSE]
  /\ copy' = [copy EXCEPT ![l] = NewRow]
  /\ UNCHANGED <<tables, ledger, api, mail, spent>>

\* recipient_refused: stop_lead.
Refused(l) ==
  /\ runner.phase = "sending" /\ l \in runner.current
  /\ Write(l, Stopped(copy[l], "bounced"))
  /\ banned' = banned \cup Bans(l, copy[l], "bounce")
  /\ ledger' = [ledger EXCEPT !.stopped = @ \cup LedgerStops(l, copy[l], "bounce")]
  /\ runner' = [runner EXCEPT !.phase = "send", !.current = {}, !.drafted = FALSE]
  /\ copy' = [copy EXCEPT ![l] = NewRow]
  /\ UNCHANGED <<draft, api, mail, spent, observed>>

SetDraft(l, s, status) == draft' = [draft EXCEPT ![l][s] = status]

\* Faulty variant: the draft keeps its status.
MarkDraftForgets(l) ==
  /\ runner.phase = "mark" /\ l \in runner.current
  /\ runner' = [runner EXCEPT !.phase = "record"]
  /\ UNCHANGED <<tables, ledger, copy, api, mail, spent, observed>>

MarkDraft(l) ==
  /\ runner.phase = "mark" /\ l \in runner.current
  /\ IF runner.drafted THEN SetDraft(l, StepDue(l), "sent") ELSE UNCHANGED draft
  /\ runner' = [runner EXCEPT !.phase = "record"]
  /\ UNCHANGED <<lead, banned, ledger, copy, api, mail, spent, observed>>

RecordSent(l) ==
  /\ runner.phase = "record" /\ l \in runner.current
  /\ ledger' = [ledger EXCEPT !.sent = @ \cup {<<l, copy[l].contact, StepDue(l)>>}]
  /\ runner' = [runner EXCEPT !.phase = "advance"]
  /\ UNCHANGED <<tables, copy, api, mail, spent, deliveries, excused, heard>>

Advance(l) ==
  /\ runner.phase = "advance" /\ l \in runner.current
  /\ Write(l, Advanced(copy[l]))
  /\ Finish(l)
  /\ UNCHANGED <<draft, banned, ledger, api, mail, spent, observed>>

\* The batch is over: every due lead was seen, the batch limit or every
\* mailbox's budget is used up, three sends failed in a row, or the window
\* is closed.
EndRun ==
  /\ runner.phase = "send"
  /\ runner' = Idle
  /\ copy' = [l \in Leads |-> NewRow]
  /\ UNCHANGED <<tables, ledger, api, mail, spent, observed>>

\* The runner is cancelled, times out or loses the database.
RunnerDies ==
  /\ runner.phase # "idle"
  /\ runner' = Idle
  /\ copy' = [l \in Leads |-> NewRow]
  /\ excused' = IF runner.phase = "mark"
                THEN excused \cup {<<l, copy[l].contact, StepDue(l)>> : l \in runner.current}
                ELSE excused
  /\ UNCHANGED <<tables, ledger, api, mail, spent, deliveries, heard>>

-----------------------------------------------------------------------------
(* API handlers and the crawler.                                           *)

\* A handler reads the row, and a draft's step or the inbox if it is about one.
Begin(h, op, l, s) ==
  /\ handler[h] = NoOp /\ spent.acts < MaxActs
  /\ spent' = [spent EXCEPT !.acts = @ + 1]
  /\ handler' = [handler EXCEPT ![h] =
                   [op |-> op, lead |-> l, row |-> lead[l], step |-> s,
                    kind |-> IF op = "sync" THEN mail[l].kind ELSE "none"]]

\* It writes its copy of the row and ends.
WriteBack(h, op, l, row) ==
  /\ handler[h].op = op /\ handler[h].lead = l
  /\ Write(l, row)
  /\ clobbered' = IF lead[l] = handler[h].row THEN clobbered ELSE clobbered \cup {l}
  /\ handler' = [handler EXCEPT ![h] = NoOp]

MyRow(h) == handler[h].row

BeginReview(h, l) ==
  /\ Begin(h, "review", l, 0)
  /\ UNCHANGED <<tables, worker, clobbered, mail, observed>>

\* wrong_company also clears outreach_ready.
Review(h, l) ==
  /\ \E right \in BOOLEAN :
       WriteBack(h, "review", l, [MyRow(h) EXCEPT !.ready = @ /\ right])
  /\ UNCHANGED <<draft, banned, worker, mail, spent, observed>>

\* suppress: the suppressions come first, then stop_lead.
BeginSuppress(h, l) ==
  /\ Begin(h, "suppress", l, 0)
  /\ banned' = banned \cup {<<l, "domain">>, <<l, lead[l].contact>>}
  /\ UNCHANGED <<lead, draft, worker, clobbered, mail, observed>>

Suppress(h, l) ==
  /\ WriteBack(h, "suppress", l, Stopped(MyRow(h), "suppressed"))
  /\ UNCHANGED <<draft, banned, worker, mail, spent, observed>>

BeginReferral(h, l) ==
  /\ lead[l].referral # "none"
  /\ Begin(h, "referral", l, 0)
  /\ UNCHANGED <<tables, worker, clobbered, mail, observed>>

\* act_on_referral.
AcceptReferral(h, l) ==
  /\ WriteBack(h, "referral", l,
       [MyRow(h) EXCEPT !.status = "new", !.step = 0, !.ready = TRUE,
          !.waiting = FALSE, !.contact = "referred", !.thread = FALSE,
          !.referral = "accepted"])
  /\ heard' = heard \ {l}
  /\ UNCHANGED <<draft, banned, worker, mail, spent, deliveries, excused>>

DeclineReferral(h, l) ==
  /\ WriteBack(h, "referral", l, [MyRow(h) EXCEPT !.referral = "declined"])
  /\ UNCHANGED <<draft, banned, worker, mail, spent, observed>>

\* outreach_sync, for a mail that it could fetch; the ledger is a read-only copy
\* of the repository's.
BeginSync(h, l) ==
  /\ Matches(lead[l], mail[l])
  /\ Begin(h, "sync", l, 0)
  /\ UNCHANGED <<tables, worker, clobbered, mail, observed>>

Sync(h, l) ==
  /\ WriteBack(h, "sync", l, Answered(MyRow(h), handler[h].kind))
  /\ banned' = banned \cup Bans(l, MyRow(h), handler[h].kind)
  /\ UNCHANGED <<draft, worker, mail, spent, observed>>

\* outreach_queue: enqueue with that same ledger, which has no sends.
BeginQueue(h, l) ==
  /\ Eligible(lead[l])
  /\ Begin(h, "queue", l, 0)
  /\ UNCHANGED <<tables, worker, clobbered, mail, observed>>

Queue(h, l) ==
  /\ WriteBack(h, "queue", l,
       IF Suppressed(l, MyRow(h)) THEN [MyRow(h) EXCEPT !.status = "suppressed"]
       ELSE Queued(MyRow(h)))
  /\ heard' = heard \ {l}
  /\ UNCHANGED <<draft, banned, worker, mail, spent, deliveries, excused>>

\* process_company finds the company again and reads its previous lead ...
BeginCrawl(h, l) ==
  /\ Begin(h, "crawl", l, 0)
  /\ UNCHANGED <<tables, worker, clobbered, mail, observed>>

\* ... of which only the status survives in the row it saves.
Crawl(h, l) ==
  /\ \E found \in {"new", "needs_contact", "suppressed"}, ready \in BOOLEAN :
       /\ ready => found = "new"
       /\ found = "suppressed" <=> Suppressed(l, NewRow)
       /\ WriteBack(h, "crawl", l,
            [NewRow EXCEPT
               !.status = IF MyRow(h).status = "new" THEN found ELSE MyRow(h).status,
               !.step = MyRow(h).step, !.ready = ready])
  /\ UNCHANGED <<draft, banned, worker, mail, spent, observed>>

\* approve_draft and update_draft refuse a draft that was sent (409), and look
\* before they write.
BeginApprove(h, l, s) ==
  /\ draft[l][s] \notin {"none", "sent"}
  /\ Begin(h, "approve", l, s)
  /\ UNCHANGED <<tables, worker, clobbered, mail, observed>>

EndDraft(h, op, status) ==
  /\ handler[h].op = op
  /\ SetDraft(handler[h].lead, handler[h].step, status)
  /\ handler' = [handler EXCEPT ![h] = NoOp]

Approve(h) ==
  /\ EndDraft(h, "approve", "approved")
  /\ excused' = excused \cup {m \in got : m[1] = handler[h].lead /\ m[3] = handler[h].step}
  /\ UNCHANGED <<lead, banned, worker, clobbered, mail, spent, deliveries, heard>>

BeginEdit(h, l, s) ==
  /\ draft[l][s] # "sent"
  /\ Begin(h, "edit", l, s)
  /\ UNCHANGED <<tables, worker, clobbered, mail, observed>>

Edit(h) ==
  /\ EndDraft(h, "edit", "pending")
  /\ UNCHANGED <<lead, banned, worker, clobbered, mail, spent, observed>>

Act == spent.acts < MaxActs /\ spent' = [spent EXCEPT !.acts = @ + 1]

\* reject_draft: any draft there is; reset_draft: any draft at all.
Reject(l, s) ==
  /\ Act /\ draft[l][s] # "none"
  /\ SetDraft(l, s, "rejected")
  /\ UNCHANGED <<lead, banned, worker, api, mail, observed>>

Reset(l, s) ==
  /\ Act
  /\ SetDraft(l, s, "pending")
  /\ UNCHANGED <<lead, banned, worker, api, mail, observed>>

RenderDraft(l, s) ==
  /\ draft[l][s] = "none"
  /\ SetDraft(l, s, "pending")
  /\ UNCHANGED <<lead, banned, worker, api, mail, observed>>

\* prepare_drafts renders the due step's draft on first view; get_draft renders
\* any step's.
PrepareDraft(l) ==
  /\ Due(lead[l])
  /\ RenderDraft(l, lead[l].step + 1)
  /\ UNCHANGED spent

ViewDraft(l, s) == Act /\ RenderDraft(l, s)

-----------------------------------------------------------------------------
(* Contacts and time.                                                      *)

\* The first contact writes back, or a colleague, or a mail server; a bounce may
\* come on top of a reply and then decides (it is looked for among the replied).
MailArrives(l) ==
  /\ \E s \in Steps : <<l, "first", s>> \in got
  /\ \E m \in Mails :
       /\ \/ mail[l].kind \notin Decisive
          \/ m.kind = "bounce" /\ mail[l].kind \in {"answer", "referral"}
       /\ mail' = [mail EXCEPT ![l] = m]
  /\ UNCHANGED <<tables, worker, api, spent, observed>>

\* next_contact_at passes: a date, the same in every copy of the row.
WaitOver(l) ==
  /\ lead[l].waiting
  /\ Write(l, [lead[l] EXCEPT !.waiting = FALSE])
  /\ copy' = [copy EXCEPT ![l].waiting = FALSE]
  /\ handler' = [h \in Handlers |->
                   IF handler[h] # NoOp /\ handler[h].lead = l
                   THEN [handler[h] EXCEPT !.row.waiting = FALSE] ELSE handler[h]]
  /\ UNCHANGED <<draft, banned, ledger, runner, clobbered, mail, spent, observed>>

-----------------------------------------------------------------------------
Runner ==
  \/ StartRunner \/ FetchInbox \/ ReadDue \/ EndRun \/ RunnerDies
  \/ \E l \in Leads :
       \/ EnqueueLead(l) \/ SyncLead(l) \/ DropSuppressed(l) \/ SkipSent(l)
       \/ PassOver(l) \/ StartSend(l) \/ Sent(l) \/ SendFails(l) \/ Refused(l)
       \/ MarkDraft(l) \/ RecordSent(l) \/ Advance(l)

Api ==
  \/ \E h \in Handlers, l \in Leads :
       \/ BeginReview(h, l) \/ BeginSuppress(h, l) \/ BeginReferral(h, l)
       \/ BeginSync(h, l) \/ BeginQueue(h, l) \/ BeginCrawl(h, l)
       \/ \E s \in Steps : BeginApprove(h, l, s) \/ BeginEdit(h, l, s)
  \/ \E h \in Handlers :
       /\ handler[h] # NoOp
       /\ \/ Approve(h) \/ Edit(h)
          \/ \E l \in Leads :
               \/ Review(h, l) \/ Suppress(h, l) \/ AcceptReferral(h, l)
               \/ DeclineReferral(h, l) \/ Sync(h, l) \/ Queue(h, l) \/ Crawl(h, l)
  \/ \E l \in Leads :
       \/ PrepareDraft(l)
       \/ \E s \in Steps : ViewDraft(l, s) \/ Reject(l, s) \/ Reset(l, s)

Next == Runner \/ Api \/ \E l \in Leads : MailArrives(l) \/ WaitOver(l)

Spec == Init /\ [][Next]_vars

-----------------------------------------------------------------------------
(* What must hold.                                                         *)

\* Every variable holds what the code gives it.
TypeOK ==
  /\ lead \in [Leads -> Row]
  /\ draft \in [Leads -> [Steps -> DraftStates]]
  /\ banned \subseteq Leads \X Places
  /\ ledger \in [sent : SUBSET (Leads \X Contacts \X Steps),
                 stopped : SUBSET (Leads \X Contacts)]
  /\ runner \in [phase : Phases, todo : SUBSET Leads, current : SUBSET Leads,
                 drafted : BOOLEAN, inbox : [Leads -> Kinds \cup {"none"}]]
  /\ copy \in [Leads -> Row]
  /\ handler \in [Handlers -> {NoOp} \cup
                    [op : Ops, lead : Leads, row : Row, step : 0..LastStep,
                     kind : Kinds \cup {"none"}]]
  /\ mail \in [Leads -> Mails \cup {NoMail}]
  /\ got \subseteq Leads \X Contacts \X Steps
  /\ twice \subseteq got /\ excused \subseteq got
  /\ late \in [Leads -> 0..2]
  /\ heard \subseteq Leads /\ ignored \subseteq Leads
  /\ clobbered \subseteq Leads

\* No contact receives a step twice unless somebody approved its draft again,
\* or the record of the first delivery was lost: whatever rows the crawler,
\* the API and the runner overwrite for each other, and with a new ledger in
\* every runner, a draft that was sent is not sent again.
NeverTwiceUnexcused == RequireApproval => twice \subseteq excused

\* Once a contact is on the suppression list, nothing more reaches it but the
\* one message that was with the SMTP server, whatever a runner's copies say.
SuppressionHolds == \A l \in Leads : late[l] <= 1

\* A contact whose answer the sync of a batch could fetch, and could attribute
\* by the address or by the thread the row still has, gets nothing from that
\* batch (apply_inbound runs between enqueue and send_due).  The rows a runner
\* overwrites at its end are found in the inbox again by the next one; only a
\* handler or the crawler that writes an outdated copy of the lead between the
\* sync and the batch can undo it, or an operator who meanwhile accepts its
\* referral or opens the approval queue, which queues it anew.  Answers that are
\* not fetched, or not attributed since a crawl overwrote the thread, stop nothing.
AnswersAreHeard == ignored = {}

=============================================================================
