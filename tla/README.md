# Verification of the lead engine

`gtm_engine` finds companies, turns them into leads, bills a user for the leads it
delivers and e-mails them.  This directory holds TLA+ models of the parts of it
whose correctness depends on the order of events, the TLC runs that check them and
TLAPS proofs about them.  Every definition is translated from the source;
`PROJECT.json` maps it to the lines it stands for.

## 1. The system

| part | state it keeps | operations | runs in |
|---|---|---|---|
| Run dispatch and credits: `api/main.py` (`run_campaign`), `api/usage.py`, `pricing/tiers.py`, `storage/database.py` | `usage_counts`, `credit_reservations`, `run_progress` | check the active run, count the run, gate, reserve, dispatch, refund, announce | one serverless process per request |
| Runner: `cli.py`, `gather-leads.yml` | the same rows, `campaigns` | report, bill, release | one GitHub Actions job per campaign |
| Crawl run: `pipeline.py` | `seen_keys`, budgets, `RunStats`, `companies`, `leads` | take a batch, process a company, expand, filter, finish | coroutines of one event loop in the runner |
| Outreach: `outreach/sequencer.py`, `ledger.py`, `reply_state.py`, `cli.py`, `outreach.yml` | `leads`, `drafts`, `suppressions`, `outreach_events`, the ledger file | queue, sync replies, send, advance, stop | one Actions job at a time, and API requests |
| Operator's API: `api/main.py` | the same rows | review, suppress, referral, approve, edit, reject, reset, queue, sync | one process per request |
| Mailboxes: `outreach/mailboxes.py`, `sender.py` | budgets of a day, from the ledger | pick a mailbox, send, pause | the send runner |
| Campaign administration: `api/main.py` | `campaigns`, hidden ids | create, create from text, delete, hide | one process per request |
| Database layer: `storage/database.py` | one connection | execute, reconnect, commit | everywhere |
| Fetcher, browser: `scraping/` | host locks, failure counts, robots cache | get, retry, fall back | the crawl's coroutines |
| LLM client: `llm/client.py` | token bucket | acquire, retry, fall back | the crawl's coroutines |
| Account settings: `api/main.py`, `api/usage.py` | keys, mailboxes, preferences, stops, the ranking model | save, delete, toggle, test, suppress, judge | one process per request |
| Qualification: `pipeline.py` (`process_company`), `qualify/`, `enrichment/`, `validation/` | the worker's locals, the verifier's cache, `leads` | crawl, classify, pick or guess a contact, score, save | the crawl's coroutines |
| Discovery, entity resolution, natural-language campaigns, replies' labels | none that outlives a call | pure functions of records and texts | the crawl, a request, the send runner |
| Content templates, exports, authentication, web front end | none of their own | see section 6 | |

The parts meet in three places.  The *database* is shared by requests, runners and
crawls; every method of `Database` is one statement and one commit, there is no
transaction over two of them and no row lock, and handlers write back whole rows
they read earlier.  *GitHub Actions* stands between a request and its runner: a
dispatch may be accepted though its answer is lost, a run may be queued, cancelled,
timed out or killed.  *Mail servers and contacts* stand behind a send: a message may
have left although the connection broke, and an answer may arrive at any time.

What is hard here, and what makes each part correct:

* **Credits.**  Gate and reservation are separate commits; holds are released by
  campaign, not by run; a request or a runner may end between any two commits; rows go
  stale by age; a usage statement brings a date read before it was sent, and starts the
  row anew if that has any other date.  Correct means: no more runs than the limit
  admits, and what lands late on top; holds within the tier, no hold of a finished run,
  no hold dropped by a stranger, delivered leads billed, nothing blocked for ever.
* **Crawl run.**  Workers claim, release and re-claim company keys across awaits;
  expansion rounds chase a target under a ceiling.  Correct means: one lead per
  company, nobody lost to a duplicate, bounds on crawling and delivery, the billed
  number describes what is returned, the run ends.
* **Outreach.**  A runner works up to an hour on copies of rows that the API, the
  crawler and contacts change meanwhile, may die between the message and its record,
  starts without the ledger of the last runner, and goes on when the inbox gave it nothing.
  Correct means: nobody gets a step twice unasked, suppressed contacts get nothing, answers
  that were fetched are heeded.
* **Fetcher.**  All workers share one client: a breaker, a robots cache, a pool of
  slots, a lock and a last hit for each host, all read before an await and changed
  after it.  Correct means: hits on a host keep their distance, a dead host costs a
  bounded number of failed gets and is then left alone, every get returns.
* **Mailboxes.**  A batch computes each mailbox's budget once, from the ledger file of its
  campaign on its machine, and sends for up to an hour, perhaps past midnight, while rows
  change under it.  A GitHub runner begins with an empty ledger.  Correct means: by each
  machine's ledger a campaign stays within each mailbox's cap however often its batches
  start, and a follow-up leaves from the mailbox of its thread while row or ledger know it.
* **Campaigns and accounts.**  Handlers count, choose an id and insert in separate
  statements; a crawl's first step writes back a configuration it read earlier; feedback
  reads, updates and writes a model.  Correct means: owners and deletions last, a
  stranger's text needs a race, a quota is overrun by no more than the requests in
  flight, the model counts the events it learned, calls reach only rows of the caller.
* **Connection.**  A statement on a broken connection is run again on a new one, outside
  the old transaction.  Correct means: what a method reported is stored exactly once,
  schema changes are serialised, nobody waits for ever.
* **Qualification.**  Between a company's crawl and its row are a dozen awaits; its site
  may answer from another company's domain.  Correct means: one row per company key, a
  contact that is the company's own, guesses that somebody confirmed, bans that hold.
* **Pure computations and limited services.**  Ordered rules over overlapping evidence,
  merging of records under several identifiers, filters with fall-backs, a token bucket
  that sleeps while it owes.  Correct means: more evidence never reverses a verdict,
  every record is in one company, nobody is lost on the way, the user's words win over a
  model's guess, services are asked within their limits.

`PROJECT.json` lists each hazard at its line with the properties that cover it.

## 2. Modules

| module | models | how state and actions correspond |
|---|---|---|
| `UsageCounts` | a row of `usage_counts`: count on, or anew when the date differs | operators, used by `Credits` and `Accounts` |
| `Credits` | dispatch, billing, reservations | `req[d]`/`job[d]` are the program counters of one `run_campaign` call and its runner; `usage`, `hold`, `progress`, `deleted` are the tables, `since[d]` the earliest day the next statement may be dated by; one action per commit |
| `LeadRun` | `Pipeline.run`, `_take_live`, `process_company`'s claims | `at[c]` is where each company is, `seen` and `key` the claims; one action per stretch of code between two awaits |
| `Qualify` | `process_company` from the crawl to the row, the verifier, `save_lead` | `job` holds the worker's local variables, `rows` and `banned` the tables; one action per stretch between two awaits; `Ban`, `Lift` and `Enqueue` are other processes |
| `Evidence` | `BuyerClassifier`, the score, routing and skip reasons | operators over what the patterns found |
| `Outreach` | `cmd_send`, `enqueue`, `apply_inbound`, `send_due`, `stop_lead`, the draft, review, suppress, referral, queue and sync handlers, the crawler's `save_lead` | `lead`, `draft`, `banned`, `ledger` are the stores, `copy` the rows a runner holds, `handler` the copy an API call holds; a read and the write that follows it are two actions |
| `Mailboxes` | `MailboxPool`, the ledger's counts, `send_due`'s loop | `batch` is one call of `send_due` with its machine, its date and the states it computed, `ledger` the files of each machine, `writer` a crawl or reply sync with its copy of a row, `sends` what really left |
| `Posting` | the abstract specification that `Mailboxes` implements | `day`, `sends`, `forgotten` (leads whose row a crawl overwrote) |
| `Warmup` | a mailbox's cap of the day, days active, counts of sends | operators, used by `Mailboxes` on the ledger and by `Posting` on what left |
| `Fetching` | `HttpFetcher.get` with `_allowed`, `_load_robots`, `_throttle` | `at[w]` is where worker `w` is in `get`, `failures` and `robots` are `_host_failures` and `_robots`, `since` the age of `_last_hit`; one action per stretch between two awaits, a semaphore or lock is who stands inside it |
| `Campaigns` | the campaigns table; create, create from text, edit, delete, a run's upsert, `gtm nl` | `req[r]` is a request and how far it is; one action per statement |
| `Accounts` | keys, mailboxes, preferences, limits, metered tests, stops, feedback; extends `Campaigns` | `call[x]` is a call and what it read; one action per statement |
| `Connection` | class `Database`: connect, schema under its lock, `_execute`, `_commit` | `pc[p]` is where each process is, `pending` its open transaction, `up` the connections alive; `Drop` and `CommitUnheard` are the server; its specification is `DbSpec` |
| `Storage` | the abstract specification that `Connection` implements | `tables`, `result` |
| `Discovery` | sources, filters, `_round_robin`, `dedupe_companies`, `resolve_entities`, `_take_live` | operators over lists of records |
| `Briefs` | `nl_parser`, `targeting` | operators from what the patterns find in a text, and a model's reply, to a campaign and its targets |
| `Presence` | `audit_presence`, the fall-back pitch | operators over what a site shows |
| `Wording` | `reply_classifier`, what `llm/tasks.py` makes of replies | operators over lines and opinions |
| `Services` | the token bucket, retries and fall-back of `llm/client.py`, `NewsChecker`, `FallbackFetcher.get` | functions from a sequence of requests to what each got |
| `Algorithms` | the last five and `Evidence`, one question at a time | `question`, `answer` |
| `MCx` | the instance of module `x` that TLC checks | |
| `xProofs` | what TLAPS proves of `Credits`, `LeadRun`, `Campaigns` (with `Accounts`), `Outreach`, `Mailboxes`, `Qualify`, `Algorithms` (with the six modules it asks); `ClientsProofs`: of `Fetching` and `Connection` | |

**Composition.**  `Accounts` extends `Campaigns`: `ApiSpec` interleaves both, a lead's
campaign decides whose list and model a call reaches.  `Qualify` and `Algorithms` share
`Evidence`, so the rules that `Algorithms` tests on every bundle are those that decide
in `Qualify`.  `Connection` instantiates `Storage` by its own `tables` and `result`,
`Mailboxes` instantiates `Posting` by its own `day`, `sends` and `forgotten`.
`Algorithms` instantiates `LeadRun`: `ScreeningLosesNobody` says that whatever the exact
`_take_live` of `Discovery` returns is among the batches that `LeadRun!TakeLive` allows.
`Credits` and `LeadRun` meet in one number: `Credits!PipelineReturns` lets a run of size n
report 0..`MaxReady(n)` leads, and `LeadRun!DeliveryBounded` is that bound.

Definitions whose comment begins with "Faulty variant" are not part of the system:
each changes the definition after it the way a plausible slip would, to show that
the property it is paired with in `PROJECT.json` notices.

### Abstractions

* *Credits.*  Amounts, ages and dates are small integers.  A statement on `usage_counts` may
  carry any day from that of its process's last commit to the current one (`Dates`), since
  the date is read in Python in between; midnight itself changes no row.  Dispatches in
  `Earlier` were answered on the first day, so that the model begins with any count in the
  rows.  `admitted` and `unpaid` are observations, read by no guard.  The Monday cron run
  behaves like the local operator's dispatch, which takes no hold.
* *LeadRun.*  Scoring a company is the choice whether its lead is outreach-ready; `Qualify`
  has what is behind that choice.  Screening for live domains works in windows of
  `max(limit, 50)`; `TakeLive` allows every outcome of any window, a superset
  (`ScreeningLosesNobody` checks that it is).  A website found by search is any domain.
  Order among companies with (or without) a website is arbitrary.
* *Outreach.*  A lead is its status, step, readiness, contact, referral and whether it
  waits.  The checks before a send are one action (they are consecutive statements; the
  interesting window is the send and the half minute to two minutes after it).
  `stop_lead`'s two commits are one action, so a crash between them is not modelled.
  Mailbox budgets, the batch limit and the send window only show as `PassOver` and
  `EndRun`.  A sync fetches any part of the inbox: that covers the fourteen-day window,
  a search that fails and messages that cannot be fetched.  A mail shows its contact's
  address or quotes only the thread; one that shows neither, because a crawl overwrote
  the thread id, is not attributed.  Dry runs roll back and are not modelled.
  Follow-ups after `followup_2` do not exist, and neither do replies to it: see
  `Matches`.
* *Fetching.*  Time is in ticks up to the longest delay: an older last hit owes no
  pause.  The length of a backoff is any (`Again` waits for nothing but fairness).
  What a robots.txt says of the page asked for is a choice, one file per host
  (`http` and `https` have one each in the code).  An address is public or not by
  choice (`Refuse`).  Requests for robots.txt and those that follow a redirect are
  not paced by the code and are not hits of the model.  A get that raises something
  other than an `httpx.HTTPError` counts as an answer that changes no count.
* *Qualify.*  One worker at a time: what workers do to each other is `LeadRun`'s.  What a
  company's pages say, what its mail server answers and what the reviews add up to is
  arbitrary, and may change between two runs; `Totals` stands for the rest of the score.
  What operators suppressed before the first run is any set.
* *Mailboxes.*  A machine is whoever keeps a ledger file: an operator's computer, or one
  GitHub runner (a new machine each time).  `Machines` are as many as there are; one
  batch runs at a time, as the workflow's concurrency group has it (a batch an
  operator starts beside the workflow's is not modelled).  A runner that dies
  between a message and its record is in `Outreach`, not here.  A mailbox's slot in the
  order of addresses is a number.  Whether a draft is approved is the choice of `Skip`.
  A crawl and a reply sync read a row and write it back in two steps, one of them at a
  time.  The send window, the batch limit and the pause between two messages show as
  `EndBatch`.
* *Campaigns, Accounts.*  A configuration is its author and the request it came from;
  names are slugs; the model's weights are the set of events in them.  a metered
  test reads its limit and takes its date in one step and counts in the next, on whatever
  date the row has by then; the parsed texts (`used`) are counted within one day.
* *Connection.*  A method that writes is one write; reads change nothing and are left
  out.  The three attempts to reconnect are one step that works or raises.  At most
  `MaxDrops` connections break, at any moment.
* *Briefs, Presence, Wording.*  Texts enter as the terms and patterns that match them,
  a language model's reply as the values parsed from it, or none.  A line of an e-mail is
  blank, the bare word stop, or words with the rules they match: the anchored rule for a
  bare stop looks at the subject and the whole fresh text, the others at each line.
* *Discovery.*  A model's reply on a chunk of records is the list of pieces it is cut
  into, each a yes, a no or a scrap of prose, of any length up to a bound.  Which names
  are similar (`LegalName`, `FirstWord`, `Similar`) and which coordinates are inside an
  area are inputs.  A loop that merges is the map of where each record goes (`home`), and
  what it leaves is computed from that at once: a gap is filled by the first merged
  record that can.
* *Services.*  Time is in ticks and one tick refills one token; requests are served in
  the order of the asyncio lock; `late` is how much longer than asked a sleep lasts.

## 3. Runs

| run | checks | bounds, and why they are enough |
|---|---|---|
| `credits` | run caps, ended runs hold nothing, drops only by siblings, done means charged | two dispatches (every hazard is a pair of runs) over two campaigns of one user, one deletable, after an earlier one that may have been counted: the three are what it takes to pass a cap with a late date; sizes 1 and 2 of which the tier allows 1; a tier of one credit and one run a day, so every limit is met; holds and progress rows go stale after a tick; two days, each of them a month, so that day and month turn together and both caps are passed by what lands late |
| `credits_serial` | holds within the tier, nothing blocked for ever | sizes 1 and 2 on a tier of 2, one campaign; requests whose gate and reservation do not overlap |
| `credits_overspend` | *violation*: holds within the tier without that assumption | two requests of size 2, tier 3 |
| `leadrun` | seven properties of a run | six companies, two requested, ceiling four, two workers, one finder look-up, a redirect of two sites to a third: one, two and three rounds, duplicates by search, by record and by redirect |
| `qualify` | one row per key, contacts that are theirs, confirmed guesses, standing bans | two companies, one with a record and one the finder may miss; their sites answer themselves, from each other, from a marketplace, or not; one mail server takes anything; two runs, so that rows of an earlier run are met; two values to suppress, of which any are suppressed before, and one act of an operator or the sequencer meanwhile |
| `qualify_marketplace` | *violation*: no company is a duplicate because of a marketplace | the same companies, both domains gone, one run |
| `outreach` | nothing twice unasked, suppression, answers heard | one lead (leads share no state but the batch), two steps, two runners, four handler or operator acts, one handler at a time; answers that show the address and answers that only quote the thread, of which a sync fetches any |
| `sending` | caps, implements `Posting` | one campaign (campaigns share neither ledger nor leads) on two mailboxes, one with a limit of its own; two machines, so that a ledger is missing; two leads of two steps and a cap of one or two, met by new threads and follow-ups; two days, so that warm-up grows, follow-ups fall due and a batch runs past midnight |
| `fetching` | failures bounded, abandoned for good, hits spaced, gets end | one host (hosts share only the slots), three workers for two slots so that somebody queues and somebody waits for the lock, four gets so that one comes after the breaker opened, a limit of one failure, one retry, two delays |
| `campaigns` | strangers need a race, quota overrun bounded, owners and deletions last, own rows only, model and meters agree | two accounts and the operator, one slug and one shipped example so that every id is contested, a quota of one; three requests or calls in any mix and overlap; typed limits below, within and above what is allowed, an override of the environment above the cap; two days, so that a test may land with the date of the first on a row of the second |
| `connection` | implements `Storage`, schema serialised, everybody ends | two processes and a dry run, two writes each, two lost connections: the second may hit the retry of the first |
| `algorithms` | evidence never reverses, records resolved once, the funnel accounts for everybody, screening loses nobody, words decide, services asked sparingly | every question of the sets in `MCAlgorithms`: all bundles and audits on both sides of each threshold of the rules; all lists of up to four of nine records linked by site, LEI, registration or similar name; up to four records from two sources; six companies; three calls on a bucket of three |

A state of `algorithms` is one question with its answer, so its depth is one and its
breadth is the number of questions.

**What the passing runs show.**  Whatever requests, runners, crashes and midnights do, a
finished run leaves nothing held, and no more runs get through with one date than the
cap, plus the cap once more for every statement that landed with a date older than the
row's.  The cap by itself does not hold: a late statement starts yesterday's count anew,
and the next one today's.  Holds exceed the tier only if two requests of one user
overlap between gate and reservation: `credits_serial` serialises just that and the
excess is gone.  A draft marked sent is what really keeps a step from being sent twice:
the mutant that forgets to mark it breaks `NeverTwiceUnexcused`, and the ledger does not
matter.  An answer that the sync fetched and could attribute is ignored only by way of a
handler or crawl that writes an outdated copy, or of an operator who queues the lead
again; an answer that was not fetched stops nothing, and neither does one from another
address after a crawl overwrote the thread id.  A dead host costs the run at most one
failed get per worker beyond the limit: the breaker is asked before the slot, so
`host_failure_limit` ("stop calling a host", `config/schema.py:229`) holds for gets that
start later, not for those in the queue.  Mailbox caps hold for each campaign and each
machine by itself: campaigns on one mailbox do not count each other's messages, two
runners of one day each have the budget of a first day, and a batch that runs past
midnight has its own beside the next day's.  A thread keeps its mailbox while its row or
the ledger at hand knows it; a follow-up from a runner that has neither leaves from the
first mailbox.  A record is dropped by the relevance check only if something other than
a yes stands in its place in the model's reply, and a scrap of prose is such a thing.
Who writes stop in the rules' words is unsubscribed; the bare word alone is heard only
where nothing else is written, so not under a subject.  A campaign gets a stranger's text only from a request that was under
way when the campaign got its owner.  A commit that raises may have landed, one that
returns has, and a statement that is run again never lands twice.  A suppression is
looked up with the address and the domain the crawl ended on, so it also holds when the
site redirects or the address was guessed.

**What the violation runs show,** and where else code and documentation disagree, is in
`PROJECT.json` under `findings`, each with the sentence of the repository it contradicts.
Those without a run were met while modelling: the definition at that line has what the
code does.

**Deadlock.**  It is checked where a clock runs (`credits*` and `fetching`, whose
`Tick` is always enabled; in `fetching`, `GetsEnd` is what finds stuck workers).  It
is off elsewhere: behaviours end when the run is over, the question is answered, or the
bounds are used up.  In `connection`, `EveryoneEnds` finds who waits for ever.

**Fairness.**  `Credits!FairSpec`: time passes, and a runner in the pipeline leaves it,
because `timeout-minutes: 90` stops it if nothing else does.  No fairness is assumed
for requests, for GitHub starting a queued run, or for a runner surviving.  The
liveness of holds and progress rows rests on the clock alone.
`LeadRun!FairSpec`: weak fairness of `Next` as a whole.  Every await of a worker ends
by a time-out of the HTTP, LLM or database client, so some worker always moves on; no
single worker is promised anything.
`Fetching!FairSpec`: the clock ticks, and each worker's get goes on when it can.
Name resolution, requests, pauses and backoffs are bounded in time.  asyncio's
semaphores and locks admit waiters first come, first served; the model lets any in,
and the bound on gets keeps weak fairness from being too weak.
`Connection!DbSpec`: each process goes on, because statements, commits and attempts to
reconnect end by the driver's or the server's time-outs; nothing is assumed of the
server's dropping or keeping connections.  A process that waits for the advisory lock is
not promised the lock; that it gets it is what `EveryoneEnds` checks, and constructors
take it once.
The others state no liveness: sends and requests are started by hand or by a schedule
outside the code, so nothing in it makes them start.

## 4. Proofs

`CreditsProofs` proves for all values of the constants that satisfy the assumptions
of `Credits` (any finite set of dispatches, any users, campaigns, tiers and clock):

| theorem | property |
|---|---|
| `TypeCorrect` | `Spec => []TypeOK` |
| `RunsAreCapped` | `Spec => []RunCapRespected` |
| `EndedRunsHoldNothing` | `Spec => []EndedRunHoldsNothing` |
| `HoldsDropWithTheirCampaign` | `Spec => []HoldDroppedOnlyBySibling` |
| `SettledHoldsAreFinal` | `Spec => SettledHoldsStaySettled` |
| `DoneRunsAreCharged` | `Spec => []DoneMeansCharged` |
| `HoldsStayWithinTier` | `SerialSpec => []HeldWithinTier` |

The argument, bottom up:

* `Typed` adds to `TypeOK` that only metered requests are counted, gated, reserve or
  refund.  It is inductive by itself.
* `EndedRunHoldsNothing` is not inductive: a run could give up and its request
  reserve afterwards.  `HoldInv` adds `NothingYet` (a request that has not dispatched
  has no runner, and one that has not reserved has no hold), which makes a hold
  always older than the run that may give it up.
* `HoldDroppedOnlyBySibling` follows by one more conjunct: a run that gave up has
  done so for good (`GivenUpForGood`).
* `DoneMeansCharged` needs `DebtInv`: a runner owes only while it is in "billing", or
  for a campaign without an owner, or after it was lost.
* `RunCapRespected` needs to know what a row counts.  Since any other date starts it
  anew, that is not the dispatches of its date; `Sound` says how far the two can be
  apart: the dispatches with some date are at most the cap for every late landing, plus
  the row's number if it has that date, plus the cap once if its date is later.  A
  statement of the row's date adds one to both sides, a later one leaves at most the cap
  behind, an earlier one is late itself (`DaySound`, `MonthSound`, in `CountInv`).
  `SmallestRunExists` shows by well-foundedness of < that the monthly limit is well
  defined for any set of allowed sizes.
* `HoldsStayWithinTier` is about `SerialSpec`, in which the gate and the reservation of
  two requests of one user do not overlap; without that the property is false
  (`credits_overspend`).  `ReservesAfford` says that a request about to reserve can still
  afford it: since its gate nobody else reserved for its user, and everything else only
  lowers what the user holds.  `Held` is the cardinality of a set of credits, each a pair
  of a dispatch and a number, so that a reservation adds at most its size (`HeldGrows`).

`LeadRunProofs` proves, for any companies, keys, redirects, budgets and concurrency:

| theorem | property |
|---|---|
| `LeadRunTyped` | `Spec => []TypeOK` |
| `CrawlIsBounded` | `Spec => []CrawlWithinCeiling` |
| `DeliveryIsBounded` | `Spec => []DeliveryBounded` |
| `BillingIsExact` | `Spec => []BilledLeadsAreReturned` |
| `LeadsAreDistinct` | `Spec => []OneLeadPerKey` |
| `DuplicatesStandIn` | `Spec => []DuplicatesAreCovered` |
| `SearchesComeLast` | `Spec => SearchNeverSteals` |

* The bounds are not inductive: a worker that ends raises the counts.  `Counting`
  counts every company of the current batch ahead, so that a batch pays when it is
  taken (`RoundLimit`, `TakeLiveFacts`) and a worker's step never does.  It also says
  that `ready` is the number of good leads until the run is over.
* `Distinct`: whoever is crawling, scoring or a lead holds a key of `seen`, and no
  two hold the same one.  Releasing and claiming in one step (`KeysCrawled`) is what
  keeps it.
* `Covered`: every key in `seen`, and the key of every listed duplicate, has a company
  that stands for it.  When that company gives its key up, the one that answers stands
  in; here the proof needs that a site which answers for others does not itself
  redirect (`RedirectAssumption`).
* `SitesFirst`: once a company without a website started, no listed one is waiting or
  in the pool.  It rests on the order of `_take_live` and on the fairness of the
  semaphore (first in, first out).

`ClientsProofs` proves, of `Fetching` for any workers, hosts, calls and limits and of
`Connection` for any processes, dry runs, writes and number of drops:

| theorem | property |
|---|---|
| `FetchingTyped` | `Spec => []TypeOK` |
| `HitsArePaced` | `Spec => HitsAreSpaced` |
| `DeadHostIsSpared` | `Spec => []FailuresBounded` |
| `AbandonedIsFinal` | `Spec => AbandonedForGood` |
| `DatabaseTyped` | `DbSpec => []DbTypeOK` |
| `LandOnce` | `DbSpec => []WritesLandOnce` |
| `Serialised` | `DbSpec => []SchemaIsSerialised` |
| `DatabaseRefinement` | `DbSpec => KeepsPromise`, that is `DbSpec => Storage!Spec` |

* `Paced`: at most one worker is inside the lock of a host, and while it pauses, what
  is left of its pause plus the age of the last hit is at least its delay.  The lock
  is what makes it inductive: nobody else resets the age meanwhile.
* `Charged`: the failures of a host plus the gets beyond its breaker stay below the
  limit plus the number of workers.  Passing the breaker needs a count below the
  limit; leaving trades one get for at most one failure.
* `AbandonedForGood` needs only types: `BreakerStep` says that a step either passes a
  closed breaker, or ends an early get and changes the count of that host, or does
  neither.
* `PendingRight`: the open transaction of a living connection holds exactly the write
  whose method is about to commit.  This is what a statement run again needs: the first
  try's transaction is gone with its connection.
* `ProgressRight`: a write that is under way is in the tables only if its commit was not
  heard of; later ones are not there.  With both, a `Commit` is `Storage!Land` with an
  answer, a `CommitUnheard` is `Land` without one, a method that raises is `Answer`, and
  every other step changes neither variable.
* `LockRight`: a process at its DDL has the lock or has lost it with its connection.

`CampaignsProofs` proves, for any accounts, names, files, quotas, requests, calls and
limits that are typed:

| theorem | property |
|---|---|
| `TypeCorrect` | `Spec => []TypeOK` |
| `OwnersLast` | `Spec => OwnersAndDeletionsLast` |
| `StrangersRace` | `Spec => []StrangersNeedARace` |
| `QuotaHolds` | `Spec => []QuotaOverrunBounded` |
| `CampaignsWithin` | `ApiSpec => Spec`: the campaigns' theorems hold of the whole API |
| `AccountsCorrect` | `ApiSpec => []AccountsTyped` |
| `TenantsApart` | `ApiSpec => OwnRowsOnly` |
| `ModelsAgree` | `ApiSpec => []ModelsAndMetersAgree` |

* `Holds` adds to the types what a request has once it is that far: a name, an id, a
  configuration.
* `OwnersLast` is a step property; `SaveEffect` and `DeleteEffect` say what the only two
  writers of a row do, `RowSteps` that there are no others.
* `StrangersNeedARace` is not inductive: it says nothing of configurations that requests
  have read but not yet written.  `StrangersInv` says that every live row's configuration
  is `Proper` (a shared row's is the operator's; an owned row's is its owner's, the
  operator's or a racer's), and of each request (`Standing`) that one about to write a row
  of another account is among the row's racers, and that what a run loaded is proper for
  the row it will write.  Who is not moving keeps this (`BystanderKeeps`); who writes
  writes something proper (`WriteProper`).
* `QuotaInv` counts a user's live rows made by a POST together with the creations that
  passed the quota but have not inserted: passing needs fewer rows than the quota, an
  insert trades one request for one row.
* `MetersInv` is the same argument as `CountInv` for the metered tests, whose limit may
  change under way and never passes `Ceiling`.
* `TenantsApart` and `ModelsAgree` need the separation of the accounts from the list of
  the operator (`SharedAssumption`).  `ModelsInv` says of every stored model, and of every
  model that a feedback call holds while others write, that its number is the number of
  its events and that these are logged: updates may be lost, but never one half of one.

`MailboxesProofs` proves, for any campaigns, machines, mailboxes, leads, limits and days:

| theorem | property |
|---|---|
| `LedgerIsTheTruth` | a campaign's ledger on a machine holds exactly what left from there for its leads |
| `CapsAlwaysHold` | `Spec => []CapsHold` |
| `Refinement` | `Spec => PostsAsPromised`, that is `Spec => Posting!Spec` |

* `ThreadInv`: a machine's ledger is the history of its sends, because a step it has on
  record is passed over (`SkipSent`).  Rows and copies of rows never say more than what left
  (`Knows`): the steps they count were sent, the mailbox they name opened the thread.  They
  may say less: a row that may be sent from and lacks its mailbox is one of the forgotten
  leads (`Remembered`).  With the ledger of a machine that opened the thread, `Owner` finds
  the mailbox all the same.
* `BudgetsAreTrue`: the count and the cap that a batch computed when it began are those
  of its machine's history at every moment, for its date and not for today's
  (`DatesInOrder`).  A first message makes a mailbox active, and `ActiveDaysAfterSend` says
  that this does not change its cap under that date.
* With both, every `Send` is `Posting!Post`, a crawl is `Forget`, midnight is
  `Midnight`, and everything else stutters.

`OutreachProofs` proves, for any leads and handlers and any number of steps, runs and acts:

| theorem | property |
|---|---|
| `OutreachTyped` | `Spec => []TypeOK` |
| `SuppressedForGood` | `Spec => []SuppressionHolds` |
| `NeverSentAgain` | `Spec => []NeverTwiceUnexcused` |
| `HeardLeadsAreLeft` | `Spec => []AnswersAreHeard` |

* `Typed` covers the copies too: what a handler or the runner holds is a row that the
  table could have had (`HandlersRead`, `RunnerReads`), and whoever is in the sequence is
  written to at the address it was found with (`Sound`).
* `SuppInv`: a contact that was listed while its message was at the mail server gets that
  one and is then on the list for good.
* `OnceInv`: a message that reached its contact has a draft that is not approved any more
  (`DraftsAreSpent`), except between the delivery and the mark; a batch that holds an
  approved draft holds one that was not delivered (`UnderWayIsNew`).
* `HeardInv`: while a batch lasts, a lead whose answer was fetched and attributed waits in
  the sync for it, or its row is not in the sequence and the batch left it out.

`QualifyProofs` proves, for any companies, sites, redirects, runs and acts of operators:

| theorem | property |
|---|---|
| `RowsKeepTheirKey` | `Spec => []OneRowPerKey` |
| `NoLeadIsLost` | no step removes a lead's row but by one with its number and key |
| `ContactsAreTheirs` | `Spec => []ReadyContactIsTheirs` |
| `GuessesConfirmed` | `Spec => []GuessesAreConfirmed` |
| `BansOutlastJobs` | `Spec => StandingBansHold` |

* `Inv` says of the worker's locals (`JobSound`) what stage by stage holds of the domain,
  the key and the address; of the rows that their numbers are distinct, and that a ready
  one is presentable; and that a row loaded for an update is still the table's
  (`ReadOwnRow`), because one worker at a time has a company.

`AlgorithmsProofs` proves every invariant of the run `algorithms`, for any bundles, audits,
records, texts, replies, requests and limits of the types that `QuestionsAssumption`
names (the shapes of what is asked), any taxonomy, platforms and budgets
(`InstancesAssumption`) and any similarity of names (`NamesAssumption`):

| theorem | property |
|---|---|
| `EvidenceStands` | `Spec => []MoreEvidenceNeverReverses` |
| `PeopleDecide` | `Spec => []WordsDecide` |
| `SparinglyAsked` | `Spec => []AskedSparingly` |
| `NobodyIsLost` | `Spec => []ScreeningLosesNobody` |
| `EverybodyCounted` | `Spec => []FunnelAccounts` |
| `CompaniesOnce` | `Spec => []ResolvedOnce` |
| `EvidenceNeverReverses` | for all bundles: one more piece of evidence never reverses a verdict |
| `BetterScoresMore` | for all audits and weights: no improvement costs points |
| `ChannelsNarrowTheGap` | for all sites and platforms: more channels, no wider gap |

A step of `Algorithms` sets a question and its answer together, so each invariant is
inductive by itself once the answer's promise is a lemma about the pure operators; the
work is in those lemmas.

* *Induction.*  The library's induction theorems take an operator, which the provers
  cannot instantiate, so induction is done over sets: `LeastNumber` gives every non-empty
  set of numbers a least member (from the well-foundedness of <), `UpTo` and
  `CourseOfValues` turn that into simple and strong induction, `Recursion` says that a
  function defined by recursion over 0..n has the values of its equation.
* *Order.*  `Places` and `Sorted` say of `Ordered` that it lists a finite set once, in the
  order of the counts; `Kept` is what a filter leaves (`At`).  The funnel, the round robin
  and the screening rest on them.
* *Evidence.*  The rules in the order the classifier tries them: what one more piece of
  evidence makes true is further up or the same verdict.  The sums and roundings of the
  score are monotone one by one (`ReviewOrder` to `SumOrder`).
* *Words.*  `WordsKept` follows a field from the text over the model's reply into the
  campaign, `SectorsFollow` the industries into the targets; `RulesDecide` says
  that the first rule that matches labels a reply and an unsubscribe comes before all,
  `RulesMatch` that the rules match what the subject and the fresh lines say, and the bare
  stop where nothing else is written,
  `OwnWordsFirst` that a model's keywords only extend the list there is without them.
* *Services.*  `AcquireKeeps` holds the bucket between 0 and its capacity whatever a sleep
  owes; with `SumsInTurn` two grants have at least the time between them that refills what
  was taken (`CallsPaced`).  `StopsAtFirst` says how far a provider is asked, `AtMostOne`
  that a host is rendered again only after an answer.
* *Screening.*  `WindowEnds` shows that some window is the last, `BatchMade` that what is
  taken and what is left are the sited and the bare companies without the dead ones,
  `TakenAsAbstracted` that the batch is one of `LeadRun!TakeLive`'s.
* *Funnel.*  Each filter takes a subset and counts its complement (`FilterKeeps`); what
  is taken of a list is its first records (`TakenAreFirst`), and no list is ahead of
  another that still has some by more than one (`CapIsShared`); `JudgedInPlace` says
  which chunk and which place of its reply a record is judged by, `TypeKeeps` that a
  record is dropped only if something other than a yes stands there.
* *Merging.*  `Grouping` and `MergeTakes` say of one pass that groups by a home which is its
  own home, that its results are made of the records of disjoint groups which cover all.
  `ComposedAgain` composes passes.  `KeysHome`, `TwinsHome`, `LeadsHome` and `ComparedHome`
  show that each of the four passes has such a home; `IdentifiersLead` that the first of an
  identifier leads all who share it.

**What the proofs changed.**  Some attempts failed because the statement was wrong beyond
the runs' bounds, and the model or the property was mended:

* `AnswersAreHeard` counted a lead as ignored although a handler had queued it again after
  its answer; what was heard is now forgotten when somebody queues the lead, and what was
  overwritten when the inbox is read again.
* `StandingBansHold` took an operator's queueing of the lead's old row, just before the
  worker's save, for the save; it now speaks of the step that ends the company's turn.
* `OwnRowsOnly` needed that the shared list is nobody's account (`SharedAssumption`).
* `WordsStand` was false for a sentence in the first person that is itself a search
  ("we need restaurants"): `_self_described_offer` passes over it, and so does the property.
  A campaign without a number asks for 30 companies, so `MostCompanies` is at least 30.
* Two cases of `EnqueueLead` overlapped, and the definition left open which of them counts.
* `Held` was a fold, which the provers cannot unfold, and is a set of credits now; for the
  same reason the filters and `_round_robin` of `Discovery` are positions in an order (`At`,
  `Ordered`) and the merges name each field's donor (`Merge`) where they were folds over
  sequences.
* `ResolvedOnce` said that a chain of shared identifiers connects the records of a company.
  That held of the run's records and is false beyond them: `_merge` fills the country and
  the registration number separately, so that a company may state a pair that none of its
  records does.  The property is now stated of both steps, the records that share a site or
  a name and the companies made of them; the run has a ninth record for it, and `findings`
  the line.
* No source is called `seed_csv`: the records are typed by the sources' names, which shows
  that the user's own seeds (`csv_seed`) are not among those spared the relevance check, as
  `pipeline.py` means them to be.
* `RunCapRespected`, `ModelsAndMetersAgree` and `CapsHold` said more while a counter was
  thought to be cleared at midnight and a ledger to outlive its runner; with dates that
  statements bring along, and a ledger for each machine, what holds is bounded by the
  statements that land late, and by each machine's own history.
* Questions are typed (`QuestionsAssumption`); without a type an answer of any length, a
  label of two kinds or a record merged from unnumbered ones had to be allowed for.

**Only model-checked:** liveness, and everything about fairness: `NothingStaysBlocked`,
`RunEnds`, `GetsEnd`, `EveryoneEnds`.  Every other property of a passing run is a theorem.

## 5. Plan

1. *Done:* `Credits`, `LeadRun`, `Outreach`, `Fetching`, `Campaigns`, `Accounts`,
   `Connection` with its abstract `Storage`, `Mailboxes`, `Qualify`, and the pure
   computations, with their runs, and the proofs above.
2. *Done:* the safety properties of `Outreach`, `Mailboxes`, `Qualify` and `Accounts` as
   theorems, the holds of serial requests, and `Posting`, implemented by `Mailboxes`.
3. *Done:* every invariant of `Algorithms` as a theorem, for all questions.
4. `Delivery`: what the outreach promises a contact (each step at most once, nothing
   after a stop), as an abstract specification, and `Outreach` with disciplined
   handlers shown to implement it by a refinement mapping.
5. `stop_lead`'s two commits as two actions, with a crash between them; replies to leads
   that have no next step.
6. The page budget of the site crawler, redirect hops, the technologies and job boards
   as signals.

## 6. Not modelled

* *Patterns.*  Regular expressions and term lists of the natural-language parser, the
  reply classifier, the taxonomy and the site parser: the models take what they match.
  The dates in an out-of-office reply are not modelled either, only that there is one.
* *Arithmetic over floats:* the weights of the personalization model.
* *Wording:* message templates, prompts, campaign titles and search queries.
* *Pure output and input:* exports, the web front end, the remote directories of
  companies (any records), the loading of credentials and OAuth tokens.
* *Authentication:* the models take the caller as given.
* *Paths nothing calls:* `NewsChecker.mentions(wait=True)`.
* *Findings the runs could reach but no run shows,* because the passing runs state the
  weaker property that does hold: the cap that a late date passes, the ledger that is lost
  with its runner, a follow-up from another mailbox, a stop overwritten by an older copy, an
  accepted referral that is not eligible, a run that delivers more than was requested, prose
  that drops records, a bare stop under a subject.
* *Hazards that a property records rather than rules out.*  `NeverTwiceUnexcused` excuses a
  step whose delivery the runner died before recording; `StrangersNeedARace` does not speak
  of an owner's own edits that a run overwrites; `GuessesAreConfirmed` excuses a catch-all
  probe that failed and was cached; `SearchNeverSteals` speaks of domains found by search,
  not of those a redirect leads to.
* Two hazards have no property: see their notes in `PROJECT.json` and item 5 of the plan.
