------------------------------ MODULE Credits ------------------------------
(***************************************************************************)
(* Dispatching crawl runs and paying for them.                             *)
(*                                                                         *)
(* POST /campaigns/{id}/run (api/main.py, run_campaign) gates a run on the *)
(* caller's usage counters and credits, holds the credits the run may      *)
(* cost, hands the run to GitHub Actions and records its progress.  The    *)
(* runner (cli.py, _run) crawls for minutes to hours, bills the campaign's *)
(* owner for the leads it delivered and releases the hold.                 *)
(*                                                                         *)
(* Every Database method is one statement and one commit, and requests run *)
(* in separate serverless processes: an action below is one such commit,   *)
(* so that requests and runners interleave between any two of them.  A     *)
(* statement on usage_counts carries a date that its process took before:  *)
(* some day from that of its last commit to that of this one.              *)
(*                                                                         *)
(* A dispatch d is one call of run_campaign together with the runner it    *)
(* may start: req[d] is how far the request is, job[d] how far the runner. *)
(***************************************************************************)
EXTENDS UsageCounts, FiniteSets

CONSTANTS
  Users,         \* signed-in accounts, all of one tier
  Masters,       \* the accounts of GTM_UNLIMITED_EMAILS
  NoOne,         \* the local operator, and the owner of a shared campaign
  Campaigns,
  Owner,         \* [Campaigns -> Users \cup {NoOne}], campaigns.owner_id
  Deletable,     \* bound: the campaigns that somebody may delete
  Dispatches,    \* bound: the number of calls of run_campaign
  Earlier,       \* bound: those that were answered before the model starts
  Sizes,         \* the values max_companies takes in those calls
  AllowedSizes,  \* Tier.allowed_leads_per_run
  MonthlyCredits,
  DailyThrottle,
  RunsPerDay,    \* DEFAULT_LIMITS["runs"] or its override
  StaleAfter,    \* _STALE_AFTER, in ticks
  HoldTTL,       \* CREDIT_RESERVATION_TTL_HOURS, in ticks
  DayTicks,      \* ticks in a calendar day
  MonthDays,     \* days in a calendar month
  LastDay        \* bound: the day that does not end

Callers == Users \cup {NoOne}

ASSUME CallersAssumption ==
  /\ NoOne \notin Users
  /\ Masters \subseteq Users
  /\ Owner \in [Campaigns -> Callers]
  /\ Deletable \subseteq Campaigns
ASSUME SizesAssumption ==
  /\ Sizes \subseteq Nat \ {0}
  /\ AllowedSizes \subseteq Sizes
  /\ AllowedSizes # {}
ASSUME LimitsAssumption ==
  /\ MonthlyCredits \in Nat \ {0}
  /\ DailyThrottle \in Nat
  /\ RunsPerDay \in Nat
ASSUME ClockAssumption ==
  /\ StaleAfter \in Nat \ {0}
  /\ HoldTTL \in Nat \ {0}
  /\ DayTicks \in Nat \ {0}
  /\ MonthDays \in Nat \ {0}
  /\ LastDay \in Nat
ASSUME DispatchesAssumption == IsFiniteSet(Dispatches) /\ Earlier \subseteq Dispatches

VARIABLES
  call,      \* what each dispatch asks for: caller, campaign, max_companies
  req,       \* how far each request is in run_campaign
  since,     \* the day of the last commit of a request or runner that is
             \* about to date a statement
  seen,      \* the credit counters a request read before the gate
  job,       \* how far each runner is in _run
  ready,     \* outreach_ready leads a finished pipeline reports
  progress,  \* the run_progress row of each campaign
  usage,     \* the usage_counts rows "runs" and "credits" of each user
  hold,      \* the credit_reservations row of each dispatch
  deleted,   \* campaigns with deleted_at set
  clock,     \* hour of the day, and the day
  admitted,  \* observation: the dispatches counted against the runs limit, the
             \* date they carried and the date they found on the row
  unpaid     \* observation: dispatches that delivered leads nobody was
             \* billed for so far

apiVars == <<req, since, seen>>
jobVars == <<job, ready, unpaid>>
calendar == <<deleted, clock>>
counts == <<usage, admitted>>

vars == <<call, apiVars, jobVars, progress, counts, hold, calendar>>

-----------------------------------------------------------------------------
(* The rows and the states of requests and runners.                        *)

\* "over": the request was answered, or died, in a way nothing else can tell.
ReqStates ==
  {"new", "count", "read", "gate", "reserve", "dispatch", "refund",
   "announce", "refunded", "over"}

JobStates ==
  {"none", "queued", "running", "failing", "billing", "releasing",
   "done", "failed", "lost"}

HoldStates == {"none", "active", "consumed", "refunded", "expired"}

\* A usage_counts row, last_reset_date and last_reset_month included, and what
\* get_usage makes of it.
Counter == [daily : CountRow, monthly : CountRow]
NoCounter == [daily |-> NoCount, monthly |-> NoCount]

Balance == [daily : Nat, monthly : Nat]
NoBalance == [daily |-> 0, monthly |-> 0]

MonthOf(day) == day \div MonthDays

\* The date a statement may carry: read off the clock after the last commit.
Dates(d) == since[d]..clock.day

\* _require_access: a campaign is run by its owner, by anyone while it is
\* shared, and by the local operator.
MayRun(u, c) == u = NoOne \/ Owner[c] \in {u, NoOne}

Calls == {k \in [user : Callers, campaign : Campaigns, size : Sizes] :
            MayRun(k.user, k.campaign)}

\* Any call of a signed-in account will do for the earlier dispatches.
Asking ==
  {asked \in [Dispatches -> Calls] :
     \A d \in Earlier : asked[d] = CHOOSE k \in Calls : k.user \in Users}

\* user_id is None for the local operator; master accounts skip every quota.
Metered(d) == call[d].user \in Users \ Masters

\* The most outreach-ready leads a run of this size returns.  The expansion
\* loop stops once the target is met, but the batch that meets it is taken
\* whole: at most n - 1 leads before it and n in it (module LeadRun).
MaxReady(n) == 2 * n - 1

-----------------------------------------------------------------------------
(* usage_counts: check_and_increment_usage, consume_credits, get_usage.    *)

Bump(row, day, n) ==
  [daily |-> Added(row.daily, day, n), monthly |-> Added(row.monthly, MonthOf(day), n)]

BalanceOn(row, day) ==
  [daily |-> Reading(row.daily, day), monthly |-> Reading(row.monthly, MonthOf(day))]

\* _tier_monthly_runs: the credits at the tier's smallest run, rounded up.
RunsPerMonth ==
  LET smallest == CHOOSE n \in AllowedSizes : \A m \in AllowedSizes : n <= m
  IN (MonthlyCredits + smallest - 1) \div smallest

\* Faulty variant: the cap compared with <=.
UnderRunLimitOffByOne(row, day) ==
  /\ RunsPerDay > 0
  /\ HasRoom(row.daily, day, RunsPerDay + 1)
  /\ HasRoom(row.monthly, MonthOf(day), RunsPerMonth + 1)

UnderRunLimit(row, day) ==
  /\ RunsPerDay > 0
  /\ HasRoom(row.daily, day, RunsPerDay)
  /\ HasRoom(row.monthly, MonthOf(day), RunsPerMonth)

-----------------------------------------------------------------------------
(* credit_reservations.                                                    *)

\* Faulty variant: no cutoff.
CountsForEver(d) == hold[d].state = "active"

\* reserved_credits: an active row counts until it is HoldTTL old.
Counts(d) == hold[d].state = "active" /\ hold[d].age < HoldTTL

\* The credits of a hold, one by one, and how many a user's holds have together.
CreditsOf(d) == {d} \X (1..call[d].size)

Holding(u) == {d \in Dispatches : call[d].user = u /\ Counts(d)}

Held(u) == Cardinality(UNION {CreditsOf(d) : d \in Holding(u)})

\* A row in a state, of age 0; the age matters only while it is active.
Row(state) == [state |-> state, age |-> 0]

\* Faulty variant: no campaign in the WHERE clause.
ReleaseEveryCampaign(c, state) ==
  hold' = [d \in Dispatches |->
             IF hold[d].state = "active" THEN Row(state) ELSE hold[d]]

\* release_reservation: every active row of the campaign.
Release(c, state) ==
  hold' = [d \in Dispatches |->
             IF hold[d].state = "active" /\ call[d].campaign = c
             THEN Row(state)
             ELSE hold[d]]

\* reserve_credits: expire_stale_reservations, then the new row.
Reserve(d) ==
  hold' = [e \in Dispatches |->
             IF e = d THEN Row("active")
             ELSE IF hold[e].state = "active" /\ hold[e].age >= HoldTTL
             THEN Row("expired")
             ELSE hold[e]]

-----------------------------------------------------------------------------
(* run_progress.                                                           *)

\* The stage is "live" for every stage that is neither missing, "completed"
\* nor "failed", which are all "over" to _run_is_active.
Active(c) == progress[c].stage = "live" /\ progress[c].age < StaleAfter

SetProgress(c, stage) ==
  progress' = [progress EXCEPT ![c] = [stage |-> stage, age |-> 0]]

-----------------------------------------------------------------------------
\* The dispatches of a user that passed check_usage: in all, with a date, with
\* a date of a month; and those whose statement landed with an older date, or
\* with the date of an earlier month, than another one had left on the row.
Admitted(u) == {a \in admitted : call[a.by].user = u}
AdmittedOn(u, day) == {a \in Admitted(u) : a.on = day}
AdmittedIn(u, month) == {a \in Admitted(u) : MonthOf(a.on) = month}
LateByDays(u) == {a \in Admitted(u) : a.on < a.found}
LateByMonths(u) == {a \in Admitted(u) : MonthOf(a.on) < MonthOf(a.found)}

\* The row "runs" of a user when the model starts: the earlier dispatches that
\* passed check_usage did so on the first day, within both limits.
EarlierRuns(u) ==
  LET counted == [at |-> 0, n |-> Cardinality(Admitted(u))]
  IN [daily |-> counted, monthly |-> counted]

Init ==
  /\ call \in Asking
  /\ req = [d \in Dispatches |-> IF d \in Earlier THEN "over" ELSE "new"]
  /\ since = [d \in Dispatches |-> 0]
  /\ seen = [d \in Dispatches |-> NoBalance]
  /\ job = [d \in Dispatches |-> "none"]
  /\ ready = [d \in Dispatches |-> 0]
  /\ progress = [c \in Campaigns |-> [stage |-> "over", age |-> 0]]
  /\ admitted \in SUBSET {[by |-> d, on |-> 0, found |-> 0] : d \in Earlier}
  /\ \A u \in Users : Cardinality(Admitted(u)) <= RunsPerDay
                      /\ Cardinality(Admitted(u)) <= RunsPerMonth
  /\ usage = [u \in Users |-> [runs |-> EarlierRuns(u), credits |-> NoCounter]]
  /\ hold = [d \in Dispatches |-> Row("none")]
  /\ deleted = {}
  /\ clock = [hour |-> 0, day |-> 0]
  /\ unpaid = {}

-----------------------------------------------------------------------------
(* run_campaign.                                                           *)

Goto(d, state) == req' = [req EXCEPT ![d] = state]

\* The day matters to the commits that date a statement next.
Stamp(d) == since' = [since EXCEPT ![d] = clock.day]
Unstamp(d) == since' = [since EXCEPT ![d] = 0]

\* _campaign (404 once deleted) and the one-run-at-a-time guard (409).
CheckActive(d) ==
  LET c == call[d].campaign
      ok == c \notin deleted /\ ~Active(c)
  IN /\ req[d] = "new"
     /\ \/ /\ ok /\ Metered(d)
           /\ Goto(d, "count") /\ Stamp(d)
        \/ /\ ~(ok /\ Metered(d))
           /\ Goto(d, IF ok THEN "dispatch" ELSE "over") /\ UNCHANGED since
     /\ UNCHANGED <<call, seen, jobVars, progress, counts, hold, calendar>>

\* check_usage(db, user_id, "runs"): one conditional upsert; 429 when at the cap.
CountRun(d) ==
  LET u == call[d].user
      row == usage[u].runs
  IN /\ req[d] = "count"
     /\ \E day \in Dates(d) :
          \/ /\ UnderRunLimit(row, day)
             /\ usage' = [usage EXCEPT ![u].runs = Bump(row, day, 1)]
             /\ admitted' = admitted \cup {[by |-> d, on |-> day, found |-> row.daily.at]}
             /\ Goto(d, "read") /\ Stamp(d)
          \/ /\ ~UnderRunLimit(row, day)
             /\ Goto(d, "over") /\ Unstamp(d)
             /\ UNCHANGED counts
     /\ UNCHANGED <<call, seen, jobVars, progress, hold, calendar>>

\* An explicit size off the tier's list is refused (400); the campaign's own
\* default is not checked against the list.
RefuseSize(d) ==
  /\ req[d] = "read"
  /\ call[d].size \notin AllowedSizes
  /\ Goto(d, "over") /\ Unstamp(d)
  /\ UNCHANGED <<call, seen, jobVars, progress, counts, hold, calendar>>

\* credit_status, first statement: get_usage.
ReadCredits(d) ==
  /\ req[d] = "read"
  /\ \E day \in Dates(d) :
       seen' = [seen EXCEPT ![d] = BalanceOn(usage[call[d].user].credits, day)]
  /\ Goto(d, "gate") /\ Unstamp(d)
  /\ UNCHANGED <<call, jobVars, progress, counts, hold, calendar>>

\* Faulty variant: the gate before reservations existed.
AffordsWithoutHolds(d) ==
  /\ seen[d].monthly + call[d].size <= MonthlyCredits
  /\ seen[d].daily + call[d].size <= DailyThrottle

\* credit_status, second statement: reserved_credits; then the gate (402, 429).
Affords(d) ==
  LET held == Held(call[d].user)
  IN /\ seen[d].monthly + held + call[d].size <= MonthlyCredits
     /\ seen[d].daily + held + call[d].size <= DailyThrottle

Gate(d) ==
  /\ req[d] = "gate"
  /\ Goto(d, IF Affords(d) THEN "reserve" ELSE "over")
  /\ seen' = [seen EXCEPT ![d] = NoBalance]
  /\ UNCHANGED <<call, since, jobVars, progress, counts, hold, calendar>>

HoldCredits(d) ==
  /\ req[d] = "reserve"
  /\ Reserve(d)
  /\ Goto(d, "dispatch")
  /\ UNCHANGED <<call, since, seen, jobVars, progress, counts, calendar>>

\* dispatch_workflow: GitHub accepts the run and the answer arrives.
DispatchOK(d) ==
  /\ req[d] = "dispatch"
  /\ job' = [job EXCEPT ![d] = "queued"]
  /\ Goto(d, "announce")
  /\ UNCHANGED <<call, since, seen, ready, progress, counts, hold, calendar, unpaid>>

\* dispatch_workflow raises.  After a time-out GitHub may have accepted the
\* run all the same.  The hold is given back only if one was taken.
DispatchRaises(d) ==
  /\ req[d] = "dispatch"
  /\ \E accepted \in BOOLEAN :
       job' = [job EXCEPT ![d] = IF accepted THEN "queued" ELSE "none"]
  /\ Goto(d, IF Metered(d) THEN "refund" ELSE "over")
  /\ UNCHANGED <<call, since, seen, ready, progress, counts, hold, calendar, unpaid>>

RefundRequest(d) ==
  /\ req[d] = "refund"
  /\ Release(call[d].campaign, "refunded")
  /\ Goto(d, "refunded")
  /\ UNCHANGED <<call, since, seen, jobVars, progress, counts, calendar>>

\* set_run_progress(..., "starting", ...), the last write of the request.
Announce(d) ==
  /\ req[d] = "announce"
  /\ SetProgress(call[d].campaign, "live")
  /\ Goto(d, "over")
  /\ UNCHANGED <<call, since, seen, jobVars, counts, hold, calendar>>

\* The serverless process ends, or a statement raises, between two commits.
RequestCrash(d) ==
  /\ req[d] \in {"count", "read", "gate", "reserve", "dispatch", "refund", "announce"}
  /\ Goto(d, "over") /\ Unstamp(d)
  /\ UNCHANGED <<call, seen, jobVars, progress, counts, hold, calendar>>

-----------------------------------------------------------------------------
(* The Actions runner: cli.py, _run, under gather-leads.yml.               *)

Step(d, from, to) ==
  /\ job[d] = from
  /\ job' = [job EXCEPT ![d] = to]

AtWork == {"running", "failing", "billing", "releasing"}

\* The workflow's concurrency group: one runner per campaign.
StartJob(d) ==
  /\ \A e \in Dispatches \ {d} :
       call[e].campaign = call[d].campaign => job[e] \notin AtWork
  /\ Step(d, "queued", "running")
  /\ UNCHANGED <<call, apiVars, ready, progress, counts, hold, calendar, unpaid>>

\* _make_progress, called by the pipeline while it works.
Report(d) ==
  /\ job[d] = "running"
  /\ SetProgress(call[d].campaign, "live")
  /\ UNCHANGED <<call, apiVars, jobVars, counts, hold, calendar>>

\* pipeline.run raises: progress "failed", then the hold is refunded.
PipelineRaises(d) ==
  /\ Step(d, "running", "failing")
  /\ SetProgress(call[d].campaign, "over")
  /\ UNCHANGED <<call, apiVars, ready, counts, hold, calendar, unpaid>>

RefundJob(d) ==
  /\ Step(d, "failing", "failed")
  /\ Release(call[d].campaign, "refunded")
  /\ UNCHANGED <<call, apiVars, ready, progress, counts, calendar, unpaid>>

\* pipeline.run returns: progress "completed" is written before the billing.
PipelineReturns(d) ==
  /\ Step(d, "running", "billing")
  /\ \E n \in 0..MaxReady(call[d].size) :
       /\ ready' = [ready EXCEPT ![d] = n]
       /\ unpaid' = IF n > 0 THEN unpaid \cup {d} ELSE unpaid
  /\ SetProgress(call[d].campaign, "over")
  /\ Stamp(d)
  /\ UNCHANGED <<call, req, seen, counts, hold, calendar>>

\* Faulty variant: leads past the tier's allowance are not recorded.
BillOwnerWithinTier(d) ==
  LET c == call[d].campaign
      owner == IF c \in deleted THEN NoOne ELSE Owner[c]
  IN /\ Step(d, "billing", "releasing")
     /\ \/ /\ owner # NoOne /\ ready[d] > 0
           /\ usage[owner].credits.monthly.n + ready[d] <= MonthlyCredits
           /\ \E day \in Dates(d) :
                usage' = [usage EXCEPT ![owner].credits = Bump(@, day, ready[d])]
           /\ unpaid' = unpaid \ {d}
        \/ /\ owner # NoOne
              => usage[owner].credits.monthly.n + ready[d] > MonthlyCredits
           /\ UNCHANGED <<usage, unpaid>>
     /\ ready' = [ready EXCEPT ![d] = 0]
     /\ Unstamp(d)
     /\ UNCHANGED <<call, req, seen, progress, hold, calendar, admitted>>

\* campaign_owner (NULL for a shared or deleted campaign), consume_credits.
BillOwner(d) ==
  LET c == call[d].campaign
      owner == IF c \in deleted THEN NoOne ELSE Owner[c]
  IN /\ Step(d, "billing", "releasing")
     /\ \/ /\ owner # NoOne /\ ready[d] > 0
           /\ \E day \in Dates(d) :
                usage' = [usage EXCEPT ![owner].credits = Bump(@, day, ready[d])]
           /\ unpaid' = unpaid \ {d}
        \/ /\ owner = NoOne \/ ready[d] = 0
           /\ UNCHANGED <<usage, unpaid>>
     /\ ready' = [ready EXCEPT ![d] = 0]
     /\ Unstamp(d)
     /\ UNCHANGED <<call, req, seen, progress, hold, calendar, admitted>>

\* Faulty variant: the runner ends without releasing.
SettleJobKeepsHold(d) ==
  /\ Step(d, "releasing", "done")
  /\ UNCHANGED <<call, apiVars, ready, unpaid, progress, counts, hold, calendar>>

SettleJob(d) ==
  /\ Step(d, "releasing", "done")
  /\ Release(call[d].campaign, "consumed")
  /\ UNCHANGED <<call, apiVars, ready, progress, counts, calendar, unpaid>>

\* A queued run is cancelled (GitHub keeps one pending run per group), or the
\* runner is cancelled, times out (timeout-minutes: 90) or dies.
LoseJob(d) ==
  /\ job[d] \in {"queued"} \cup AtWork
  /\ job' = [job EXCEPT ![d] = "lost"]
  /\ Unstamp(d)
  /\ UNCHANGED <<call, req, seen, ready, progress, counts, hold, calendar, unpaid>>

-----------------------------------------------------------------------------
(* DELETE /campaigns/{id} and the passing of time.                         *)

DeleteCampaign(c) ==
  /\ c \in Deletable \ deleted
  /\ deleted' = deleted \cup {c}
  /\ UNCHANGED <<call, apiVars, jobVars, progress, counts, hold, clock>>

\* The age of a row matters up to the bound it is compared with, and only
\* while the row is live or active.
Older(row, bound) == [row EXCEPT !.age = IF @ < bound THEN @ + 1 ELSE @]

\* Midnight changes no row.
Tick ==
  /\ clock' = IF clock.hour < DayTicks - 1 \/ clock.day = LastDay
              THEN [clock EXCEPT !.hour = IF @ < DayTicks - 1 THEN @ + 1 ELSE @]
              ELSE [hour |-> 0, day |-> clock.day + 1]
  /\ progress' = [c \in Campaigns |->
                    IF progress[c].stage = "live"
                    THEN Older(progress[c], StaleAfter) ELSE progress[c]]
  /\ hold' = [d \in Dispatches |->
                IF hold[d].state = "active"
                THEN Older(hold[d], HoldTTL) ELSE hold[d]]
  /\ UNCHANGED <<call, apiVars, jobVars, counts, deleted>>

-----------------------------------------------------------------------------
Request(d) ==
  \/ CheckActive(d) \/ CountRun(d) \/ RefuseSize(d) \/ ReadCredits(d) \/ Gate(d)
  \/ HoldCredits(d) \/ DispatchOK(d) \/ DispatchRaises(d) \/ RefundRequest(d)
  \/ Announce(d) \/ RequestCrash(d)

Runner(d) ==
  \/ StartJob(d) \/ Report(d) \/ PipelineRaises(d) \/ RefundJob(d)
  \/ PipelineReturns(d) \/ BillOwner(d) \/ SettleJob(d) \/ LoseJob(d)

Next ==
  \/ \E d \in Dispatches : Request(d) \/ Runner(d)
  \/ \E c \in Campaigns : DeleteCampaign(c)
  \/ Tick

Spec == Init /\ [][Next]_vars

\* Time passes, and no runner stays in the pipeline for ever: it returns,
\* raises or is stopped by the workflow's timeout-minutes.  Nothing obliges a
\* request to go on, GitHub to start a run, or a runner to survive.
LeavesPipeline(d) ==
  job[d] = "running" /\ (PipelineRaises(d) \/ PipelineReturns(d) \/ LoseJob(d))

Fairness ==
  /\ WF_vars(Tick)
  /\ \A d \in Dispatches : WF_vars(LeavesPipeline(d))

FairSpec == Spec /\ Fairness

\* The gate and the reservation of one user's requests do not overlap.
GateExclusive ==
  \A d, e \in Dispatches :
    /\ req[d] \in {"gate", "reserve"} /\ req[e] \in {"gate", "reserve"}
    /\ call[d].user = call[e].user
    => d = e

\* Requests serialised that way; runners and the clock are not.  Not what the
\* code guarantees: what it would take for the holds to stay within the tier.
SerialSpec == Init /\ [][Next /\ GateExclusive']_vars /\ Fairness

-----------------------------------------------------------------------------
(* What must hold.                                                         *)

\* Every variable holds the rows and states the code gives it.
TypeOK ==
  /\ call \in [Dispatches -> Calls]
  /\ req \in [Dispatches -> ReqStates]
  /\ since \in [Dispatches -> Nat]
  /\ seen \in [Dispatches -> Balance]
  /\ job \in [Dispatches -> JobStates]
  /\ ready \in [Dispatches -> Nat]
  /\ progress \in [Campaigns -> [stage : {"over", "live"}, age : Nat]]
  /\ usage \in [Users -> [runs : Counter, credits : Counter]]
  /\ hold \in [Dispatches -> [state : HoldStates, age : Nat]]
  /\ deleted \subseteq Campaigns
  /\ clock \in [hour : Nat, day : Nat]
  /\ admitted \subseteq [by : Dispatches, on : Nat, found : Nat]
  /\ unpaid \subseteq Dispatches

\* A run gave up its hold: its runner released it, or its request took it back.
GivenUp(d) == job[d] \in {"done", "failed"} \/ req[d] = "refunded"

\* What is left of "two concurrent requests can't both read an under-limit count
\* and both proceed" (check_and_increment_usage) around midnight: a statement
\* that lands with yesterday's date on a row of today starts the count of
\* yesterday anew, and the next one of today that of today.  So a user gets no
\* more dispatches with one date, or one month, past the check than the limit,
\* plus the limit once more for every statement that landed that late.
RunCapRespected ==
  \A u \in Users, a \in admitted :
    /\ Cardinality(AdmittedOn(u, a.on))
         <= RunsPerDay * (1 + Cardinality(LateByDays(u)))
    /\ Cardinality(AdmittedIn(u, MonthOf(a.on)))
         <= RunsPerMonth * (1 + Cardinality(LateByMonths(u)))

\* Nothing stays held for a run that is over: once the runner reported the end
\* of the run, or the request took its hold back, its row is not active,
\* whatever was dispatched, refunded or billed for the campaign meanwhile.
EndedRunHoldsNothing ==
  \A d \in Dispatches :
    GivenUp(d) => hold[d].state # "active"

\* A hold that its own run has not given up was dropped by another run of the
\* same campaign (release_reservation works on the campaign), or expired: no
\* run loses its hold to another campaign's billing or refund.
HoldDroppedOnlyBySibling ==
  \A d \in Dispatches :
    hold[d].state \in {"consumed", "refunded"} =>
      \E e \in Dispatches : call[e].campaign = call[d].campaign /\ GivenUp(e)

\* Delivered leads are paid for: a runner that got to the end of _run billed
\* the owner, unless the campaign has none or was deleted under the run.
DoneMeansCharged ==
  \A d \in Dispatches :
    /\ job[d] = "done"
    /\ Owner[call[d].campaign] # NoOne
    /\ call[d].campaign \notin deleted
    => d \notin unpaid

\* A row that left the state active never changes again: releases after the
\* first, and the sweep of stale rows, find nothing to do.
SettledHoldsStaySettled ==
  [][\A d \in Dispatches :
       hold[d].state \in {"consumed", "refunded", "expired"}
         => hold'[d] = hold[d]]_hold

\* Nothing stays blocked for ever, whatever became of the request and of the
\* runner that reported last: the one-run-at-a-time guard lets a dispatch of the
\* campaign through again, and a hold stops counting against its user.
NothingStaysBlocked ==
  /\ \A c \in Campaigns : []<>~Active(c)
  /\ \A d \in Dispatches : []<>~Counts(d)

\* What a user's runs in flight hold never exceeds the tier (the race the
\* reservations were introduced to close, database.py above the table).
HeldWithinTier ==
  \A u \in Users : Held(u) <= MonthlyCredits /\ Held(u) <= DailyThrottle

=============================================================================
