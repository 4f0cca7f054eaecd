------------------------------ MODULE Fetching ------------------------------
(***************************************************************************)
(* The polite HTTP client all workers of a run share: HttpFetcher.get      *)
(* (scraping/fetcher.py).                                                  *)
(*                                                                         *)
(* A get resolves the host, asks the breaker of the host and its           *)
(* robots.txt whether it may go on, takes one of the client's slots, and   *)
(* then makes up to MaxRetries + 1 requests, each under the host's lock and *)
(* after the pause that the host is owed.  It keeps its slot, but not the  *)
(* lock, while it rests between two attempts.                              *)
(*                                                                         *)
(* Everything runs in one event loop: what a get does between two awaits   *)
(* is one action.  Requests for robots.txt, and those that follow a        *)
(* redirect, are neither paced nor counted, and do not appear as hits.     *)
(***************************************************************************)
EXTENDS Integers, FiniteSets

CONSTANTS
  Workers,       \* coroutines that call get, one call at a time
  Hosts,
  Calls,         \* the gets made: host, api flag and delay in ticks
  Nothing,       \* what an idle worker calls
  Gets,          \* bound: the calls the workers make between them
  Concurrency,   \* settings.concurrency
  MaxRetries,    \* settings.max_retries
  FailureLimit,  \* settings.host_failure_limit
  LongestDelay   \* bound: ticks after which a pause since the last hit is over

ASSUME CallsAssumption ==
  /\ Calls \subseteq [host : Hosts, api : BOOLEAN, delay : 0..LongestDelay]
  /\ Calls # {}
ASSUME LimitsAssumption ==
  /\ IsFiniteSet(Workers)
  /\ Gets \in Nat
  /\ Concurrency \in Nat \ {0}
  /\ MaxRetries \in Nat
  /\ FailureLimit \in Nat \ {0}
  /\ LongestDelay \in Nat

VARIABLES
  at,        \* where each worker is in get
  call,      \* the get it makes, if any
  attempt,   \* its failed attempts
  wait,      \* ticks of its pause that are left
  left,      \* gets still to be made
  failures,  \* _host_failures
  robots,    \* _robots
  since      \* ticks since _last_hit

vars == <<at, call, attempt, wait, left, failures, robots, since>>
client == <<failures, robots, since>>

-----------------------------------------------------------------------------
Places == {"idle", "resolving", "robots", "queued", "locking", "pausing",
           "requesting", "resting"}

\* What is known of a host's robots.txt.  A file that cannot be read, or is
\* none, counts as absent for the rest of the run.  Whether a file disallows
\* what is asked for is a choice.
Rules == {"unread", "absent", "allow", "forbid"}

Host(w) == call[w].host

\* Inside the client's semaphore, and inside the host's lock.
HasSlot(w) == at[w] \in {"locking", "pausing", "requesting", "resting"}
HasLock(w) == at[w] \in {"pausing", "requesting"}

Goto(w, place) == at' = [at EXCEPT ![w] = place]

\* get returns.
Return(w) ==
  /\ Goto(w, "idle")
  /\ call' = [call EXCEPT ![w] = Nothing]
  /\ attempt' = [attempt EXCEPT ![w] = 0]

Init ==
  /\ at = [w \in Workers |-> "idle"]
  /\ call = [w \in Workers |-> Nothing]
  /\ attempt = [w \in Workers |-> 0]
  /\ wait = [w \in Workers |-> 0]
  /\ left = Gets
  /\ failures = [h \in Hosts |-> 0]
  /\ robots = [h \in Hosts |-> "unread"]
  /\ since = [h \in Hosts |-> LongestDelay]

-----------------------------------------------------------------------------
(* Before the semaphore.                                                   *)

\* get is called; the host is resolved.
Call(w) ==
  /\ at[w] = "idle" /\ left > 0
  /\ left' = left - 1
  /\ \E c \in Calls : call' = [call EXCEPT ![w] = c]
  /\ Goto(w, "resolving")
  /\ UNCHANGED <<attempt, wait, client>>

\* Faulty variant: one failure more than the limit.
OpenOffByOne(h) == failures[h] > FailureLimit

\* The breaker of the host.
Open(h) == failures[h] >= FailureLimit

\* The address is not public, or the breaker is open.
Refuse(w) ==
  /\ at[w] = "resolving"
  /\ Return(w)
  /\ UNCHANGED <<wait, left, client>>

\* Faulty variant: API calls are exempt from the breaker as from robots.txt.
PassGateApiExempt(w) ==
  /\ at[w] = "resolving"
  /\ ~Open(Host(w)) \/ call[w].api
  /\ Goto(w, "queued")
  /\ UNCHANGED <<call, attempt, wait, left, client>>

\* The breaker is closed; _allowed, as far as it needs no await.
PassGate(w) ==
  /\ at[w] = "resolving" /\ ~Open(Host(w))
  /\ \/ /\ ~call[w].api /\ robots[Host(w)] = "unread"
        /\ Goto(w, "robots") /\ UNCHANGED <<call, attempt>>
     \/ /\ call[w].api \/ robots[Host(w)] \in {"absent", "allow"}
        /\ Goto(w, "queued") /\ UNCHANGED <<call, attempt>>
     \/ /\ ~call[w].api /\ robots[Host(w)] = "forbid"
        /\ Return(w)
  /\ UNCHANGED <<wait, left, client>>

\* _load_robots returns.  Several workers may be loading one file, and each
\* stores what it got: a failed load replaces rules read meanwhile.
LoadRobots(w) ==
  /\ at[w] = "robots"
  /\ \/ /\ \E r \in {"absent", "allow"} : robots' = [robots EXCEPT ![Host(w)] = r]
        /\ Goto(w, "queued") /\ UNCHANGED <<call, attempt>>
     \/ /\ robots' = [robots EXCEPT ![Host(w)] = "forbid"]
        /\ Return(w)
  /\ UNCHANGED <<wait, left, failures, since>>

-----------------------------------------------------------------------------
(* Inside the semaphore.                                                   *)

EnterSlot(w) ==
  /\ at[w] = "queued"
  /\ Cardinality({v \in Workers : HasSlot(v)}) < Concurrency
  /\ Goto(w, "locking")
  /\ UNCHANGED <<call, attempt, wait, left, client>>

\* Faulty variant: the pause is computed and waited for outside the lock.
EnterLockAnyTime(w) ==
  /\ at[w] = "locking"
  /\ LET owed == call[w].delay - since[Host(w)]
     IN wait' = [wait EXCEPT ![w] = IF owed > 0 THEN owed ELSE 0]
  /\ Goto(w, "pausing")
  /\ UNCHANGED <<call, attempt, left, client>>

\* The lock of the host is free; _throttle computes the pause.
EnterLock(w) ==
  /\ at[w] = "locking"
  /\ \A v \in Workers : HasLock(v) => Host(v) # Host(w)
  /\ LET owed == call[w].delay - since[Host(w)]
     IN wait' = [wait EXCEPT ![w] = IF owed > 0 THEN owed ELSE 0]
  /\ Goto(w, "pausing")
  /\ UNCHANGED <<call, attempt, left, client>>

\* The pause is over: _last_hit, and the request.
Hit(w) ==
  /\ at[w] = "pausing" /\ wait[w] = 0
  /\ since' = [since EXCEPT ![Host(w)] = 0]
  /\ Goto(w, "requesting")
  /\ UNCHANGED <<call, attempt, wait, left, failures, robots>>

\* An answer that is not retried: a 2xx or 3xx clears the failures, a refusal
\* counts as one, anything else (and an exception that is not httpx's own)
\* leaves them alone.
Answer(w) ==
  /\ at[w] = "requesting"
  /\ \E n \in {0, failures[Host(w)], failures[Host(w)] + 1} :
       failures' = [failures EXCEPT ![Host(w)] = n]
  /\ Return(w)
  /\ UNCHANGED <<wait, left, robots, since>>

\* Faulty variant: the attempts are not counted.
RetryForEver(w) ==
  /\ at[w] = "requesting" /\ attempt[w] < MaxRetries
  /\ Goto(w, "resting")
  /\ UNCHANGED <<call, attempt, wait, left, client>>

\* A time-out, a transport error or a retryable status, with attempts left.
Retry(w) ==
  /\ at[w] = "requesting" /\ attempt[w] < MaxRetries
  /\ attempt' = [attempt EXCEPT ![w] = @ + 1]
  /\ Goto(w, "resting")
  /\ UNCHANGED <<call, wait, left, client>>

GiveUp(w) ==
  /\ at[w] = "requesting" /\ attempt[w] = MaxRetries
  /\ failures' = [failures EXCEPT ![Host(w)] = @ + 1]
  /\ Return(w)
  /\ UNCHANGED <<wait, left, robots, since>>

\* The backoff is over.
Again(w) ==
  /\ at[w] = "resting"
  /\ Goto(w, "locking")
  /\ UNCHANGED <<call, attempt, wait, left, client>>

Tick ==
  /\ since' = [h \in Hosts |-> IF since[h] < LongestDelay THEN since[h] + 1 ELSE since[h]]
  /\ wait' = [w \in Workers |-> IF wait[w] > 0 THEN wait[w] - 1 ELSE 0]
  /\ UNCHANGED <<at, call, attempt, left, failures, robots>>

-----------------------------------------------------------------------------
Advance(w) ==
  \/ Refuse(w) \/ PassGate(w) \/ LoadRobots(w) \/ EnterSlot(w) \/ EnterLock(w)
  \/ Hit(w) \/ Answer(w) \/ Retry(w) \/ GiveUp(w) \/ Again(w)

Next == Tick \/ \E w \in Workers : Call(w) \/ Advance(w)

Spec == Init /\ [][Next]_vars

\* Every await ends: DNS, the request and the pauses are bounded in time, and a
\* free semaphore or lock lets a waiter in.  (asyncio's let them in first come,
\* first served, which matters only to an endless stream of gets; the bound
\* excludes one.)
FairSpec == Spec /\ WF_vars(Tick) /\ \A w \in Workers : WF_vars(Advance(w))

-----------------------------------------------------------------------------
(* What must hold.                                                         *)

\* Every variable holds what the code gives it; no get tries more often than
\* max_retries allows.
TypeOK ==
  /\ at \in [Workers -> Places]
  /\ call \in [Workers -> Calls \cup {Nothing}]
  /\ \A w \in Workers : at[w] # "idle" => call[w] \in Calls
  /\ attempt \in [Workers -> 0..MaxRetries]
  /\ wait \in [Workers -> 0..LongestDelay]
  /\ left \in 0..Gets
  /\ failures \in [Hosts -> Nat]
  /\ robots \in [Hosts -> Rules]
  /\ since \in [Hosts -> 0..LongestDelay]

\* Past the breaker: the count it was let through on may be out of date.
Past(w) == at[w] \notin {"idle", "resolving"}

\* A dead host consumes a bounded part of the run (config/schema.py,
\* host_failure_limit): the breaker is asked before the semaphore, so gets that
\* queued earlier still fail, but at most one for each worker beyond the limit.
FailuresBounded == \A h \in Hosts : failures[h] < FailureLimit + Cardinality(Workers)

\* The breaker is open and nobody who passed it earlier is left.
Abandoned(h) == Open(h) /\ \A w \in Workers : Past(w) => Host(w) # h

\* A host that is abandoned stays so for the rest of the run: no answer, late
\* or not, opens it again once the last early get is over.
AbandonedForGood == [][\A h \in Hosts : Abandoned(h) => Abandoned(h)']_vars

\* The courtesy delay (per_host_delay_s): whoever asked a host last, and with
\* whatever delay, a get hits it only after its own delay has passed.
HitsAreSpaced ==
  [][\A w \in Workers :
       at[w] = "pausing" /\ at'[w] = "requesting" => since[Host(w)] >= call[w].delay]_vars

\* Slots, locks, pauses and retries never wait for each other for ever.
GetsEnd == \A w \in Workers : at[w] # "idle" ~> at[w] = "idle"

=============================================================================
