------------------------------ MODULE LeadRun ------------------------------
(***************************************************************************)
(* One crawl run inside the runner: Pipeline.run (pipeline.py).            *)
(*                                                                         *)
(* The run takes a batch of the discovered companies, works on it with a   *)
(* bounded number of concurrent workers, and takes further batches from    *)
(* the pool until it has the leads it was asked for, reached its crawl     *)
(* ceiling or emptied the pool.  Then it drops the leads that fail the     *)
(* campaign's hard filters and counts the outreach-ready ones left over:   *)
(* the number the owner is billed for (module Credits, PipelineReturns).   *)
(*                                                                         *)
(* Workers are coroutines of one event loop: what one does between two     *)
(* awaits is one action here.  The order in which discovery lists the      *)
(* companies is arbitrary, except that those with a website come first, so *)
(* pool and batch are sets and only that order is kept.                    *)
(***************************************************************************)
EXTENDS Integers, FiniteSets

CONSTANTS
  Companies,    \* the discovered companies, after resolve_entities
  WithSite,     \* those whose record carries a website
  Domains,      \* the web sites' domains
  Keys,         \* company keys: a domain, or name and city without one
  OwnKey,       \* [Companies -> Keys], company_key of the record
  AnswersAt,    \* [Keys -> Keys], the domain a crawl of a site ends on
  Requested,    \* max_companies
  Floor,        \* min_outreach_ready
  Unset,        \* min_outreach_ready is None
  CrawlBudget,  \* int(max_companies * max_expansion_multiplier)
  Concurrency,  \* settings.concurrency
  FinderBudget, \* settings.website_finder_max_per_run
  HardFilters   \* whether the campaign has hard filters

ASSUME CompaniesAssumption ==
  /\ IsFiniteSet(Companies)
  /\ WithSite \subseteq Companies
  /\ Domains \subseteq Keys
  /\ OwnKey \in [Companies -> Keys]
\* A site that answers for another does not itself redirect, and without a
\* website nothing does.
ASSUME RedirectAssumption ==
  /\ AnswersAt \in [Keys -> Keys]
  /\ \A k \in Keys \ Domains : AnswersAt[k] = k
  /\ \A k \in Keys : AnswersAt[AnswersAt[k]] = AnswersAt[k]
ASSUME BoundsAssumption ==
  /\ Requested \in Nat \ {0}
  /\ Floor \in Nat \cup {Unset}
  /\ Unset \notin Nat
  /\ CrawlBudget \in Nat
  /\ Concurrency \in Nat \ {0}
  /\ FinderBudget \in Nat
  /\ HardFilters \in BOOLEAN

VARIABLES
  phase,     \* how far run() is
  at,        \* where each company is
  key,       \* the key process_company uses for it
  seen,      \* seen_keys
  budget,    \* _website_finder_budget
  processed, \* stats.processed
  ready,     \* stats.outreach_ready
  good,      \* companies whose lead has outreach_ready set
  filed,     \* companies whose lead reached the leads table
  returned   \* companies whose leads the run returns

vars == <<phase, at, key, seen, budget, processed, ready, good, filed, returned>>
tally == <<processed, ready, good, filed>>

-----------------------------------------------------------------------------
Places == {"pool", "dead", "queued", "finding", "crawling", "scoring",
           "lead", "duplicate", "error"}

In(place) == {c \in Companies : at[c] = place}

\* Workers inside the semaphore.
Working == {c \in Companies : at[c] \in {"finding", "crawling", "scoring"}}

\* What is left of the batch.
Busy == In("queued") \cup Working

AtMost(m, n) == IF m < n THEN m ELSE n

\* stats.min_target
Target == IF Floor = Unset THEN Requested ELSE AtMost(Floor, Requested)

\* expansion_ceiling
Ceiling == IF CrawlBudget > Requested THEN CrawlBudget ELSE Requested

\* _take_live: the batches and dead companies that screening a pool for at
\* most limit companies can end with.  With no more sites than places nothing
\* is screened.  Otherwise sites are screened until the places are filled or
\* none is left, and only then do companies without a site get a place.
TakeLive(pool, limit) ==
  LET sited == pool \cap WithSite
      bare == pool \ WithSite
  IN {t \in [batch : SUBSET pool, dead : SUBSET sited] :
        LET live == t.batch \cap WithSite
            n == Cardinality(live)
        IN /\ Cardinality(t.batch) <= limit
           /\ t.dead \cap live = {}
           /\ \/ /\ Cardinality(sited) <= limit
                 /\ t.dead = {} /\ live = sited
                 /\ Cardinality(t.batch) = AtMost(limit, Cardinality(pool))
              \/ /\ Cardinality(sited) > limit
                 /\ n = limit \/ live \cup t.dead = sited
                 /\ Cardinality(t.batch) = AtMost(limit, n + Cardinality(bare))}

\* The leftover stays in the pool.
Take(t) ==
  at' = [c \in Companies |-> IF c \in t.batch THEN "queued"
                             ELSE IF c \in t.dead THEN "dead" ELSE at[c]]

Init ==
  /\ phase = "discovered"
  /\ at = [c \in Companies |-> "pool"]
  /\ key = OwnKey
  /\ seen = {}
  /\ budget = FinderBudget
  /\ processed = 0
  /\ ready = 0
  /\ good = {}
  /\ filed = {}
  /\ returned = {}

-----------------------------------------------------------------------------
(* run: the rounds.                                                        *)

FirstBatch ==
  /\ phase = "discovered"
  /\ \E t \in TakeLive(In("pool"), Requested) : Take(t)
  /\ phase' = "round"
  /\ UNCHANGED <<key, seen, budget, tally, returned>>

\* Faulty variant: only the ceiling ends the expansion.
SatisfiedByCeiling ==
  Target = 0 \/ processed >= Ceiling \/ In("pool") = {}

\* The loop's first break.
Satisfied ==
  \/ Target = 0 \/ ready >= Target
  \/ processed >= Ceiling
  \/ In("pool") = {}

\* Faulty variant: every round takes a whole max_companies.
NextLimitUnbounded == Requested

NextLimit == AtMost(Requested, Ceiling - processed)

\* Faulty variant: the pool that _take_live returns is not assigned, so that
\* the duplicates of earlier rounds are taken again.
NextRoundForgetsPool ==
  /\ phase = "round" /\ Busy = {} /\ ~Satisfied
  /\ \E t \in TakeLive(In("pool") \cup In("duplicate"), NextLimit) :
       t.batch # {} /\ Take(t)
  /\ UNCHANGED <<phase, key, seen, budget, tally, returned>>

\* Every worker of the batch has ended and the run goes on.
NextRound ==
  /\ phase = "round" /\ Busy = {} /\ ~Satisfied
  /\ \E t \in TakeLive(In("pool"), NextLimit) : t.batch # {} /\ Take(t)
  /\ UNCHANGED <<phase, key, seen, budget, tally, returned>>

\* Faulty variant: no recount after the hard filters.
FinishWithoutRecount ==
  /\ phase = "round" /\ Busy = {}
  /\ \/ Satisfied /\ at' = at
     \/ ~Satisfied /\ \E t \in TakeLive(In("pool"), NextLimit) : t.batch = {} /\ Take(t)
  /\ \E kept \in SUBSET In("lead") :
       /\ ~HardFilters => kept = In("lead")
       /\ returned' = kept
  /\ phase' = "done"
  /\ UNCHANGED <<key, seen, budget, tally>>

\* The run is satisfied, or nothing in the pool is alive; hard filters.
Finish ==
  /\ phase = "round" /\ Busy = {}
  /\ \/ Satisfied /\ at' = at
     \/ ~Satisfied /\ \E t \in TakeLive(In("pool"), NextLimit) : t.batch = {} /\ Take(t)
  /\ \E kept \in SUBSET In("lead") :
       /\ ~HardFilters => kept = In("lead")
       /\ returned' = kept
       /\ ready' = Cardinality(kept \cap good)
  /\ phase' = "done"
  /\ UNCHANGED <<key, seen, budget, processed, good, filed>>

\* Discovery raises, or a progress write does: a worker reports outside its
\* try, so that one failed statement ends the run.  Workers under way, and those
\* at the semaphore, may still get some way before the process ends.
RunRaises ==
  /\ phase \in {"discovered", "round"}
  /\ phase' = "failed"
  /\ UNCHANGED <<at, key, seen, budget, tally, returned>>

-----------------------------------------------------------------------------
(* process_company, inside a worker.                                       *)

Move(c, place) == at' = [at EXCEPT ![c] = place]

\* Faulty variant: no order between companies with and without a website.
MayStartInAnyOrder(c) ==
  at[c] = "queued" /\ Cardinality(Working) < Concurrency

\* The semaphore lets workers in in the order of the batch.
MayStart(c) ==
  /\ at[c] = "queued"
  /\ Cardinality(Working) < Concurrency
  /\ c \notin WithSite => In("queued") \cap WithSite = {}

\* The test and the claim of a key: nothing is awaited between them.
Claim(c, k) ==
  \/ k \in seen /\ Move(c, "duplicate") /\ UNCHANGED <<key, seen>>
  \/ /\ k \notin seen
     /\ seen' = seen \cup {k}
     /\ key' = [key EXCEPT ![c] = k]
     /\ Move(c, "crawling")

\* No website to look for, or no budget left to look for it.
Start(c) ==
  /\ MayStart(c)
  /\ c \in WithSite \/ budget = 0
  /\ Claim(c, OwnKey[c])
  /\ UNCHANGED <<phase, budget, tally, returned>>

StartFinding(c) ==
  /\ MayStart(c)
  /\ c \notin WithSite /\ budget > 0
  /\ budget' = budget - 1
  /\ Move(c, "finding")
  /\ UNCHANGED <<phase, key, seen, tally, returned>>

\* WebsiteFinder returns a site, or none.
Found(c) ==
  /\ at[c] = "finding"
  /\ \E k \in Domains \cup {OwnKey[c]} : Claim(c, k)
  /\ UNCHANGED <<phase, budget, tally, returned>>

\* Faulty variants: the new key is not claimed; it is claimed before the test.
CrawledWithoutClaim(c) ==
  /\ at[c] = "crawling"
  /\ \E k \in {key[c], AnswersAt[key[c]]} :
       \/ k \in seen \ {key[c]} /\ Move(c, "duplicate") /\ UNCHANGED <<key, seen>>
       \/ /\ k \notin seen \ {key[c]}
          /\ seen' = seen \ {key[c]}
          /\ key' = [key EXCEPT ![c] = k]
          /\ Move(c, "scoring")
  /\ UNCHANGED <<phase, budget, tally, returned>>

CrawledClaimsFirst(c) ==
  /\ at[c] = "crawling"
  /\ \E k \in {key[c], AnswersAt[key[c]]} :
       /\ seen' = seen \cup {k}
       /\ \/ k # key[c] /\ Move(c, "duplicate") /\ UNCHANGED key
          \/ k = key[c] /\ Move(c, "scoring") /\ UNCHANGED key
  /\ UNCHANGED <<phase, budget, tally, returned>>

\* The crawl ends: the site may have moved (an unreachable one tells nothing).
\* The company is then known by the domain that answers, unless that one was
\* processed already.
Crawled(c) ==
  /\ at[c] = "crawling"
  /\ \E k \in {key[c], AnswersAt[key[c]]} :
       \/ k \in seen \ {key[c]} /\ Move(c, "duplicate") /\ UNCHANGED <<key, seen>>
       \/ /\ k \notin seen \ {key[c]}
          /\ seen' = (seen \ {key[c]}) \cup {k}
          /\ key' = [key EXCEPT ![c] = k]
          /\ Move(c, "scoring")
  /\ UNCHANGED <<phase, budget, tally, returned>>

\* save_lead, then the worker appends the lead and tallies it.
Lead(c) ==
  /\ at[c] = "scoring"
  /\ Move(c, "lead")
  /\ \E r \in BOOLEAN :
       /\ ready' = IF r THEN ready + 1 ELSE ready
       /\ good' = IF r THEN good \cup {c} ELSE good
  /\ filed' = filed \cup {c}
  /\ processed' = processed + 1
  /\ UNCHANGED <<phase, key, seen, budget, returned>>

\* process_company raises; a statement may have reached the database first.
WorkerFails(c) ==
  /\ c \in Working
  /\ Move(c, "error")
  /\ \/ UNCHANGED filed
     \/ at[c] = "scoring" /\ filed' = filed \cup {c}
  /\ processed' = processed + 1
  /\ UNCHANGED <<phase, key, seen, budget, ready, good, returned>>

-----------------------------------------------------------------------------
Worker(c) ==
  \/ Start(c) \/ StartFinding(c) \/ Found(c) \/ Crawled(c) \/ Lead(c)
  \/ WorkerFails(c)

Next == FirstBatch \/ NextRound \/ Finish \/ RunRaises \/ \E c \in Companies : Worker(c)

Spec == Init /\ [][Next]_vars

\* Every await of a worker is bounded by a time-out of the fetcher, the LLM
\* client or the database driver, so a run that can go on goes on.
FairSpec == Spec /\ WF_vars(Next)

-----------------------------------------------------------------------------
(* What must hold.                                                         *)

\* Every variable holds what the code gives it.
TypeOK ==
  /\ phase \in {"discovered", "round", "done", "failed"}
  /\ at \in [Companies -> Places]
  /\ key \in [Companies -> Keys]
  /\ seen \subseteq Keys
  /\ budget \in Nat
  /\ processed \in Nat
  /\ ready \in Nat
  /\ good \subseteq filed /\ filed \subseteq Companies
  /\ returned \subseteq Companies

\* However searches and redirects interleave, no two leads of a run are the
\* same company (seen_keys is claimed, released and re-claimed by concurrent
\* workers).
OneLeadPerKey ==
  \A c, d \in In("lead") : key[c] = key[d] => c = d

\* A duplicate is dropped only in favour of a company that stands for it: one
\* with its key, or with the key its site answers at, became a lead, or was
\* lost to an error of its own.
DuplicatesAreCovered ==
  phase = "done" =>
    \A c \in In("duplicate") \cap WithSite :
      \E d \in In("lead") \cup In("error") :
        key[d] \in {OwnKey[c], AnswersAt[OwnKey[c]]}

\* What a run may spend: expansion never processes more companies than the
\* multiplier allows, although duplicates are taken and not counted, and its
\* workers together never overdraw the website finder's budget.
CrawlWithinCeiling == processed <= Ceiling /\ budget >= 0

\* The most a run delivers and bills: short of the target by one, the loop
\* takes another whole batch.  (Credits.MaxReady.)
DeliveryBounded == ready <= 2 * Requested - 1

\* The owner is billed for exactly the outreach-ready leads that the run
\* returns, whatever the hard filters dropped, and each of them is on file.
BilledLeadsAreReturned ==
  phase = "done" =>
    ready = Cardinality(returned \cap good) /\ returned \subseteq filed

\* A domain found by searching never takes the key of a company whose record
\* carries it: such a company is not dropped when it starts in favour of one
\* that had no website.
SearchNeverSteals ==
  [][\A c \in WithSite :
       at[c] = "queued" /\ at'[c] = "duplicate" =>
         ~\E d \in Companies \ WithSite :
            key[d] = OwnKey[c] /\ at[d] \in {"crawling", "scoring", "lead"}]_vars

\* The run ends, although a round of duplicates makes no progress towards
\* either the target or the ceiling.
RunEnds == <>(phase \in {"done", "failed"})

=============================================================================
