--------------------------- MODULE LeadRunProofs ---------------------------
(***************************************************************************)
(* What TLAPS proves of module LeadRun for every list of companies, every  *)
(* map of redirects and all bounds: typing, the bounds on what a run       *)
(* crawls, delivers and bills, that leads are distinct, that duplicates    *)
(* are dropped only for a company that stands for them, and that searching *)
(* takes no key from a listed site.  Termination is left to TLC.           *)
(***************************************************************************)
EXTENDS LeadRun, FiniteSetTheorems, TLAPS

-----------------------------------------------------------------------------
(* Facts about the bounds and about taking a batch.                        *)

LEMMA FiniteParts ==
  ASSUME NEW S, S \subseteq Companies
  PROVE  IsFiniteSet(S) /\ Cardinality(S) \in Nat
  BY CompaniesAssumption, FS_Subset, FS_CardinalityType

LEMMA Bounds ==
  /\ Target \in Nat /\ Target <= Requested
  /\ Ceiling \in Nat /\ Requested <= Ceiling
  BY BoundsAssumption DEF Target, Ceiling, AtMost

\* A round that is not satisfied takes at least nobody, and at most what the
\* ceiling and the size of the request leave.
LEMMA RoundLimit ==
  ASSUME TypeOK, ~Satisfied
  PROVE  /\ NextLimit \in Nat
         /\ processed + NextLimit <= Ceiling
         /\ ready + NextLimit <= 2 * Requested - 1
  BY Bounds, BoundsAssumption DEF TypeOK, Satisfied, NextLimit, AtMost

\* What _take_live hands out: only companies of the pool, at most limit, and
\* nobody without a website while a site is left in the pool.
LEMMA TakeLiveFacts ==
  ASSUME TypeOK, NEW limit \in Nat, NEW t \in TakeLive(In("pool"), limit)
  PROVE  /\ t.batch \subseteq In("pool")
         /\ t.dead \subseteq In("pool") \cap WithSite
         /\ Cardinality(t.batch) <= limit
         /\ \/ t.batch \subseteq WithSite
            \/ In("pool") \cap WithSite \subseteq t.batch \cup t.dead
<1> DEFINE sited == In("pool") \cap WithSite
           live == t.batch \cap WithSite
<1>1. /\ t.batch \subseteq In("pool") /\ t.dead \subseteq sited
      /\ Cardinality(t.batch) <= limit
      /\ live = sited \/ Cardinality(live) = limit \/ live \cup t.dead = sited
  BY DEF TakeLive
<1>2. CASE Cardinality(live) = limit
  <2>1. IsFiniteSet(t.batch)
    BY <1>1, FiniteParts DEF In
  <2>2. Cardinality(live) <= Cardinality(t.batch)
        /\ (Cardinality(live) = Cardinality(t.batch) => live = t.batch)
    BY <2>1, FS_Subset
  <2>3. Cardinality(t.batch) \in Nat /\ Cardinality(live) \in Nat
    BY <1>1, FiniteParts DEF In
  <2>4. live = t.batch
    BY <1>1, <1>2, <2>2, <2>3
  <2> QED BY <1>1, <2>4
<1>3. CASE live = sited \/ live \cup t.dead = sited
  BY <1>1, <1>3
<1> QED BY <1>1, <1>2, <1>3

\* What taking a batch does to the companies.
LEMMA TakeEffect ==
  ASSUME TypeOK, NEW limit \in Nat, NEW t \in TakeLive(In("pool"), limit), Take(t)
  PROVE  /\ at' \in [Companies -> Places]
         /\ \A c \in Companies :
              at'[c] # at[c] => /\ at[c] = "pool"
                                /\ at'[c] \in {"queued", "dead"}
                                /\ c \notin WithSite => at'[c] = "queued"
         /\ \A d \in Companies \ WithSite :
              at'[d] # at[d] => \A c \in WithSite : at'[c] # "pool"
         /\ In("lead")' = In("lead")
         /\ Busy = {} => Busy' = t.batch
         /\ IsFiniteSet(t.batch) /\ Cardinality(t.batch) <= limit
<1>1. /\ t.batch \subseteq In("pool") /\ t.dead \subseteq In("pool") \cap WithSite
      /\ Cardinality(t.batch) <= limit
      /\ \/ t.batch \subseteq WithSite
         \/ In("pool") \cap WithSite \subseteq t.batch \cup t.dead
  BY TakeLiveFacts
<1>2. at' \in [Companies -> Places]
  BY DEF TypeOK, Take, Places
<1>3. \A c \in Companies :
        at'[c] = IF c \in t.batch THEN "queued"
                 ELSE IF c \in t.dead THEN "dead" ELSE at[c]
  BY DEF Take
<1>4. \A c \in Companies :
        at'[c] # at[c] => /\ at[c] = "pool"
                          /\ at'[c] \in {"queued", "dead"}
                          /\ c \notin WithSite => at'[c] = "queued"
  BY <1>1, <1>3 DEF In
<1>5. ASSUME NEW d \in Companies \ WithSite, at'[d] # at[d], NEW c \in WithSite
      PROVE  at'[c] # "pool"
  <2>1. c \in Companies /\ d \in t.batch
    BY <1>1, <1>3, <1>5, CompaniesAssumption
  <2>2. In("pool") \cap WithSite \subseteq t.batch \cup t.dead
    BY <1>1, <1>5, <2>1
  <2> QED BY <1>3, <2>1, <2>2 DEF In
<1>6. In("lead")' = In("lead")
  BY <1>4 DEF In
<1>7. ASSUME Busy = {} PROVE Busy' = t.batch
  <2>1. \A c \in Companies : at[c] \notin {"queued", "finding", "crawling", "scoring"}
    BY <1>7 DEF Busy, In, Working
  <2> QED BY <1>1, <1>3, <2>1 DEF Busy, In, Working
<1>8. IsFiniteSet(t.batch)
  BY <1>1, FiniteParts DEF In
<1> QED BY <1>1, <1>2, <1>4, <1>5, <1>6, <1>7, <1>8

-----------------------------------------------------------------------------
(* Typing.                                                                 *)

LEMMA InitTypeOK == Init => TypeOK
  BY CompaniesAssumption, BoundsAssumption DEF Init, TypeOK, Places

\* A claim keeps the types, whichever way it goes.
LEMMA ClaimTypes ==
  ASSUME TypeOK, NEW c \in Companies, NEW k \in Keys, Claim(c, k)
  PROVE  /\ at' \in [Companies -> Places]
         /\ key' \in [Companies -> Keys]
         /\ seen' \subseteq Keys
  BY DEF TypeOK, Claim, Move, Places

LEMMA NextTypeOK == TypeOK /\ [Next]_vars => TypeOK'
<1> SUFFICES ASSUME TypeOK, [Next]_vars PROVE TypeOK'
  OBVIOUS
<1>k. \A c \in Companies : OwnKey[c] \in Keys /\ AnswersAt[key[c]] \in Keys /\ key[c] \in Keys
  BY CompaniesAssumption, RedirectAssumption DEF TypeOK
<1>1. CASE FirstBatch
  <2>1. at' \in [Companies -> Places]
    BY <1>1, TakeEffect, BoundsAssumption DEF FirstBatch
  <2> QED BY <1>1, <2>1 DEF FirstBatch, TypeOK, tally
<1>2. CASE NextRound
  <2>1. at' \in [Companies -> Places]
    BY <1>2, TakeEffect, RoundLimit DEF NextRound
  <2> QED BY <1>2, <2>1 DEF NextRound, TypeOK, tally
<1>3. CASE Finish
  <2>1. at' \in [Companies -> Places]
    <3>1. CASE at' = at
      BY <3>1 DEF TypeOK
    <3>2. CASE ~Satisfied /\ \E t \in TakeLive(In("pool"), NextLimit) : Take(t)
      BY <3>2, TakeEffect, RoundLimit
    <3> QED BY <1>3, <3>1, <3>2 DEF Finish
  <2>2. returned' \subseteq Companies /\ ready' \in Nat
    <3>1. PICK kept \in SUBSET In("lead") :
            returned' = kept /\ ready' = Cardinality(kept \cap good)
      BY <1>3 DEF Finish
    <3>2. kept \subseteq Companies /\ kept \cap good \subseteq Companies
      BY DEF In
    <3> QED BY <3>1, <3>2, FiniteParts
  <2> QED BY <1>3, <2>1, <2>2 DEF Finish, TypeOK
<1>4. CASE RunRaises
  BY <1>4 DEF RunRaises, TypeOK, tally
<1>5. ASSUME NEW c \in Companies, Worker(c) PROVE TypeOK'
  <2>1. CASE Start(c)
    BY <1>k, <2>1, ClaimTypes DEF Start, TypeOK, tally
  <2>2. CASE StartFinding(c)
    BY <2>2 DEF StartFinding, TypeOK, tally, Move, Places
  <2>3. CASE Found(c)
    <3>1. Domains \cup {OwnKey[c]} \subseteq Keys
      BY <1>k, CompaniesAssumption
    <3> QED BY <2>3, <3>1, ClaimTypes DEF Found, TypeOK, tally
  <2>4. CASE Crawled(c)
    <3>1. {key[c], AnswersAt[key[c]]} \subseteq Keys
      BY <1>k
    <3> QED BY <2>4, <3>1 DEF Crawled, TypeOK, tally, Move, Places
  <2>5. CASE Lead(c)
    BY <2>5 DEF Lead, TypeOK, Move, Places
  <2>6. CASE WorkerFails(c)
    BY <2>6 DEF WorkerFails, TypeOK, Move, Places
  <2> QED BY <1>5, <2>1, <2>2, <2>3, <2>4, <2>5, <2>6 DEF Worker
<1>6. CASE UNCHANGED vars
  BY <1>6 DEF vars, TypeOK, tally
<1> QED BY <1>1, <1>2, <1>3, <1>4, <1>5, <1>6 DEF Next

\* Every variable of a run keeps its type.
THEOREM LeadRunTyped == Spec => []TypeOK
<1>1. TypeOK /\ [Next]_vars => TypeOK'
  BY NextTypeOK
<1> QED BY InitTypeOK, <1>1, PTL DEF Spec

-----------------------------------------------------------------------------
(* What a run crawls, delivers and bills.                                  *)

\* A company counts against the ceiling, and may become a ready lead, from the
\* moment it is in a batch: the bounds are inductive only with what is still
\* busy added.  Until the run is over, ready is the number of good leads; then
\* it is the number of those that were returned.
Counting ==
  /\ phase \in {"discovered", "done"} => Busy = {}
  /\ phase = "discovered" => processed = 0 /\ ready = 0
  /\ processed + Cardinality(Busy) <= Ceiling
  /\ ready + Cardinality(Busy) <= 2 * Requested - 1
  /\ good \subseteq In("lead") /\ In("lead") \subseteq filed
  /\ phase # "done" => ready = Cardinality(good)
  /\ phase = "done" => /\ ready = Cardinality(returned \cap good)
                       /\ returned \subseteq In("lead")

\* What moving one company of the batch does to the counts.
LEMMA BusyMove ==
  ASSUME TypeOK, NEW c \in Busy, NEW place \in Places \ {"queued"}, Move(c, place)
  PROVE  /\ c \in Companies /\ c \notin In("lead")
         /\ Cardinality(Busy) \in Nat /\ Cardinality(Busy') \in Nat
         /\ Cardinality(Busy') <= Cardinality(Busy)
         /\ place \notin {"finding", "crawling", "scoring"}
              => Cardinality(Busy') = Cardinality(Busy) - 1
         /\ In("lead")' = IF place = "lead" THEN In("lead") \cup {c} ELSE In("lead")
<1>1. /\ c \in Companies
      /\ at[c] \in {"queued", "finding", "crawling", "scoring"}
      /\ \A d \in Companies : at'[d] = IF d = c THEN place ELSE at[d]
  BY DEF Busy, In, Working, Move, TypeOK
<1>2. IsFiniteSet(Busy) /\ Cardinality(Busy) \in Nat
  BY FiniteParts DEF Busy, In, Working
<1>3. CASE place \in {"finding", "crawling", "scoring"}
  <2>1. Busy' = Busy
    BY <1>1, <1>3 DEF Busy, In, Working
  <2> QED BY <1>1, <1>2, <1>3, <2>1 DEF In
<1>4. CASE place \notin {"finding", "crawling", "scoring"}
  <2>1. Busy' = Busy \ {c}
    BY <1>1, <1>4 DEF Busy, In, Working
  <2>2. Cardinality(Busy') = Cardinality(Busy) - 1
    BY <1>2, <2>1, FS_RemoveElement
  <2>3. Cardinality(Busy') \in Nat
    BY <1>2, <2>1, FS_RemoveElement, FS_CardinalityType
  <2> QED BY <1>1, <1>2, <1>4, <2>2, <2>3 DEF In
<1> QED BY <1>3, <1>4

LEMMA InitCounting == Init => Counting
<1> SUFFICES ASSUME Init PROVE Counting
  OBVIOUS
<1>1. Busy = {} /\ In("lead") = {} /\ good = {} /\ processed = 0 /\ ready = 0
  BY DEF Init, Busy, In, Working
<1>2. Cardinality({}) = 0
  BY FS_EmptySet
<1> QED BY <1>1, <1>2, Bounds, BoundsAssumption DEF Init, Counting

\* A batch fits under both bounds.
LEMMA CountingTake ==
  ASSUME TypeOK, Counting, phase \in {"discovered", "round"}, Busy = {},
         NEW limit \in Nat, NEW t \in TakeLive(In("pool"), limit), Take(t),
         processed + limit <= Ceiling, ready + limit <= 2 * Requested - 1,
         phase' = "round", UNCHANGED tally
  PROVE  Counting'
<1>1. /\ In("lead")' = In("lead") /\ Busy' = t.batch
      /\ IsFiniteSet(t.batch) /\ Cardinality(t.batch) <= limit
  BY TakeEffect
<1>2. Cardinality(Busy') \in Nat /\ Cardinality(Busy') <= limit
  BY <1>1, FS_CardinalityType
<1>3. /\ processed' + Cardinality(Busy') <= Ceiling
      /\ ready' + Cardinality(Busy') <= 2 * Requested - 1
  BY <1>2, Bounds, BoundsAssumption DEF TypeOK, tally
<1> QED BY <1>1, <1>3 DEF Counting, tally

\* The run's last step counts the good leads among those it returns.
LEMMA CountingFinish == TypeOK /\ Counting /\ Finish => Counting'
<1> SUFFICES ASSUME TypeOK, Counting, Finish PROVE Counting'
  OBVIOUS
<1>1. In("lead")' = In("lead") /\ (Busy' = {} \/ Cardinality(Busy') = 0)
  <2>1. CASE at' = at
    BY <2>1 DEF Finish, In, Busy, Working
  <2>2. CASE ~Satisfied /\ \E t \in TakeLive(In("pool"), NextLimit) :
                              t.batch = {} /\ Take(t)
    <3>1. PICK t \in TakeLive(In("pool"), NextLimit) : t.batch = {} /\ Take(t)
      BY <2>2
    <3> QED BY <2>2, <3>1, TakeEffect, RoundLimit DEF Finish
  <2> QED BY <2>1, <2>2 DEF Finish
<1>2. Busy' = {} /\ Cardinality(Busy') = 0
  BY <1>1, FiniteParts, FS_EmptySet DEF Busy, In, Working
<1>3. PICK kept \in SUBSET In("lead") :
        returned' = kept /\ ready' = Cardinality(kept \cap good)
  BY DEF Finish
<1>4. ready' \in Nat /\ ready' <= ready
  <2>1. IsFiniteSet(good) /\ kept \cap good \subseteq good
    BY FiniteParts DEF TypeOK
  <2>2. ready = Cardinality(good)
    BY DEF Counting, Finish
  <2>3. Cardinality(kept \cap good) <= Cardinality(good)
    BY <2>1, FS_Subset
  <2>4. Cardinality(kept \cap good) \in Nat
    BY <2>1, FS_Subset, FS_CardinalityType
  <2> QED BY <1>3, <2>2, <2>3, <2>4
<1>5. processed \in Nat /\ ready \in Nat /\ Cardinality(Busy) = 0
  BY FS_EmptySet DEF Finish, TypeOK
<1>6. /\ processed' + Cardinality(Busy') <= Ceiling
      /\ ready' + Cardinality(Busy') <= 2 * Requested - 1
  BY <1>2, <1>4, <1>5, BoundsAssumption DEF Counting, Finish
<1> QED BY <1>1, <1>2, <1>3, <1>6 DEF Counting, Finish

\* A worker's step: it moves its own company on, and counts it when it leaves.
LEMMA CountingWorker ==
  ASSUME TypeOK, Counting, NEW c \in Companies, Worker(c)
  PROVE  Counting'
<1> USE DEF TypeOK, tally
<1>1. ASSUME c \in Busy, NEW place \in Places \ {"queued", "lead"}, Move(c, place),
             UNCHANGED <<phase, returned, ready, good>>, filed \subseteq filed',
             \/ processed' = processed
             \/ place = "error" /\ processed' = processed + 1
      PROVE  Counting'
  <2>1. /\ Cardinality(Busy) \in Nat /\ Cardinality(Busy') \in Nat
        /\ Cardinality(Busy') <= Cardinality(Busy)
        /\ place = "error" => Cardinality(Busy') = Cardinality(Busy) - 1
        /\ In("lead")' = In("lead")
    BY <1>1, BusyMove
  <2>2. /\ processed' + Cardinality(Busy') <= Ceiling
        /\ ready' + Cardinality(Busy') <= 2 * Requested - 1
    BY <1>1, <2>1, Bounds, BoundsAssumption DEF Counting
  <2> QED BY <1>1, <2>1, <2>2 DEF Counting
<1>2. CASE Start(c) \/ StartFinding(c) \/ Found(c) \/ Crawled(c)
  <2>1. c \in Busy
    BY <1>2 DEF Start, StartFinding, Found, Crawled, MayStart, Busy, In, Working
  <2>2. \E place \in Places \ {"queued", "lead"} : Move(c, place)
    BY <1>2 DEF Start, StartFinding, Found, Crawled, Claim, Places
  <2>3. UNCHANGED <<phase, returned, ready, good, filed, processed>>
    BY <1>2 DEF Start, StartFinding, Found, Crawled
  <2> QED BY <1>1, <2>1, <2>2, <2>3
<1>3. CASE WorkerFails(c)
  <2>1. c \in Busy /\ "error" \in Places \ {"queued", "lead"}
    BY <1>3 DEF WorkerFails, Busy, Places
  <2> QED BY <1>1, <1>3, <2>1 DEF WorkerFails
<1>4. CASE Lead(c)
  <2>1. c \in Busy /\ "lead" \in Places \ {"queued"}
    BY <1>4 DEF Lead, Busy, In, Working, Places
  <2>2. /\ c \notin In("lead") /\ In("lead")' = In("lead") \cup {c}
        /\ Cardinality(Busy) \in Nat
        /\ Cardinality(Busy') = Cardinality(Busy) - 1
    BY <1>4, <2>1, BusyMove DEF Lead
  <2>3. c \notin good /\ IsFiniteSet(good)
    BY <2>2, FiniteParts DEF Counting
  <2>4. Cardinality(good \cup {c}) = Cardinality(good) + 1
    BY <2>3, FS_AddElement
  <2>5. phase' \notin {"discovered", "done"}
    BY <1>4, <2>1 DEF Counting, Lead
  <2>6. PICK r \in BOOLEAN : /\ ready' = IF r THEN ready + 1 ELSE ready
                             /\ good' = IF r THEN good \cup {c} ELSE good
    BY <1>4 DEF Lead
  <2>7. ready' = Cardinality(good')
    BY <1>4, <2>4, <2>5, <2>6 DEF Counting, Lead
  <2>8. /\ processed' + Cardinality(Busy') <= Ceiling
        /\ ready' + Cardinality(Busy') <= 2 * Requested - 1
    BY <1>4, <2>2, <2>6, Bounds, BoundsAssumption DEF Counting, Lead
  <2>9. good' \subseteq In("lead")' /\ In("lead")' \subseteq filed'
    BY <1>4, <2>2, <2>6 DEF Counting, Lead
  <2> QED BY <2>5, <2>7, <2>8, <2>9 DEF Counting
<1> QED BY <1>2, <1>3, <1>4 DEF Worker

LEMMA NextCounting == TypeOK /\ Counting /\ [Next]_vars => Counting'
<1> SUFFICES ASSUME TypeOK, Counting, [Next]_vars PROVE Counting'
  OBVIOUS
<1>1. CASE FirstBatch
  <2>1. PICK t \in TakeLive(In("pool"), Requested) : Take(t)
    BY <1>1 DEF FirstBatch
  <2>2. Busy = {} /\ processed + Requested <= Ceiling
        /\ ready + Requested <= 2 * Requested - 1
    BY <1>1, Bounds, BoundsAssumption DEF FirstBatch, Counting
  <2> QED BY <1>1, <2>1, <2>2, CountingTake, BoundsAssumption DEF FirstBatch
<1>2. CASE NextRound
  <2>1. PICK t \in TakeLive(In("pool"), NextLimit) : Take(t)
    BY <1>2 DEF NextRound
  <2> QED BY <1>2, <2>1, CountingTake, RoundLimit DEF NextRound
<1>3. CASE Finish
  BY <1>3, CountingFinish
<1>4. CASE RunRaises
  BY <1>4 DEF RunRaises, Counting, Busy, In, Working, tally
<1>5. CASE \E c \in Companies : Worker(c)
  BY <1>5, CountingWorker
<1>6. CASE UNCHANGED vars
  BY <1>6 DEF vars, Counting, Busy, In, Working
<1> QED BY <1>1, <1>2, <1>3, <1>4, <1>5, <1>6 DEF Next

LEMMA AlwaysCounting == Spec => [](TypeOK /\ Counting)
<1>1. Init => TypeOK /\ Counting
  BY InitTypeOK, InitCounting
<1>2. TypeOK /\ Counting /\ [Next]_vars => (TypeOK /\ Counting)'
  BY NextTypeOK, NextCounting
<1> QED BY <1>1, <1>2, PTL DEF Spec

LEMMA CountingBounds ==
  ASSUME TypeOK, Counting
  PROVE  processed <= Ceiling /\ ready <= 2 * Requested - 1
<1>1. Cardinality(Busy) \in Nat
  BY FiniteParts DEF Busy, In, Working
<1> QED BY <1>1, Bounds, BoundsAssumption DEF Counting, TypeOK

\* Expansion never processes more companies than the ceiling, and the finder's
\* budget is never overdrawn.
THEOREM CrawlIsBounded == Spec => []CrawlWithinCeiling
<1>1. TypeOK /\ Counting => CrawlWithinCeiling
  BY CountingBounds DEF CrawlWithinCeiling, TypeOK
<1> QED BY <1>1, AlwaysCounting, PTL

\* A run delivers less than twice what it was asked for.
THEOREM DeliveryIsBounded == Spec => []DeliveryBounded
<1>1. TypeOK /\ Counting => DeliveryBounded
  BY CountingBounds DEF DeliveryBounded
<1> QED BY <1>1, AlwaysCounting, PTL

\* A run is billed for exactly the ready leads that it returns, and these are
\* on file.
THEOREM BillingIsExact == Spec => []BilledLeadsAreReturned
<1>1. Counting => BilledLeadsAreReturned
  BY DEF Counting, BilledLeadsAreReturned
<1> QED BY <1>1, AlwaysCounting, PTL

-----------------------------------------------------------------------------
(* Keys: who holds one, and what became of those who were turned away.     *)

\* The companies that claimed a key and were not turned away since.
Holders == {c \in Companies : at[c] \in {"crawling", "scoring", "lead"}}

\* Holders are distinct although a crawl gives one key up for another:
\* seen_keys has the key of every holder, and no two hold the same one.
Distinct ==
  /\ \A c \in Holders : key[c] \in seen
  /\ \A c, d \in Holders : key[c] = key[d] => c = d

\* Some company stands for the key k.
Covers(k) ==
  \E d \in Companies :
    /\ at[d] \in {"crawling", "scoring", "lead", "error"}
    /\ key[d] \in {k, AnswersAt[k]}

\* Whoever is turned away finds a company that stands for the key, and it is
\* still covered when that company's own key changes.  A listed site is
\* searched for by nobody and crawled under the key of its record.
Covered ==
  /\ \A k \in seen : Covers(k)
  /\ \A c \in WithSite : at[c] = "duplicate" => Covers(OwnKey[c])
  /\ \A c \in WithSite : at[c] # "finding"
  /\ \A c \in WithSite : at[c] = "crawling" => key[c] = OwnKey[c]

KeyInv == Distinct /\ Covered

\* What a step that is not about keys leaves as it was.
LEMMA KeysUntouched ==
  ASSUME TypeOK, KeyInv, UNCHANGED <<key, seen>>,
         \A c \in Companies :
           at'[c] # at[c] =>
             \/ at[c] \in {"pool", "queued"} /\ at'[c] \in {"queued", "dead"}
             \/ at[c] = "queued" /\ at'[c] = "finding" /\ c \notin WithSite
             \/ at[c] = "scoring" /\ at'[c] = "lead"
             \/ at'[c] = "error"
  PROVE  KeyInv'
<1>1. \A c \in Companies : c \in Holders' => c \in Holders
  BY DEF Holders
<1>2. \A k \in Keys : Covers(k) => Covers(k)'
  BY DEF Covers
<1>3. Distinct'
  BY <1>1 DEF KeyInv, Distinct, Holders
<1>4. \A c \in WithSite : OwnKey[c] \in Keys /\ c \in Companies
  BY CompaniesAssumption
<1>5. Covered'
  BY <1>2, <1>4 DEF KeyInv, Covered, TypeOK
<1> QED BY <1>3, <1>5 DEF KeyInv

\* A worker that claims a key, or is turned away, when it starts or when the
\* search for its website ends.
LEMMA KeysClaimed ==
  ASSUME TypeOK, KeyInv, NEW c \in Companies, at[c] \in {"queued", "finding"},
         NEW k \in Keys, c \in WithSite => k = OwnKey[c], Claim(c, k)
  PROVE  KeyInv'
<1> USE DEF TypeOK
<1>0. \A d \in WithSite : OwnKey[d] \in Keys /\ d \in Companies
  BY CompaniesAssumption
<1>1. \A d \in Companies : d # c => at'[d] = at[d] /\ key'[d] = key[d]
  BY DEF Claim, Move
<1>2. \A j \in Keys : Covers(j) => Covers(j)'
  BY <1>1 DEF Covers
<1>3. CASE k \in seen
  <2>1. at'[c] = "duplicate" /\ UNCHANGED <<key, seen>>
    BY <1>3 DEF Claim, Move
  <2>2. Distinct'
    BY <1>1, <2>1 DEF KeyInv, Distinct, Holders
  <2>3. Covers(k)
    BY <1>3 DEF KeyInv, Covered
  <2>4. Covered'
    BY <1>0, <1>1, <1>2, <2>1, <2>3 DEF KeyInv, Covered
  <2> QED BY <2>2, <2>4 DEF KeyInv
<1>4. CASE k \notin seen
  <2>1. at'[c] = "crawling" /\ key'[c] = k /\ seen' = seen \cup {k}
    BY <1>4 DEF Claim, Move
  <2>2. Distinct'
    BY <1>1, <1>4, <2>1 DEF KeyInv, Distinct, Holders
  <2>3. Covers(k)'
    BY <2>1 DEF Covers
  <2>4. Covered'
    BY <1>0, <1>1, <1>2, <2>1, <2>3 DEF KeyInv, Covered
  <2> QED BY <2>2, <2>4 DEF KeyInv
<1> QED BY <1>3, <1>4

\* The end of a crawl: the key is given up for the one that answers, or the
\* company is turned away because another holds that one.
LEMMA KeysCrawled ==
  ASSUME TypeOK, KeyInv, NEW c \in Companies, Crawled(c)
  PROVE  KeyInv'
<1> USE DEF TypeOK
<1>0. \A d \in WithSite : OwnKey[d] \in Keys /\ d \in Companies
  BY CompaniesAssumption
<1>1. \A d \in Companies : d # c => at'[d] = at[d] /\ key'[d] = key[d]
  BY DEF Crawled, Move
<1>2. /\ at[c] = "crawling" /\ key[c] \in seen
      /\ \A d \in Holders : key[d] = key[c] => d = c
  BY DEF Crawled, KeyInv, Distinct, Holders
<1>3. PICK k \in {key[c], AnswersAt[key[c]]} :
        \/ k \in seen \ {key[c]} /\ Move(c, "duplicate") /\ UNCHANGED <<key, seen>>
        \/ /\ k \notin seen \ {key[c]}
           /\ seen' = (seen \ {key[c]}) \cup {k}
           /\ key' = [key EXCEPT ![c] = k]
           /\ Move(c, "scoring")
  BY DEF Crawled
<1>4. k \in Keys /\ \A j \in Keys : AnswersAt[AnswersAt[j]] = AnswersAt[j]
  BY RedirectAssumption
<1>5. CASE k \in seen \ {key[c]} /\ Move(c, "duplicate") /\ UNCHANGED <<key, seen>>
  <2>1. at'[c] = "duplicate" /\ k = AnswersAt[key[c]] /\ AnswersAt[k] = k
    BY <1>3, <1>4, <1>5 DEF Move
  <2>2. PICK d \in Companies : /\ at[d] \in {"crawling", "scoring", "lead", "error"}
                               /\ key[d] = k
    BY <1>5, <2>1 DEF KeyInv, Covered, Covers
  <2>3. d # c /\ at'[d] = at[d] /\ key'[d] = k
    BY <1>1, <1>5, <2>2
  <2>4. ASSUME NEW j \in Keys, Covers(j) PROVE Covers(j)'
    <3>1. PICK e \in Companies : /\ at[e] \in {"crawling", "scoring", "lead", "error"}
                                 /\ key[e] \in {j, AnswersAt[j]}
      BY <2>4 DEF Covers
    <3>2. CASE e # c
      BY <1>1, <3>1, <3>2 DEF Covers
    <3>3. CASE e = c
      <4>1. AnswersAt[j] = k
        BY <1>4, <1>5, <2>1, <3>1, <3>3
      <4> QED BY <2>2, <2>3, <4>1 DEF Covers
    <3> QED BY <3>2, <3>3
  <2>5. c \in WithSite => Covers(OwnKey[c])'
    BY <1>2, <2>1, <2>2, <2>3 DEF KeyInv, Covered, Covers
  <2>6. Distinct'
    BY <1>1, <1>5, <2>1 DEF KeyInv, Distinct, Holders
  <2>7. Covered'
    BY <1>0, <1>1, <1>5, <2>1, <2>4, <2>5 DEF KeyInv, Covered
  <2> QED BY <2>6, <2>7 DEF KeyInv
<1>6. CASE /\ k \notin seen \ {key[c]}
           /\ seen' = (seen \ {key[c]}) \cup {k}
           /\ key' = [key EXCEPT ![c] = k]
           /\ Move(c, "scoring")
  <2>1. at'[c] = "scoring" /\ key'[c] = k
    BY <1>6 DEF Move
  <2>2. \A d \in Holders \ {c} : key[d] \in seen \ {key[c]}
    BY <1>2 DEF KeyInv, Distinct
  <2>3. Holders' = Holders
    BY <1>1, <1>2, <2>1 DEF Holders
  <2>4. Distinct'
    <3>1. \A d \in Holders \ {c} : key'[d] = key[d] /\ key[d] # k /\ key[d] \in seen'
      BY <1>1, <1>6, <2>2 DEF Holders
    <3>2. key'[c] \in seen'
      BY <1>6, <2>1
    <3> QED BY <2>1, <2>3, <3>1, <3>2 DEF KeyInv, Distinct
  <2>5. ASSUME NEW j \in Keys, Covers(j) PROVE Covers(j)'
    <3>1. PICK e \in Companies : /\ at[e] \in {"crawling", "scoring", "lead", "error"}
                                 /\ key[e] \in {j, AnswersAt[j]}
      BY <2>5 DEF Covers
    <3>2. CASE e # c
      BY <1>1, <3>1, <3>2 DEF Covers
    <3>3. CASE e = c
      <4>1. k \in {j, AnswersAt[j]}
        BY <1>3, <1>4, <3>1, <3>3
      <4> QED BY <2>1, <4>1 DEF Covers
    <3> QED BY <3>2, <3>3
  <2>6. Covers(k)'
    BY <2>1 DEF Covers
  <2>7. Covered'
    BY <1>0, <1>1, <1>6, <2>1, <2>5, <2>6 DEF KeyInv, Covered
  <2> QED BY <2>4, <2>7 DEF KeyInv
<1> QED BY <1>3, <1>5, <1>6

LEMMA InitKeyInv == Init => KeyInv
  BY CompaniesAssumption DEF Init, KeyInv, Distinct, Covered, Holders

LEMMA NextKeyInv == TypeOK /\ KeyInv /\ [Next]_vars => KeyInv'
<1> SUFFICES ASSUME TypeOK, KeyInv, [Next]_vars PROVE KeyInv'
  OBVIOUS
<1>t. ASSUME NEW limit \in Nat, \E t \in TakeLive(In("pool"), limit) : Take(t),
             UNCHANGED <<key, seen>>
      PROVE  KeyInv'
  BY <1>t, TakeEffect, KeysUntouched
<1>1. CASE FirstBatch
  BY <1>1, <1>t, BoundsAssumption DEF FirstBatch
<1>2. CASE NextRound
  BY <1>2, <1>t, RoundLimit DEF NextRound
<1>3. CASE Finish
  <2>1. UNCHANGED <<key, seen>>
    BY <1>3 DEF Finish
  <2>2. CASE at' = at
    BY <2>1, <2>2, KeysUntouched
  <2>3. CASE ~Satisfied /\ \E t \in TakeLive(In("pool"), NextLimit) : Take(t)
    BY <1>t, <2>1, <2>3, RoundLimit
  <2> QED BY <1>3, <2>2, <2>3 DEF Finish
<1>4. CASE RunRaises
  BY <1>4, KeysUntouched DEF RunRaises
<1>5. ASSUME NEW c \in Companies, Worker(c) PROVE KeyInv'
  <2>0. OwnKey[c] \in Keys /\ Domains \subseteq Keys
    BY CompaniesAssumption
  <2>1. CASE Start(c)
    BY <2>0, <2>1, KeysClaimed DEF Start, MayStart
  <2>2. CASE Found(c)
    <3>1. at[c] = "finding" /\ c \notin WithSite
      BY <2>2 DEF Found, KeyInv, Covered
    <3> QED BY <2>0, <2>2, <3>1, KeysClaimed DEF Found
  <2>3. CASE Crawled(c)
    BY <2>3, KeysCrawled
  <2>4. CASE StartFinding(c) \/ Lead(c) \/ WorkerFails(c)
    BY <2>4, KeysUntouched
    DEF StartFinding, MayStart, Lead, WorkerFails, Move, Working, TypeOK
  <2> QED BY <1>5, <2>1, <2>2, <2>3, <2>4 DEF Worker
<1>6. CASE UNCHANGED vars
  BY <1>6, KeysUntouched DEF vars
<1> QED BY <1>1, <1>2, <1>3, <1>4, <1>5, <1>6 DEF Next

\* However searches and redirects interleave, no two leads are one company.
THEOREM LeadsAreDistinct == Spec => []OneLeadPerKey
<1>1. Init => TypeOK /\ KeyInv
  BY InitTypeOK, InitKeyInv
<1>2. TypeOK /\ KeyInv /\ [Next]_vars => (TypeOK /\ KeyInv)'
  BY NextTypeOK, NextKeyInv
<1>3. TypeOK /\ KeyInv => OneLeadPerKey
  BY DEF KeyInv, Distinct, Holders, In, OneLeadPerKey
<1> QED BY <1>1, <1>2, <1>3, PTL DEF Spec

\* No listed company is dropped as a duplicate unless another one stands for
\* it at the end of the run.
THEOREM DuplicatesStandIn == Spec => []DuplicatesAreCovered
<1>1. Init => TypeOK /\ KeyInv /\ Counting
  BY InitTypeOK, InitKeyInv, InitCounting
<1>2. TypeOK /\ KeyInv /\ Counting /\ [Next]_vars => (TypeOK /\ KeyInv /\ Counting)'
  BY NextTypeOK, NextKeyInv, NextCounting
<1>3. TypeOK /\ KeyInv /\ Counting => DuplicatesAreCovered
  <2> SUFFICES ASSUME TypeOK, KeyInv, Counting, phase = "done",
                      NEW c \in In("duplicate") \cap WithSite
               PROVE  \E d \in In("lead") \cup In("error") :
                        key[d] \in {OwnKey[c], AnswersAt[OwnKey[c]]}
    BY DEF DuplicatesAreCovered
  <2>1. \A d \in Companies : at[d] \notin {"crawling", "scoring"}
    BY DEF Counting, Busy, Working
  <2>2. Covers(OwnKey[c])
    BY DEF KeyInv, Covered, In
  <2> QED BY <2>1, <2>2 DEF Covers, In
<1> QED BY <1>1, <1>2, <1>3, PTL DEF Spec

-----------------------------------------------------------------------------
(* Listed sites go first.                                                  *)

\* Once a company without a website is in a batch the pool has no listed site
\* left, and once one has started none is waiting in the batch either.
SitesFirst ==
  \A d \in Companies \ WithSite, c \in WithSite :
    /\ at[d] # "pool" => at[c] # "pool"
    /\ at[d] \notin {"pool", "queued"} => at[c] \notin {"pool", "queued"}

LEMMA NextSitesFirst == TypeOK /\ SitesFirst /\ [Next]_vars => SitesFirst'
<1> SUFFICES ASSUME TypeOK, SitesFirst, [Next]_vars PROVE SitesFirst'
  OBVIOUS
<1>0. WithSite \subseteq Companies
  BY CompaniesAssumption
<1>t. ASSUME NEW limit \in Nat, \E t \in TakeLive(In("pool"), limit) : Take(t)
      PROVE  SitesFirst'
  <2>1. \A c \in Companies :
          at'[c] # at[c] => /\ at[c] = "pool"
                            /\ at'[c] \in {"queued", "dead"}
                            /\ c \notin WithSite => at'[c] = "queued"
    BY <1>t, TakeEffect
  <2>2. \A d \in Companies \ WithSite :
          at'[d] # at[d] => \A c \in WithSite : at'[c] # "pool"
    BY <1>t, TakeEffect
  <2> QED BY <1>0, <2>1, <2>2 DEF SitesFirst
<1>1. CASE FirstBatch
  BY <1>1, <1>t, BoundsAssumption DEF FirstBatch
<1>2. CASE NextRound
  BY <1>2, <1>t, RoundLimit DEF NextRound
<1>3. CASE Finish
  <2>1. CASE at' = at
    BY <2>1 DEF SitesFirst
  <2>2. CASE ~Satisfied /\ \E t \in TakeLive(In("pool"), NextLimit) : Take(t)
    BY <1>t, <2>2, RoundLimit
  <2> QED BY <1>3, <2>1, <2>2 DEF Finish
<1>4. CASE RunRaises
  BY <1>4 DEF RunRaises, SitesFirst
<1>5. ASSUME NEW c \in Companies, Worker(c) PROVE SitesFirst'
  <2>1. PICK place \in Places \ {"pool", "queued"} : Move(c, place)
    BY <1>5 DEF Worker, Start, StartFinding, Found, Crawled, Lead, WorkerFails, Claim, Places
  <2>2. \A d \in Companies : at'[d] = IF d = c THEN place ELSE at[d]
    BY <2>1 DEF Move, TypeOK
  <2>3. CASE at[c] = "queued"
    <3>1. c \notin WithSite => \A d \in WithSite : at[d] # "queued"
      BY <1>0, <1>5, <2>3
      DEF Worker, Start, StartFinding, MayStart, Found, Crawled, Lead, WorkerFails, Working, In
    <3> QED BY <1>0, <2>2, <2>3, <3>1 DEF SitesFirst
  <2>4. CASE at[c] # "queued"
    <3>1. at[c] \in {"finding", "crawling", "scoring"}
      BY <1>5, <2>4
      DEF Worker, Start, StartFinding, MayStart, Found, Crawled, Lead, WorkerFails, Working
    <3> QED BY <1>0, <2>2, <3>1 DEF SitesFirst
  <2> QED BY <2>3, <2>4
<1>6. CASE UNCHANGED vars
  BY <1>6 DEF vars, SitesFirst
<1> QED BY <1>1, <1>2, <1>3, <1>4, <1>5, <1>6 DEF Next

\* A company found by searching never takes the place of one whose record
\* carries the website.
THEOREM SearchesComeLast == Spec => SearchNeverSteals
<1>1. Init => TypeOK /\ SitesFirst
  BY InitTypeOK, CompaniesAssumption DEF Init, SitesFirst
<1>2. TypeOK /\ SitesFirst /\ [Next]_vars => (TypeOK /\ SitesFirst)'
  BY NextTypeOK, NextSitesFirst
<1>3. SitesFirst => \A c \in WithSite :
        at[c] = "queued" /\ at'[c] = "duplicate" =>
          ~\E d \in Companies \ WithSite :
             key[d] = OwnKey[c] /\ at[d] \in {"crawling", "scoring", "lead"}
  BY DEF SitesFirst
<1> QED BY <1>1, <1>2, <1>3, PTL DEF Spec, SearchNeverSteals

=============================================================================
