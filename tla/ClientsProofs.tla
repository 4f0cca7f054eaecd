---------------------------- MODULE ClientsProofs ----------------------------
(***************************************************************************)
(* What TLAPS proves of the clients that a run shares: the web fetcher     *)
(* (module Fetching) for any workers, hosts, calls and limits, that is     *)
(* typing, what a dead host costs, that an abandoned host stays so and the *)
(* courtesy delay; and the database connection layer (module Connection)   *)
(* for any processes, writes and broken connections.  That gets and        *)
(* methods end is left to TLC.                                             *)
(***************************************************************************)
EXTENDS Fetching, Connection, FiniteSetTheorems, TLAPS

-----------------------------------------------------------------------------
(* Typing.                                                                 *)

LEMMA CallTypes ==
  ASSUME NEW c \in Calls
  PROVE  c.host \in Hosts /\ c.api \in BOOLEAN /\ c.delay \in 0..LongestDelay
  BY CallsAssumption

LEMMA ReturnTypes ==
  ASSUME TypeOK, NEW w \in Workers, Return(w)
  PROVE  /\ at' \in [Workers -> Places]
         /\ call' \in [Workers -> Calls \cup {Nothing}]
         /\ \A v \in Workers : at'[v] # "idle" => call'[v] \in Calls
         /\ attempt' \in [Workers -> 0..MaxRetries]
  BY LimitsAssumption DEF TypeOK, Return, Goto, Places

LEMMA GotoTypes ==
  ASSUME TypeOK, NEW w \in Workers, NEW place \in Places,
         at[w] # "idle", Goto(w, place), UNCHANGED call
  PROVE  /\ at' \in [Workers -> Places]
         /\ call' \in [Workers -> Calls \cup {Nothing}]
         /\ \A v \in Workers : at'[v] # "idle" => call'[v] \in Calls
  BY DEF TypeOK, Goto, Places

LEMMA InitTypeOK == Init => TypeOK
  BY LimitsAssumption DEF Init, TypeOK, Places, Rules

LEMMA AdvanceTypeOK ==
  ASSUME TypeOK, NEW w \in Workers, Advance(w)
  PROVE  TypeOK'
<1> USE DEF TypeOK, client
<1>0. at[w] # "idle" /\ call[w] \in Calls /\ Host(w) \in Hosts
      /\ call[w].delay \in 0..LongestDelay
  <2>1. at[w] # "idle"
    BY DEF Advance, Refuse, PassGate, LoadRobots, EnterSlot, EnterLock, Hit, Answer, Retry,
           GiveUp, Again
  <2> QED BY <2>1, CallTypes DEF Host
<1>p. {"robots", "queued", "locking", "pausing", "requesting", "resting"} \subseteq Places
  BY DEF Places
<1>1. CASE Refuse(w)
  BY <1>1, ReturnTypes DEF Refuse
<1>2. CASE PassGate(w)
  <2>1. CASE Return(w)
    BY <1>2, <2>1, ReturnTypes DEF PassGate
  <2>2. CASE UNCHANGED <<call, attempt>> /\ \E place \in {"robots", "queued"} : Goto(w, place)
    BY <1>0, <1>2, <1>p, <2>2, GotoTypes DEF PassGate
  <2> QED BY <1>2, <2>1, <2>2 DEF PassGate
<1>3. CASE LoadRobots(w)
  <2>1. robots' \in [Hosts -> Rules]
    BY <1>0, <1>3 DEF LoadRobots, Rules
  <2>2. CASE Return(w)
    BY <1>3, <2>1, <2>2, ReturnTypes DEF LoadRobots
  <2>3. CASE UNCHANGED <<call, attempt>> /\ Goto(w, "queued")
    BY <1>0, <1>3, <1>p, <2>1, <2>3, GotoTypes DEF LoadRobots
  <2> QED BY <1>3, <2>2, <2>3 DEF LoadRobots
<1>4. CASE EnterSlot(w)
  BY <1>0, <1>4, <1>p, GotoTypes DEF EnterSlot
<1>5. CASE EnterLock(w)
  <2>1. wait' \in [Workers -> 0..LongestDelay]
    <3>1. since[Host(w)] \in 0..LongestDelay
      BY <1>0
    <3>2. (IF call[w].delay - since[Host(w)] > 0
           THEN call[w].delay - since[Host(w)] ELSE 0) \in 0..LongestDelay
      BY <1>0, <3>1, LimitsAssumption
    <3> QED BY <1>5, <3>2 DEF EnterLock
  <2> QED BY <1>0, <1>5, <1>p, <2>1, GotoTypes DEF EnterLock
<1>6. CASE Hit(w)
  <2>1. since' \in [Hosts -> 0..LongestDelay]
    BY <1>6, LimitsAssumption DEF Hit
  <2> QED BY <1>0, <1>6, <1>p, <2>1, GotoTypes DEF Hit
<1>7. CASE Answer(w)
  <2>1. failures' \in [Hosts -> Nat]
    BY <1>0, <1>7 DEF Answer
  <2> QED BY <1>7, <2>1, ReturnTypes DEF Answer
<1>8. CASE Retry(w)
  <2>1. attempt' \in [Workers -> 0..MaxRetries]
    BY <1>8, LimitsAssumption DEF Retry
  <2> QED BY <1>0, <1>8, <1>p, <2>1, GotoTypes DEF Retry
<1>9. CASE GiveUp(w)
  <2>1. failures' \in [Hosts -> Nat]
    BY <1>0, <1>9 DEF GiveUp
  <2> QED BY <1>9, <2>1, ReturnTypes DEF GiveUp
<1>10. CASE Again(w)
  BY <1>0, <1>10, <1>p, GotoTypes DEF Again
<1> QED
  BY <1>1, <1>2, <1>3, <1>4, <1>5, <1>6, <1>7, <1>8, <1>9, <1>10 DEF Advance

LEMMA NextTypeOK == TypeOK /\ [Next]_vars => TypeOK'
<1> SUFFICES ASSUME TypeOK, [Next]_vars PROVE TypeOK'
  OBVIOUS
<1>1. CASE Tick
  <2>1. \A h \in Hosts : since[h] \in 0..LongestDelay
    BY DEF TypeOK
  <2>2. \A w \in Workers : wait[w] \in 0..LongestDelay
    BY DEF TypeOK
  <2>3. since' \in [Hosts -> 0..LongestDelay] /\ wait' \in [Workers -> 0..LongestDelay]
    BY <1>1, <2>1, <2>2, LimitsAssumption DEF Tick
  <2> QED BY <1>1, <2>3 DEF Tick, TypeOK
<1>2. ASSUME NEW w \in Workers, Call(w) PROVE TypeOK'
  <2>1. left' \in 0..Gets
    BY <1>2, LimitsAssumption DEF Call, TypeOK
  <2> QED BY <1>2, <2>1 DEF Call, TypeOK, client, Goto, Places
<1>3. ASSUME NEW w \in Workers, Advance(w) PROVE TypeOK'
  BY <1>3, AdvanceTypeOK
<1>4. CASE UNCHANGED vars
  BY <1>4 DEF vars, TypeOK
<1> QED BY <1>1, <1>2, <1>3, <1>4 DEF Next

\* Every variable of the client keeps its type, and retries are bounded.
THEOREM FetchingTyped == Spec => []TypeOK
<1>1. TypeOK /\ [Next]_vars => TypeOK'
  BY NextTypeOK
<1> QED BY InitTypeOK, <1>1, PTL DEF Spec

-----------------------------------------------------------------------------
(* The courtesy delay.                                                     *)

\* The lock of a host has one owner, and the pause that its owner waits for is
\* what is missing since the last hit: nobody else hits the host meanwhile.
Paced ==
  /\ \A v, w \in Workers : HasLock(v) /\ HasLock(w) /\ Host(v) = Host(w) => v = w
  /\ \A w \in Workers :
       at[w] = "pausing" => wait[w] + since[Host(w)] >= call[w].delay

\* A step that takes no lock, hits nothing and lets no time pass.
LEMMA PacedUntouched ==
  ASSUME TypeOK, Paced, NEW w \in Workers, UNCHANGED <<wait, since>>,
         at'[w] \notin {"pausing", "requesting"},
         \A v \in Workers \ {w} : at'[v] = at[v] /\ call'[v] = call[v]
  PROVE  Paced'
  BY DEF Paced, HasLock, Host

LEMMA NextPaced == TypeOK /\ Paced /\ [Next]_vars => Paced'
<1> SUFFICES ASSUME TypeOK, Paced, [Next]_vars PROVE Paced'
  OBVIOUS
<1>h. \A w \in Workers : at[w] # "idle" =>
        Host(w) \in Hosts /\ call[w].delay \in 0..LongestDelay
  BY CallTypes DEF TypeOK, Host
<1>1. CASE Tick
  <2>1. UNCHANGED <<at, call>>
    BY <1>1 DEF Tick
  <2>2. ASSUME NEW w \in Workers, at[w] = "pausing"
        PROVE  wait'[w] + since'[Host(w)] >= call[w].delay
    <3>1. /\ wait[w] \in Nat /\ since[Host(w)] \in 0..LongestDelay
          /\ call[w].delay \in 0..LongestDelay
          /\ wait[w] + since[Host(w)] >= call[w].delay
      BY <1>h, <2>2, LimitsAssumption DEF TypeOK, Paced
    <3>2. /\ wait'[w] = IF wait[w] > 0 THEN wait[w] - 1 ELSE 0
          /\ since'[Host(w)] = IF since[Host(w)] < LongestDelay
                               THEN since[Host(w)] + 1 ELSE since[Host(w)]
      BY <1>1, <1>h, <2>2 DEF Tick
    <3> QED BY <3>1, <3>2, LimitsAssumption
  <2> QED BY <2>1, <2>2 DEF Paced, HasLock, Host
<1>2. ASSUME NEW w \in Workers, Call(w) PROVE Paced'
  BY <1>2, PacedUntouched DEF Call, Goto, client, TypeOK
<1>3. ASSUME NEW w \in Workers, Advance(w) PROVE Paced'
  <2> USE DEF client, TypeOK, Goto
  <2>1. CASE Refuse(w) \/ PassGate(w) \/ LoadRobots(w)
    BY <2>1, PacedUntouched DEF Refuse, PassGate, LoadRobots, Return
  <2>2. CASE EnterSlot(w) \/ Retry(w) \/ Again(w)
    BY <2>2, PacedUntouched DEF EnterSlot, Retry, Again
  <2>3. CASE Answer(w) \/ GiveUp(w)
    BY <2>3, PacedUntouched DEF Answer, GiveUp, Return
  <2>4. CASE EnterLock(w)
    <3>1. /\ \A v \in Workers \ {w} : at'[v] = at[v] /\ wait'[v] = wait[v]
          /\ at'[w] = "pausing" /\ UNCHANGED <<call, since>>
          /\ wait'[w] = IF call[w].delay - since[Host(w)] > 0
                        THEN call[w].delay - since[Host(w)] ELSE 0
          /\ \A v \in Workers : HasLock(v) => Host(v) # Host(w)
      BY <2>4 DEF EnterLock
    <3>2. since[Host(w)] \in Nat /\ call[w].delay \in Nat
      BY <1>h, <2>4, LimitsAssumption DEF EnterLock
    <3>3. wait'[w] + since'[Host(w)] >= call'[w].delay
      BY <3>1, <3>2
    <3> QED BY <3>1, <3>3 DEF Paced, HasLock, Host
  <2>5. CASE Hit(w)
    <3>1. /\ \A v \in Workers \ {w} : at'[v] = at[v]
          /\ at[w] = "pausing" /\ at'[w] = "requesting" /\ UNCHANGED <<call, wait>>
          /\ \A h \in Hosts \ {Host(w)} : since'[h] = since[h]
      BY <2>5 DEF Hit
    <3>2. \A v \in Workers \ {w} : HasLock(v) => Host(v) # Host(w) /\ Host(v) \in Hosts
      BY <1>h, <3>1 DEF Paced, HasLock
    <3> QED BY <3>1, <3>2 DEF Paced, HasLock, Host
  <2> QED BY <1>3, <2>1, <2>2, <2>3, <2>4, <2>5 DEF Advance
<1>4. CASE UNCHANGED vars
  BY <1>4 DEF vars, Paced, HasLock, Host
<1> QED BY <1>1, <1>2, <1>3, <1>4 DEF Next

\* Whatever the other workers do, a get hits its host only when its own delay
\* has passed since the last hit.
THEOREM HitsArePaced == Spec => HitsAreSpaced
<1>1. Init => TypeOK /\ Paced
  BY InitTypeOK DEF Init, Paced, HasLock
<1>2. TypeOK /\ Paced /\ [Next]_vars => (TypeOK /\ Paced)'
  BY NextTypeOK, NextPaced
<1>3. ASSUME TypeOK, Paced, [Next]_vars, NEW w \in Workers,
             at[w] = "pausing", at'[w] = "requesting"
      PROVE  since[Host(w)] >= call[w].delay
  <2>1. wait[w] = 0
    <3>1. CASE Tick \/ UNCHANGED vars
      BY <1>3, <3>1 DEF Tick, vars
    <3>2. ASSUME NEW v \in Workers, Call(v) \/ Advance(v) PROVE wait[w] = 0
      <4>1. v = w
        BY <1>3, <3>2
        DEF Call, Advance, Refuse, PassGate, LoadRobots, EnterSlot, EnterLock, Hit, Answer,
            Retry, GiveUp, Again, Return, Goto, TypeOK
      <4>2. Hit(w)
        BY <1>3, <3>2, <4>1
        DEF Call, Advance, Refuse, PassGate, LoadRobots, EnterSlot, EnterLock, Answer,
            Retry, GiveUp, Again
      <4> QED BY <4>2 DEF Hit
    <3> QED BY <1>3, <3>1, <3>2 DEF Next
  <2>2. since[Host(w)] \in 0..LongestDelay
    BY <1>3, CallTypes DEF TypeOK, Host
  <2> QED BY <1>3, <2>1, <2>2, LimitsAssumption DEF Paced
<1>4. TypeOK /\ Paced /\ [Next]_vars =>
        [\A w \in Workers :
           at[w] = "pausing" /\ at'[w] = "requesting" => since[Host(w)] >= call[w].delay]_vars
  BY <1>3
<1> QED BY <1>1, <1>2, <1>4, PTL DEF Spec, HitsAreSpaced

-----------------------------------------------------------------------------
(* The breaker.                                                            *)

\* The gets that passed the breaker of a host and are not over.
Early(h) == {w \in Workers : Past(w) /\ Host(w) = h}

\* Everyone past the breaker may still fail once: counted ahead, the failures
\* stay below the limit plus the number of workers.
Charged ==
  \A h \in Hosts : failures[h] + Cardinality(Early(h)) < FailureLimit + Cardinality(Workers)

LEMMA EarlyFinite ==
  ASSUME NEW h \in Hosts
  PROVE  /\ IsFiniteSet(Early(h)) /\ Cardinality(Early(h)) \in Nat
         /\ Cardinality(Early(h)) <= Cardinality(Workers)
         /\ Cardinality(Workers) \in Nat
<1>1. Early(h) \subseteq Workers
  BY DEF Early
<1> QED BY <1>1, LimitsAssumption, FS_Subset, FS_CardinalityType

\* How one worker's step changes who is past the breaker.
LEMMA EarlyStep ==
  ASSUME TypeOK, NEW w \in Workers, NEW h \in Hosts,
         \A v \in Workers \ {w} : at'[v] = at[v] /\ call'[v] = call[v]
  PROVE  /\ (Past(w) <=> Past(w)') /\ (Past(w) => call'[w] = call[w])
              => Early(h)' = Early(h)
         /\ Past(w) /\ ~Past(w)'
              => Early(h)' = Early(h) \ {w}
         /\ Past(w) /\ ~Past(w)' /\ Host(w) = h
              => Cardinality(Early(h)') = Cardinality(Early(h)) - 1
         /\ Past(w) /\ ~Past(w)' /\ Host(w) # h
              => Early(h)' = Early(h)
<1>1. \A v \in Workers \ {w} : (Past(v)' <=> Past(v)) /\ Host(v)' = Host(v)
  BY DEF Past, Host
<1>2. (Past(w) <=> Past(w)') /\ (Past(w) => call'[w] = call[w]) => Early(h)' = Early(h)
  BY <1>1 DEF Early, Host
<1>3. Past(w) /\ ~Past(w)' => Early(h)' = Early(h) \ {w}
  BY <1>1 DEF Early
<1>4. w \in Early(h) => Cardinality(Early(h) \ {w}) = Cardinality(Early(h)) - 1
  BY EarlyFinite, FS_RemoveElement
<1>5. (Past(w) /\ Host(w) = h => w \in Early(h)) /\ (Host(w) # h => w \notin Early(h))
  BY DEF Early
<1>6. w \notin Early(h) => Early(h) \ {w} = Early(h)
  OBVIOUS
<1>7. Past(w) /\ ~Past(w)' /\ Host(w) = h
        => Cardinality(Early(h)') = Cardinality(Early(h)) - 1
  BY <1>3, <1>4, <1>5
<1>8. Past(w) /\ ~Past(w)' /\ Host(w) # h => Early(h)' = Early(h)
  BY <1>3, <1>5, <1>6
<1> QED BY <1>2, <1>3, <1>7, <1>8

\* What a worker's step does to the breaker: it passes a closed one, it leaves
\* and may change the failures of its own host, or it changes neither.
LEMMA BreakerStep ==
  ASSUME TypeOK, NEW w \in Workers, Call(w) \/ Advance(w)
  PROVE  /\ \A v \in Workers \ {w} : at'[v] = at[v] /\ call'[v] = call[v]
         /\ \/ /\ ~Past(w) /\ ~Open(Host(w)) /\ Past(w)' /\ Host(w)' = Host(w)
               /\ UNCHANGED failures
            \/ /\ Past(w) /\ ~Past(w)' /\ Host(w) \in Hosts
               /\ \E n \in Nat : /\ n <= failures[Host(w)] + 1
                                 /\ failures' = [failures EXCEPT ![Host(w)] = n]
            \/ /\ Past(w) <=> Past(w)'
               /\ Past(w) => call'[w] = call[w]
               /\ UNCHANGED failures
<1> USE DEF TypeOK, Goto, client, Past
<1>1. \A v \in Workers \ {w} : at'[v] = at[v] /\ call'[v] = call[v]
  BY DEF Call, Advance, Refuse, PassGate, LoadRobots, EnterSlot, EnterLock, Hit, Answer, Retry,
         GiveUp, Again, Return
<1>h. at[w] # "idle" => Host(w) \in Hosts /\ failures[Host(w)] \in Nat
  BY CallTypes DEF Host
<1>2. CASE Call(w) \/ Refuse(w)
  BY <1>1, <1>2 DEF Call, Refuse, Return
<1>3. CASE PassGate(w)
  BY <1>1, <1>3 DEF PassGate, Return, Host
<1>4. CASE LoadRobots(w)
  <2>1. CASE Return(w)
    <3>1. failures' = [failures EXCEPT ![Host(w)] = failures[Host(w)]]
      BY <1>4, <1>h DEF LoadRobots
    <3> QED BY <1>1, <1>4, <1>h, <2>1, <3>1 DEF LoadRobots, Return
  <2>2. CASE Goto(w, "queued") /\ UNCHANGED <<call, attempt>>
    BY <1>1, <1>4, <2>2 DEF LoadRobots
  <2> QED BY <1>4, <2>1, <2>2 DEF LoadRobots
<1>5. CASE EnterSlot(w) \/ EnterLock(w) \/ Hit(w) \/ Retry(w) \/ Again(w)
  BY <1>1, <1>5 DEF EnterSlot, EnterLock, Hit, Retry, Again
<1>6. CASE Answer(w) \/ GiveUp(w)
  <2>1. at[w] = "requesting" /\ Return(w)
    BY <1>6 DEF Answer, GiveUp
  <2>2. Past(w) /\ Host(w) \in Hosts /\ failures[Host(w)] \in Nat
    BY <1>h, <2>1
  <2>3. PICK n \in {0, failures[Host(w)], failures[Host(w)] + 1} :
          failures' = [failures EXCEPT ![Host(w)] = n]
    BY <1>6 DEF Answer, GiveUp
  <2>4. n \in Nat /\ n <= failures[Host(w)] + 1
    BY <2>2
  <2>5. \E m \in Nat : /\ m <= failures[Host(w)] + 1
                      /\ failures' = [failures EXCEPT ![Host(w)] = m]
    BY <2>3, <2>4
  <2>6. ~Past(w)'
    BY <2>1 DEF Return
  <2> QED BY <1>1, <2>2, <2>5, <2>6
<1> QED BY <1>2, <1>3, <1>4, <1>5, <1>6 DEF Advance

LEMMA InitCharged == Init => Charged
<1> SUFFICES ASSUME Init, NEW h \in Hosts
             PROVE  failures[h] + Cardinality(Early(h)) < FailureLimit + Cardinality(Workers)
  BY DEF Charged
<1>1. failures[h] = 0
  BY DEF Init
<1> QED BY <1>1, EarlyFinite, LimitsAssumption

LEMMA NextCharged == TypeOK /\ Charged /\ [Next]_vars => Charged'
<1> SUFFICES ASSUME TypeOK, Charged, [Next]_vars, NEW h \in Hosts
             PROVE  failures'[h] + Cardinality(Early(h)') < FailureLimit + Cardinality(Workers)
  BY DEF Charged
<1>0. /\ failures[h] \in Nat /\ Cardinality(Early(h)) \in Nat
      /\ Cardinality(Workers) \in Nat
      /\ failures[h] + Cardinality(Early(h)) < FailureLimit + Cardinality(Workers)
  BY EarlyFinite DEF TypeOK, Charged
<1>1. CASE Tick \/ UNCHANGED vars
  <2>1. UNCHANGED <<at, call, failures>>
    BY <1>1 DEF Tick, vars
  <2>2. Early(h)' = Early(h)
    BY <2>1 DEF Early, Past, Host
  <2> QED BY <1>0, <2>1, <2>2
<1>2. ASSUME NEW w \in Workers, Call(w) \/ Advance(w)
      PROVE  failures'[h] + Cardinality(Early(h)') < FailureLimit + Cardinality(Workers)
  <2>1. \A v \in Workers \ {w} : at'[v] = at[v] /\ call'[v] = call[v]
    BY <1>2, BreakerStep
  <2>2. CASE /\ ~Past(w) /\ ~Open(Host(w)) /\ Past(w)' /\ Host(w)' = Host(w)
             /\ UNCHANGED failures
    <3>1. Early(h)' \subseteq Workers
      BY DEF Early
    <3>2. Cardinality(Early(h)') \in Nat /\ Cardinality(Early(h)') <= Cardinality(Workers)
      BY <3>1, LimitsAssumption, FS_Subset, FS_CardinalityType
    <3>3. CASE Host(w) = h
      BY <1>0, <2>2, <3>2, <3>3, LimitsAssumption DEF Open
    <3>4. CASE Host(w) # h
      <4>1. Early(h)' = Early(h)
        BY <2>1, <2>2, <3>4 DEF Early, Past, Host
      <4> QED BY <1>0, <2>2, <4>1
    <3> QED BY <3>3, <3>4
  <2>3. CASE /\ Past(w) /\ ~Past(w)' /\ Host(w) \in Hosts
             /\ \E n \in Nat : /\ n <= failures[Host(w)] + 1
                               /\ failures' = [failures EXCEPT ![Host(w)] = n]
    <3>1. CASE Host(w) = h
      <4>1. failures'[h] \in Nat /\ failures'[h] <= failures[h] + 1
        BY <2>3, <3>1 DEF TypeOK
      <4>2. Cardinality(Early(h)') = Cardinality(Early(h)) - 1
        BY <2>1, <2>3, <3>1, EarlyStep
      <4> QED BY <1>0, <4>1, <4>2, LimitsAssumption
    <3>2. CASE Host(w) # h
      <4>1. failures'[h] = failures[h]
        BY <2>3, <3>2 DEF TypeOK
      <4>2. Early(h)' = Early(h)
        BY <2>1, <2>3, <3>2, EarlyStep
      <4> QED BY <1>0, <4>1, <4>2
    <3> QED BY <3>1, <3>2
  <2>4. CASE /\ Past(w) <=> Past(w)'
             /\ Past(w) => call'[w] = call[w]
             /\ UNCHANGED failures
    BY <1>0, <2>1, <2>4, EarlyStep
  <2> QED BY <1>2, <2>2, <2>3, <2>4, BreakerStep
<1> QED BY <1>1, <1>2 DEF Next

\* A dead host costs the run at most one failed get for each worker beyond the
\* limit of the breaker.
THEOREM DeadHostIsSpared == Spec => []FailuresBounded
<1>1. Init => TypeOK /\ Charged
  BY InitTypeOK, InitCharged
<1>2. TypeOK /\ Charged /\ [Next]_vars => (TypeOK /\ Charged)'
  BY NextTypeOK, NextCharged
<1>3. TypeOK /\ Charged => FailuresBounded
  <2> SUFFICES ASSUME TypeOK, Charged, NEW h \in Hosts
               PROVE  failures[h] < FailureLimit + Cardinality(Workers)
    BY DEF FailuresBounded
  <2> QED BY EarlyFinite, LimitsAssumption DEF Charged, TypeOK
<1> QED BY <1>1, <1>2, <1>3, PTL DEF Spec

\* An abandoned host is left alone for the rest of the run.
THEOREM AbandonedIsFinal == Spec => AbandonedForGood
<1>1. ASSUME TypeOK, [Next]_vars, NEW h \in Hosts, Abandoned(h)
      PROVE  Abandoned(h)'
  <2>1. CASE Tick \/ UNCHANGED vars
    BY <1>1, <2>1 DEF Tick, vars, Abandoned, Open, Past, Host
  <2>2. ASSUME NEW w \in Workers, Call(w) \/ Advance(w)
        PROVE  Abandoned(h)'
    <3>1. \A v \in Workers \ {w} : at'[v] = at[v] /\ call'[v] = call[v]
      BY <1>1, <2>2, BreakerStep
    <3>2. failures'[h] = failures[h] /\ (Past(w)' => Host(w)' # h)
      BY <1>1, <2>2, BreakerStep DEF Abandoned, TypeOK, Host
    <3> QED BY <1>1, <3>1, <3>2 DEF Abandoned, Open, Past, Host
  <2> QED BY <1>1, <2>1, <2>2 DEF Next
<1>2. TypeOK /\ [Next]_vars => [\A h \in Hosts : Abandoned(h) => Abandoned(h)']_vars
  BY <1>1
<1> QED BY <1>2, FetchingTyped, PTL DEF Spec, AbandonedForGood

-----------------------------------------------------------------------------
(* The database connection layer.                                          *)

\* The transaction of a process that is no dry run holds the write of the
\* method that is about to commit, as long as the connection lives.
PendingRight ==
  \A p \in Processes \ DryRuns :
    /\ p \notin up \/ pc[p] # "commit" => pending[p] = {}
    /\ p \in up /\ pc[p] = "commit" => pending[p] = {<<p, next[p]>>}

\* A method that is under way has said nothing, and what it wrote is there only
\* if its commit was not heard of; later ones have not begun.
ProgressRight ==
  /\ \A p \in Processes : pc[p] \in {"write", "commit"} => next[p] \in Writes
  /\ \A p \in Processes, i \in Writes :
       /\ i >= next[p] => result[<<p, i>>] = "none"
       /\ i > next[p] => tables[<<p, i>>] = 0
       /\ i = next[p] /\ (p \in up \/ pc[p] # "commit") => tables[<<p, i>>] = 0

\* A process at its DDL, and only then, has the lock, or has lost it with its
\* connection.
LockRight ==
  /\ lock \subseteq up
  /\ \A p, q \in lock : p = q
  /\ \A p \in lock : pc[p] \in {"schema", "ddl"}
  /\ \A p \in up : pc[p] \in {"schema", "ddl"} => p \in lock \/ p \in unguarded

DbInv ==
  /\ DbTypeOK /\ PendingRight /\ ProgressRight /\ WritesLandOnce
  /\ LockRight

-----------------------------------------------------------------------------
LEMMA DbInitRight == DbInit => DbInv
  BY ConnectionAssumption DEF DbInit, DbInv, DbTypeOK, PendingRight, ProgressRight,
         WritesLandOnce, LockRight, Statements, AllWrites

USE ConnectionAssumption

\* The steps that leave tables, results and transactions alone.
LEMMA DbQuiet ==
  ASSUME DbInv, NEW p \in Processes,
         \/ Connect(p) \/ TakeLock(p) \/ RunSchema(p) \/ EndSchema(p)
         \/ Reconnect(p) \/ CallMethod(p)
  PROVE  DbInv'
<1>1. DbTypeOK'
  BY DEF DbInv, DbTypeOK, Connect, TakeLock, RunSchema, EndSchema, Reconnect,
         CallMethod, Execute, At, Reach, Statements
<1>2. PendingRight'
  BY DEF DbInv, DbTypeOK, PendingRight, Connect, TakeLock, RunSchema, EndSchema,
         Reconnect, CallMethod, Execute, At, Reach, Statements
<1>3. ProgressRight'
  BY DEF DbInv, DbTypeOK, ProgressRight, Connect, TakeLock, RunSchema, EndSchema,
         Reconnect, CallMethod, Execute, At, Reach, Statements
<1>4. WritesLandOnce'
  BY DEF DbInv, WritesLandOnce, Connect, TakeLock, RunSchema, EndSchema,
         Reconnect, CallMethod
<1>5. LockRight'
  BY DEF DbInv, DbTypeOK, LockRight, Connect, TakeLock, RunSchema, EndSchema,
         Reconnect, CallMethod, Execute, At, Reach, Statements
<1> QED BY <1>1, <1>2, <1>3, <1>4, <1>5 DEF DbInv

\* The write joins the transaction.
LEMMA DbWriteStep ==
  ASSUME DbInv, NEW p \in Processes, Write(p)
  PROVE  DbInv'
<1> USE DEF DbInv, Write, Execute, At, Reach
<1>0. next[p] \in Writes /\ <<p, next[p]>> \in AllWrites
  BY DEF DbTypeOK, ProgressRight, AllWrites
<1>1. DbTypeOK'
  BY <1>0 DEF DbTypeOK, Statements
<1>2. PendingRight'
  BY DEF DbTypeOK, PendingRight
<1>3. ProgressRight'
  BY DEF DbTypeOK, ProgressRight
<1>4. WritesLandOnce'
  BY DEF WritesLandOnce
<1>5. LockRight'
  BY DEF DbTypeOK, LockRight
<1> QED BY <1>1, <1>2, <1>3, <1>4, <1>5

\* A method or a constructor raises.
LEMMA DbRaiseStep ==
  ASSUME DbInv, NEW p \in Processes, StatementRaises(p) \/ CommitRaises(p)
  PROVE  DbInv'
<1> USE DEF DbInv, StatementRaises, CommitRaises, Raise, At, Reach, Statements
<1>1. DbTypeOK'
  <2>1. result' \in [AllWrites -> {"none", "ok", "raised"}]
    BY DEF DbTypeOK, ProgressRight, AllWrites
  <2>2. next' \in [Processes -> Nat \ {0}] /\ up' \subseteq Processes
    BY DEF DbTypeOK
  <2>3. UNCHANGED <<pending, lock, tables, unguarded, drops>> /\ retried' \subseteq Processes
    BY DEF DbTypeOK
  <2>4. pc' \in [Processes -> Statements \cup {"start", "ddl", "idle", "commit", "end"}]
    BY DEF DbTypeOK
  <2> QED BY <2>1, <2>2, <2>3, <2>4 DEF DbTypeOK
<1>2. PendingRight'
  BY DEF DbTypeOK, PendingRight
<1>3. ProgressRight'
  BY DEF DbTypeOK, ProgressRight, AllWrites
<1>4. WritesLandOnce'
  BY DEF DbTypeOK, WritesLandOnce, AllWrites
<1>5. LockRight'
  BY DEF DbTypeOK, LockRight
<1> QED BY <1>1, <1>2, <1>3, <1>4, <1>5

\* What a commit puts into the tables: the one write of its method.
LEMMA Landed ==
  ASSUME DbInv, NEW p \in Processes \ DryRuns, p \in up, pc[p] = "commit", Land(pending[p])
  PROVE  /\ next[p] \in Writes
         /\ <<p, next[p]>> \in AllWrites
         /\ tables[<<p, next[p]>>] = 0
         /\ result[<<p, next[p]>>] = "none"
         /\ tables' = [tables EXCEPT ![<<p, next[p]>>] = 1]
<1>1. next[p] \in Writes
  BY DEF DbInv, DbTypeOK, ProgressRight
<1>2. /\ <<p, next[p]>> \in AllWrites
      /\ result[<<p, next[p]>>] = "none"
      /\ tables[<<p, next[p]>>] = 0
  BY <1>1 DEF DbInv, DbTypeOK, ProgressRight, AllWrites
<1>3. pending[p] = {<<p, next[p]>>}
  BY DEF DbInv, PendingRight
<1>4. tables \in [AllWrites -> Nat]
  BY DEF DbInv, DbTypeOK
<1>5. tables' = [tables EXCEPT ![<<p, next[p]>>] = 1]
  <2> DEFINE w == <<p, next[p]>>
  <2> HIDE DEF w
  <2>1. pending[p] = {w} /\ tables[w] = 0
    BY <1>2, <1>3 DEF w
  <2>2. tables' = [v \in AllWrites |-> tables[v] + IF v \in {w} THEN 1 ELSE 0]
    BY <2>1 DEF Land
  <2>3. w \in AllWrites
    BY <1>2 DEF w
  <2>4. tables' = [v \in AllWrites |-> IF v = w THEN 1 ELSE tables[v]]
    <3>1. \A v \in AllWrites :
            (tables[v] + IF v \in {w} THEN 1 ELSE 0) = IF v = w THEN 1 ELSE tables[v]
      BY <2>1, <2>3, <1>4
    <3> QED BY <3>1, <2>2
  <2>5. [tables EXCEPT ![w] = 1] = [v \in AllWrites |-> IF v = w THEN 1 ELSE tables[v]]
    BY <2>3, <1>4
  <2>6. tables' = [tables EXCEPT ![w] = 1]
    BY <2>4, <2>5
  <2> QED BY <2>6 DEF w
<1> QED BY <1>1, <1>2, <1>5

LEMMA DbCommitStep ==
  ASSUME DbInv, NEW p \in Processes, Commit(p) \/ CommitUnheard(p) \/ CommitNothing(p)
  PROVE  DbInv'
<1> USE DEF DbInv, At
<1>1. CASE Commit(p)
  <2>1. p \in Processes \ DryRuns /\ Land(pending[p])
    BY <1>1 DEF Commit
  <2>2. /\ next[p] \in Writes /\ <<p, next[p]>> \in AllWrites
        /\ tables' = [tables EXCEPT ![<<p, next[p]>>] = 1]
    BY <1>1, <2>1, Landed DEF Commit
  <2> USE DEF Commit, MethodReturns, Reach
  <2>3. DbTypeOK'
    BY <1>1, <2>2 DEF DbTypeOK, AllWrites
  <2>4. PendingRight'
    BY <1>1 DEF DbTypeOK, PendingRight
  <2>5. ProgressRight'
    BY <1>1, <2>2 DEF DbTypeOK, ProgressRight, AllWrites
  <2>6. WritesLandOnce'
    <3> SUFFICES ASSUME NEW q \in Processes, NEW i \in Writes
                 PROVE  /\ tables'[<<q, i>>] <= IF q \in DryRuns THEN 0 ELSE 1
                        /\ result'[<<q, i>>] = "ok" /\ q \notin DryRuns => tables'[<<q, i>>] = 1
      BY DEF WritesLandOnce
    <3>1. CASE q = p /\ i = next[p]
      BY <1>1, <2>1, <2>2, <3>1 DEF DbTypeOK
    <3>2. CASE ~(q = p /\ i = next[p])
      <4>1. <<q, i>> # <<p, next[p]>>
        BY <3>2
      <4>2. tables'[<<q, i>>] = tables[<<q, i>>] /\ result'[<<q, i>>] = result[<<q, i>>]
        BY <1>1, <2>2, <4>1 DEF DbTypeOK, AllWrites
      <4> QED BY <4>2 DEF WritesLandOnce
    <3> QED BY <3>1, <3>2
  <2>7. LockRight'
    BY <1>1 DEF DbTypeOK, LockRight
  <2> QED BY <2>3, <2>4, <2>5, <2>6, <2>7
<1>2. CASE CommitUnheard(p)
  <2>1. p \in Processes \ DryRuns /\ Land(pending[p])
    BY <1>2 DEF CommitUnheard
  <2>2. /\ next[p] \in Writes /\ <<p, next[p]>> \in AllWrites
        /\ result[<<p, next[p]>>] = "none"
        /\ tables' = [tables EXCEPT ![<<p, next[p]>>] = 1]
    BY <1>2, <2>1, Landed DEF CommitUnheard
  <2> USE DEF CommitUnheard
  <2>3. DbTypeOK'
    BY <1>2, <2>2 DEF DbTypeOK, AllWrites
  <2>4. PendingRight'
    BY <1>2 DEF DbTypeOK, PendingRight
  <2>5. ProgressRight'
    BY <1>2, <2>2 DEF DbTypeOK, ProgressRight, AllWrites
  <2>6. WritesLandOnce'
    <3> SUFFICES ASSUME NEW q \in Processes, NEW i \in Writes
                 PROVE  /\ tables'[<<q, i>>] <= IF q \in DryRuns THEN 0 ELSE 1
                        /\ result'[<<q, i>>] = "ok" /\ q \notin DryRuns => tables'[<<q, i>>] = 1
      BY DEF WritesLandOnce
    <3>1. CASE q = p /\ i = next[p]
      BY <1>2, <2>1, <2>2, <3>1 DEF DbTypeOK
    <3>2. CASE ~(q = p /\ i = next[p])
      <4>1. <<q, i>> # <<p, next[p]>>
        BY <3>2
      <4>2. tables'[<<q, i>>] = tables[<<q, i>>] /\ result' = result
        BY <1>2, <2>2, <4>1 DEF DbTypeOK, AllWrites
      <4> QED BY <4>2 DEF WritesLandOnce
    <3> QED BY <3>1, <3>2
  <2>7. LockRight'
    <3>1. p \notin lock
      BY <1>2 DEF LockRight
    <3> QED BY <1>2, <3>1 DEF DbTypeOK, LockRight
  <2> QED BY <2>3, <2>4, <2>5, <2>6, <2>7
<1>3. CASE CommitNothing(p)
  <2> USE DEF CommitNothing, MethodReturns, Reach
  <2>3. DbTypeOK'
    <3>1. result' \in [AllWrites -> {"none", "ok", "raised"}]
      BY <1>3 DEF DbTypeOK, ProgressRight, AllWrites
    <3>2. next' \in [Processes -> Nat \ {0}]
      BY <1>3 DEF DbTypeOK
    <3> QED BY <1>3, <3>1, <3>2 DEF DbTypeOK
  <2>4. PendingRight'
    BY <1>3 DEF DbTypeOK, PendingRight
  <2>5. ProgressRight'
    BY <1>3 DEF DbTypeOK, ProgressRight, AllWrites
  <2>6. WritesLandOnce'
    BY <1>3 DEF DbTypeOK, WritesLandOnce, AllWrites
  <2>7. LockRight'
    BY <1>3 DEF DbTypeOK, LockRight
  <2> QED BY <2>3, <2>4, <2>5, <2>6, <2>7
<1> QED BY <1>1, <1>2, <1>3

LEMMA DbDropStep ==
  ASSUME DbInv, NEW p \in Processes, Drop(p)
  PROVE  DbInv'
<1> USE DEF DbInv, Drop
<1>1. DbTypeOK'
  BY DEF DbTypeOK
<1>2. PendingRight'
  BY DEF DbTypeOK, PendingRight
<1>3. ProgressRight'
  BY DEF DbTypeOK, ProgressRight
<1>4. WritesLandOnce'
  BY DEF WritesLandOnce
<1>5. LockRight'
  BY DEF DbTypeOK, LockRight
<1> QED BY <1>1, <1>2, <1>3, <1>4, <1>5

\* The invariant is inductive.
THEOREM DatabaseInductive == DbSpec => []DbInv
<1>1. DbInit => DbInv
  BY DbInitRight
<1>2. DbInv /\ [DbNext]_dbVars => DbInv'
  <2> SUFFICES ASSUME DbInv, [DbNext]_dbVars PROVE DbInv'
    OBVIOUS
  <2>1. ASSUME NEW p \in Processes, Step(p) PROVE DbInv'
    BY <2>1, DbQuiet, DbWriteStep, DbRaiseStep, DbCommitStep DEF Step
  <2>2. ASSUME NEW p \in Processes, CommitUnheard(p) PROVE DbInv'
    BY <2>2, DbCommitStep
  <2>3. ASSUME NEW p \in Processes, Drop(p) PROVE DbInv'
    BY <2>3, DbDropStep
  <2>4. CASE UNCHANGED dbVars
    BY <2>4 DEF dbVars, DbInv, DbTypeOK, PendingRight, ProgressRight, WritesLandOnce, LockRight
  <2> QED BY <2>1, <2>2, <2>3, <2>4 DEF DbNext
<1> QED BY <1>1, <1>2, PTL DEF DbSpec

\* Every variable holds what the code gives it.
THEOREM DatabaseTyped == DbSpec => []DbTypeOK
  BY DatabaseInductive, PTL DEF DbInv

\* A method that returned has written, once; a dry run has not.
THEOREM LandOnce == DbSpec => []WritesLandOnce
  BY DatabaseInductive, PTL DEF DbInv

\* Only a process that lost the advisory lock creates the schema next to
\* another one.
THEOREM Serialised == DbSpec => []SchemaIsSerialised
<1>1. DbInv => SchemaIsSerialised
  BY DEF DbInv, LockRight, SchemaIsSerialised, At
<1> QED BY <1>1, DatabaseInductive, PTL

-----------------------------------------------------------------------------
(* The refinement.                                                         *)

LEMMA CommitRefines ==
  ASSUME DbInv, NEW p \in Processes, Commit(p) \/ CommitUnheard(p)
  PROVE  Promise!Next
<1>1. p \in Processes \ DryRuns /\ p \in up /\ pc[p] = "commit" /\ Land(pending[p])
  BY DEF Commit, CommitUnheard, At
<1> DEFINE w == <<p, next[p]>>
<1>2. /\ w \in Promise!AllWrites
      /\ tables[w] = 0 /\ result[w] = "none"
      /\ tables' = [tables EXCEPT ![w] = 1]
  BY <1>1, Landed DEF AllWrites, Promise!AllWrites
<1>3. result' = result \/ result' = [result EXCEPT ![w] = "ok"]
  BY DEF Commit, CommitUnheard, MethodReturns
<1>4. Promise!Land(w)
  BY <1>1, <1>2, <1>3 DEF Promise!Land, Promise!Real
<1> QED BY <1>2, <1>4 DEF Promise!Next

LEMMA AnswerRefines ==
  ASSUME DbInv, NEW p \in Processes,
         StatementRaises(p) \/ CommitRaises(p) \/ CommitNothing(p),
         pc[p] \in {"write", "commit"}
  PROVE  Promise!Next
<1> DEFINE w == <<p, next[p]>>
<1>1. w \in Promise!AllWrites /\ result[w] = "none"
  BY DEF DbInv, DbTypeOK, ProgressRight, Promise!AllWrites
<1>2. tables' = tables
  BY DEF StatementRaises, CommitRaises, CommitNothing
<1>3. \/ result' = [result EXCEPT ![w] = "raised"]
      \/ p \in DryRuns /\ result' = [result EXCEPT ![w] = "ok"]
  BY DEF StatementRaises, CommitRaises, CommitNothing, Raise, MethodReturns, At
<1>4. Promise!Answer(w)
  BY <1>1, <1>2, <1>3 DEF Promise!Answer, Promise!Real
<1> QED BY <1>1, <1>4 DEF Promise!Next

\* The layer implements Storage: every step of a connection is a write that
\* lands, an answer, or nothing a caller sees.
THEOREM DatabaseRefinement == DbSpec => KeepsPromise
<1>1. DbInit => Promise!Init
  BY DEF DbInit, AllWrites, Promise!Init, Promise!AllWrites
<1>2. DbInv /\ [DbNext]_dbVars => [Promise!Next]_<<tables, result>>
  <2> SUFFICES ASSUME DbInv, [DbNext]_dbVars
               PROVE  Promise!Next \/ UNCHANGED <<tables, result>>
    OBVIOUS
  <2>1. ASSUME NEW p \in Processes, Step(p)
        PROVE  Promise!Next \/ UNCHANGED <<tables, result>>
    <3>1. CASE \/ Connect(p) \/ TakeLock(p) \/ RunSchema(p) \/ EndSchema(p)
               \/ Reconnect(p) \/ CallMethod(p) \/ Write(p)
      BY <3>1 DEF Connect, TakeLock, RunSchema, EndSchema, Reconnect, CallMethod,
             Write
    <3>2. CASE StatementRaises(p) /\ pc[p] # "write"
      BY <3>2 DEF StatementRaises, Raise, Statements
    <3>3. CASE \/ StatementRaises(p) /\ pc[p] = "write"
               \/ CommitRaises(p) \/ CommitNothing(p)
      BY <3>3, AnswerRefines DEF CommitRaises, CommitNothing, At
    <3>4. CASE Commit(p)
      BY <3>4, CommitRefines
    <3> QED BY <2>1, <3>1, <3>2, <3>3, <3>4 DEF Step
  <2>2. ASSUME NEW p \in Processes, CommitUnheard(p) PROVE Promise!Next
    BY <2>2, CommitRefines
  <2>3. ASSUME NEW p \in Processes, Drop(p) PROVE UNCHANGED <<tables, result>>
    BY <2>3 DEF Drop
  <2>4. CASE UNCHANGED dbVars
    BY <2>4 DEF dbVars
  <2> QED BY <2>1, <2>2, <2>3, <2>4 DEF DbNext
<1> QED BY <1>1, <1>2, DatabaseInductive, PTL DEF DbSpec, KeepsPromise, Promise!Spec

=============================================================================
