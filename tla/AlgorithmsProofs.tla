-------------------------- MODULE AlgorithmsProofs --------------------------
(***************************************************************************)
(* Every invariant of Algorithms, for all instances: more evidence never   *)
(* reverses a verdict, people's words decide, services are asked           *)
(* sparingly, screening loses nobody, the funnel accounts for everybody,   *)
(* and a company is one company.                                           *)
(*                                                                         *)
(* A step sets the question and its answer, so each invariant follows from *)
(* what the pure operators compute.  Sequences, recursive functions and    *)
(* merged groups are reasoned about by the least counterexample.           *)
(***************************************************************************)
EXTENDS Algorithms, WellFoundedInduction, FiniteSetTheorems, TLAPS

-----------------------------------------------------------------------------
(* Induction and recursion over the positions of a sequence, stated of     *)
(* sets and functions.                                                     *)

\* Every non-empty set of natural numbers has a least element.
LEMMA LeastNumber ==
  ASSUME NEW T, T \subseteq Nat, T # {}
  PROVE  \E n \in T : \A m \in T : n <= m
<1> DEFINE R == OpToRel(<, Nat)
<1>1. \A n, m \in Nat : <<m, n>> \in R <=> m < n
  BY DEF OpToRel
<1>2. IsWellFoundedOn(R, Nat)
  BY NatLessThanWellFounded
<1> HIDE DEF R
<1>3. PICK n \in T : \A m \in T : ~ (<<m, n>> \in R)
  BY <1>2, WFMin
<1>4. \A m \in T : ~ (m < n)
  BY <1>1, <1>3
<1> QED BY <1>4

\* What holds of 0 and, with a number below n, of the next one holds up to n.
LEMMA UpTo ==
  ASSUME NEW n \in Nat, NEW T, 0 \in T, \A i \in 0..(n-1) : i \in T => i + 1 \in T
  PROVE  0..n \subseteq T
<1> DEFINE bad == {i \in 0..n : i \notin T}
<1> SUFFICES ASSUME bad # {} PROVE FALSE
  OBVIOUS
<1>1. bad \in SUBSET Nat
  OBVIOUS
<1>2. PICK m \in bad : \A k \in bad : m <= k
  BY <1>1, LeastNumber
<1>3. m # 0 /\ m \in 0..n /\ m \notin T
  OBVIOUS
<1>4. m - 1 \in 0..(n-1) /\ m - 1 \notin bad
  BY <1>2, <1>3
<1>5. m - 1 \in T
  BY <1>4
<1>6. (m - 1) + 1 = m
  BY <1>3
<1> QED BY <1>3, <1>4, <1>5, <1>6

\* A step that stays within a set can be taken n times.
Steps(n, D) == [1..n -> [D -> D]]

Runs(n, D, start, next) ==
  {run \in [0..n -> D] : run[0] = start /\ \A i \in 1..n : run[i] = next[i][run[i-1]]}

LEMMA Recursion ==
  ASSUME NEW n \in Nat, NEW D, NEW start \in D, NEW next \in Steps(n, D)
  PROVE  Runs(n, D, start, next) # {}
<1> USE DEF Steps, Runs
<1> DEFINE T == {k \in 0..n : Runs(k, D, start, next) # {}}
<1>1. 0 \in T
  <2>1. [i \in 0..0 |-> start] \in Runs(0, D, start, next)
    OBVIOUS
  <2> QED BY <2>1
<1>2. ASSUME NEW k \in 0..(n-1), k \in T PROVE k + 1 \in T
  <2>1. PICK f \in [0..k -> D] : f[0] = start /\ \A i \in 1..k : f[i] = next[i][f[i-1]]
    BY <1>2
  <2> DEFINE g == [i \in 0..(k+1) |-> IF i = k + 1 THEN next[k+1][f[k]] ELSE f[i]]
  <2>2. f[k] \in D /\ k + 1 \in 1..n
    OBVIOUS
  <2>3. next[k+1][f[k]] \in D
    BY <2>2
  <2>4. g \in [0..(k+1) -> D]
    BY <2>3
  <2>5. g[k+1] = next[k+1][f[k]] /\ \A i \in 0..k : g[i] = f[i]
    OBVIOUS
  <2> HIDE DEF g
  <2>6. ASSUME NEW i \in 1..(k+1) PROVE g[i] = next[i][g[i-1]]
    <3>1. i - 1 \in 0..k /\ g[i-1] = f[i-1]
      BY <2>5
    <3>2. CASE i = k + 1
      BY <2>5, <3>1, <3>2
    <3>3. CASE i # k + 1
      BY <2>1, <2>5, <3>1, <3>3
    <3> QED BY <3>2, <3>3
  <2>7. g[0] = start
    BY <2>1, <2>5
  <2>8. g \in Runs(k + 1, D, start, next)
    BY <2>4, <2>6, <2>7
  <2> QED BY <2>8
<1> HIDE DEF T
<1>3. 0..n \subseteq T
  BY <1>1, <1>2, UpTo
<1> QED BY <1>3 DEF T

\* What begins within a set and does not leave it stays there.
Stays(n, D, f) == f[0] \in D /\ \A i \in 1..n : f[i-1] \in D => f[i] \in D

LEMMA StaysWithin ==
  ASSUME NEW n \in Nat, NEW D, NEW f, Stays(n, D, f)
  PROVE  \A i \in 0..n : f[i] \in D
<1> DEFINE T == {i \in 0..n : f[i] \in D}
<1>1. ASSUME NEW i \in 0..(n-1), i \in T PROVE i + 1 \in T
  <2>1. i + 1 \in 1..n /\ (i + 1) - 1 = i
    OBVIOUS
  <2> QED BY <1>1, <2>1 DEF Stays
<1>2. 0 \in T
  BY DEF Stays
<1> HIDE DEF T
<1>3. 0..n \subseteq T
  BY <1>1, <1>2, UpTo
<1> QED BY <1>3 DEF T
-----------------------------------------------------------------------------
(* The services that limit the engine (module Services).                   *)

LEMMA ServicesFacts ==
  /\ {Capacity, Tries, Models} \subseteq Nat \ {0} /\ {Interval, Shell} \subseteq Nat
  /\ Calls \subseteq S!Call /\ Articles \subseteq S!Article /\ \A p \in Pages : S!Page(p)
  BY InstancesAssumption, QuestionsAssumption DEF S!ServicesAssumption

Slot == [free : Int, last : Int]
Bucket == [tokens : 0..Capacity, updated : Nat]

LEMMA MentionTyped ==
  ASSUME NEW s \in Slot, NEW r \in S!Article
  PROVE  S!Mention(s, r) \in [state : Slot, got : Int]
  BY ServicesFacts DEF Slot, S!Article, S!Mention, S!Skipped, S!AtLeast

\* What a call to the language model does to the bucket.
LEMMA AcquireKeeps ==
  ASSUME NEW b \in Bucket, NEW r \in S!Call
  PROVE  LET amount == S!Clipped(r.amount)
             done == S!Acquire(b, r)
         IN /\ amount \in Nat /\ done \in [state : Bucket, got : Int]
            /\ done.got = done.state.updated
            /\ done.state.tokens + amount <= Capacity
            /\ done.state.tokens + amount <= b.tokens + done.state.updated - b.updated
            /\ \/ done.got <= r.at + amount + r.late
               \/ done.got <= b.updated + amount + r.late
<1> DEFINE amount == S!Clipped(r.amount)
           now == S!AtLeast(b.updated, r.at)
           first == S!Refilled(b, now)
           sleep == IF first.tokens >= amount THEN 0 ELSE amount - first.tokens + r.late
           second == S!Refilled(first, first.updated + sleep)
<1>0. Capacity \in Nat /\ r.at \in Nat /\ r.late \in Nat /\ b.updated \in Nat
        /\ b.tokens \in 0..Capacity
  BY ServicesFacts DEF Bucket, S!Call
<1>1. amount \in 0..Capacity
  BY <1>0 DEF S!Call, S!Clipped, S!AtMost, S!AtLeast
<1>2. now \in Nat /\ now >= b.updated /\ (now = r.at \/ now = b.updated)
  BY <1>0 DEF S!AtLeast
<1> HIDE DEF amount, now
<1>3. /\ first.updated = now /\ first.tokens \in 0..Capacity
      /\ first.tokens <= b.tokens + now - b.updated
  BY <1>0, <1>2 DEF S!Refilled, S!AtMost
<1> HIDE DEF first
<1>4. sleep \in Nat /\ sleep <= amount + r.late /\ first.tokens + sleep >= amount
  BY <1>0, <1>1, <1>3
<1> HIDE DEF sleep
<1>5. second.updated = now + sleep
  BY <1>3 DEF S!Refilled
<1>6. /\ second.tokens \in 0..Capacity /\ second.tokens >= amount
      /\ second.tokens <= first.tokens + sleep
  BY <1>0, <1>1, <1>2, <1>3, <1>4 DEF S!Refilled, S!AtMost
<1>7. second = [tokens |-> second.tokens, updated |-> second.updated]
  BY DEF S!Refilled
<1>8. S!Acquire(b, r) = [state |-> [second EXCEPT !.tokens = @ - amount], got |-> second.updated]
  BY DEF S!Acquire, amount, sleep, first, now
<1> HIDE DEF second
<1>9. S!Acquire(b, r) = [state |-> [tokens |-> second.tokens - amount, updated |-> now + sleep],
                         got |-> now + sleep]
  BY <1>5, <1>7, <1>8
<1>10. second.tokens - amount \in 0..Capacity /\ now + sleep \in Nat
  BY <1>0, <1>1, <1>2, <1>4, <1>6
<1>11. S!Acquire(b, r) \in [state : Bucket, got : Int]
  BY <1>9, <1>10 DEF Bucket
<1>12. (second.tokens - amount) + amount <= Capacity
  BY <1>0, <1>1, <1>6
<1>13. (second.tokens - amount) + amount <= b.tokens + (now + sleep) - b.updated
  BY <1>0, <1>1, <1>2, <1>3, <1>4, <1>6
<1>14. now + sleep <= r.at + amount + r.late \/ now + sleep <= b.updated + amount + r.late
  BY <1>0, <1>1, <1>2, <1>4
<1>15. amount \in Nat
  BY <1>0, <1>1
<1> QED BY <1>9, <1>11, <1>12, <1>13, <1>14, <1>15 DEF amount

\* The news search serves its requests in turn.
LEMMA NewsInTurn ==
  ASSUME NEW n \in Nat, NEW rs \in [1..n -> S!Article]
  PROVE  \E slot \in [0..n -> Slot] :
           /\ slot[0] = S!IdleSlot
           /\ \A i \in 1..n : slot[i] = S!Mention(slot[i-1], rs[i]).state
           /\ S!News(rs) = [i \in 1..n |-> S!Mention(slot[i-1], rs[i]).got]
<1> DEFINE Start == [state |-> S!IdleSlot]
           D == {Start} \cup [state : Slot, got : Int]
           next == [i \in 1..n |-> [x \in D |-> S!Mention(x.state, rs[i])]]
<1>0. Len(rs) = n /\ DOMAIN rs = 1..n
  OBVIOUS
<1>1. S!IdleSlot \in Slot
  BY ServicesFacts DEF S!IdleSlot, Slot
<1>2. Start \in D /\ Start.state = S!IdleSlot /\ \A x \in D : x.state \in Slot
  BY <1>1
<1>3. ASSUME NEW s \in Slot, NEW i \in 1..n PROVE S!Mention(s, rs[i]) \in D
  <2> DEFINE r == rs[i]
  <2>1. r \in S!Article
    OBVIOUS
  <2> HIDE DEF r
  <2>2. S!Mention(s, r) \in [state : Slot, got : Int]
    BY <2>1, MentionTyped
  <2> QED BY <2>2 DEF r
<1> HIDE DEF D, Start
<1>4. next \in Steps(n, D)
  BY <1>2, <1>3 DEF Steps
<1>5. \A i \in 1..n, x \in D : next[i][x] = S!Mention(x.state, rs[i])
  OBVIOUS
<1> HIDE DEF next
<1>6. PICK run \in Runs(n, D, Start, next) : TRUE
  BY <1>2, <1>4, Recursion
<1>7. ASSUME NEW i \in 1..n PROVE run[i] = S!Mention(run[i-1].state, rs[i])
  <2>1. run[i-1] \in D /\ run[i] = next[i][run[i-1]]
    BY <1>6 DEF Runs
  <2> QED BY <1>5, <2>1
<1>8. run = [i \in 0..n |-> IF i = 0 THEN Start ELSE S!Mention(run[i-1].state, rs[i])]
  BY <1>6, <1>7 DEF Runs
<1> DEFINE done == CHOOSE f : f = [i \in 0..n |-> IF i = 0 THEN Start
                                                  ELSE S!Mention(f[i-1].state, rs[i])]
<1>9. done = [i \in 0..n |-> IF i = 0 THEN Start ELSE S!Mention(done[i-1].state, rs[i])]
  BY <1>8
<1>10. S!News(rs) = [i \in 1..n |-> done[i].got]
  BY <1>0 DEF S!News, S!Serve, Start
<1> HIDE DEF done
<1>11. done[0] = Start /\ \A i \in 1..n : done[i] = S!Mention(done[i-1].state, rs[i])
  BY <1>9
<1>12. Stays(n, D, done)
  BY <1>2, <1>3, <1>11 DEF Stays
<1>13. \A i \in 0..n : done[i] \in D
  BY <1>12, StaysWithin
<1> DEFINE slots == [i \in 0..n |-> done[i].state]
<1>14. slots \in [0..n -> Slot]
  BY <1>2, <1>13
<1>15. slots[0] = S!IdleSlot
  BY <1>2, <1>11
<1>16. \A i \in 1..n : done[i] = S!Mention(slots[i-1], rs[i])
  BY <1>11
<1>17. S!News(rs) = [i \in 1..n |-> S!Mention(slots[i-1], rs[i]).got]
  BY <1>10, <1>16
<1>18. \A i \in 1..n : slots[i] = S!Mention(slots[i-1], rs[i]).state
  BY <1>16
<1> HIDE DEF slots
<1> QED BY <1>14, <1>15, <1>17, <1>18

\* The token bucket serves the calls in turn.
LEMMA CallsInTurn ==
  ASSUME NEW n \in Nat, NEW rs \in [1..n -> S!Call]
  PROVE  \E bucket \in [0..n -> Bucket] :
           /\ bucket[0] = S!FullBucket
           /\ \A i \in 1..n : bucket[i] = S!Acquire(bucket[i-1], rs[i]).state
           /\ S!Granted(rs) = [i \in 1..n |-> S!Acquire(bucket[i-1], rs[i]).got]
<1> DEFINE Start == [state |-> S!FullBucket]
           D == {Start} \cup [state : Bucket, got : Int]
           next == [i \in 1..n |-> [x \in D |-> S!Acquire(x.state, rs[i])]]
<1>0. Len(rs) = n /\ DOMAIN rs = 1..n
  OBVIOUS
<1>1. S!FullBucket \in Bucket
  BY ServicesFacts DEF S!FullBucket, Bucket
<1>2. Start \in D /\ Start.state = S!FullBucket /\ \A x \in D : x.state \in Bucket
  BY <1>1
<1>3. ASSUME NEW s \in Bucket, NEW i \in 1..n PROVE S!Acquire(s, rs[i]) \in D
  <2> DEFINE r == rs[i]
  <2>1. r \in S!Call
    OBVIOUS
  <2> HIDE DEF r
  <2>2. S!Acquire(s, r) \in [state : Bucket, got : Int]
    BY <2>1, AcquireKeeps
  <2> QED BY <2>2 DEF r
<1> HIDE DEF D, Start
<1>4. next \in Steps(n, D)
  BY <1>2, <1>3 DEF Steps
<1>5. \A i \in 1..n, x \in D : next[i][x] = S!Acquire(x.state, rs[i])
  OBVIOUS
<1> HIDE DEF next
<1>6. PICK run \in Runs(n, D, Start, next) : TRUE
  BY <1>2, <1>4, Recursion
<1>7. ASSUME NEW i \in 1..n PROVE run[i] = S!Acquire(run[i-1].state, rs[i])
  <2>1. run[i-1] \in D /\ run[i] = next[i][run[i-1]]
    BY <1>6 DEF Runs
  <2> QED BY <1>5, <2>1
<1>8. run = [i \in 0..n |-> IF i = 0 THEN Start ELSE S!Acquire(run[i-1].state, rs[i])]
  BY <1>6, <1>7 DEF Runs
<1> DEFINE done == CHOOSE f : f = [i \in 0..n |-> IF i = 0 THEN Start
                                                  ELSE S!Acquire(f[i-1].state, rs[i])]
<1>9. done = [i \in 0..n |-> IF i = 0 THEN Start ELSE S!Acquire(done[i-1].state, rs[i])]
  BY <1>8
<1>10. S!Granted(rs) = [i \in 1..n |-> done[i].got]
  BY <1>0 DEF S!Granted, S!Serve, Start
<1> HIDE DEF done
<1>11. done[0] = Start /\ \A i \in 1..n : done[i] = S!Acquire(done[i-1].state, rs[i])
  BY <1>9
<1>12. Stays(n, D, done)
  BY <1>2, <1>3, <1>11 DEF Stays
<1>13. \A i \in 0..n : done[i] \in D
  BY <1>12, StaysWithin
<1> DEFINE slots == [i \in 0..n |-> done[i].state]
<1>14. slots \in [0..n -> Bucket]
  BY <1>2, <1>13
<1>15. slots[0] = S!FullBucket
  BY <1>2, <1>11
<1>16. \A i \in 1..n : done[i] = S!Acquire(slots[i-1], rs[i])
  BY <1>11
<1>17. S!Granted(rs) = [i \in 1..n |-> S!Acquire(slots[i-1], rs[i]).got]
  BY <1>10, <1>16
<1>18. \A i \in 1..n : slots[i] = S!Acquire(slots[i-1], rs[i]).state
  BY <1>16
<1> HIDE DEF slots
<1> QED BY <1>14, <1>15, <1>17, <1>18

\* The fetcher takes the static answers in turn.
LEMMA PagesInTurn ==
  ASSUME NEW n \in Nat, NEW rs \in [1..n -> Pages]
  PROVE  \E tried \in [0..n -> SUBSET {rs[i].host : i \in 1..n}] :
           /\ tried[0] = {}
           /\ \A i \in 1..n : tried[i] = S!Fetch(tried[i-1], rs[i]).state
           /\ S!Rendered(rs) = [i \in 1..n |-> S!Fetch(tried[i-1], rs[i]).got]
<1> DEFINE Start == [state |-> {}]
           D == {Start} \cup [state : SUBSET {rs[i].host : i \in 1..n}, got : [rendered : BOOLEAN, chars : Int]]
           next == [i \in 1..n |-> [x \in D |-> S!Fetch(x.state, rs[i])]]
<1>0. Len(rs) = n /\ DOMAIN rs = 1..n
  OBVIOUS
<1>1. {} \in SUBSET {rs[i].host : i \in 1..n}
  BY ServicesFacts
<1>2. Start \in D /\ Start.state = {} /\ \A x \in D : x.state \in SUBSET {rs[i].host : i \in 1..n}
  BY <1>1
<1>3. ASSUME NEW s \in SUBSET {rs[i].host : i \in 1..n}, NEW i \in 1..n PROVE S!Fetch(s, rs[i]) \in D
  BY ServicesFacts DEF S!Page, S!Fetch
<1> HIDE DEF D, Start
<1>4. next \in Steps(n, D)
  BY <1>2, <1>3 DEF Steps
<1>5. \A i \in 1..n, x \in D : next[i][x] = S!Fetch(x.state, rs[i])
  OBVIOUS
<1> HIDE DEF next
<1>6. PICK run \in Runs(n, D, Start, next) : TRUE
  BY <1>2, <1>4, Recursion
<1>7. ASSUME NEW i \in 1..n PROVE run[i] = S!Fetch(run[i-1].state, rs[i])
  <2>1. run[i-1] \in D /\ run[i] = next[i][run[i-1]]
    BY <1>6 DEF Runs
  <2> QED BY <1>5, <2>1
<1>8. run = [i \in 0..n |-> IF i = 0 THEN Start ELSE S!Fetch(run[i-1].state, rs[i])]
  BY <1>6, <1>7 DEF Runs
<1> DEFINE done == CHOOSE f : f = [i \in 0..n |-> IF i = 0 THEN Start
                                                  ELSE S!Fetch(f[i-1].state, rs[i])]
<1>9. done = [i \in 0..n |-> IF i = 0 THEN Start ELSE S!Fetch(done[i-1].state, rs[i])]
  BY <1>8
<1>10. S!Rendered(rs) = [i \in 1..n |-> done[i].got]
  BY <1>0 DEF S!Rendered, S!Serve, Start
<1> HIDE DEF done
<1>11. done[0] = Start /\ \A i \in 1..n : done[i] = S!Fetch(done[i-1].state, rs[i])
  BY <1>9
<1>12. Stays(n, D, done)
  BY <1>2, <1>3, <1>11 DEF Stays
<1>13. \A i \in 0..n : done[i] \in D
  BY <1>12, StaysWithin
<1> DEFINE slots == [i \in 0..n |-> done[i].state]
<1>14. slots \in [0..n -> SUBSET {rs[i].host : i \in 1..n}]
  BY <1>2, <1>13
<1>15. slots[0] = {}
  BY <1>2, <1>11
<1>16. \A i \in 1..n : done[i] = S!Fetch(slots[i-1], rs[i])
  BY <1>11
<1>17. S!Rendered(rs) = [i \in 1..n |-> S!Fetch(slots[i-1], rs[i]).got]
  BY <1>10, <1>16
<1>18. \A i \in 1..n : slots[i] = S!Fetch(slots[i-1], rs[i]).state
  BY <1>16
<1> HIDE DEF slots
<1> QED BY <1>14, <1>15, <1>17, <1>18

\* The sums of the first amounts of a list.
LEMMA SumsInTurn ==
  ASSUME NEW n \in Nat, NEW amounts \in [1..n -> Int]
  PROVE  /\ S!Sums(amounts) \in [0..n -> Int]
         /\ S!Sums(amounts)[0] = 0
         /\ \A i \in 1..n : S!Sums(amounts)[i] = S!Sums(amounts)[i-1] + amounts[i]
<1> DEFINE next == [i \in 1..n |-> [x \in Int |-> x + amounts[i]]]
<1>1. Len(amounts) = n /\ \A i \in 1..n : amounts[i] \in Int
  OBVIOUS
<1>2. next \in Steps(n, Int) /\ \A i \in 1..n, x \in Int : next[i][x] = x + amounts[i]
  BY DEF Steps
<1> HIDE DEF next
<1>3. PICK run \in Runs(n, Int, 0, next) : TRUE
  <2>1. 0 \in Int
    OBVIOUS
  <2> QED BY <1>2, <2>1, Recursion
<1>4. run = [i \in 0..n |-> IF i = 0 THEN 0 ELSE run[i-1] + amounts[i]]
  <2>1. run \in [0..n -> Int] /\ run[0] = 0
    BY <1>3 DEF Runs
  <2>2. ASSUME NEW i \in 1..n PROVE run[i] = run[i-1] + amounts[i]
    <3>1. i - 1 \in 0..n
      OBVIOUS
    <3>2. run[i-1] \in Int /\ run[i] = next[i][run[i-1]]
      BY <1>3, <2>1, <3>1 DEF Runs
    <3> QED BY <1>2, <3>2
  <2>3. \A i \in 0..n : run[i] = IF i = 0 THEN 0 ELSE run[i-1] + amounts[i]
    BY <2>1, <2>2
  <2> QED BY <2>1, <2>3
<1> DEFINE sum == CHOOSE f : f = [i \in 0..n |-> IF i = 0 THEN 0 ELSE f[i-1] + amounts[i]]
<1>5. sum = [i \in 0..n |-> IF i = 0 THEN 0 ELSE sum[i-1] + amounts[i]]
  BY <1>4
<1>6. S!Sums(amounts) = sum
  BY <1>1 DEF S!Sums
<1> HIDE DEF sum
<1>7. sum[0] = 0 /\ \A i \in 1..n : sum[i] = sum[i-1] + amounts[i]
  BY <1>5
<1>8. Stays(n, Int, sum)
  BY <1>1, <1>7 DEF Stays
<1>9. \A i \in 0..n : sum[i] \in Int
  BY <1>8, StaysWithin
<1> QED BY <1>5, <1>6, <1>7, <1>9

\* What a request for news does to the slot.
LEMMA MentionKeeps ==
  ASSUME NEW s \in Slot, s.last <= s.free, NEW r \in S!Article
  PROVE  LET done == S!Mention(s, r)
         IN /\ done.state.last <= done.state.free /\ done.state.last >= s.last
            /\ done.got # S!Skipped =>
                 /\ done.got <= r.at + Interval /\ done.got >= s.last + Interval
                 /\ done.state.last = done.got + r.took
<1>0. s.last \in Int /\ s.free \in Int /\ r.at \in Nat /\ r.took \in Nat /\ Interval \in Nat
  BY ServicesFacts DEF Slot, S!Article
<1> DEFINE asked == S!AtLeast(s.last + Interval, r.at)
<1>1. CASE r.at < s.free
  <2>1. S!Mention(s, r) = [state |-> s, got |-> S!Skipped]
    BY <1>1 DEF S!Mention
  <2> QED BY <1>0, <2>1
<1>2. CASE ~ (r.at < s.free)
  <2>1. S!Mention(s, r) = [state |-> [free |-> asked + r.took, last |-> asked + r.took], got |-> asked]
    BY <1>2 DEF S!Mention
  <2>2. asked \in Int /\ asked <= r.at + Interval /\ asked >= s.last + Interval
    BY <1>0, <1>2 DEF S!AtLeast
  <2> HIDE DEF asked
  <2> QED BY <1>0, <2>1, <2>2
<1> QED BY <1>1, <1>2

LEMMA NewsThrottled ==
  ASSUME NEW n \in Nat, NEW rs \in [1..n -> S!Article]
  PROVE  Throttled(rs, S!News(rs))
<1>1. PICK slot \in [0..n -> Slot] :
        /\ slot[0] = S!IdleSlot
        /\ \A i \in 1..n : slot[i] = S!Mention(slot[i-1], rs[i]).state
        /\ S!News(rs) = [i \in 1..n |-> S!Mention(slot[i-1], rs[i]).got]
  BY NewsInTurn
<1> DEFINE asked == S!News(rs)
<1>0. Interval \in Nat /\ \A i \in 1..n : rs[i] \in S!Article /\ rs[i].took \in Nat
  BY ServicesFacts DEF S!Article
<1>2. \A i \in 1..n : asked[i] = S!Mention(slot[i-1], rs[i]).got
  BY <1>1
<1>3. \A i \in 1..n : slot[i] = S!Mention(slot[i-1], rs[i]).state
  BY <1>1
<1>4. \A i \in 0..n : slot[i] \in Slot /\ slot[i].last \in Int /\ slot[i].free \in Int
  BY DEF Slot
<1>a. ASSUME NEW k \in 1..n PROVE asked[k] \in Int
  <2>1. k - 1 \in 0..n /\ slot[k-1] \in Slot /\ rs[k] \in S!Article
    OBVIOUS
  <2>2. S!Mention(slot[k-1], rs[k]).got \in Int
    BY <2>1, MentionTyped
  <2> QED BY <1>2, <2>2
<1> HIDE DEF asked
<1> DEFINE T == {j \in 0..n : /\ slot[j].last <= slot[j].free
                              /\ \A i \in 1..j : asked[i] # S!Skipped =>
                                   slot[j].last >= asked[i] + rs[i].took}
<1>5. 0 \in T
  BY <1>0, <1>1 DEF S!IdleSlot
<1>6. ASSUME NEW j \in 0..(n-1), j \in T PROVE j + 1 \in T
  <2>1. j + 1 \in 1..n /\ (j + 1) - 1 = j
    OBVIOUS
  <2>2. /\ slot[j+1].last <= slot[j+1].free /\ slot[j+1].last >= slot[j].last
        /\ asked[j+1] # S!Skipped => slot[j+1].last = asked[j+1] + rs[j+1].took
    BY <1>0, <1>2, <1>3, <1>4, <1>6, <2>1, MentionKeeps
  <2>3. ASSUME NEW i \in 1..(j+1), asked[i] # S!Skipped PROVE slot[j+1].last >= asked[i] + rs[i].took
    <3>1. CASE i = j + 1
      <4>1. slot[j+1].last = asked[j+1] + rs[j+1].took
        BY <2>2, <2>3, <3>1
      <4> QED BY <1>0, <1>4, <1>a, <2>1, <2>3, <3>1, <4>1
    <3>2. CASE i # j + 1
      <4>1. i \in 1..j /\ slot[j].last >= asked[i] + rs[i].took
        BY <1>6, <2>3, <3>2
      <4>2. asked[i] \in Int /\ rs[i].took \in Int
        BY <1>0, <1>a, <2>3, <4>1
      <4> QED BY <1>4, <2>1, <2>2, <4>1, <4>2
    <3> QED BY <3>1, <3>2
  <2> QED BY <2>1, <2>2, <2>3
<1> HIDE DEF T
<1>7. 0..n \subseteq T
  BY <1>5, <1>6, UpTo
<1>8. ASSUME NEW j \in 1..n, asked[j] # S!Skipped
      PROVE  /\ asked[j] <= rs[j].at + Interval
             /\ \A i \in 1..j-1 : asked[i] # S!Skipped => asked[j] >= asked[i] + rs[i].took + Interval
  <2>1. j - 1 \in 0..n /\ j - 1 \in T
    BY <1>7
  <2>2. slot[j-1].last <= slot[j-1].free
    BY <2>1 DEF T
  <2>3. asked[j] <= rs[j].at + Interval /\ asked[j] >= slot[j-1].last + Interval
    BY <1>0, <1>2, <1>4, <1>8, <2>1, <2>2, MentionKeeps
  <2>5. \A i \in 1..j-1 : asked[i] # S!Skipped => slot[j-1].last >= asked[i] + rs[i].took
    BY <2>1 DEF T
  <2>6. ASSUME NEW i \in 1..j-1, asked[i] # S!Skipped PROVE asked[j] >= asked[i] + rs[i].took + Interval
    <3>1. i \in 1..n
      OBVIOUS
    <3> QED BY <1>0, <1>4, <1>a, <2>1, <2>3, <2>5, <2>6, <3>1, SMTT(40)
  <2> QED BY <2>3, <2>6
<1> QED BY <1>8 DEF Throttled, asked

LEMMA CallsPaced ==
  ASSUME NEW n \in Nat, NEW rs \in [1..n -> S!Call], InOrder(rs)
  PROVE  Paced(rs, S!Granted(rs))
<1>1. PICK bucket \in [0..n -> Bucket] :
        /\ bucket[0] = S!FullBucket
        /\ \A i \in 1..n : bucket[i] = S!Acquire(bucket[i-1], rs[i]).state
        /\ S!Granted(rs) = [i \in 1..n |-> S!Acquire(bucket[i-1], rs[i]).got]
  BY CallsInTurn
<1> DEFINE amount == [i \in DOMAIN rs |-> S!Clipped(rs[i].amount)]
           cost == [i \in DOMAIN rs |-> S!Clipped(rs[i].amount) + rs[i].late]
           granted == S!Granted(rs)
           need == S!Sums(amount)
           time == S!Sums(cost)
<1>2. /\ Capacity \in Nat
      /\ \A i \in 1..n : rs[i] \in S!Call /\ rs[i].at \in Nat /\ rs[i].late \in Nat
      /\ \A i \in 0..n : bucket[i] \in Bucket /\ bucket[i].tokens \in 0..Capacity
                         /\ bucket[i].updated \in Nat
  BY ServicesFacts DEF S!Call, Bucket
<1>3. ASSUME NEW i \in 1..n
      PROVE  /\ amount[i] \in Nat /\ cost[i] \in Nat /\ cost[i] = amount[i] + rs[i].late
             /\ granted[i] = bucket[i].updated
             /\ bucket[i].tokens + amount[i] <= Capacity
             /\ bucket[i].tokens + amount[i] <= bucket[i-1].tokens + bucket[i].updated - bucket[i-1].updated
             /\ \/ bucket[i].updated <= rs[i].at + cost[i]
                \/ bucket[i].updated <= bucket[i-1].updated + cost[i]
  <2> DEFINE done == S!Acquire(bucket[i-1], rs[i])
  <2>1. i - 1 \in 0..n /\ i \in 0..n /\ amount[i] = S!Clipped(rs[i].amount)
          /\ cost[i] = amount[i] + rs[i].late
    OBVIOUS
  <2>2. /\ amount[i] \in Nat /\ done.got = done.state.updated
        /\ done.state.tokens + amount[i] <= Capacity
        /\ done.state.tokens + amount[i] <= bucket[i-1].tokens + done.state.updated - bucket[i-1].updated
        /\ \/ done.got <= rs[i].at + amount[i] + rs[i].late
           \/ done.got <= bucket[i-1].updated + amount[i] + rs[i].late
    BY <1>2, <2>1, AcquireKeeps
  <2>3. bucket[i] = done.state /\ granted[i] = done.got
    BY <1>1
  <2>4. /\ amount[i] \in Nat /\ granted[i] = bucket[i].updated
        /\ bucket[i].tokens + amount[i] <= Capacity
        /\ bucket[i].tokens + amount[i] <= bucket[i-1].tokens + bucket[i].updated - bucket[i-1].updated
        /\ \/ bucket[i].updated <= rs[i].at + amount[i] + rs[i].late
           \/ bucket[i].updated <= bucket[i-1].updated + amount[i] + rs[i].late
    <3> HIDE DEF done, amount, cost, granted
    <3> QED BY <2>2, <2>3
  <2>5. rs[i].at \in Nat /\ rs[i].late \in Nat /\ bucket[i-1].updated \in Nat
    BY <1>2, <2>1
  <2> DEFINE amt == amount[i]
             late == rs[i].late
             at == rs[i].at
             was == bucket[i-1].updated
  <2>6. /\ amt \in Nat /\ late \in Nat /\ at \in Nat /\ was \in Nat
        /\ cost[i] = amt + late /\ amount[i] = amt
    BY <2>1, <2>4, <2>5
  <2>7. bucket[i].updated <= at + amt + late \/ bucket[i].updated <= was + amt + late
    BY <2>4
  <2> HIDE DEF amt, late, at, was
  <2>8. at + amt + late = at + (amt + late) /\ was + amt + late = was + (amt + late)
    BY <2>6
  <2>9. \/ bucket[i].updated <= at + cost[i]
        \/ bucket[i].updated <= was + cost[i]
    BY <2>6, <2>7, <2>8
  <2>10. cost[i] \in Nat
    BY <2>6
  <2> HIDE DEF done, amount, cost, granted
  <2> QED BY <2>1, <2>4, <2>9, <2>10 DEF at, was
<1>4. amount \in [1..n -> Int] /\ cost \in [1..n -> Int] /\ DOMAIN rs = 1..n
  <2>1. DOMAIN rs = 1..n /\ DOMAIN amount = 1..n /\ DOMAIN cost = 1..n
    OBVIOUS
  <2>2. \A i \in 1..n : amount[i] \in Int /\ cost[i] \in Int
    BY <1>2, <1>3
  <2>3. amount = [i \in 1..n |-> amount[i]] /\ cost = [i \in 1..n |-> cost[i]]
    BY <2>1
  <2> HIDE DEF amount, cost
  <2> QED BY <2>1, <2>2, <2>3
<1>5. Paced(rs, granted) <=>
        \A j \in DOMAIN rs :
          /\ \A i \in 1..j : need[j] - need[i - 1] <= Capacity + granted[j] - granted[i]
          /\ granted[j] <= rs[j].at + time[j]
  BY DEF Paced
<1> HIDE DEF amount, cost, granted
<1>6. /\ \A i \in 0..n : need[i] \in Int /\ time[i] \in Int
      /\ need[0] = 0 /\ time[0] = 0
      /\ \A i \in 1..n : need[i] = need[i-1] + amount[i] /\ time[i] = time[i-1] + cost[i]
  BY <1>4, SumsInTurn
<1> HIDE DEF need, time
<1> DEFINE T == {j \in 0..n :
                   \A i \in 1..j : bucket[j].tokens + need[j] - need[i-1]
                                     <= Capacity + bucket[j].updated - bucket[i].updated}
<1>7. 0..n \subseteq T
  <2>1. 0 \in T
    OBVIOUS
  <2>2. ASSUME NEW j \in 0..(n-1), j \in T PROVE j + 1 \in T
    <3>1. j + 1 \in 1..n /\ (j + 1) - 1 = j /\ j \in 0..n /\ j + 1 \in 0..n
      OBVIOUS
    <3>2. ASSUME NEW i \in 1..(j+1)
          PROVE  bucket[j+1].tokens + need[j+1] - need[i-1]
                   <= Capacity + bucket[j+1].updated - bucket[i].updated
      <4>1. i - 1 \in 0..n /\ i \in 0..n
        OBVIOUS
      <4>2. CASE i = j + 1
        <5>1. need[j+1] - need[i-1] = amount[j+1] /\ amount[j+1] \in Nat
          BY <1>3, <1>6, <3>1, <4>2
        <5>2. bucket[j+1].tokens + amount[j+1] <= Capacity
          BY <1>3, <3>1
        <5>3. bucket[i].updated = bucket[j+1].updated
          BY <4>2
        <5>4. /\ need[j+1] \in Int /\ need[i-1] \in Int /\ Capacity \in Nat
              /\ bucket[j+1].tokens \in Nat /\ bucket[j+1].updated \in Nat
          BY <1>2, <1>6, <3>1, <4>1
        <5>5. bucket[j+1].tokens + need[j+1] - need[i-1] <= Capacity
          BY <5>1, <5>2, <5>4
        <5>6. Capacity + bucket[j+1].updated - bucket[i].updated = Capacity
          BY <5>3, <5>4
        <5> QED BY <5>5, <5>6
      <4>3. CASE i # j + 1
        <5>1. i \in 1..j
          BY <4>3
        <5>2. bucket[j].tokens + need[j] - need[i-1]
                <= Capacity + bucket[j].updated - bucket[i].updated
          BY <2>2, <5>1
        <5>3. /\ need[j+1] = need[j] + amount[j+1] /\ amount[j+1] \in Nat
              /\ bucket[j+1].tokens + amount[j+1]
                   <= bucket[j].tokens + bucket[j+1].updated - bucket[j].updated
          BY <1>3, <1>6, <3>1
        <5>4. need[j] \in Int /\ need[i-1] \in Int
          BY <1>6, <3>1, <4>1
        <5>5. /\ bucket[j].tokens \in Nat /\ bucket[j].updated \in Nat /\ bucket[i].updated \in Nat
              /\ bucket[j+1].tokens \in Nat /\ bucket[j+1].updated \in Nat /\ Capacity \in Nat
          BY <1>2, <3>1, <4>1
        <5> DEFINE t == bucket[j].tokens
                   t2 == bucket[j+1].tokens
                   u == bucket[j].updated
                   u2 == bucket[j+1].updated
                   u1 == bucket[i].updated
                   k == need[j]
                   k2 == need[j+1]
                   m == need[i-1]
                   a == amount[j+1]
        <5>6. /\ t \in Int /\ t2 \in Int /\ u \in Int /\ u1 \in Int /\ u2 \in Int
              /\ k \in Int /\ m \in Int /\ a \in Int /\ Capacity \in Int
          BY <5>3, <5>4, <5>5, SMTT(40)
        <5>7. t + k - m <= Capacity + u - u1
          BY <5>2
        <5>8. t2 + a <= t + u2 - u /\ k2 = k + a
          BY <5>3
        <5> HIDE DEF t, t2, u, u1, u2, k, k2, m, a
        <5>9. t2 + k2 - m <= Capacity + u2 - u1
          BY <5>6, <5>7, <5>8
        <5> QED BY <5>9 DEF t2, u1, u2, k2, m
      <4> QED BY <4>2, <4>3
    <3> QED BY <3>1, <3>2
  <2> HIDE DEF T
  <2> QED BY <2>1, <2>2, UpTo
<1> DEFINE U == {j \in 0..n : time[j] >= 0 /\ IF j = 0 THEN bucket[j].updated = 0
                                              ELSE bucket[j].updated <= rs[j].at + time[j]}
<1>8. 0..n \subseteq U
  <2>1. 0 \in U
    BY <1>1, <1>6 DEF S!FullBucket
  <2>2. ASSUME NEW j \in 0..(n-1), j \in U PROVE j + 1 \in U
    <3>1. j + 1 \in 1..n /\ (j + 1) - 1 = j /\ j \in 0..n /\ j + 1 \in 0..n /\ j + 1 # 0
      OBVIOUS
    <3>2. /\ time[j+1] = time[j] + cost[j+1] /\ cost[j+1] \in Nat /\ time[j] \in Int /\ time[j] >= 0
          /\ rs[j+1].at \in Nat /\ bucket[j].updated \in Nat /\ bucket[j+1].updated \in Nat
      <4>1. cost[j+1] \in Nat
        BY <1>3, <3>1
      <4>2. time[j+1] = time[j] + cost[j+1] /\ time[j] \in Int
        BY <1>6, <3>1
      <4>3. time[j] >= 0
        BY <2>2
      <4>4. rs[j+1].at \in Nat /\ bucket[j].updated \in Nat /\ bucket[j+1].updated \in Nat
        BY <1>2, <3>1
      <4> QED BY <4>1, <4>2, <4>3, <4>4
    <3>3. bucket[j].updated <= rs[j+1].at + time[j]
      <4>1. CASE j = 0
        BY <2>2, <3>2, <4>1
      <4>2. CASE j # 0
        <5>1. j \in 1..n /\ j <= j + 1
          BY <4>2
        <5>2. rs[j].at <= rs[j+1].at /\ rs[j].at \in Nat
          BY <1>2, <1>4, <3>1, <5>1 DEF InOrder
        <5>3. bucket[j].updated <= rs[j].at + time[j]
          BY <2>2, <4>2
        <5> QED BY <3>2, <5>2, <5>3
      <4> QED BY <4>1, <4>2
    <3>4. \/ bucket[j+1].updated <= rs[j+1].at + cost[j+1]
          \/ bucket[j+1].updated <= bucket[j].updated + cost[j+1]
      BY <1>3, <3>1
    <3>5. bucket[j+1].updated <= rs[j+1].at + time[j+1] /\ time[j+1] >= 0
      BY <3>2, <3>3, <3>4, SMTT(40)
    <3> QED BY <3>1, <3>5
  <2> HIDE DEF U
  <2> QED BY <2>1, <2>2, UpTo
<1>9. ASSUME NEW j \in 1..n, NEW i \in 1..j
      PROVE  need[j] - need[i - 1] <= Capacity + granted[j] - granted[i]
  <2>1. j \in 0..n /\ i \in 1..n /\ i \in 0..n /\ i - 1 \in 0..n
    OBVIOUS
  <2>2. bucket[j].tokens + need[j] - need[i-1] <= Capacity + bucket[j].updated - bucket[i].updated
    BY <1>7, <2>1 DEF T
  <2>3. granted[j] = bucket[j].updated /\ granted[i] = bucket[i].updated
    BY <1>3, <2>1
  <2>4. need[j] \in Int /\ need[i-1] \in Int
    BY <1>6, <2>1
  <2> HIDE DEF T
  <2> QED BY <1>2, <2>1, <2>2, <2>3, <2>4, SMTT(40)
<1>10. ASSUME NEW j \in 1..n PROVE granted[j] <= rs[j].at + time[j]
  <2>1. j \in 0..n /\ j # 0
    OBVIOUS
  <2>2. bucket[j].updated <= rs[j].at + time[j]
    BY <1>8, <2>1 DEF U
  <2> QED BY <1>3, <2>2
<1> QED BY <1>4, <1>5, <1>9, <1>10 DEF granted

\* A set of which any two elements are the same has at most one.
LEMMA AtMostOne ==
  ASSUME NEW X, \A x, y \in X : x = y
  PROVE  Cardinality(X) <= 1
<1>1. CASE X = {}
  BY <1>1, FS_EmptySet
<1>2. CASE X # {}
  <2>1. PICK x \in X : X = {x}
    BY <1>2
  <2>2. Cardinality({x}) = 1
    BY FS_Singleton
  <2> QED BY <2>1, <2>2
<1> QED BY <1>1, <1>2

LEMMA PagesRenderedOnce ==
  ASSUME NEW n \in Nat, NEW rs \in [1..n -> Pages]
  PROVE  RenderedOnce(rs, S!Rendered(rs))
<1>1. PICK tried \in [0..n -> SUBSET {rs[i].host : i \in 1..n}] :
        /\ tried[0] = {}
        /\ \A i \in 1..n : tried[i] = S!Fetch(tried[i-1], rs[i]).state
        /\ S!Rendered(rs) = [i \in 1..n |-> S!Fetch(tried[i-1], rs[i]).got]
  BY PagesInTurn
<1> DEFINE got == S!Rendered(rs)
<1>2. \A i \in 1..n : got[i] = S!Fetch(tried[i-1], rs[i]).got
  BY <1>1
<1>3. \A i \in 1..n : tried[i] = S!Fetch(tried[i-1], rs[i]).state
  BY <1>1
<1> HIDE DEF got
<1>4. ASSUME NEW i \in 1..n
      PROVE  /\ tried[i-1] \subseteq tried[i]
             /\ got[i].rendered => rs[i].host \in tried[i]
             /\ got[i].rendered /\ S!Failed(rs[i]) => rs[i].host \notin tried[i-1]
  <2> DEFINE r == rs[i]
             s == tried[i-1]
  <2>1. got[i] = S!Fetch(s, r).got /\ tried[i] = S!Fetch(s, r).state
    BY <1>2, <1>3
  <2> HIDE DEF r, s
  <2>2. CASE ~S!NeedsBrowser(r) \/ (r.host \in s /\ S!Failed(r))
    <3>1. S!Fetch(s, r).got.rendered = FALSE /\ S!Fetch(s, r).state = s
      BY <2>2 DEF S!Fetch
    <3> QED BY <2>1, <3>1 DEF s
  <2>3. CASE ~(~S!NeedsBrowser(r) \/ (r.host \in s /\ S!Failed(r)))
    <3>1. S!Fetch(s, r).state = s \cup {r.host}
      BY <2>3 DEF S!Fetch
    <3> QED BY <2>1, <2>3, <3>1 DEF r, s
  <2> QED BY <2>2, <2>3
<1> DEFINE T == {j \in 0..n : \A i \in 1..j : got[i].rendered => rs[i].host \in tried[j]}
<1>5. 0 \in T
  OBVIOUS
<1>6. ASSUME NEW j \in 0..(n-1), j \in T PROVE j + 1 \in T
  <2>1. j + 1 \in 1..n /\ (j + 1) - 1 = j
    OBVIOUS
  <2>2. ASSUME NEW i \in 1..(j+1), got[i].rendered PROVE rs[i].host \in tried[j+1]
    <3>1. CASE i = j + 1
      BY <1>4, <2>1, <2>2, <3>1
    <3>2. CASE i # j + 1
      <4>1. i \in 1..j
        BY <3>2
      <4> QED BY <1>4, <1>6, <2>1, <2>2, <4>1
    <3> QED BY <3>1, <3>2
  <2> QED BY <2>1, <2>2
<1> HIDE DEF T
<1>7. 0..n \subseteq T
  BY <1>5, <1>6, UpTo
<1>8. ASSUME NEW i \in 1..n, NEW j \in 1..n, i < j, rs[i].host = rs[j].host,
             got[i].rendered, got[j].rendered, S!Failed(rs[j])
      PROVE  FALSE
  <2>1. j - 1 \in T /\ i \in 1..(j-1)
    BY <1>7, <1>8
  <2>2. rs[i].host \in tried[j-1]
    BY <1>8, <2>1 DEF T
  <2> QED BY <1>4, <1>8, <2>2
<1>9. ASSUME NEW host
      PROVE  Cardinality({i \in 1..n : rs[i].host = host /\ got[i].rendered /\ S!Failed(rs[i])}) <= 1
  <2> DEFINE X == {i \in 1..n : rs[i].host = host /\ got[i].rendered /\ S!Failed(rs[i])}
  <2>1. ASSUME NEW x \in X, NEW y \in X PROVE x = y
    <3>1. ~ (x < y)
      BY <1>8
    <3>2. ~ (y < x)
      BY <1>8
    <3> QED BY <3>1, <3>2
  <2> HIDE DEF X
  <2>2. Cardinality(X) <= 1
    BY <2>1, AtMostOne
  <2> QED BY <2>2 DEF X
<1>10. ASSUME NEW i \in 1..n, ~ S!Failed(rs[i]) PROVE got[i].chars >= rs[i].chars
  <2> DEFINE r == rs[i]
             chars == got[i].chars
  <2>1. Shell \in Nat /\ r.static \in S!Statics /\ r.chars \in Nat /\ r.browser \in Int
    BY ServicesFacts DEF S!Page
  <2>2. \/ chars = r.chars
        \/ r.static = "html" /\ r.chars < Shell /\ chars = r.browser
             /\ (r.browser >= Shell \/ r.browser >= r.chars + 1)
    <3>0. chars = S!Fetch(tried[i-1], r).got.chars /\ ~ S!Failed(r)
      BY <1>2, <1>10
    <3> HIDE DEF r, chars
    <3>1. CASE ~S!NeedsBrowser(r)
      BY <3>0, <3>1 DEF S!Fetch
    <3>2. CASE S!NeedsBrowser(r)
      <4>1. r.static = "html" /\ r.chars < Shell
        BY <3>0, <3>2 DEF S!NeedsBrowser, S!Failed
      <4>2. chars = IF r.browser >= Shell \/ r.browser >= r.chars + 1 THEN r.browser ELSE r.chars
        BY <3>0, <3>2 DEF S!Fetch
      <4> QED BY <4>1, <4>2
    <3> QED BY <3>1, <3>2
  <2> HIDE DEF r, chars
  <2>3. chars >= r.chars
    BY <2>1, <2>2
  <2> QED BY <2>3 DEF r, chars
<1>11. DOMAIN rs = 1..n
  OBVIOUS
<1> QED BY <1>9, <1>10, <1>11 DEF RenderedOnce, got

\* The least of some numbers.
LEMMA LeastOf ==
  ASSUME NEW I, I \subseteq Nat, I # {}
  PROVE  S!Min(I) \in I /\ \A j \in I : S!Min(I) <= j
<1>1. \E x \in I : \A y \in I : x <= y
  BY LeastNumber
<1> QED BY <1>1 DEF S!Min

\* The first k elements of a sequence.
LEMMA Firsts ==
  ASSUME NEW n \in Nat, NEW X, NEW a \in [1..n -> X], NEW k \in 0..n
  PROVE  /\ SubSeq(a, 1, k) \in [1..k -> X] /\ Len(SubSeq(a, 1, k)) = k
         /\ \A i \in 1..k : SubSeq(a, 1, k)[i] = a[i]
<1>1. SubSeq(a, 1, k) = [i \in 1..k |-> a[i]]
  OBVIOUS
<1> DEFINE s == [i \in 1..k |-> a[i]]
<1>2. s \in [1..k -> X] /\ Len(s) = k /\ \A i \in 1..k : s[i] = a[i]
  OBVIOUS
<1> HIDE DEF s
<1>3. SubSeq(a, 1, k) = s
  BY <1>1 DEF s
<1> QED BY <1>2, <1>3

\* How far Until gets: up to the first answer of Ending, which is never missed.
Stopped(answers, Ending, asked) ==
  /\ Len(asked) \in 1..Len(answers)
  /\ asked \in [1..Len(asked) -> S!Outcomes]
  /\ \A i \in 1..Len(asked) : asked[i] = answers[i]
  /\ \A i \in 1..(Len(asked) - 1) : asked[i] \notin Ending
  /\ Len(asked) = Len(answers) \/ asked[Len(asked)] \in Ending

UpToFirst(a, I, n) ==
  SubSeq(a, 1, IF I = {} THEN n ELSE S!Min(I))

LEMMA StopsAtFirst ==
  ASSUME NEW n \in Nat \ {0}, NEW a \in [1..n -> S!Outcomes], NEW Ending,
         NEW I, I = {i \in 1..n : a[i] \in Ending}
  PROVE  Stopped(a, Ending, UpToFirst(a, I, n))
<1>1. Len(a) = n
  OBVIOUS
<1>2. ASSUME NEW k \in 1..n, \A i \in 1..k-1 : a[i] \notin Ending, k = n \/ a[k] \in Ending
      PROVE  Stopped(a, Ending, SubSeq(a, 1, k))
  <2> DEFINE s == SubSeq(a, 1, k)
  <2>1. k \in 0..n
    OBVIOUS
  <2>2. Len(s) = k /\ s \in [1..k -> S!Outcomes] /\ \A i \in 1..k : s[i] = a[i]
    BY <2>1, Firsts
  <2> HIDE DEF s
  <2>3. Stopped(a, Ending, s)
    <3>1. \A i \in 1..k-1 : s[i] \notin Ending
      BY <1>2, <2>2
    <3>2. k = n \/ s[k] \in Ending
      BY <1>2, <2>2
    <3> QED BY <1>1, <2>2, <3>1, <3>2 DEF Stopped
  <2> QED BY <2>3 DEF s
<1>3. CASE I = {}
  <2>1. Stopped(a, Ending, SubSeq(a, 1, n))
    BY <1>2, <1>3
  <2> QED BY <1>3, <2>1 DEF UpToFirst
<1>4. CASE I # {}
  <2> DEFINE k == S!Min(I)
  <2>1. k \in I /\ \A j \in I : k <= j
    BY <1>4, LeastOf, SMTT(40)
  <2> HIDE DEF k
  <2>2. k \in 1..n /\ a[k] \in Ending /\ k # 0
    <3>1. k \in 1..n /\ a[k] \in Ending
      BY <2>1
    <3> QED BY <3>1
  <2>3. \A i \in 1..k-1 : a[i] \notin Ending
    BY <2>1, <2>2
  <2>4. Stopped(a, Ending, SubSeq(a, 1, k))
    BY <1>2, <2>2, <2>3
  <2> QED BY <1>4, <2>2, <2>4 DEF UpToFirst, k
<1> QED BY <1>3, <1>4

LEMMA GroqStops ==
  ASSUME NEW n \in Nat, n >= Tries, NEW a \in [1..n -> S!Outcomes]
  PROVE  Stopped(SubSeq(a, 1, Tries), S!Outcomes \ S!Transient, S!Groq(a))
<1> DEFINE s == SubSeq(a, 1, Tries)
           I == {i \in 1..Tries : s[i] \notin S!Transient}
<1>1. Tries \in Nat \ {0}
  BY ServicesFacts
<1>2. s \in [1..Tries -> S!Outcomes] /\ Len(s) = Tries
  <2>1. Tries \in 0..n
    BY <1>1
  <2> QED BY <2>1, Firsts
<1>3. S!Groq(a) = UpToFirst(s, I, Tries)
  BY <1>2 DEF S!Groq, S!Until, UpToFirst
<1> HIDE DEF s
<1>4. I = {i \in 1..Tries : s[i] \in S!Outcomes \ S!Transient}
  BY <1>2
<1> HIDE DEF I
<1>5. Stopped(s, S!Outcomes \ S!Transient, UpToFirst(s, I, Tries))
  BY <1>1, <1>2, <1>4, StopsAtFirst
<1> QED BY <1>3, <1>5 DEF s

LEMMA GeminiStops ==
  ASSUME NEW n \in Nat, n >= Models, NEW a \in [1..n -> S!Outcomes]
  PROVE  Stopped(SubSeq(a, 1, Models), S!Outcomes \ S!WalksOn, S!Gemini(a))
<1> DEFINE s == SubSeq(a, 1, Models)
           I == {i \in 1..Models : s[i] \notin S!WalksOn}
<1>1. Models \in Nat \ {0}
  BY ServicesFacts
<1>2. s \in [1..Models -> S!Outcomes] /\ Len(s) = Models
  <2>1. Models \in 0..n
    BY <1>1
  <2> QED BY <2>1, Firsts
<1>3. S!Gemini(a) = UpToFirst(s, I, Models)
  BY <1>2 DEF S!Gemini, S!Until, UpToFirst
<1> HIDE DEF s
<1>4. I = {i \in 1..Models : s[i] \in S!Outcomes \ S!WalksOn}
  BY <1>2
<1> HIDE DEF I
<1>5. Stopped(s, S!Outcomes \ S!WalksOn, UpToFirst(s, I, Models))
  BY <1>1, <1>2, <1>4, StopsAtFirst
<1> QED BY <1>3, <1>5 DEF s

\* A provider whose last answer was none has been passed over.
PassedOver(p, asked) ==
  /\ "text" \notin Range(asked)
  /\ \/ p = "ollama"
     \/ p = "groq" /\ Len(asked) = Tries
     \/ p = "gemini" /\ Len(asked) = Models
     \/ p = "groq" /\ Last(asked) \in {"gone", "refused"}
     \/ p = "gemini" /\ Last(asked) \in {"down", "refused", "broken"}

\* What a provider is asked, whichever it is.
LEMMA AskedStops ==
  ASSUME NEW n \in Nat, n >= Tries, n >= Models, NEW a \in [1..n -> S!Outcomes],
         NEW p \in {"groq", "gemini", "ollama"}, ~ S!Answered(p, S!Asked(p, a))
  PROVE  PassedOver(p, S!Asked(p, a))
<1>0. Tries \in Nat \ {0} /\ Models \in Nat \ {0}
  BY ServicesFacts
<1>1. CASE p = "groq"
  <2> DEFINE s == S!Groq(a)
             b == SubSeq(a, 1, Tries)
  <2>1. S!Asked(p, a) = s /\ ~ S!GroqAnswers(s)
    BY <1>1 DEF S!Asked, S!Answered
  <2>2. Stopped(b, S!Outcomes \ S!Transient, s)
    BY GroqStops
  <2>3. Len(b) = Tries
    <3>1. Tries \in 0..n
      BY <1>0
    <3> QED BY <3>1, Firsts
  <2> HIDE DEF s, b
  <2> DEFINE l == Len(s)
  <2>4. l \in 1..Tries /\ s \in [1..l -> S!Outcomes]
    BY <2>2, <2>3 DEF Stopped
  <2>5. /\ \A i \in 1..l-1 : s[i] \notin S!Outcomes \ S!Transient
        /\ l = Tries \/ s[l] \in S!Outcomes \ S!Transient
    BY <2>2, <2>3 DEF Stopped
  <2>6. Last(s) = s[l]
    BY DEF Last
  <2> HIDE DEF l
  <2>7. l \in 1..l /\ s[l] \in S!Outcomes /\ s[l] \notin {"text", "empty"}
    BY <1>0, <2>1, <2>4, <2>6 DEF S!GroqAnswers
  <2>8. ASSUME NEW i \in 1..l PROVE s[i] # "text"
    <3>1. CASE i = l
      BY <2>7, <3>1
    <3>2. CASE i # l
      <4>1. i \in 1..l-1
        BY <1>0, <2>4, <3>2
      <4>2. s[i] \in S!Transient
        BY <2>4, <2>5, <4>1
      <4> QED BY <4>2 DEF S!Transient
    <3> QED BY <3>1, <3>2
  <2>9. "text" \notin Range(s)
    BY <2>4, <2>8 DEF Range
  <2>10. l = Tries \/ Last(s) \in {"gone", "refused"}
    BY <2>5, <2>6, <2>7 DEF S!Transient, S!Outcomes
  <2> QED BY <1>1, <2>1, <2>9, <2>10 DEF PassedOver, l
<1>2. CASE p = "gemini"
  <2> DEFINE s == S!Gemini(a)
             b == SubSeq(a, 1, Models)
  <2>1. S!Asked(p, a) = s /\ ~ S!GeminiAnswers(s)
    BY <1>2 DEF S!Asked, S!Answered
  <2>2. Stopped(b, S!Outcomes \ S!WalksOn, s)
    BY GeminiStops
  <2>3. Len(b) = Models
    <3>1. Models \in 0..n
      BY <1>0
    <3> QED BY <3>1, Firsts
  <2> HIDE DEF s, b
  <2> DEFINE l == Len(s)
  <2>4. l \in 1..Models /\ s \in [1..l -> S!Outcomes]
    BY <2>2, <2>3 DEF Stopped
  <2>5. /\ \A i \in 1..l-1 : s[i] \notin S!Outcomes \ S!WalksOn
        /\ l = Models \/ s[l] \in S!Outcomes \ S!WalksOn
    BY <2>2, <2>3 DEF Stopped
  <2>6. Last(s) = s[l]
    BY DEF Last
  <2> HIDE DEF l
  <2>7. l \in 1..l /\ s[l] \in S!Outcomes /\ s[l] # "text"
    BY <1>0, <2>1, <2>4, <2>6 DEF S!GeminiAnswers
  <2>8. ASSUME NEW i \in 1..l PROVE s[i] # "text"
    <3>1. CASE i = l
      BY <2>7, <3>1
    <3>2. CASE i # l
      <4>1. i \in 1..l-1
        BY <1>0, <2>4, <3>2
      <4>2. s[i] \in S!WalksOn
        BY <2>4, <2>5, <4>1
      <4> QED BY <4>2 DEF S!WalksOn
    <3> QED BY <3>1, <3>2
  <2>9. "text" \notin Range(s)
    BY <2>4, <2>8 DEF Range
  <2>10. l = Models \/ Last(s) \in {"down", "refused", "broken"}
    BY <2>5, <2>6, <2>7 DEF S!WalksOn, S!Outcomes
  <2> QED BY <1>2, <2>1, <2>9, <2>10 DEF PassedOver, l
<1>3. CASE p = "ollama"
  <2> DEFINE s == SubSeq(a, 1, 1)
  <2>1. S!Asked(p, a) = s /\ ~ S!GroqAnswers(s)
    BY <1>3 DEF S!Asked, S!Answered, S!Ollama
  <2>2. s \in [1..1 -> S!Outcomes] /\ Len(s) = 1
    <3>1. 1 \in 0..n
      BY <1>0
    <3> QED BY <3>1, Firsts
  <2> HIDE DEF s
  <2>3. s[1] # "text"
    BY <2>1, <2>2 DEF S!GroqAnswers, Last
  <2>4. "text" \notin Range(s)
    BY <2>2, <2>3 DEF Range
  <2> QED BY <1>3, <2>1, <2>4 DEF PassedOver
<1> QED BY <1>1, <1>2, <1>3

LEMMA ModelsHeardOut ==
  ASSUME NEW m \in Nat, NEW chain \in [1..m -> {"groq", "gemini", "ollama"}],
         NEW n \in Nat, n >= Tries, n >= Models,
         NEW answers \in [1..m -> [1..n -> S!Outcomes]]
  PROVE  LostOnlyWhenAllFail(chain, answers, S!Complete(chain, answers))
<1> DEFINE asked == [i \in DOMAIN chain |-> S!Asked(chain[i], answers[i])]
           I == {i \in DOMAIN chain : S!Answered(chain[i], asked[i])}
           by == IF I = {} THEN 0 ELSE S!Min(I)
           k == IF by = 0 THEN Len(chain) ELSE by
           got == S!Complete(chain, answers)
<1>1. DOMAIN chain = 1..m /\ Len(chain) = m
  OBVIOUS
<1>2. got = [by |-> by, asked |-> SubSeq(asked, 1, k)]
  BY DEF S!Complete
<1>3. \A i \in 1..m : asked[i] = S!Asked(chain[i], answers[i])
  BY <1>1
<1>4. \A i \in 1..m : i \in I <=> S!Answered(chain[i], asked[i])
  BY <1>1
<1>5. I \subseteq 1..m
  BY <1>1
<1>6. asked \in [1..m -> Range(asked)]
  BY <1>1 DEF Range
<1> HIDE DEF asked, I, got
<1>7. k \in 0..m /\ \A i \in 1..m : (by = 0 \/ i < by) => i \notin I /\ i <= k
  <2>1. CASE I = {}
    BY <1>1, <2>1
  <2>2. CASE I # {}
    <3>0. I \subseteq Nat
      BY <1>5
    <3>1. S!Min(I) \in I /\ \A j \in I : S!Min(I) <= j
      BY <2>2, <3>0, LeastOf, Zenon
    <3>2. by = S!Min(I) /\ by \in 1..m /\ k = by
      <4>1. S!Min(I) \in 1..m
        BY <1>5, <3>1
      <4>2. by = S!Min(I)
        BY <2>2
      <4>3. by # 0
        BY <4>1, <4>2
      <4> HIDE DEF by
      <4> QED BY <4>1, <4>2, <4>3
    <3> HIDE DEF by, k
    <3>3. ASSUME NEW i \in 1..m, by = 0 \/ i < by PROVE i \notin I /\ i <= k
      BY <3>1, <3>2, <3>3
    <3> QED BY <3>2, <3>3
  <2> QED BY <2>1, <2>2
<1> HIDE DEF by, k
<1>8. ASSUME NEW i \in DOMAIN chain, got.by = 0 \/ i < got.by
      PROVE  PassedOver(chain[i], got.asked[i])
  <2>1. i \in 1..m /\ i \notin I /\ i <= k
    BY <1>1, <1>2, <1>7, <1>8
  <2>2. i \in 1..k
    BY <1>7, <2>1
  <2>3. SubSeq(asked, 1, k)[i] = asked[i]
    BY <1>6, <1>7, <2>2, Firsts
  <2>4. ~ S!Answered(chain[i], S!Asked(chain[i], answers[i]))
    BY <1>3, <1>4, <2>1
  <2>5. PassedOver(chain[i], S!Asked(chain[i], answers[i]))
    BY <2>1, <2>4, AskedStops
  <2> QED BY <1>2, <1>3, <2>1, <2>3, <2>5
<1> QED BY <1>8 DEF LostOnlyWhenAllFail, PassedOver, got

-----------------------------------------------------------------------------
(* Evidence.  The classification is a cascade of comparisons; what makes   *)
(* it monotone is that a vendor's term found in the identity weighs at     *)
(* least as much as all that a buyer's pages may add.                      *)

\* The classes of a company.
Types == {"VENDOR", "BUYER", "UNKNOWN"}

LEMMA ClassifyTyped ==
  ASSUME NEW b
  PROVE  Classify(b) \in Types
  BY DEF Classify, Types

\* The verdicts are ordered by what they are worth.
LEMMA WorthOrder ==
  ASSUME NEW s \in Types, NEW t \in Types,
         t = "VENDOR" => s = "VENDOR", s = "BUYER" => t = "BUYER"
  PROVE  Worth(s) \in Nat /\ Worth(t) \in Nat /\ Worth(s) <= Worth(t)
  BY DEF Worth, Types

\* The scores, as what a bundle is known by.
LEMMA ScoreTypes ==
  ASSUME NEW b \in Bundle
  PROVE  BuyerScore(b) \in Nat /\ VendorScore(b) \in Nat
  BY DEF Bundle, BuyerScore, VendorScore, Smaller, W_IDENTITY, W_BODY

\* Without a buyer's identity the pages alone score eight at most.
LEMMA PagesAreCapped ==
  ASSUME NEW b \in Bundle, b.buyer_id = 0, b.category # "target"
  PROVE  BuyerScore(b) <= 8
  BY DEF Bundle, BuyerScore, Smaller, W_IDENTITY, W_BODY

SameVendor(b, c) ==
  /\ c.vendor_id = b.vendor_id /\ c.vendor_body = b.vendor_body
  /\ c.phrases = b.phrases /\ c.vendor_name = b.vendor_name
SameBuyer(b, c) ==
  /\ c.buyer_id = b.buyer_id /\ c.buyer_body = b.buyer_body
  /\ c.tender = b.tender /\ c.reachable = b.reachable

\* More of a vendor: nothing of a buyer changed, and what made b a vendor
\* makes c one.
LEMMA VendorOrder ==
  ASSUME NEW b \in Bundle, NEW c \in Bundle,
         c.category \in {b.category, "vendor"}, SameBuyer(b, c),
         b.vendor_name => c.vendor_name,
         c.category = b.category /\ (ByIdentity(b) \/ ByPages(b)) => ByIdentity(c) \/ ByPages(c)
  PROVE  Worth(Classify(c)) <= Worth(Classify(b))
<1>1. BuyerEvidence(c) /\ c.category = b.category => BuyerEvidence(b)
  BY DEF BuyerEvidence, SameBuyer
<1>2. Classify(b) = "VENDOR" => Classify(c) = "VENDOR"
  BY DEF Classify, Bundle, ByIdentity, SameBuyer
<1>3. Classify(c) = "BUYER" => Classify(b) = "BUYER"
  BY <1>1 DEF Classify, Bundle, SameBuyer
<1> QED BY <1>2, <1>3, ClassifyTyped, WorthOrder

\* More vendor terms, at least as high a score: a vendor stays one.
LEMMA VendorTerms ==
  ASSUME NEW b \in Bundle, NEW c \in Bundle,
         c.category = b.category, c.buyer_id = b.buyer_id, c.buyer_body = b.buyer_body,
         b.vendor_name => c.vendor_name,
         c.vendor_id >= b.vendor_id, c.phrases >= b.phrases,
         VendorScore(c) >= VendorScore(b),
         c.vendor_body >= b.vendor_body \/ c.vendor_id = b.vendor_id + 1,
         c.vendor_body >= b.vendor_body - 1,
         ByIdentity(b) \/ ByPages(b)
  PROVE  ByIdentity(c) \/ ByPages(c)
<1>1. BuyerScore(c) = BuyerScore(b)
  BY DEF BuyerScore
<1>2. BuyerScore(b) \in Nat /\ VendorScore(b) \in Nat /\ VendorScore(c) \in Nat
  BY ScoreTypes
<1>3. CASE ByIdentity(b)
  <2>1. b.vendor_id \in Nat /\ c.vendor_id \in Nat
    BY DEF Bundle
  <2> QED BY <1>1, <1>2, <1>3, <2>1 DEF ByIdentity
<1>4. CASE ByPages(b) /\ c.vendor_body >= b.vendor_body
  BY <1>4 DEF ByPages, Bundle
<1>5. CASE ByPages(b) /\ c.vendor_id = b.vendor_id + 1
  <2>1. BuyerScore(b) <= 8
    BY <1>5, PagesAreCapped DEF ByPages
  <2>2. VendorScore(c) >= 8
    BY <1>5 DEF ByPages, VendorScore, Bundle, W_IDENTITY, W_BODY
  <2>3. c.vendor_id > 0
    BY <1>5 DEF Bundle
  <2> QED BY <1>1, <1>2, <2>1, <2>2, <2>3 DEF ByIdentity
<1> QED BY <1>3, <1>4, <1>5

\* A bundle with another number of terms is a bundle.
LEMMA WithNumber ==
  ASSUME NEW b \in Bundle, NEW n \in Nat
  PROVE  /\ [b EXCEPT !.vendor_id = n] \in Bundle /\ [b EXCEPT !.vendor_body = n] \in Bundle
         /\ [b EXCEPT !.buyer_id = n] \in Bundle /\ [b EXCEPT !.buyer_body = n] \in Bundle
  BY DEF Bundle

\* The bundles with a little more of a vendor, by what they are made of.
LEMMA MoreVendorMeans ==
  ASSUME NEW b \in Bundle, NEW c \in MoreVendor(b)
  PROVE  /\ c \in Bundle /\ SameBuyer(b, c)
         /\ b.vendor_name => c.vendor_name
         /\ \/ c.category \in {b.category, "vendor"} /\ SameVendor(b, c)
            \/ /\ c.category = b.category
               /\ c.vendor_id >= b.vendor_id /\ c.phrases >= b.phrases
               /\ VendorScore(c) >= VendorScore(b)
               /\ c.vendor_body >= b.vendor_body \/ c.vendor_id = b.vendor_id + 1
               /\ c.vendor_body >= b.vendor_body - 1
<1> USE DEF Bundle
<1>1. CASE c = [b EXCEPT !.vendor_id = @ + 1]
  <2>1. /\ c.vendor_id = b.vendor_id + 1 /\ c.vendor_body = b.vendor_body
        /\ c.phrases = b.phrases /\ c.vendor_name = b.vendor_name
        /\ SameBuyer(b, c)
        /\ c.category = b.category /\ c \in Bundle
    BY <1>1 DEF SameVendor, SameBuyer
  <2> QED BY <2>1 DEF VendorScore, W_IDENTITY, W_BODY
<1>2. CASE c = [b EXCEPT !.vendor_body = @ + 1]
  <2>1. /\ c.vendor_id = b.vendor_id /\ c.vendor_body = b.vendor_body + 1
        /\ c.phrases = b.phrases /\ c.vendor_name = b.vendor_name
        /\ SameBuyer(b, c)
        /\ c.category = b.category /\ c \in Bundle
    BY <1>2 DEF SameVendor, SameBuyer
  <2> QED BY <2>1 DEF VendorScore, W_IDENTITY, W_BODY
<1>3. CASE c = [b EXCEPT !.phrases = @ + 1]
  <2>1. /\ c.vendor_id = b.vendor_id /\ c.vendor_body = b.vendor_body
        /\ c.phrases = b.phrases + 1 /\ c.vendor_name = b.vendor_name
        /\ SameBuyer(b, c)
        /\ c.category = b.category /\ c \in Bundle
    BY <1>3 DEF SameVendor, SameBuyer
  <2> QED BY <2>1 DEF VendorScore, W_IDENTITY, W_BODY
<1>4. CASE c = [b EXCEPT !.vendor_name = TRUE, !.vendor_id = @ + 1]
  <2> DEFINE d == [b EXCEPT !.vendor_name = TRUE]
             m == b.vendor_id + 1
  <2>a. d \in Bundle /\ m \in Nat
    <3>1. d \in Bundle
      OBVIOUS
    <3>2. m \in Nat
      OBVIOUS
    <3> QED BY <3>1, <3>2
  <2>b. c = [d EXCEPT !.vendor_id = m]
    BY <1>4
  <2>c. c \in Bundle
    <3> HIDE DEF d, m, Bundle
    <3> QED BY <2>a, <2>b, WithNumber
  <2>1. /\ c.vendor_id = b.vendor_id + 1 /\ c.vendor_body = b.vendor_body
        /\ c.phrases = b.phrases /\ c.vendor_name = TRUE
        /\ SameBuyer(b, c)
        /\ c.category = b.category
    BY <1>4 DEF SameVendor, SameBuyer
  <2> QED BY <2>c, <2>1 DEF VendorScore, W_IDENTITY, W_BODY
<1>5. CASE c = [b EXCEPT !.category = IF @ = "other" THEN "vendor" ELSE @]
  <2>1. /\ SameVendor(b, c)
        /\ SameBuyer(b, c)
        /\ c.category = (IF b.category = "other" THEN "vendor" ELSE b.category) /\ c \in Bundle
    BY <1>5 DEF SameVendor, SameBuyer
  <2> QED BY <2>1 DEF SameVendor
<1>6. CASE b.vendor_body # 0 /\ c = [b EXCEPT !.vendor_id = @ + 1, !.vendor_body = @ - 1]
  <2> DEFINE d == [b EXCEPT !.vendor_id = b.vendor_id + 1]
             m == b.vendor_body - 1
  <2>a. d \in Bundle /\ m \in Nat
    BY <1>6
  <2>b. c = [d EXCEPT !.vendor_body = m]
    BY <1>6
  <2>c. c \in Bundle
    <3> HIDE DEF d, m, Bundle
    <3> QED BY <2>a, <2>b, WithNumber
  <2>1. /\ c.vendor_id = b.vendor_id + 1 /\ c.vendor_body = b.vendor_body - 1
        /\ c.phrases = b.phrases /\ c.vendor_name = b.vendor_name
        /\ SameBuyer(b, c)
        /\ c.category = b.category
    BY <1>6 DEF SameVendor, SameBuyer
  <2> QED BY <2>c, <2>1 DEF VendorScore, W_IDENTITY, W_BODY
<1> QED BY <1>1, <1>2, <1>3, <1>4, <1>5, <1>6 DEF MoreVendor

\* The bundles with a little more of a buyer, by what they are made of.
LEMMA MoreBuyerMeans ==
  ASSUME NEW b \in Bundle, NEW c \in MoreBuyer(b)
  PROVE  /\ c \in Bundle /\ SameVendor(b, c)
         /\ b.tender => c.tender
         /\ b.reachable => c.reachable
         /\ c.category = b.category \/ (b.category = "other" /\ c.category = "target")
         /\ c.buyer_id >= b.buyer_id
         /\ c.buyer_body >= b.buyer_body \/ c.buyer_id = b.buyer_id + 1
         /\ BuyerScore(c) >= BuyerScore(b)
<1> USE DEF Bundle
<1>1. CASE c = [b EXCEPT !.buyer_id = @ + 1]
  <2>1. /\ SameVendor(b, c)
        /\ c.buyer_id = b.buyer_id + 1 /\ c.buyer_body = b.buyer_body
        /\ c.tender = b.tender /\ c.reachable = b.reachable
        /\ c.category = b.category /\ c \in Bundle
    BY <1>1 DEF SameVendor, SameBuyer
  <2> QED BY <2>1 DEF SameBuyer, BuyerScore, Smaller, W_IDENTITY, W_BODY
<1>2. CASE c = [b EXCEPT !.buyer_body = @ + 1]
  <2>1. /\ SameVendor(b, c)
        /\ c.buyer_id = b.buyer_id /\ c.buyer_body = b.buyer_body + 1
        /\ c.tender = b.tender /\ c.reachable = b.reachable
        /\ c.category = b.category /\ c \in Bundle
    BY <1>2 DEF SameVendor, SameBuyer
  <2> QED BY <2>1 DEF SameBuyer, BuyerScore, Smaller, W_IDENTITY, W_BODY
<1>3. CASE c = [b EXCEPT !.tender = TRUE]
  <2>1. /\ SameVendor(b, c)
        /\ c.buyer_id = b.buyer_id /\ c.buyer_body = b.buyer_body
        /\ c.tender = TRUE /\ c.reachable = b.reachable
        /\ c.category = b.category /\ c \in Bundle
    BY <1>3 DEF SameVendor, SameBuyer
  <2> QED BY <2>1 DEF SameBuyer, BuyerScore, Smaller, W_IDENTITY, W_BODY
<1>4. CASE c = [b EXCEPT !.category = IF @ = "other" THEN "target" ELSE @]
  <2>1. /\ SameVendor(b, c)
        /\ SameBuyer(b, c)
        /\ c.category = (IF b.category = "other" THEN "target" ELSE b.category) /\ c \in Bundle
    BY <1>4 DEF SameVendor, SameBuyer
  <2> QED BY <2>1 DEF SameBuyer, BuyerScore, Smaller, W_IDENTITY, W_BODY
<1>5. CASE c = [b EXCEPT !.reachable = TRUE]
  <2>1. /\ SameVendor(b, c)
        /\ c.buyer_id = b.buyer_id /\ c.buyer_body = b.buyer_body
        /\ c.tender = b.tender /\ c.reachable = TRUE
        /\ c.category = b.category /\ c \in Bundle
    BY <1>5 DEF SameVendor, SameBuyer
  <2> QED BY <2>1 DEF SameBuyer, BuyerScore, Smaller, W_IDENTITY, W_BODY
<1>6. CASE b.buyer_body # 0 /\ c = [b EXCEPT !.buyer_id = @ + 1, !.buyer_body = @ - 1]
  <2> DEFINE d == [b EXCEPT !.buyer_id = b.buyer_id + 1]
             m == b.buyer_body - 1
  <2>a. d \in Bundle /\ m \in Nat
    BY <1>6
  <2>b. c = [d EXCEPT !.buyer_body = m]
    BY <1>6
  <2>c. c \in Bundle
    <3> HIDE DEF d, m, Bundle
    <3> QED BY <2>a, <2>b, WithNumber
  <2>1. /\ SameVendor(b, c)
        /\ c.buyer_id = b.buyer_id + 1 /\ c.buyer_body = b.buyer_body - 1
        /\ c.tender = b.tender /\ c.reachable = b.reachable
        /\ c.category = b.category
    BY <1>6 DEF SameVendor, SameBuyer
  <2> QED BY <2>c, <2>1 DEF SameBuyer, BuyerScore, Smaller, W_IDENTITY, W_BODY
<1> QED BY <1>1, <1>2, <1>3, <1>4, <1>5, <1>6 DEF MoreBuyer

\* More of a buyer: the vendor's rules see less reason, the buyer's more.
LEMMA BuyerOrder ==
  ASSUME NEW b \in Bundle, NEW c \in MoreBuyer(b)
  PROVE  Worth(Classify(b)) <= Worth(Classify(c))
<1>1. /\ c \in Bundle /\ SameVendor(b, c)
      /\ b.tender => c.tender
      /\ b.reachable => c.reachable
      /\ c.category = b.category \/ (b.category = "other" /\ c.category = "target")
      /\ c.buyer_id >= b.buyer_id
      /\ c.buyer_body >= b.buyer_body \/ c.buyer_id = b.buyer_id + 1
      /\ BuyerScore(c) >= BuyerScore(b)
  BY MoreBuyerMeans
<1>2. /\ c.vendor_id = b.vendor_id /\ c.vendor_body = b.vendor_body
      /\ c.phrases = b.phrases /\ c.vendor_name = b.vendor_name
  BY <1>1 DEF SameVendor
<1>3. VendorScore(c) = VendorScore(b)
  BY <1>2 DEF VendorScore
<1>4. ByIdentity(c) => ByIdentity(b)
  BY <1>1, <1>2, <1>3, ScoreTypes DEF ByIdentity
<1>5. ByPages(c) => ByPages(b)
  BY <1>1, <1>2 DEF ByPages, Bundle
<1>6. BuyerEvidence(b) => BuyerEvidence(c)
  BY <1>1 DEF BuyerEvidence, Bundle
<1>7. Classify(c) = "VENDOR" => Classify(b) = "VENDOR"
  BY <1>1, <1>2, <1>4, <1>5 DEF Classify
<1>8. Classify(b) = "BUYER" => Classify(c) = "BUYER"
  BY <1>1, <1>2, <1>4, <1>5, <1>6 DEF Classify
<1> QED BY <1>7, <1>8, ClassifyTyped, WorthOrder

\* More evidence of a vendor never turns a company into a better prospect, and
\* more evidence of a buyer never into a worse one, whatever the texts contain
\* (BuyerClassifier.classify): the cap on the buyer's page terms is why a term
\* that moves from a vendor's pages into its name still counts as more.
THEOREM EvidenceNeverReverses ==
  ASSUME NEW b \in Bundle
  PROVE  /\ \A c \in MoreVendor(b) : Worth(Classify(c)) <= Worth(Classify(b))
         /\ \A c \in MoreBuyer(b) : Worth(Classify(c)) >= Worth(Classify(b))
<1>1. ASSUME NEW c \in MoreVendor(b) PROVE Worth(Classify(c)) <= Worth(Classify(b))
  <2>1. c \in Bundle /\ SameBuyer(b, c) /\ (b.vendor_name => c.vendor_name)
    BY <1>1, MoreVendorMeans
  <2>2. CASE c.category \in {b.category, "vendor"} /\ SameVendor(b, c)
    <3>1. c.category = b.category => (ByIdentity(b) => ByIdentity(c)) /\ (ByPages(b) => ByPages(c))
      BY <2>1, <2>2 DEF SameVendor, SameBuyer, ByIdentity, ByPages, VendorScore, BuyerScore
    <3> QED BY <2>1, <2>2, <3>1, VendorOrder
  <2>3. CASE /\ c.category = b.category
             /\ c.vendor_id >= b.vendor_id /\ c.phrases >= b.phrases
             /\ VendorScore(c) >= VendorScore(b)
             /\ c.vendor_body >= b.vendor_body \/ c.vendor_id = b.vendor_id + 1
             /\ c.vendor_body >= b.vendor_body - 1
    <3>1. ByIdentity(b) \/ ByPages(b) => ByIdentity(c) \/ ByPages(c)
      BY <2>1, <2>3, VendorTerms DEF SameBuyer
    <3> QED BY <2>1, <2>3, <3>1, VendorOrder
  <2> QED BY <1>1, <2>2, <2>3, MoreVendorMeans
<1>2. ASSUME NEW c \in MoreBuyer(b) PROVE Worth(Classify(c)) >= Worth(Classify(b))
  <2>1. Worth(Classify(b)) <= Worth(Classify(c))
    BY <1>2, BuyerOrder
  <2>2. Worth(Classify(b)) \in Nat /\ Worth(Classify(c)) \in Nat
    BY ClassifyTyped DEF Worth, Types
  <2> QED BY <2>1, <2>2
<1> QED BY <1>1, <1>2

-----------------------------------------------------------------------------
(* Scores.  Each part of the total grows with what it measures and stays   *)
(* within its weight; the weights add up to 100.                           *)

\* Rounding to the nearest keeps the order, and does not pass what is whole.
LEMMA RoundedOrder ==
  ASSUME NEW d \in {2, 15, 40}, NEW n \in Nat, NEW m \in Nat, n <= m
  PROVE  Rounded(n, d) \in Nat /\ Rounded(m, d) \in Nat /\ Rounded(n, d) <= Rounded(m, d)
<1>1. CASE d = 2
  BY <1>1 DEF Rounded
<1>2. CASE d = 15
  BY <1>2 DEF Rounded
<1>3. CASE d = 40
  BY <1>3 DEF Rounded
<1> QED BY <1>1, <1>2, <1>3

LEMMA RoundedWhole ==
  ASSUME NEW d \in {15, 40}, NEW p \in Nat
  PROVE  Rounded(d * p, d) = p
<1>1. CASE d = 15
  BY <1>1 DEF Rounded
<1>2. CASE d = 40
  BY <1>2 DEF Rounded
<1> QED BY <1>1, <1>2

LEMMA TimesOrder ==
  ASSUME NEW n \in Nat, NEW m \in Nat, n <= m, NEW p \in Nat
  PROVE  n * p \in Nat /\ m * p \in Nat /\ n * p <= m * p
<1>1. PICK k \in Nat : m = n + k
  <2>1. m - n \in Nat /\ m = n + (m - n)
    OBVIOUS
  <2> QED BY <2>1
<1>2. n * p \in Nat /\ k * p \in Nat
  OBVIOUS
<1>3. (n + k) * p = n * p + k * p
  OBVIOUS
<1> QED BY <1>1, <1>2, <1>3

LEMMA WeightTypes ==
  /\ Weights.review_band \in Nat /\ Weights.rating \in Nat /\ Weights.proximity_tier \in Nat
  /\ Weights.online_gap \in Nat /\ Weights.pain_evidence \in Nat
  BY WeightsAssumption

LEMMA ReviewOrder ==
  ASSUME NEW n \in Int, NEW m \in Int, n <= m, NEW p \in Nat
  PROVE  ReviewBand(n, p) \in 0..p /\ ReviewBand(m, p) \in 0..p
         /\ ReviewBand(n, p) <= ReviewBand(m, p)
<1> DEFINE Tenths(k) == CASE k >= 200 -> 10 [] k >= 100 /\ k < 200 -> 8
                  [] k >= 50 /\ k < 100 -> 6 [] k >= 10 /\ k < 50 -> 4
                  [] k >= 1 /\ k < 10 -> 2 [] k < 1 -> 0
<1>1. ASSUME NEW k \in Int
      PROVE  /\ k >= 200 => Tenths(k) = 10
             /\ k \in 100..199 => Tenths(k) = 8
             /\ k \in 50..99 => Tenths(k) = 6
             /\ k \in 10..49 => Tenths(k) = 4
             /\ k \in 1..9 => Tenths(k) = 2
             /\ k < 1 => Tenths(k) = 0
  <2>1. k >= 200 => Tenths(k) = 10
    OBVIOUS
  <2>2. k \in 100..199 => Tenths(k) = 8
    OBVIOUS
  <2>3. k \in 50..99 => Tenths(k) = 6
    OBVIOUS
  <2>4. k \in 10..49 => Tenths(k) = 4
    OBVIOUS
  <2>5. k \in 1..9 => Tenths(k) = 2
    OBVIOUS
  <2>6. k < 1 => Tenths(k) = 0
    OBVIOUS
  <2> QED BY <2>1, <2>2, <2>3, <2>4, <2>5, <2>6
<1>2. \A k \in Int : ReviewBand(k, p) = (p * Tenths(k)) \div 10
  BY DEF ReviewBand
<1> HIDE DEF Tenths
<1>3. \A k \in Int : Tenths(k) \in {0, 2, 4, 6, 8, 10}
  BY <1>1
<1>4. Tenths(n) <= Tenths(m)
  BY <1>1
<1>5. ASSUME NEW t \in {0, 2, 4, 6, 8, 10}, NEW u \in {0, 2, 4, 6, 8, 10}, t <= u
      PROVE  (p * t) \div 10 \in 0..p /\ (p * t) \div 10 <= (p * u) \div 10
  BY <1>5
<1> QED BY <1>2, <1>3, <1>4, <1>5

\* The points of a rating: none while it is not known.
LEMMA RatingOrder ==
  ASSUME NEW n \in Nat \cup {NotKnown}, NEW m \in Nat \cup {NotKnown}, n <= m, NEW p \in Nat
  PROVE  RatingScore(n, p) \in 0..p /\ RatingScore(m, p) \in 0..p
         /\ RatingScore(n, p) <= RatingScore(m, p)
<1> DEFINE Clamped(k) == Smaller(50, IF k < 10 THEN 10 ELSE k) - 10
<1>1. ASSUME NEW k \in Nat
      PROVE  Clamped(k) \in 0..40 /\ RatingScore(k, p) = Rounded(Clamped(k) * p, 40)
  BY DEF RatingScore, NotKnown, Smaller
<1>2. ASSUME NEW k \in Nat, NEW j \in Nat, k <= j
      PROVE  /\ RatingScore(k, p) \in 0..p /\ RatingScore(j, p) \in 0..p
             /\ RatingScore(k, p) <= RatingScore(j, p)
  <2>1. Clamped(k) \in 0..40 /\ Clamped(j) \in 0..40 /\ Clamped(k) <= Clamped(j)
    BY <1>2 DEF Smaller
  <2> HIDE DEF Clamped
  <2>2. /\ Clamped(k) * p \in Nat /\ Clamped(j) * p \in Nat
        /\ Clamped(k) * p <= Clamped(j) * p /\ Clamped(j) * p <= 40 * p /\ 40 * p \in Nat
    BY <2>1, TimesOrder
  <2>3. /\ Rounded(Clamped(k) * p, 40) \in Nat /\ Rounded(Clamped(j) * p, 40) \in Nat
        /\ Rounded(Clamped(k) * p, 40) <= Rounded(Clamped(j) * p, 40)
        /\ Rounded(Clamped(j) * p, 40) <= Rounded(40 * p, 40)
    BY <2>2, RoundedOrder
  <2>4. Rounded(40 * p, 40) = p
    BY RoundedWhole
  <2> QED BY <1>1, <2>3, <2>4
<1>3. RatingScore(NotKnown, p) = 0
  BY DEF RatingScore
<1>4. n = NotKnown \/ (n \in Nat /\ m \in Nat)
  BY DEF NotKnown
<1> QED BY <1>2, <1>3, <1>4

\* The nearer tier is the lower one.
LEMMA ProximityOrder ==
  ASSUME NEW n \in 1..3, NEW m \in 1..3, m <= n, NEW p \in Nat
  PROVE  ProximityScore(n, p) \in 0..p /\ ProximityScore(m, p) \in 0..p
         /\ ProximityScore(n, p) <= ProximityScore(m, p)
<1>1. TierPoints[1] = 15 /\ TierPoints[2] = 12 /\ TierPoints[3] = 8
  BY DEF TierPoints
<1>2. /\ ProximityScore(1, p) = Rounded(15 * p, 15) /\ ProximityScore(2, p) = Rounded(12 * p, 15)
      /\ ProximityScore(3, p) = Rounded(8 * p, 15)
  BY <1>1 DEF ProximityScore
<1>3. /\ 8 * p \in Nat /\ 12 * p \in Nat /\ 15 * p \in Nat
      /\ 8 * p <= 12 * p /\ 12 * p <= 15 * p
  OBVIOUS
<1>4. /\ Rounded(8 * p, 15) \in Nat /\ Rounded(12 * p, 15) \in Nat /\ Rounded(15 * p, 15) \in Nat
      /\ Rounded(8 * p, 15) <= Rounded(12 * p, 15) /\ Rounded(12 * p, 15) <= Rounded(15 * p, 15)
  BY <1>3, RoundedOrder
<1>5. Rounded(15 * p, 15) = p
  BY RoundedWhole
<1> QED BY <1>2, <1>4, <1>5

LEMMA PainOrder ==
  ASSUME NEW r1 \in Nat, NEW r2 \in Nat, r1 <= r2, NEW s1 \in Nat, NEW s2 \in Nat, s1 <= s2,
         NEW i1 \in BOOLEAN, NEW i2 \in BOOLEAN, i1 => i2, NEW p \in Nat
  PROVE  PainScore(r1, s1, i1, p) \in 0..p /\ PainScore(r2, s2, i2, p) \in 0..p
         /\ PainScore(r1, s1, i1, p) <= PainScore(r2, s2, i2, p)
<1> DEFINE Pain(r, s, i) == 6 * Smaller(r, 5) + 3 * Smaller(s, 3) + (IF i THEN 4 ELSE 0)
<1>1. Pain(r1, s1, i1) \in Nat /\ Pain(r2, s2, i2) \in Nat /\ Pain(r1, s1, i1) <= Pain(r2, s2, i2)
  BY DEF Smaller
<1>2. /\ PainScore(r1, s1, i1, p) = Smaller(p, Rounded(Pain(r1, s1, i1), 2))
      /\ PainScore(r2, s2, i2, p) = Smaller(p, Rounded(Pain(r2, s2, i2), 2))
  BY DEF PainScore
<1> HIDE DEF Pain
<1>3. /\ Rounded(Pain(r1, s1, i1), 2) \in Nat /\ Rounded(Pain(r2, s2, i2), 2) \in Nat
      /\ Rounded(Pain(r1, s1, i1), 2) <= Rounded(Pain(r2, s2, i2), 2)
  BY <1>1, RoundedOrder
<1> QED BY <1>2, <1>3 DEF Smaller

LEMMA GapOrder ==
  ASSUME NEW n \in Nat, NEW m \in Nat, n <= m, NEW p \in Nat
  PROVE  Smaller(n, p) \in 0..p /\ Smaller(m, p) \in 0..p /\ Smaller(n, p) <= Smaller(m, p)
  BY DEF Smaller

\* Five parts, each within its weight and in order, add up in order.
LEMMA SumOrder ==
  ASSUME NEW w1 \in Nat, NEW w2 \in Nat, NEW w3 \in Nat, NEW w4 \in Nat, NEW w5 \in Nat,
         w1 + w2 + w3 + w4 + w5 = 100,
         NEW m1 \in 0..w1, NEW m2 \in 0..w2, NEW m3 \in 0..w3, NEW m4 \in 0..w4, NEW m5 \in 0..w5,
         NEW n1 \in 0..w1, NEW n2 \in 0..w2, NEW n3 \in 0..w3, NEW n4 \in 0..w4, NEW n5 \in 0..w5,
         m1 <= n1, m2 <= n2, m3 <= n3, m4 <= n4, m5 <= n5
  PROVE  /\ m1 + m2 + m3 + m4 + m5 \in 0..100 /\ n1 + n2 + n3 + n4 + n5 \in 0..100
         /\ m1 + m2 + m3 + m4 + m5 <= n1 + n2 + n3 + n4 + n5
  OBVIOUS

\* No improvement lowers a company's score, and every score lies on the scale
\* the thresholds are set on, whatever the weights (scoring.py: bands, clamping
\* and rounding): a is at most as good as b in every respect.
THEOREM BetterScoresMore ==
  ASSUME NEW a \in Audit, NEW b \in Audit,
         a.reviews <= b.reviews, a.rating <= b.rating, b.tier <= a.tier, a.gap <= b.gap,
         a.pains <= b.pains, a.signals <= b.signals, a.intent => b.intent
  PROVE  Total(a) \in 0..100 /\ Total(b) \in 0..100 /\ Total(a) <= Total(b)
<1> DEFINE V(x) == ReviewBand(x.reviews, Weights.review_band)
           R(x) == RatingScore(x.rating, Weights.rating)
           X(x) == ProximityScore(x.tier, Weights.proximity_tier)
           G(x) == Smaller(x.gap, Weights.online_gap)
           Y(x) == PainScore(x.pains, x.signals, x.intent, Weights.pain_evidence)
<1>0. ASSUME NEW x \in Audit
      PROVE  /\ x.reviews \in Int /\ x.tier \in 1..3 /\ x.gap \in Nat /\ x.pains \in Nat
             /\ x.signals \in Nat /\ x.intent \in BOOLEAN /\ x.rating \in Nat \cup {NotKnown}
  BY DEF Audit
<1>1. V(a) \in 0..Weights.review_band /\ V(b) \in 0..Weights.review_band /\ V(a) <= V(b)
  BY <1>0, WeightTypes, ReviewOrder
<1>2. R(a) \in 0..Weights.rating /\ R(b) \in 0..Weights.rating /\ R(a) <= R(b)
  BY <1>0, WeightTypes, RatingOrder
<1>3. X(a) \in 0..Weights.proximity_tier /\ X(b) \in 0..Weights.proximity_tier /\ X(a) <= X(b)
  BY <1>0, WeightTypes, ProximityOrder
<1>4. G(a) \in 0..Weights.online_gap /\ G(b) \in 0..Weights.online_gap /\ G(a) <= G(b)
  BY <1>0, WeightTypes, GapOrder
<1>5. Y(a) \in 0..Weights.pain_evidence /\ Y(b) \in 0..Weights.pain_evidence /\ Y(a) <= Y(b)
  <2>1. /\ a.pains \in Nat /\ b.pains \in Nat /\ a.signals \in Nat /\ b.signals \in Nat
        /\ a.intent \in BOOLEAN /\ b.intent \in BOOLEAN
    BY <1>0
  <2> DEFINE p == Weights.pain_evidence
  <2>2. p \in Nat
    BY WeightTypes
  <2> HIDE DEF p
  <2>3. /\ PainScore(a.pains, a.signals, a.intent, p) \in 0..p
        /\ PainScore(b.pains, b.signals, b.intent, p) \in 0..p
        /\ PainScore(a.pains, a.signals, a.intent, p)
             <= PainScore(b.pains, b.signals, b.intent, p)
    BY <2>1, <2>2, PainOrder, ZenonT(40)
  <2> QED BY <2>3 DEF p
<1>6. Total(a) = V(a) + R(a) + X(a) + G(a) + Y(a) /\ Total(b) = V(b) + R(b) + X(b) + G(b) + Y(b)
  BY DEF Total
<1> HIDE DEF V, R, X, G, Y
<1>7. /\ Weights.review_band + Weights.rating + Weights.proximity_tier
           + Weights.online_gap + Weights.pain_evidence = 100
      /\ Weights.review_band \in Nat /\ Weights.rating \in Nat /\ Weights.proximity_tier \in Nat
      /\ Weights.online_gap \in Nat /\ Weights.pain_evidence \in Nat
  BY WeightsAssumption, WeightTypes
<1> DEFINE w1 == Weights.review_band
           w2 == Weights.rating
           w3 == Weights.proximity_tier
           w4 == Weights.online_gap
           w5 == Weights.pain_evidence
           va == V(a)  vb == V(b)
           ra == R(a)  rb == R(b)
           xa == X(a)  xb == X(b)
           ga == G(a)  gb == G(b)
           pa == Y(a)  pb == Y(b)
<1>8. /\ w1 + w2 + w3 + w4 + w5 = 100
      /\ w1 \in Nat /\ w2 \in Nat /\ w3 \in Nat /\ w4 \in Nat /\ w5 \in Nat
      /\ va \in 0..w1 /\ ra \in 0..w2 /\ xa \in 0..w3 /\ ga \in 0..w4 /\ pa \in 0..w5
      /\ vb \in 0..w1 /\ rb \in 0..w2 /\ xb \in 0..w3 /\ gb \in 0..w4 /\ pb \in 0..w5
      /\ va <= vb /\ ra <= rb /\ xa <= xb /\ ga <= gb /\ pa <= pb
  BY <1>1, <1>2, <1>3, <1>4, <1>5, <1>7
<1>9. Total(a) = va + ra + xa + ga + pa /\ Total(b) = vb + rb + xb + gb + pb
  BY <1>6
<1> HIDE DEF w1, w2, w3, w4, w5, va, vb, ra, rb, xa, xb, ga, gb, pa, pb
<1>10. /\ va + ra + xa + ga + pa \in 0..100 /\ vb + rb + xb + gb + pb \in 0..100
       /\ va + ra + xa + ga + pa <= vb + rb + xb + gb + pb
  BY <1>8, SumOrder
<1> QED BY <1>9, <1>10

-----------------------------------------------------------------------------
(* Presence.  The gap is the largest of the five parts.                    *)

\* t has every channel that s has.
ShowsMore(s, t) ==
  /\ s.reachable => t.reachable
  /\ s.cart => t.cart
  /\ s.platform => t.platform
  /\ s.technology => t.technology
  /\ s.whatsapp => t.whatsapp
  /\ s.facebook \/ s.instagram => t.facebook \/ t.instagram
  /\ s.mentions \subseteq t.mentions
  /\ s.country = t.country

\* A site that names more platforms is listed on no fewer.
LEMMA ListedOrder ==
  ASSUME NEW s, NEW t, ShowsMore(s, t), IsFiniteSet(t.mentions)
  PROVE  /\ Cardinality(P!DeliveryPlatforms(s)) \in Nat
         /\ Cardinality(P!DeliveryPlatforms(t)) \in Nat
         /\ Cardinality(P!DeliveryPlatforms(s)) <= Cardinality(P!DeliveryPlatforms(t))
<1> DEFINE few == P!DeliveryPlatforms(s)
           many == P!DeliveryPlatforms(t)
<1>1. few \subseteq many
  BY DEF ShowsMore, P!DeliveryPlatforms
<1>2. many \subseteq t.mentions
  BY DEF P!DeliveryPlatforms
<1> HIDE DEF few, many
<1>3. IsFiniteSet(many) /\ IsFiniteSet(few)
  BY <1>1, <1>2, FS_Subset
<1>4. Cardinality(few) \in Nat /\ Cardinality(many) \in Nat
  BY <1>3, FS_CardinalityType
<1>5. Cardinality(few) <= Cardinality(many)
  BY <1>1, <1>3, FS_Subset
<1> QED BY <1>4, <1>5 DEF few, many

\* A company that has more channels online never has a wider gap, and every gap
\* lies between 0 and the 22 that a company without any gets (_compute_online_gap).
THEOREM ChannelsNarrowTheGap ==
  ASSUME NEW s \in P!Site, NEW t \in P!Site, ShowsMore(s, t), IsFiniteSet(t.mentions)
  PROVE  P!OnlineGap(s) \in 0..22 /\ P!OnlineGap(t) \in 0..22
         /\ P!OnlineGap(t) <= P!OnlineGap(s)
<1> DEFINE Named(x) == Cardinality(P!DeliveryPlatforms(x))
           Shop(x) == IF P!HasCart(x) THEN 12 ELSE IF P!HasEcommerce(x) THEN 8 ELSE 0
           Known(x) == IF Named(x) > 3 THEN 6 ELSE 2 * Named(x)
           Order(x) == IF x.whatsapp THEN 2 ELSE 0
           OnSocial(x) == IF x.facebook \/ x.instagram THEN 1 ELSE 0
<1>1. Shop(s) \in 0..12 /\ Shop(t) \in 0..12 /\ Shop(s) <= Shop(t)
  BY DEF ShowsMore, P!HasCart, P!HasEcommerce
<1>2. Known(s) \in 0..6 /\ Known(t) \in 0..6 /\ Known(s) <= Known(t)
  <2> HIDE DEF Named
  <2>1. Named(s) \in Nat /\ Named(t) \in Nat /\ Named(s) <= Named(t)
    BY ListedOrder DEF Named
  <2> QED BY <2>1
<1>3. Order(s) \in 0..2 /\ Order(t) \in 0..2 /\ Order(s) <= Order(t)
  BY DEF ShowsMore
<1>4. OnSocial(s) \in 0..1 /\ OnSocial(t) \in 0..1 /\ OnSocial(s) <= OnSocial(t)
  BY DEF ShowsMore
<1>0. ASSUME NEW x PROVE P!Cardinality(P!DeliveryPlatforms(x)) = Named(x)
  BY DEF P!Cardinality, Cardinality, P!IsFiniteSet, IsFiniteSet
<1>5. ASSUME NEW x
      PROVE  LET gap == 22 - Shop(x) - Known(x) - Order(x) - OnSocial(x)
             IN P!OnlineGap(x) = IF gap < 0 THEN 0 ELSE gap
  BY <1>0 DEF P!OnlineGap
<1> HIDE DEF Shop, Known, Order, OnSocial
<1>6. /\ P!OnlineGap(s) = LET gap == 22 - Shop(s) - Known(s) - Order(s) - OnSocial(s)
                             IN IF gap < 0 THEN 0 ELSE gap
      /\ P!OnlineGap(t) = LET gap == 22 - Shop(t) - Known(t) - Order(t) - OnSocial(t)
                             IN IF gap < 0 THEN 0 ELSE gap
  BY <1>5
<1> QED BY <1>1, <1>2, <1>3, <1>4, <1>6

-----------------------------------------------------------------------------
(* What the steps of the specification ask.                                *)

LEMMA Kinds ==
  /\ AskClassify => question'.kind = "classify"
  /\ AskScore => question'.kind = "score"
  /\ AskResolve => question'.kind = "resolve"
  /\ AskFunnel => question'.kind = "funnel"
  /\ AskScreen => question'.kind = "screen"
  /\ AskBrief => question'.kind = "brief"
  /\ AskPresence => question'.kind = "presence"
  /\ AskReply => question'.kind = "reply"
  /\ AskTasks => question'.kind = "tasks"
  /\ AskCalls => question'.kind = "calls"
  /\ AskNews => question'.kind = "news"
  /\ AskPages => question'.kind = "pages"
  /\ AskModel => question'.kind = "model"
<1>1. AskClassify => question'.kind = "classify"
  BY DEF Ask, AskClassify
<1>2. AskScore => question'.kind = "score"
  BY DEF Ask, AskScore
<1>3. AskResolve => question'.kind = "resolve"
  BY DEF Ask, AskResolve
<1>4. AskFunnel => question'.kind = "funnel"
  BY DEF Ask, AskFunnel
<1>5. AskScreen => question'.kind = "screen"
  BY DEF Ask, AskScreen
<1>6. AskBrief => question'.kind = "brief"
  BY DEF Ask, AskBrief
<1>7. AskPresence => question'.kind = "presence"
  BY DEF Ask, AskPresence
<1>8. AskReply => question'.kind = "reply"
  BY DEF Ask, AskReply
<1>9. AskTasks => question'.kind = "tasks"
  BY DEF Ask, AskTasks
<1>10. AskCalls => question'.kind = "calls"
  BY DEF Ask, AskCalls
<1>11. AskNews => question'.kind = "news"
  BY DEF Ask, AskNews
<1>12. AskPages => question'.kind = "pages"
  BY DEF Ask, AskPages
<1>13. AskModel => question'.kind = "model"
  BY DEF Ask, AskModel
<1> QED BY <1>1, <1>2, <1>3, <1>4, <1>5, <1>6, <1>7, <1>8, <1>9, <1>10, <1>11, <1>12, <1>13

\* Every pacing, every wait for the news, every rendering and every chain of
\* providers keeps its limits, however many calls there are and whatever the
\* limits are set to.
THEOREM SparinglyAsked == Spec => []AskedSparingly
<1>1. Init => AskedSparingly
  BY DEF Init, AskedSparingly
<1>2. ASSUME AskedSparingly, [Next]_vars PROVE AskedSparingly'
  <2>1. CASE UNCHANGED vars
    BY <1>2, <2>1 DEF vars, AskedSparingly
  <2>2. CASE AskCalls
    <3>1. PICK n \in 0..MostCalls : \E rs \in [1..n -> Calls] :
            InOrder(rs) /\ Ask("calls", rs, S!Granted(rs))
      BY <2>2 DEF AskCalls
    <3>2. PICK rs \in [1..n -> Calls] : InOrder(rs) /\ Ask("calls", rs, S!Granted(rs))
      BY <3>1
    <3>3. n \in Nat /\ rs \in [1..n -> S!Call]
      BY ServicesFacts
    <3>4. Paced(rs, S!Granted(rs))
      BY <3>2, <3>3, CallsPaced
    <3> QED BY <3>2, <3>4 DEF Ask, AskedSparingly
  <2>3. CASE AskNews
    <3>1. PICK n \in 0..MostCalls : \E rs \in [1..n -> Articles] :
            InOrder(rs) /\ Ask("news", rs, S!News(rs))
      BY <2>3 DEF AskNews
    <3>2. PICK rs \in [1..n -> Articles] : InOrder(rs) /\ Ask("news", rs, S!News(rs))
      BY <3>1
    <3>3. n \in Nat /\ rs \in [1..n -> S!Article]
      BY ServicesFacts
    <3>4. Throttled(rs, S!News(rs))
      BY <3>2, <3>3, NewsThrottled
    <3> QED BY <3>2, <3>4 DEF Ask, AskedSparingly
  <2>4. CASE AskPages
    <3>1. PICK n \in 0..MostCalls : \E rs \in [1..n -> Pages] :
            Ask("pages", rs, S!Rendered(rs))
      BY <2>4 DEF AskPages
    <3>2. PICK rs \in [1..n -> Pages] : Ask("pages", rs, S!Rendered(rs))
      BY <3>1
    <3>3. RenderedOnce(rs, S!Rendered(rs))
      BY <3>2, PagesRenderedOnce
    <3> QED BY <3>2, <3>3 DEF Ask, AskedSparingly
  <2>5. CASE AskModel
    <3>1. PICK s \in Setups :
            LET chain == S!Providers(s.provider, s.up, s.groq, s.gemini)
            IN \E answers \in [DOMAIN chain -> [1..S!AtLeast(Tries, Models) -> S!Outcomes]] :
                 Ask("model", [chain |-> chain, answers |-> answers], S!Complete(chain, answers))
      BY <2>5 DEF AskModel
    <3> DEFINE chain == S!Providers(s.provider, s.up, s.groq, s.gemini)
               n == S!AtLeast(Tries, Models)
               m == Len(chain)
    <3>2. PICK answers \in [DOMAIN chain -> [1..n -> S!Outcomes]] :
            Ask("model", [chain |-> chain, answers |-> answers], S!Complete(chain, answers))
      BY <3>1
    <3>3. chain \in {<<>>, <<"ollama">>, <<"groq">>, <<"groq", "gemini">>, <<"gemini">>}
      BY DEF S!Providers
    <3>4. m \in Nat /\ DOMAIN chain = 1..m /\ chain \in [1..m -> {"groq", "gemini", "ollama"}]
      BY <3>3
    <3>5. n \in Nat /\ n >= Tries /\ n >= Models
      BY ServicesFacts DEF S!AtLeast
    <3> HIDE DEF chain, n, m
    <3>6. LostOnlyWhenAllFail(chain, answers, S!Complete(chain, answers))
      BY <3>4, <3>5, ModelsHeardOut
    <3> QED BY <3>2, <3>6 DEF Ask, AskedSparingly
  <2>6. CASE \/ AskClassify \/ AskScore \/ AskResolve \/ AskFunnel \/ AskScreen \/ AskBrief
             \/ AskPresence \/ AskReply \/ AskTasks
    BY <2>6, Kinds DEF AskedSparingly
  <2> QED BY <1>2, <2>1, <2>2, <2>3, <2>4, <2>5, <2>6 DEF Next
<1> QED BY <1>1, <1>2, PTL DEF Spec

-----------------------------------------------------------------------------
(* Of one piece of evidence, one merit or one channel more.                *)

\* A better company is at least as good in every respect.
LEMMA BetterMeans ==
  ASSUME NEW a \in Audit, NEW b \in Better(a)
  PROVE  /\ b \in Audit
         /\ a.reviews <= b.reviews /\ a.rating <= b.rating /\ b.tier <= a.tier
         /\ a.gap <= b.gap /\ a.pains <= b.pains /\ a.signals <= b.signals
         /\ a.intent => b.intent
<1>0. /\ a.reviews \in Int /\ a.rating \in Nat \cup {NotKnown} /\ a.tier \in 1..3
      /\ a.gap \in Nat /\ a.pains \in Nat /\ a.signals \in Nat /\ a.intent \in BOOLEAN
  BY DEF Audit
<1>1. CASE b = [a EXCEPT !.reviews = @ + 1]
  <2>1. b \in Audit
    BY <1>0, <1>1 DEF Audit
  <2>2. /\ b.reviews = a.reviews + 1 /\ b.rating = a.rating /\ b.tier = a.tier
        /\ b.gap = a.gap /\ b.pains = a.pains /\ b.signals = a.signals /\ b.intent = a.intent
    BY <1>1 DEF Audit
  <2> QED BY <1>0, <2>1, <2>2 DEF NotKnown
<1>2. CASE b = [a EXCEPT !.rating = IF @ = NotKnown THEN 10 ELSE @ + 1]
  <2> DEFINE rating == IF a.rating = NotKnown THEN 10 ELSE a.rating + 1
  <2>1. rating \in Nat /\ a.rating <= rating
    BY <1>0 DEF NotKnown
  <2>2. b = [a EXCEPT !.rating = rating]
    BY <1>2
  <2> HIDE DEF rating
  <2>3. b \in Audit
    BY <1>0, <2>1, <2>2 DEF Audit
  <2>4. /\ b.reviews = a.reviews /\ b.rating = rating /\ b.tier = a.tier
        /\ b.gap = a.gap /\ b.pains = a.pains /\ b.signals = a.signals /\ b.intent = a.intent
    BY <2>2 DEF Audit
  <2> QED BY <1>0, <2>1, <2>3, <2>4
<1>3. CASE b = [a EXCEPT !.tier = IF @ = 1 THEN 1 ELSE @ - 1]
  <2> DEFINE tier == IF a.tier = 1 THEN 1 ELSE a.tier - 1
  <2>1. tier \in 1..3 /\ tier <= a.tier
    BY <1>0
  <2>2. b = [a EXCEPT !.tier = tier]
    BY <1>3
  <2> HIDE DEF tier
  <2>3. b \in Audit
    BY <1>0, <2>1, <2>2 DEF Audit
  <2>4. /\ b.reviews = a.reviews /\ b.rating = a.rating /\ b.tier = tier
        /\ b.gap = a.gap /\ b.pains = a.pains /\ b.signals = a.signals /\ b.intent = a.intent
    BY <2>2 DEF Audit
  <2> QED BY <1>0, <2>1, <2>3, <2>4 DEF NotKnown
<1>4. CASE b = [a EXCEPT !.gap = @ + 1]
  <2>1. b \in Audit
    BY <1>0, <1>4 DEF Audit
  <2>2. /\ b.reviews = a.reviews /\ b.rating = a.rating /\ b.tier = a.tier
        /\ b.gap = a.gap + 1 /\ b.pains = a.pains /\ b.signals = a.signals /\ b.intent = a.intent
    BY <1>4 DEF Audit
  <2> QED BY <1>0, <2>1, <2>2 DEF NotKnown
<1>5. CASE b = [a EXCEPT !.pains = @ + 1]
  <2>1. b \in Audit
    BY <1>0, <1>5 DEF Audit
  <2>2. /\ b.reviews = a.reviews /\ b.rating = a.rating /\ b.tier = a.tier
        /\ b.gap = a.gap /\ b.pains = a.pains + 1 /\ b.signals = a.signals /\ b.intent = a.intent
    BY <1>5 DEF Audit
  <2> QED BY <1>0, <2>1, <2>2 DEF NotKnown
<1>6. CASE b = [a EXCEPT !.signals = @ + 1]
  <2>1. b \in Audit
    BY <1>0, <1>6 DEF Audit
  <2>2. /\ b.reviews = a.reviews /\ b.rating = a.rating /\ b.tier = a.tier
        /\ b.gap = a.gap /\ b.pains = a.pains /\ b.signals = a.signals + 1 /\ b.intent = a.intent
    BY <1>6 DEF Audit
  <2> QED BY <1>0, <2>1, <2>2 DEF NotKnown
<1>7. CASE b = [a EXCEPT !.intent = TRUE]
  <2>1. b \in Audit
    BY <1>0, <1>7 DEF Audit
  <2>2. /\ b.reviews = a.reviews /\ b.rating = a.rating /\ b.tier = a.tier
        /\ b.gap = a.gap /\ b.pains = a.pains /\ b.signals = a.signals /\ b.intent = TRUE
    BY <1>7 DEF Audit
  <2> QED BY <1>0, <2>1, <2>2 DEF NotKnown
<1> QED BY <1>1, <1>2, <1>3, <1>4, <1>5, <1>6, <1>7 DEF Better

\* There are finitely many platforms, so a site names finitely many.
LEMMA FewMentions ==
  ASSUME NEW s \in P!Site
  PROVE  IsFiniteSet(s.mentions)
<1>1. s.mentions \subseteq P!Platforms
  BY DEF P!Site
<1>2. IsFiniteSet(P!Platforms)
  BY InstancesAssumption DEF P!PresenceAssumption, P!Platforms, P!IsFiniteSet, IsFiniteSet
<1> QED BY <1>1, <1>2, FS_Subset

\* A site with one channel more has every channel that it had.
LEMMA MoreChannelsMeans ==
  ASSUME NEW s \in P!Site, NEW t \in P!MoreChannels(s)
  PROVE  t \in P!Site /\ ShowsMore(s, t)
<1>0. /\ s.reachable \in BOOLEAN /\ s.cart \in BOOLEAN /\ s.platform \in BOOLEAN
      /\ s.technology \in BOOLEAN /\ s.whatsapp \in BOOLEAN /\ s.facebook \in BOOLEAN
      /\ s.instagram \in BOOLEAN /\ s.mentions \in SUBSET P!Platforms
  BY DEF P!Site
<1>1. CASE t = [s EXCEPT !.cart = TRUE]
  BY <1>0, <1>1 DEF P!Site, ShowsMore
<1>2. CASE t = [s EXCEPT !.platform = TRUE]
  BY <1>0, <1>2 DEF P!Site, ShowsMore
<1>3. CASE t = [s EXCEPT !.technology = TRUE]
  BY <1>0, <1>3 DEF P!Site, ShowsMore
<1>4. CASE t = [s EXCEPT !.whatsapp = TRUE]
  BY <1>0, <1>4 DEF P!Site, ShowsMore
<1>5. CASE t = [s EXCEPT !.facebook = TRUE]
  BY <1>0, <1>5 DEF P!Site, ShowsMore
<1>6. CASE t = [s EXCEPT !.instagram = TRUE]
  BY <1>0, <1>6 DEF P!Site, ShowsMore
<1>7. CASE \E p \in P!Platforms : t = [s EXCEPT !.mentions = @ \cup {p}]
  <2>1. PICK p \in P!Platforms : t = [s EXCEPT !.mentions = @ \cup {p}]
    BY <1>7
  <2>2. s.mentions \cup {p} \in SUBSET P!Platforms
    BY <1>0
  <2> QED BY <1>0, <2>1, <2>2 DEF P!Site, ShowsMore
<1> QED BY <1>1, <1>2, <1>3, <1>4, <1>5, <1>6, <1>7 DEF P!MoreChannels

\* A label is on the list or not.
LabelIf(s, label) == IF P!Lacks(s, label) THEN <<label>> ELSE <<>>

One(s, label) == IF P!Lacks(s, label) THEN 1 ELSE 0

LEMMA LabelTyped ==
  ASSUME NEW s, NEW l, NEW X, P!Lacks(s, l) => l \in X
  PROVE  LabelIf(s, l) \in Seq(X) /\ Len(LabelIf(s, l)) = One(s, l)
<1>1. CASE P!Lacks(s, l)
  <2>1. <<l>> \in Seq(X) /\ Len(<<l>>) = 1
    BY <1>1
  <2> QED BY <1>1, <2>1 DEF LabelIf, One
<1>2. CASE ~P!Lacks(s, l)
  <2>1. <<>> \in Seq(X) /\ Len(<<>>) = 0
    OBVIOUS
  <2> QED BY <1>2, <2>1 DEF LabelIf, One
<1> QED BY <1>1, <1>2

\* Six short lists put together.
LEMMA Joined ==
  ASSUME NEW X, NEW a \in Seq(X), NEW b \in Seq(X), NEW c \in Seq(X), NEW d \in Seq(X),
         NEW e \in Seq(X), NEW f \in Seq(X)
  PROVE  /\ a \o b \o c \o d \o e \o f \in Seq(X)
         /\ Len(a \o b \o c \o d \o e \o f) = Len(a) + Len(b) + Len(c) + Len(d) + Len(e) + Len(f)
<1>1. a \o b \in Seq(X) /\ Len(a \o b) = Len(a) + Len(b)
  OBVIOUS
<1> DEFINE ab == a \o b
<1>2. ab \o c \in Seq(X) /\ Len(ab \o c) = Len(ab) + Len(c)
  BY <1>1
<1> DEFINE abc == ab \o c
<1>3. abc \o d \in Seq(X) /\ Len(abc \o d) = Len(abc) + Len(d)
  <2> HIDE DEF ab
  <2> QED BY <1>2
<1> DEFINE abcd == abc \o d
<1>4. abcd \o e \in Seq(X) /\ Len(abcd \o e) = Len(abcd) + Len(e)
  <2> HIDE DEF abc
  <2> QED BY <1>3
<1> DEFINE abcde == abcd \o e
<1>5. abcde \o f \in Seq(X) /\ Len(abcde \o f) = Len(abcde) + Len(f)
  <2> HIDE DEF abcd
  <2> QED BY <1>4
<1> QED BY <1>1, <1>2, <1>3, <1>4, <1>5

\* What a site lacks by its label it has not.
Labels == {"no_ecommerce", "no_cart", "no_whatsapp_ordering", "no_delivery_platform",
           "no_mobile_app", "no_social"}

LEMMA LacksMeans ==
  ASSUME NEW s \in P!Site, P!Auditable(s), NEW l \in Labels, P!Lacks(s, l)
  PROVE  ~Has(s, l)
<1>0. /\ s.reachable \in BOOLEAN /\ s.cart \in BOOLEAN /\ s.platform \in BOOLEAN
      /\ s.technology \in BOOLEAN /\ s.whatsapp \in BOOLEAN /\ s.facebook \in BOOLEAN
      /\ s.instagram \in BOOLEAN
  BY DEF P!Site
<1>1. CASE l = "no_ecommerce"
  BY <1>0, <1>1 DEF P!Lacks, Has, P!HasEcommerce, P!HasCart, P!Auditable, P!Nothing
<1>2. CASE l = "no_cart"
  BY <1>0, <1>2 DEF P!Lacks, Has, P!HasEcommerce, P!HasCart, P!Auditable, P!Nothing
<1>3. CASE l = "no_whatsapp_ordering"
  BY <1>3 DEF P!Lacks, Has
<1>4. CASE l = "no_delivery_platform"
  BY <1>0, <1>4 DEF P!Lacks, Has, P!DeliveryPlatforms, P!Auditable, P!Nothing
<1>5. CASE l = "no_mobile_app"
  BY <1>5 DEF Has
<1>6. CASE l = "no_social"
  BY <1>6 DEF P!Lacks, Has
<1> QED BY <1>1, <1>2, <1>3, <1>4, <1>5, <1>6 DEF Labels

\* The list, and how long it is.
LEMMA LabelsTyped ==
  ASSUME NEW s, NEW X, \A l \in Labels : P!Lacks(s, l) => l \in X
  PROVE  /\ P!GapLabels(s) \in Seq(X)
         /\ Len(P!GapLabels(s)) =
              One(s, "no_ecommerce") + One(s, "no_cart") + One(s, "no_whatsapp_ordering")
              + One(s, "no_delivery_platform") + One(s, "no_mobile_app") + One(s, "no_social")
<1> DEFINE a == "no_ecommerce"
           b == "no_cart"
           c == "no_whatsapp_ordering"
           d == "no_delivery_platform"
           e == "no_mobile_app"
           f == "no_social"
           list == LabelIf(s, a) \o LabelIf(s, b) \o LabelIf(s, c) \o LabelIf(s, d)
                       \o LabelIf(s, e) \o LabelIf(s, f)
<1>1. P!GapLabels(s) = list
  BY DEF P!GapLabels, LabelIf
<1>2. /\ a \in Labels /\ b \in Labels /\ c \in Labels /\ d \in Labels /\ e \in Labels
      /\ f \in Labels
  BY DEF Labels
<1>0. list = LabelIf(s, a) \o LabelIf(s, b) \o LabelIf(s, c) \o LabelIf(s, d)
              \o LabelIf(s, e) \o LabelIf(s, f)
  OBVIOUS
<1> HIDE DEF a, b, c, d, e, f, list
<1>3. /\ list \in Seq(X)
      /\ Len(list) = One(s, a) + One(s, b) + One(s, c) + One(s, d) + One(s, e) + One(s, f)
  <2>1. /\ P!Lacks(s, a) => a \in X
        /\ P!Lacks(s, b) => b \in X
        /\ P!Lacks(s, c) => c \in X
        /\ P!Lacks(s, d) => d \in X
        /\ P!Lacks(s, e) => e \in X
        /\ P!Lacks(s, f) => f \in X
    BY <1>2
  <2>2. /\ LabelIf(s, a) \in Seq(X) /\ Len(LabelIf(s, a)) = One(s, a)
        /\ LabelIf(s, b) \in Seq(X) /\ Len(LabelIf(s, b)) = One(s, b)
        /\ LabelIf(s, c) \in Seq(X) /\ Len(LabelIf(s, c)) = One(s, c)
        /\ LabelIf(s, d) \in Seq(X) /\ Len(LabelIf(s, d)) = One(s, d)
        /\ LabelIf(s, e) \in Seq(X) /\ Len(LabelIf(s, e)) = One(s, e)
        /\ LabelIf(s, f) \in Seq(X) /\ Len(LabelIf(s, f)) = One(s, f)
    BY <2>1, LabelTyped
  <2> QED BY <1>0, <2>2, Joined, SMTT(40)
<1> QED BY <1>1, <1>3 DEF a, b, c, d, e, f

\* A site with more channels has no more labels: a shop without a cart has the
\* label no_cart for the label no_ecommerce.
LEMMA LabelsOrder ==
  ASSUME NEW s \in P!Site, NEW t \in P!Site, ShowsMore(s, t)
  PROVE  Len(P!GapLabels(t)) <= Len(P!GapLabels(s))
<1>1. ASSUME NEW x
      PROVE  Len(P!GapLabels(x)) =
              One(x, "no_ecommerce") + One(x, "no_cart") + One(x, "no_whatsapp_ordering")
              + One(x, "no_delivery_platform") + One(x, "no_mobile_app") + One(x, "no_social")
  BY LabelsTyped, Zenon
<1>2. One(t, "no_ecommerce") + One(t, "no_cart") <= One(s, "no_ecommerce") + One(s, "no_cart")
  BY DEF One, P!Lacks, ShowsMore, P!HasEcommerce, P!HasCart, P!Site
<1>3. One(t, "no_whatsapp_ordering") <= One(s, "no_whatsapp_ordering")
  BY DEF One, P!Lacks, ShowsMore
<1>4. One(t, "no_delivery_platform") <= One(s, "no_delivery_platform")
  BY DEF One, P!Lacks, ShowsMore, P!DeliveryPlatforms
<1>5. One(t, "no_mobile_app") = One(s, "no_mobile_app")
  BY DEF One, P!Lacks
<1>6. One(t, "no_social") <= One(s, "no_social")
  BY DEF One, P!Lacks, ShowsMore
<1> DEFINE t1 == One(t, "no_ecommerce")  s1 == One(s, "no_ecommerce")
           t2 == One(t, "no_cart")  s2 == One(s, "no_cart")
           t3 == One(t, "no_whatsapp_ordering")  s3 == One(s, "no_whatsapp_ordering")
           t4 == One(t, "no_delivery_platform")  s4 == One(s, "no_delivery_platform")
           t5 == One(t, "no_mobile_app")  s5 == One(s, "no_mobile_app")
           t6 == One(t, "no_social")  s6 == One(s, "no_social")
<1>7. /\ t1 \in Nat /\ t2 \in Nat /\ t3 \in Nat /\ t4 \in Nat /\ t5 \in Nat /\ t6 \in Nat
      /\ s1 \in Nat /\ s2 \in Nat /\ s3 \in Nat /\ s4 \in Nat /\ s5 \in Nat /\ s6 \in Nat
  BY DEF One
<1>8. t1 + t2 <= s1 + s2 /\ t3 <= s3 /\ t4 <= s4 /\ t5 = s5 /\ t6 <= s6
  BY <1>2, <1>3, <1>4, <1>5, <1>6
<1>9. /\ Len(P!GapLabels(t)) = t1 + t2 + t3 + t4 + t5 + t6
      /\ Len(P!GapLabels(s)) = s1 + s2 + s3 + s4 + s5 + s6
  BY <1>1, Zenon
<1> HIDE DEF t1, t2, t3, t4, t5, t6, s1, s2, s3, s4, s5, s6
<1> QED BY <1>7, <1>8, <1>9

\* A pitch is made of what it is given.
LEMMA PitchOf ==
  ASSUME NEW X, NEW labels \in Seq(X), NEW pains \in Seq(X), NEW buying \in Seq(X)
  PROVE  P!Pitch(labels, pains, buying) \in Seq(X)
<1> DEFINE First(signals, n) == SubSeq(signals, 1, IF Len(signals) < n THEN Len(signals) ELSE n)
<1>1. ASSUME NEW q \in Seq(X), NEW n \in Nat PROVE First(q, n) \in Seq(X)
  <2> DEFINE k == IF Len(q) < n THEN Len(q) ELSE n
  <2>1. Len(q) \in Nat /\ q \in [1..Len(q) -> X] /\ k \in 0..Len(q)
    OBVIOUS
  <2> HIDE DEF k
  <2>2. SubSeq(q, 1, k) \in [1..k -> X] /\ k \in Nat
    BY <2>1, Firsts
  <2> DEFINE f == SubSeq(q, 1, k)
  <2>3. f \in Seq(X)
    <3> HIDE DEF f
    <3>1. f \in [1..k -> X] /\ k \in Nat
      BY <2>2 DEF f
    <3> QED BY <3>1
  <2> QED BY <2>3 DEF k
<1> DEFINE parts == First(labels, 2) \o First(pains, 1)
           chosen == IF parts = <<>> THEN First(buying, 1) ELSE parts
<1>2. P!Pitch(labels, pains, buying) = First(chosen, 2)
  BY DEF P!Pitch
<1> HIDE DEF First
<1>3. chosen \in Seq(X)
  BY <1>1
<1> HIDE DEF chosen
<1> QED BY <1>1, <1>2, <1>3

\* A question about presence is answered as the property demands.
Presented(s, answered) ==
  /\ answered.audit.gap \in 0..25
  /\ \A t \in P!MoreChannels(s) : P!Auditable(t) =>
       /\ P!OnlineGap(t) <= answered.audit.gap
       /\ Len(P!GapLabels(t)) <= Len(answered.audit.labels)
  /\ \A channel \in Range(answered.pitch) : ~Has(s, channel)

LEMMA PresenceStands ==
  ASSUME NEW s \in P!Site, P!Auditable(s), NEW pains \in {<<>>, <<"complaint">>}
  PROVE  Presented(s, [audit |-> P!AuditPresence(s),
                       pitch |-> P!Pitch(P!GapLabels(s), pains, <<"hiring">>)])
<1> DEFINE pitch == P!Pitch(P!GapLabels(s), pains, <<"hiring">>)
           X == {l \in Labels \cup {"complaint", "hiring"} : ~Has(s, l)}
<1>1. P!OnlineGap(s) \in 0..25
  <2>1. ShowsMore(s, s)
    BY DEF ShowsMore
  <2>2. P!OnlineGap(s) \in 0..22
    BY <2>1, FewMentions, ChannelsNarrowTheGap
  <2> QED BY <2>2
<1>2. ASSUME NEW t \in P!MoreChannels(s)
      PROVE  P!OnlineGap(t) <= P!OnlineGap(s) /\ Len(P!GapLabels(t)) <= Len(P!GapLabels(s))
  BY MoreChannelsMeans, FewMentions, ChannelsNarrowTheGap, LabelsOrder
<1>3. ASSUME NEW channel \in Range(pitch) PROVE ~Has(s, channel)
  <2>1. \A l \in Labels : P!Lacks(s, l) => l \in X
    BY LacksMeans
  <2>2. "complaint" \in X /\ "hiring" \in X
    BY DEF Has
  <2>3. pains \in Seq(X) /\ <<"hiring">> \in Seq(X)
    <3> DEFINE one == "complaint"
               two == "hiring"
    <3>1. one \in X /\ two \in X /\ pains \in {<<>>, <<one>>}
      BY <2>2
    <3> HIDE DEF one, X
    <3>2. <<one>> \in Seq(X) /\ <<>> \in Seq(X)
      BY <3>1
    <3> HIDE DEF two
    <3>3. <<two>> \in Seq(X)
      BY <3>1
    <3> QED BY <3>1, <3>2, <3>3 DEF two
  <2> HIDE DEF X
  <2>4. P!GapLabels(s) \in Seq(X)
    BY <2>1, LabelsTyped
  <2>5. pitch \in Seq(X)
    BY <2>3, <2>4, PitchOf
  <2> HIDE DEF pitch
  <2>6. channel \in X
    BY <2>5 DEF Range
  <2> QED BY <2>6 DEF X
<1> HIDE DEF pitch
<1>4. P!AuditPresence(s).gap = P!OnlineGap(s) /\ P!AuditPresence(s).labels = P!GapLabels(s)
  BY DEF P!AuditPresence
<1>5. Presented(s, [audit |-> P!AuditPresence(s), pitch |-> pitch])
  BY <1>1, <1>2, <1>3, <1>4 DEF Presented
<1> QED BY <1>5 DEF pitch

\* More evidence never reverses a verdict, no improvement costs points, and no
\* channel widens the gap or is pitched as missing, whatever is asked of the
\* engine (buyer_classifier.py, scoring.py, online_presence.py).
THEOREM EvidenceStands == Spec => []MoreEvidenceNeverReverses
<1>1. Init => MoreEvidenceNeverReverses
  BY DEF Init, MoreEvidenceNeverReverses
<1>2. ASSUME MoreEvidenceNeverReverses, [Next]_vars PROVE MoreEvidenceNeverReverses'
  <2>1. CASE UNCHANGED vars
    BY <1>2, <2>1 DEF vars, MoreEvidenceNeverReverses
  <2>2. CASE AskClassify
    <3>1. PICK b \in Bundles : Ask("classify", b, Classify(b))
      BY <2>2 DEF AskClassify
    <3>2. b \in Bundle
      BY QuestionsAssumption
    <3>3. /\ \A c \in MoreVendor(b) : Worth(Classify(c)) <= Worth(Classify(b))
          /\ \A c \in MoreBuyer(b) : Worth(Classify(c)) >= Worth(Classify(b))
      BY <3>2, EvidenceNeverReverses
    <3> QED BY <3>1, <3>3 DEF Ask, MoreEvidenceNeverReverses
  <2>3. CASE AskScore
    <3>1. PICK a \in Audits : Ask("score", a, Total(a))
      BY <2>3 DEF AskScore
    <3>2. a \in Audit
      BY QuestionsAssumption
    <3>3. Total(a) \in 0..100
      <4>1. /\ a.reviews \in Int /\ a.rating \in Nat \cup {NotKnown} /\ a.tier \in 1..3
            /\ a.gap \in Nat /\ a.pains \in Nat /\ a.signals \in Nat
        BY <3>2 DEF Audit
      <4>2. /\ a.reviews <= a.reviews /\ a.rating <= a.rating /\ a.tier <= a.tier
            /\ a.gap <= a.gap /\ a.pains <= a.pains /\ a.signals <= a.signals
        BY <4>1 DEF NotKnown
      <4> QED BY <3>2, <4>2, BetterScoresMore
    <3>4. ASSUME NEW b \in Better(a) PROVE Total(b) >= Total(a)
      <4>1. Total(a) \in 0..100 /\ Total(b) \in 0..100 /\ Total(a) <= Total(b)
        BY <3>2, BetterMeans, BetterScoresMore
      <4> QED BY <4>1
    <3> QED BY <3>1, <3>3, <3>4 DEF Ask, MoreEvidenceNeverReverses
  <2>4. CASE AskPresence
    <3>1. PICK s \in Audited, pains \in {<<>>, <<"complaint">>} :
            /\ P!Auditable(s)
            /\ Ask("presence", s,
                   [audit |-> P!AuditPresence(s),
                    pitch |-> P!Pitch(P!GapLabels(s), pains, <<"hiring">>)])
      BY <2>4 DEF AskPresence
    <3>2. s \in P!Site
      BY QuestionsAssumption
    <3>3. Presented(s, [audit |-> P!AuditPresence(s),
                        pitch |-> P!Pitch(P!GapLabels(s), pains, <<"hiring">>)])
      BY <3>1, <3>2, PresenceStands
    <3>4. question'.kind = "presence" /\ question'.input = s /\ Presented(s, answer')
      BY <3>1, <3>3 DEF Ask
    <3> QED BY <3>4 DEF Presented, MoreEvidenceNeverReverses
  <2>5. CASE AskResolve \/ AskFunnel \/ AskScreen
    BY <2>5, Kinds DEF MoreEvidenceNeverReverses
  <2>6. CASE AskBrief \/ AskReply \/ AskTasks
    BY <2>6, Kinds DEF MoreEvidenceNeverReverses
  <2>7. CASE AskCalls \/ AskNews \/ AskPages \/ AskModel
    BY <2>7, Kinds DEF MoreEvidenceNeverReverses
  <2> QED BY <1>2, <2>1, <2>2, <2>3, <2>4, <2>5, <2>6, <2>7 DEF Next
<1> QED BY <1>1, <1>2, PTL DEF Spec

-----------------------------------------------------------------------------
(* Campaigns from text.                                                    *)

\* A field nobody filled does not look like one that was filled.
LEMMA Apart ==
  None \notin Int /\ None \notin SUBSET Taxonomy /\ MostCompanies \in Nat /\ MostCompanies >= 30
<1>1. None \notin Int /\ None \notin SUBSET Taxonomy
  BY QuestionsAssumption
<1>2. MostCompanies \in Nat /\ MostCompanies >= 30
  BY InstancesAssumption DEF B!TaxonomyAssumption
<1> QED BY <1>1, <1>2

\* There is always something to search for; sectors named as industries are
\* all of it; and where industries are named, the offering adds only sectors.
LEMMA SectorsFollow ==
  ASSUME NEW offer, NEW industries, NEW guesses
  PROVE  LET named == B!HitsOf(industries) \ {General}
             searched == B!DeriveTargets(offer, industries, guesses)
         IN /\ searched # {}
            /\ named # {} => searched = named
            /\ industries # {} => searched \subseteq offer \cup named \cup {B!Niche}
<1> DEFINE hits == B!HitsOf(industries)
           named == hits \ {General}
           resolved == B!ResolveSectors(offer, industries)
           searched == B!DeriveTargets(offer, industries, guesses)
<1>1. industries = {} => hits = {}
  BY DEF B!HitsOf
<1>2. CASE named # {}
  <2>1. B!MatchSectors(hits) = named /\ ~(named \subseteq {General})
    BY <1>2 DEF B!MatchSectors
  <2>2. resolved = named
    BY <2>1 DEF B!ResolveSectors
  <2>3. industries # {}
    BY <1>1, <1>2
  <2>4. searched = named
    BY <1>2, <2>2, <2>3 DEF B!DeriveTargets, B!GuessedSectors
  <2> QED BY <1>2, <2>4
<1>3. CASE named = {}
  <2>1. resolved = B!MatchSectors(offer \cup hits)
    BY <1>3 DEF B!ResolveSectors, B!MatchSectors
  <2>2. resolved \ {General} \subseteq offer
    BY <1>3, <2>1 DEF B!MatchSectors
  <2>3. resolved \ {General} # {} => resolved \subseteq offer
    BY <1>3, <2>1 DEF B!MatchSectors
  <2> QED BY <1>3, <2>2, <2>3 DEF B!DeriveTargets, B!GuessedSectors
<1> QED BY <1>2, <1>3

\* What the text says of each field is what the campaign says of it.
LEMMA WordsKept ==
  ASSUME NEW text \in B!Text, NEW reply \in B!Reply
  PROVE  B!WordsStand(text, B!Campaign(text, reply))
<1> DEFINE draft == B!ParseIntent(text)
           read == B!ReadReply(reply)
           merged == B!MergeLLM(draft, read)
           cfg == B!BuildConfig(merged, text)
<1> USE DEF B!Or, B!OrSet
<1>1. /\ draft.offer = B!OfferIn(text) /\ draft.countries = text.countries
      /\ draft.cities = B!CitiesIn(text) /\ draft.industries = B!IndustriesIn(text)
      /\ draft.chains = text.chains /\ draft.max = B!MaxIn(text)
  BY DEF B!ParseIntent
<1>2. \/ read = None
      \/ reply # None /\ read.offer = reply.offer /\ read.max = reply.max
  BY DEF B!ReadReply, B!Reply
<1>3. /\ merged.offer = draft.offer \/ draft.offer = None
      /\ draft.countries # {} => merged.countries = draft.countries
      /\ draft.cities # {} => merged.cities = draft.cities
      /\ draft.industries \subseteq merged.industries
      /\ draft.chains => merged.chains
      /\ draft.max # None => merged.max = draft.max
  <2> HIDE DEF draft, read
  <2> QED BY DEF B!MergeLLM
<1>4. merged.max \in {None} \cup 1..MostCompanies
  <2>1. draft.max \in {None} \cup 1..MostCompanies
    BY <1>1 DEF B!MaxIn
  <2>2. read # None => B!Clamped(read.max) \in {None} \cup 1..MostCompanies
    BY <1>2, Apart DEF B!Clamped, B!Reply
  <2> HIDE DEF draft, read
  <2> QED BY <2>1, <2>2 DEF B!MergeLLM
<1>5. /\ cfg.countries = IF merged.countries = {} THEN {"Pakistan"} ELSE merged.countries
      /\ cfg.cities = merged.cities /\ cfg.industries = merged.industries
      /\ merged.offer # None => cfg.offer = merged.offer
      /\ cfg.exclude_chains = merged.chains
      /\ cfg.max_companies = IF merged.max = None THEN 30 ELSE merged.max
  <2> HIDE DEF merged
  <2> QED BY DEF B!BuildConfig
<1>6. text.cities # {} => draft.cities = text.cities
  BY <1>1 DEF B!CitiesIn
<1>7. text.pattern # None => cfg.offer = text.pattern
  BY <1>1, <1>3, <1>5 DEF B!OfferIn
<1>8. ASSUME text.pattern = None, NEW s \in text.about, s.firstPerson, ~s.search
      PROVE  s.terms \subseteq cfg.offer
  <2> DEFINE own == {x \in text.about : x.firstPerson /\ ~x.search}
  <2>1. s \in own
    BY <1>8
  <2>2. draft.offer = UNION {x.terms : x \in own}
    BY <1>1, <1>8, <2>1 DEF B!OfferIn
  <2>3. draft.offer \in SUBSET Taxonomy
    BY <2>2 DEF B!Text, B!Sentence
  <2>4. cfg.offer = draft.offer
    BY <1>3, <1>5, <2>3, Apart
  <2> QED BY <2>1, <2>2, <2>4
<1>9. cfg.max_companies \in 1..MostCompanies
  BY <1>4, <1>5, Apart
<1>10. text.number \in 1..MostCompanies => cfg.max_companies = text.number
  BY <1>1, <1>3, <1>5, Apart DEF B!MaxIn
<1>11. B!Campaign(text, reply) = cfg
  BY DEF B!Campaign
<1> HIDE DEF draft, read, merged, cfg
<1> QED
  BY <1>1, <1>3, <1>5, <1>6, <1>7, <1>8, <1>9, <1>10, <1>11 DEF B!WordsStand

\* Whatever a user's text says of the offering, the countries, the cities, the
\* industries, the chains and the number of companies stands against any reply
\* of the model (nl_parser), and whatever sectors the model guesses, a run
\* searches for those that the industries name (targeting.derive_targets).
LEMMA BriefsStand ==
  ASSUME NEW text \in B!Text, NEW reply \in B!Reply, NEW guesses
  PROVE  LET cfg == B!Campaign(text, reply)
         IN B!BriefStands(text, cfg, B!DeriveTargets(cfg.offer, cfg.industries, guesses))
<1> DEFINE cfg == B!Campaign(text, reply)
<1>1. B!WordsStand(text, cfg)
  BY WordsKept
<1> HIDE DEF cfg
<1>2. B!BriefStands(text, cfg, B!DeriveTargets(cfg.offer, cfg.industries, guesses))
  BY <1>1, SectorsFollow DEF B!BriefStands
<1> QED BY <1>2 DEF cfg

-----------------------------------------------------------------------------
(* Replies to the engine's mail.                                           *)

LEMMA LeastWord ==
  ASSUME NEW I, I \subseteq Nat, I # {}
  PROVE  W!Min(I) \in I /\ \A j \in I : W!Min(I) <= j
<1>1. \E x \in I : \A y \in I : x <= y
  BY LeastNumber
<1> QED BY <1>1 DEF W!Min

\* The lines in front of the first quoted one.
Fresh(lines) == {i \in DOMAIN lines : \A j \in {j \in DOMAIN lines : lines[j].quote} : i < j}

UpToQuote(lines, I) ==
  IF (IF I # {} THEN W!Min(I) ELSE 0) = 0 THEN lines
  ELSE SubSeq(lines, 1, (IF I # {} THEN W!Min(I) ELSE 0) - 1)

LEMMA Stripped ==
  ASSUME NEW n \in Nat, NEW lines \in [1..n -> W!Line]
  PROVE  \E k \in 0..n :
           /\ W!StripQuoted(lines) = SubSeq(lines, 1, k)
           /\ Fresh(lines) = 1..k /\ \A i \in 1..k : ~lines[i].quote
<1> DEFINE I == {i \in 1..n : lines[i].quote}
<1>1. Len(lines) = n /\ DOMAIN lines = 1..n
  OBVIOUS
<1>2. W!StripQuoted(lines) = UpToQuote(lines, I)
  BY <1>1 DEF W!StripQuoted, W!SelectInSeq, UpToQuote
<1>3. CASE I = {}
  <2>1. SubSeq(lines, 1, n) = lines
    BY <1>1
  <2>2. Fresh(lines) = 1..n
    BY <1>1, <1>3 DEF Fresh
  <2>3. n \in 0..n /\ W!StripQuoted(lines) = SubSeq(lines, 1, n)
    BY <1>2, <1>3, <2>1 DEF UpToQuote
  <2> QED BY <1>3, <2>2, <2>3
<1>4. CASE I # {}
  <2> DEFINE c == W!Min(I)
             k == c - 1
  <2>0. I \subseteq Nat
    OBVIOUS
  <2>1. c \in I /\ \A j \in I : c <= j
    <3> HIDE DEF I
    <3> QED BY <1>4, <2>0, LeastWord
  <2> HIDE DEF c
  <2>2. c \in 1..n /\ lines[c].quote /\ k \in 0..n
    BY <2>1
  <2>3. Fresh(lines) = 1..k
    BY <1>1, <2>1, <2>2 DEF Fresh
  <2>4. W!StripQuoted(lines) = SubSeq(lines, 1, k)
    <3> HIDE DEF I
    <3>1. UpToQuote(lines, I) = IF c = 0 THEN lines ELSE SubSeq(lines, 1, c - 1)
      BY <1>4 DEF UpToQuote, c
    <3> QED BY <1>2, <2>2, <3>1
  <2>5. \A i \in 1..k : ~lines[i].quote
    BY <2>1, <2>2
  <2> QED BY <2>2, <2>3, <2>4, <2>5
<1> QED BY <1>3, <1>4

\* Who is named is neither of the two who correspond.
LEMMA ReferredElsewhere ==
  ASSUME NEW fresh, NEW own, NEW sender, None \notin {own, sender}
  PROVE  W!Referral(fresh, own, sender) \notin {own, sender}
<1> DEFINE all == W!FlattenSeq([i \in DOMAIN fresh |-> fresh[i].addresses])
           I == {i \in 1..Len(all) : all[i] \notin {own, sender}}
           other == IF I # {} THEN W!Min(I) ELSE 0
<1>1. W!Referral(fresh, own, sender) = IF other = 0 THEN None ELSE all[other]
  BY DEF W!Referral, W!SelectInSeq
<1> HIDE DEF all
<1>2. I \subseteq Nat
  OBVIOUS
<1>3. I # {} => other \in I
  BY <1>2, LeastWord
<1>4. other = 0 \/ all[other] \notin {own, sender}
  BY <1>3
<1> HIDE DEF I, other
<1> QED BY <1>1, <1>4

\* The first rule that matches gives the label, and the rule for who wants to
\* stop is the first of all.
RuleSets == SUBSET Range(W!Labels)

LEMMA RulesDecide ==
  ASSUME NEW says \in RuleSets
  PROVE  LET first == W!SelectInSeq(W!Labels, LAMBDA l : l \in says)
         IN /\ first = 0 => says = {}
            /\ first # 0 => W!Labels[first] \in says /\ says # {}
            /\ "unsubscribe" \in says => first # 0 /\ W!Labels[first] = "unsubscribe"
<1> DEFINE I == {i \in 1..6 : W!Labels[i] \in says}
           first == IF I # {} THEN W!Min(I) ELSE 0
<1>0. Len(W!Labels) = 6 /\ DOMAIN W!Labels = 1..6 /\ W!Labels[1] = "unsubscribe"
  BY DEF W!Labels
<1>1. W!SelectInSeq(W!Labels, LAMBDA l : l \in says) = first
  BY <1>0 DEF W!SelectInSeq
<1>2. I # {} => first \in I /\ \A j \in I : first <= j
  BY LeastWord
<1>3. I = {} => first = 0 /\ says = {}
  BY <1>0 DEF RuleSets, Range
<1>4. first # 0 => W!Labels[first] \in says /\ says # {}
  BY <1>2, <1>3
<1>5. first = 0 => says = {}
  BY <1>2, <1>3
<1>6. ASSUME "unsubscribe" \in says PROVE first # 0 /\ W!Labels[first] = "unsubscribe"
  <2>1. 1 \in I
    BY <1>0, <1>6
  <2>2. first \in I /\ first <= 1
    BY <1>2, <2>1
  <2>3. first = 1
    BY <2>2
  <2> QED BY <1>0, <2>3
<1> HIDE DEF first
<1> QED BY <1>1, <1>4, <1>5, <1>6

\* What a reply is read as, by its fresh lines.
Read(subject, fresh, own, sender) ==
  LET says == W!Matching(subject, fresh)
      first == W!SelectInSeq(W!Labels, LAMBDA l : l \in says)
      offered == W!Referral(fresh, own, sender)
      short == \A line \in W!Range(fresh) : ~line.long
  IN IF first # 0
     THEN [label |-> W!Labels[first],
           referred |-> IF W!Labels[first] = "wrong_person" THEN offered ELSE None]
     ELSE IF offered # None /\ DomainOf[offered] = DomainOf[sender] /\ short
     THEN [label |-> "wrong_person", referred |-> offered]
     ELSE [label |-> "reply", referred |-> None]

LEMMA ReadMeans ==
  ASSUME NEW subject, NEW fresh, NEW own, NEW sender, None \notin {own, sender},
         W!Matching(subject, fresh) \in RuleSets
  PROVE  LET read == Read(subject, fresh, own, sender)
             says == W!Matching(subject, fresh)
         IN /\ says # {} => read.label \in says
            /\ "unsubscribe" \in says => read.label = "unsubscribe"
            /\ says = {} => read.label \in {"wrong_person", "reply"}
            /\ read.referred \notin {own, sender}
<1> DEFINE said == W!Matching(subject, fresh)
           first == W!SelectInSeq(W!Labels, LAMBDA l : l \in said)
           offered == W!Referral(fresh, own, sender)
           short == \A line \in W!Range(fresh) : ~line.long
           near == offered # None /\ DomainOf[offered] = DomainOf[sender] /\ short
           read == Read(subject, fresh, own, sender)
<1>1. read = IF first # 0
             THEN [label |-> W!Labels[first],
                   referred |-> IF W!Labels[first] = "wrong_person" THEN offered ELSE None]
             ELSE IF near THEN [label |-> "wrong_person", referred |-> offered]
             ELSE [label |-> "reply", referred |-> None]
  BY DEF Read
<1>2. said \in RuleSets
  OBVIOUS
<1> HIDE DEF said
<1>3. /\ first = 0 => said = {}
      /\ first # 0 => W!Labels[first] \in said /\ said # {}
      /\ "unsubscribe" \in said => first # 0 /\ W!Labels[first] = "unsubscribe"
  BY <1>2, RulesDecide
<1>4. offered \notin {own, sender}
  BY ReferredElsewhere
<1> HIDE DEF first, offered, near, read
<1> QED BY <1>1, <1>3, <1>4 DEF read, said

LEMMA Classified ==
  ASSUME NEW m
  PROVE  W!ClassifyReply(m) = Read(m.subject, W!StripQuoted(m.lines), m.own, m.sender)
  BY DEF W!ClassifyReply, Read

\* The subject, at 0, and the lines.
PartOf(m, i) == IF i = 0 THEN m.subject ELSE m.lines[i]
WrittenIn(m, fresh) == {i \in {0} \cup fresh : PartOf(m, i).text # "blank"}
SaidIn(m, fresh) == UNION {PartOf(m, i).says : i \in {0} \cup fresh}
BareIn(m, fresh) ==
  \E i \in WrittenIn(m, fresh) : WrittenIn(m, fresh) = {i} /\ PartOf(m, i).text = "stop"

\* The rules match what the subject and the fresh lines say, and a bare stop.
LEMMA RulesMatch ==
  ASSUME NEW m, NEW k \in Nat, NEW fresh \in [1..k -> W!Line], m.subject \in W!Line,
         \A i \in 1..k : m.lines[i] = fresh[i]
  PROVE  /\ W!Matching(m.subject, fresh)
              = SaidIn(m, 1..k) \cup (IF BareIn(m, 1..k) THEN {"unsubscribe"} ELSE {})
         /\ SaidIn(m, 1..k) \in RuleSets
         /\ BareIn(m, 1..k) => SaidIn(m, 1..k) = {}
<1> DEFINE subject == m.subject
           says == SaidIn(m, 1..k)
           Part(i) == PartOf(m, i)
<1>1. DOMAIN fresh = 1..k /\ W!Range(fresh) = {fresh[i] : i \in 1..k}
  BY DEF W!Range
<1>2. Part(0) = subject /\ \A i \in 1..k : Part(i) = fresh[i] /\ i # 0
  BY DEF PartOf
<1>3. \A i \in {0} \cup (1..k) :
        /\ Part(i).says \in RuleSets /\ Part(i).text \in {"blank", "stop", "words"}
        /\ Part(i).text # "words" => Part(i).says = {}
  <2>1. \A i \in {0} \cup (1..k) : Part(i) \in W!Line
    BY <1>2
  <2> HIDE DEF Part
  <2> QED BY <2>1 DEF W!Line, RuleSets, W!Range, Range
<1>4. says = UNION {line.says : line \in {subject} \cup W!Range(fresh)}
  <2>1. {Part(i) : i \in {0} \cup (1..k)} = {subject} \cup W!Range(fresh)
    BY <1>1, <1>2
  <2>2. says = UNION {line.says : line \in {Part(i) : i \in {0} \cup (1..k)}}
    BY DEF SaidIn
  <2> QED BY <2>1, <2>2
<1>5. says \in RuleSets
  BY <1>3 DEF SaidIn, RuleSets
<1> HIDE DEF says
<1>6. BareIn(m, 1..k) <=>
        \E i \in {0} \cup (1..k) :
          Part(i).text = "stop" /\ \A j \in {0} \cup (1..k) : j # i => Part(j).text = "blank"
  BY DEF BareIn, WrittenIn
<1>7. BareIn(m, 1..k) => says = {}
  <2> SUFFICES ASSUME BareIn(m, 1..k) PROVE says = {}
    OBVIOUS
  <2>1. \A i \in {0} \cup (1..k) : Part(i).text # "words"
    BY <1>6
  <2>2. \A i \in {0} \cup (1..k) : Part(i).says = {}
    BY <1>3, <2>1
  <2> QED BY <2>2 DEF says, SaidIn
<1>8. BareIn(m, 1..k) <=> W!BareStop(subject, fresh)
  <2>1. W!BareStop(subject, fresh) <=>
          \/ subject.text = "stop" /\ \A i \in 1..k : fresh[i].text = "blank"
          \/ /\ subject.text = "blank"
             /\ \E i \in 1..k : fresh[i].text = "stop"
                                /\ \A j \in (1..k) \ {i} : fresh[j].text = "blank"
    BY <1>1 DEF W!BareStop
  <2> HIDE DEF subject, Part
  <2>2. ASSUME NEW i \in {0} \cup (1..k), Part(i).text = "stop",
               \A j \in {0} \cup (1..k) : j # i => Part(j).text = "blank"
        PROVE  W!BareStop(subject, fresh)
    <3>1. CASE i = 0
      BY <1>2, <2>1, <2>2, <3>1
    <3>2. CASE i \in 1..k
      BY <1>2, <2>1, <2>2, <3>2
    <3> QED BY <3>1, <3>2
  <2>3. ASSUME W!BareStop(subject, fresh)
        PROVE  \E i \in {0} \cup (1..k) :
                 Part(i).text = "stop" /\ \A j \in {0} \cup (1..k) : j # i => Part(j).text = "blank"
    <3>1. CASE subject.text = "stop" /\ \A i \in 1..k : fresh[i].text = "blank"
      BY <1>2, <3>1
    <3>2. CASE /\ subject.text = "blank"
               /\ \E i \in 1..k : fresh[i].text = "stop"
                                  /\ \A j \in (1..k) \ {i} : fresh[j].text = "blank"
      BY <1>2, <3>2
    <3> QED BY <2>1, <2>3, <3>1, <3>2
  <2> QED BY <1>6, <2>2, <2>3
<1> DEFINE all == UNION {line.says : line \in {subject} \cup W!Range(fresh)}
           stop == IF W!BareStop(subject, fresh) THEN {"unsubscribe"} ELSE {}
<1>9. W!Matching(subject, fresh) = all \cup stop
  BY DEF W!Matching
<1>10. says = all
  BY <1>4
<1>11. stop = IF BareIn(m, 1..k) THEN {"unsubscribe"} ELSE {}
  BY <1>8
<1> HIDE DEF all, stop
<1>12. W!Matching(subject, fresh) = says \cup (IF BareIn(m, 1..k) THEN {"unsubscribe"} ELSE {})
  BY <1>9, <1>10, <1>11
<1> QED BY <1>5, <1>7, <1>12 DEF says

\* The label and the referral of a reply, as the property states them.
LEMMA ReplyRead ==
  ASSUME NEW m, NEW opinion, NEW n \in Nat, NEW lines \in [1..n -> W!Line],
         NEW subject \in W!Line, None \notin {"us", "them"},
         m = [subject |-> subject, lines |-> lines, own |-> "us", sender |-> "them"]
  PROVE  ReplyStands(m, opinion, W!LabelOf(m, opinion))
<1>1. PICK k \in 0..n :
         /\ W!StripQuoted(lines) = SubSeq(lines, 1, k)
         /\ Fresh(lines) = 1..k /\ \A i \in 1..k : ~lines[i].quote
  BY Stripped
<1> DEFINE fresh == SubSeq(lines, 1, k)
           says == SaidIn(m, 1..k)
           bare == BareIn(m, 1..k)
           heard == W!Matching(subject, fresh)
           short == [m EXCEPT !.lines = fresh]
           read == W!LabelOf(m, opinion)
<1>2. fresh \in [1..k -> W!Line] /\ k \in Nat /\ \A i \in 1..k : fresh[i] = lines[i]
  BY Firsts
<1>3. W!StripQuoted(fresh) = fresh
  <2> HIDE DEF fresh
  <2>1. PICK j \in 0..k : W!StripQuoted(fresh) = SubSeq(fresh, 1, j) /\ Fresh(fresh) = 1..j
    BY <1>2, Stripped
  <2>2. Fresh(fresh) = 1..k
    BY <1>1, <1>2 DEF Fresh
  <2>3. j = k
    BY <2>1, <2>2
  <2>4. SubSeq(fresh, 1, k) = fresh
    BY <1>2
  <2> QED BY <2>1, <2>3, <2>4
<1>6. /\ short.subject = subject /\ short.lines = fresh /\ short.own = "us"
      /\ short.sender = "them"
      /\ m.subject = subject /\ m.lines = lines /\ m.own = "us" /\ m.sender = "them"
  OBVIOUS
<1> HIDE DEF fresh, short
<1>4. /\ heard = says \cup (IF bare THEN {"unsubscribe"} ELSE {})
      /\ says \in RuleSets /\ (bare => says = {})
  BY <1>2, <1>6, RulesMatch
<1>5. heard \in RuleSets
  <2>1. "unsubscribe" \in Range(W!Labels)
    BY DEF W!Labels, Range
  <2> QED BY <1>4, <2>1 DEF RuleSets
<1> HIDE DEF says, bare
<1> DEFINE c == Read(subject, fresh, "us", "them")
<1>7. /\ heard # {} => c.label \in heard
      /\ "unsubscribe" \in heard => c.label = "unsubscribe"
      /\ heard = {} => c.label \in {"wrong_person", "reply"}
      /\ c.referred \notin {"us", "them"}
  BY <1>5, ReadMeans
<1>8. W!ClassifyReply(m) = c /\ W!ClassifyReply(short) = c
  BY <1>1, <1>3, <1>6, Classified DEF fresh
<1>9. W!SecondOpinion(short, opinion) = W!SecondOpinion(m, opinion)
  BY <1>1, <1>3, <1>6 DEF W!SecondOpinion, fresh
<1>10. "reply" \notin heard
  BY <1>5 DEF RuleSets, W!Labels, Range
<1> DEFINE second == W!SecondOpinion(m, opinion)
<1>11. /\ read = IF c.label = "reply" /\ second # None THEN [c EXCEPT !.label = second] ELSE c
       /\ W!LabelOf(short, opinion) = read
  BY <1>8, <1>9 DEF W!LabelOf
<1>12. DOMAIN c = {"label", "referred"}
  BY DEF Read
<1>18. opinion = None => second = None
  BY DEF W!SecondOpinion
<1> HIDE DEF c, read, second, heard
<1>19. /\ "unsubscribe" \in heard => read.label = "unsubscribe"
       /\ heard # {} => read.label \in heard
       /\ heard = {} /\ opinion = None => read.label \in {"wrong_person", "reply"}
       /\ read.referred \notin {"us", "them"}
  BY <1>7, <1>10, <1>11, <1>12, <1>18
<1>13. /\ bare \/ "unsubscribe" \in says => read.label = "unsubscribe"
       /\ says # {} => read.label \in says
       /\ says = {} /\ ~bare /\ opinion = None => read.label \in {"wrong_person", "reply"}
       /\ read.referred \notin {"us", "them"}
  BY <1>4, <1>19
<1>14. Cardinality(1..k) = k /\ Fresh(lines) = 1..k
  BY <1>1, <1>2, FS_Interval
<1>16. short = [m EXCEPT !.lines = SubSeq(@, 1, Cardinality(Fresh(lines)))]
  BY <1>14 DEF short, fresh
<1>17. ReplyStands(m, opinion, read)
  <2> DEFINE quoted == {i \in DOMAIN m.lines : m.lines[i].quote}
             news == {i \in DOMAIN m.lines : \A j \in quoted : i < j}
             Part(i) == IF i = 0 THEN m.subject ELSE m.lines[i]
             told == UNION {Part(i).says : i \in {0} \cup news}
             written == {i \in {0} \cup news : Part(i).text # "blank"}
             alone == \E i \in written : written = {i} /\ Part(i).text = "stop"
  <2>1. news = Fresh(lines)
    BY <1>6 DEF Fresh
  <2>2. news = 1..k
    BY <1>14, <2>1
  <2> HIDE DEF news
  <2>3. told = says /\ (alone <=> bare)
    BY <2>2 DEF says, bare, SaidIn, BareIn, WrittenIn, PartOf
  <2>4. read = W!LabelOf([m EXCEPT !.lines = SubSeq(@, 1, Cardinality(news))], opinion)
    BY <1>6, <1>11, <1>16, <2>1
  <2> HIDE DEF told, alone
  <2>5. /\ alone \/ "unsubscribe" \in told => read.label = "unsubscribe"
        /\ told # {} => read.label \in told
        /\ told = {} /\ ~alone /\ opinion = None => read.label \in {"wrong_person", "reply"}
    BY <1>13, <2>3
  <2> QED BY <1>13, <2>4, <2>5 DEF ReplyStands, news, told, alone
<1> QED BY <1>17 DEF read

-----------------------------------------------------------------------------
(* The lists of terms.                                                     *)

Taken(list, term, may) == IF term \in may \ Range(list) THEN Append(list, term) ELSE list

LEMMA TakenTyped ==
  ASSUME NEW X, NEW list \in Seq(X), NEW term \in X, NEW may
  PROVE  Taken(list, term, may) \in Seq(X)
<1>1. Append(list, term) \in Seq(X)
  OBVIOUS
<1> QED BY <1>1 DEF Taken

\* A list is made term by term.
TermLists(n, X) == [1..n -> X]

Keeping(n, X, terms, may) ==
  {kept \in [0..n -> Seq(X)] :
     /\ kept[0] = <<>> /\ W!Listed(terms, may) = kept[n]
     /\ \A i \in 1..n : kept[i] = Taken(kept[i-1], terms[i], may)}

LEMMA ListedInTurn ==
  ASSUME NEW n \in Nat, NEW X, NEW terms \in TermLists(n, X), NEW may
  PROVE  Keeping(n, X, terms, may) # {}
<1> DEFINE D == Seq(X)
           next == [i \in 1..n |-> [x \in D |-> Taken(x, terms[i], may)]]
<1>0. Len(terms) = n /\ \A i \in 1..n : terms[i] \in X
  BY DEF TermLists
<1>1. <<>> \in D
  OBVIOUS
<1>2. ASSUME NEW x \in D, NEW i \in 1..n PROVE Taken(x, terms[i], may) \in D
  BY <1>0, TakenTyped
<1> HIDE DEF D
<1>3. next \in Steps(n, D) /\ \A i \in 1..n, x \in D : next[i][x] = Taken(x, terms[i], may)
  BY <1>2 DEF Steps
<1> HIDE DEF next
<1>4. PICK run \in Runs(n, D, <<>>, next) : TRUE
  BY <1>1, <1>3, Recursion
<1>5. run = [i \in 0..n |-> IF i = 0 THEN <<>> ELSE Taken(run[i-1], terms[i], may)]
  <2>1. \A i \in 1..n : run[i-1] \in D
    BY <1>4 DEF Runs
  <2> QED BY <1>3, <1>4, <2>1 DEF Runs
<1> DEFINE kept == CHOOSE f : f = [i \in 0..n |-> IF i = 0 THEN <<>>
                                                  ELSE Taken(f[i-1], terms[i], may)]
<1>6. kept = [i \in 0..n |-> IF i = 0 THEN <<>> ELSE Taken(kept[i-1], terms[i], may)]
  BY <1>5
<1>7. W!Listed(terms, may) = kept[n]
  BY <1>0 DEF W!Listed, Taken, W!Range, Range
<1> HIDE DEF kept
<1>8. kept[0] = <<>> /\ \A i \in 1..n : kept[i] = Taken(kept[i-1], terms[i], may)
  BY <1>6
<1>9. Stays(n, D, kept)
  BY <1>1, <1>2, <1>8 DEF Stays
<1>10. \A i \in 0..n : kept[i] \in D
  BY <1>9, StaysWithin
<1>11. kept \in [0..n -> D]
  BY <1>6, <1>10
<1> QED BY <1>7, <1>8, <1>11 DEF D, Keeping

\* One list begins another.
Begins(s, t) == Len(s) <= Len(t) /\ \A i \in 1..Len(s) : s[i] = t[i]

LEMMA BeginsIsPrefix ==
  ASSUME NEW X, NEW s \in Seq(X), NEW t \in Seq(X), Begins(s, t)
  PROVE  IsPrefix(s, t)
<1> DEFINE k == Len(s)
<1>1. k \in 0..Len(t) /\ k \in Nat /\ Len(t) \in Nat
  BY DEF Begins
<1>2. s \in [1..k -> X] /\ t \in [1..Len(t) -> X]
  OBVIOUS
<1>3. SubSeq(s, 1, k) \in [1..k -> X] /\ \A i \in 1..k : SubSeq(s, 1, k)[i] = s[i]
  BY <1>1, <1>2, Firsts
<1>4. SubSeq(t, 1, k) \in [1..k -> X] /\ \A i \in 1..k : SubSeq(t, 1, k)[i] = t[i]
  BY <1>1, <1>2, Firsts
<1>5. SubSeq(s, 1, k) = SubSeq(t, 1, k)
  <2> DEFINE a == SubSeq(s, 1, k)
             b == SubSeq(t, 1, k)
  <2>1. \A i \in 1..k : a[i] = b[i]
    BY <1>3, <1>4 DEF Begins
  <2>2. a \in [1..k -> X] /\ b \in [1..k -> X]
    BY <1>3, <1>4
  <2> HIDE DEF a, b
  <2>3. a = b
    BY <2>1, <2>2
  <2> QED BY <2>3 DEF a, b
<1> QED BY <1>1, <1>5 DEF IsPrefix

\* What begins a list of terms begins what is kept of it.
LEMMA ListedBegins ==
  ASSUME NEW n \in Nat, NEW m \in Nat, n <= m, NEW X, NEW s \in [1..n -> X],
         NEW t \in [1..m -> X], \A i \in 1..n : s[i] = t[i], NEW may
  PROVE  /\ W!Listed(s, may) \in Seq(X) /\ W!Listed(t, may) \in Seq(X)
         /\ Begins(W!Listed(s, may), W!Listed(t, may))
<1>0. s \in TermLists(n, X) /\ t \in TermLists(m, X)
  BY DEF TermLists
<1>a. PICK few \in Keeping(n, X, s, may) : TRUE
  BY <1>0, ListedInTurn
<1>b. PICK many \in Keeping(m, X, t, may) : TRUE
  BY <1>0, ListedInTurn
<1>1. /\ few \in [0..n -> Seq(X)] /\ few[0] = <<>> /\ W!Listed(s, may) = few[n]
      /\ \A i \in 1..n : few[i] = Taken(few[i-1], s[i], may)
  BY DEF Keeping
<1>2. /\ many \in [0..m -> Seq(X)] /\ many[0] = <<>> /\ W!Listed(t, may) = many[m]
      /\ \A i \in 1..m : many[i] = Taken(many[i-1], t[i], may)
  BY DEF Keeping
<1>3. few[n] = many[n]
  <2> DEFINE T == {i \in 0..n : few[i] = many[i]}
  <2>1. 0 \in T
    BY <1>1, <1>2
  <2>2. ASSUME NEW i \in 0..(n-1), i \in T PROVE i + 1 \in T
    <3>1. i + 1 \in 1..n /\ i + 1 \in 1..m /\ (i + 1) - 1 = i
      OBVIOUS
    <3>2. /\ few[i+1] = Taken(few[i], s[i+1], may) /\ many[i+1] = Taken(many[i], t[i+1], may)
          /\ s[i+1] = t[i+1]
      BY <1>1, <1>2, <3>1
    <3> QED BY <2>2, <3>1, <3>2
  <2> HIDE DEF T
  <2>3. 0..n \subseteq T
    BY <2>1, <2>2, UpTo
  <2> QED BY <2>3 DEF T
<1>4. Begins(many[n], many[m])
  <2> DEFINE T == {i \in 0..(m-n) : Begins(many[n], many[n+i])}
  <2>1. 0 \in T
    <3>1. n + 0 = n
      OBVIOUS
    <3>2. Len(many[n]) \in Nat
      OBVIOUS
    <3> QED BY <3>1, <3>2 DEF Begins
  <2>2. ASSUME NEW i \in 0..((m-n)-1), i \in T PROVE i + 1 \in T
    <3> DEFINE j == n + i
    <3>1. j + 1 \in 1..m /\ (j + 1) - 1 = j /\ j \in 0..m /\ n + (i + 1) = j + 1
          /\ i + 1 \in 0..(m-n)
      OBVIOUS
    <3>2. Begins(many[n], many[j])
      BY <2>2
    <3> HIDE DEF j
    <3> DEFINE a == many[n]
               b == many[j]
               c == many[j+1]
    <3>3. c = Taken(b, t[j+1], may) /\ a \in Seq(X) /\ b \in Seq(X) /\ t[j+1] \in X
      <4>1. t[j+1] \in X
        BY <3>1
      <4>2. many[j+1] = Taken(many[j], t[j+1], may)
        BY <1>2, <3>1
      <4>3. n \in 0..m /\ j \in 0..m
        BY <3>1
      <4>4. many[n] \in Seq(X) /\ many[j] \in Seq(X)
        BY <1>2, <4>3
      <4> QED BY <4>1, <4>2, <4>4
    <3>4. Begins(a, b)
      BY <3>2
    <3> HIDE DEF a, b, c
    <3>5. Begins(a, Append(b, t[j+1]))
      BY <3>3, <3>4 DEF Begins
    <3>6. Begins(a, c)
      BY <3>3, <3>4, <3>5 DEF Taken
    <3> QED BY <3>1, <3>6 DEF a, c
  <2> HIDE DEF T
  <2>3. m - n \in Nat
    OBVIOUS
  <2>4. 0..(m-n) \subseteq T
    BY <2>1, <2>2, <2>3, UpTo
  <2>5. m - n \in 0..(m-n) /\ n + (m - n) = m
    OBVIOUS
  <2> QED BY <2>4, <2>5 DEF T
<1>5. n \in 0..n /\ m \in 0..m
  OBVIOUS
<1> QED BY <1>1, <1>2, <1>3, <1>4, <1>5

\* A shorter list has fewer first terms, but the same.
LEMMA FirstBegins ==
  ASSUME NEW X, NEW s \in Seq(X), NEW t \in Seq(X), Begins(s, t), NEW k \in Nat
  PROVE  /\ W!FirstOf(s, k) \in Seq(X) /\ W!FirstOf(t, k) \in Seq(X)
         /\ Begins(W!FirstOf(s, k), W!FirstOf(t, k))
<1>1. ASSUME NEW q \in Seq(X)
      PROVE  LET l == IF Len(q) < k THEN Len(q) ELSE k
             IN /\ W!FirstOf(q, k) \in Seq(X) /\ Len(W!FirstOf(q, k)) = l
                /\ \A i \in 1..l : W!FirstOf(q, k)[i] = q[i]
  <2> DEFINE l == IF Len(q) < k THEN Len(q) ELSE k
  <2>1. l \in 0..Len(q) /\ Len(q) \in Nat /\ q \in [1..Len(q) -> X] /\ l \in Nat
    OBVIOUS
  <2>2. W!FirstOf(q, k) = SubSeq(q, 1, l)
    BY DEF W!FirstOf
  <2> HIDE DEF l
  <2> DEFINE first == SubSeq(q, 1, l)
  <2>3. first \in [1..l -> X] /\ Len(first) = l /\ \A i \in 1..l : first[i] = q[i]
    BY <2>1, Firsts
  <2> HIDE DEF first
  <2>4. first \in Seq(X)
    BY <2>1, <2>3
  <2> QED BY <2>2, <2>3, <2>4 DEF first, l
<1>2. Len(s) \in Nat /\ Len(t) \in Nat
  OBVIOUS
<1> DEFINE a == W!FirstOf(s, k)
           b == W!FirstOf(t, k)
           ls == IF Len(s) < k THEN Len(s) ELSE k
           lt == IF Len(t) < k THEN Len(t) ELSE k
<1>3. /\ a \in Seq(X) /\ Len(a) = ls /\ \A i \in 1..ls : a[i] = s[i]
      /\ b \in Seq(X) /\ Len(b) = lt /\ \A i \in 1..lt : b[i] = t[i]
  BY <1>1
<1>4. ls \in Nat /\ lt \in Nat /\ ls <= lt /\ ls <= Len(s)
  BY <1>2 DEF Begins
<1> HIDE DEF a, b, ls, lt
<1>5. \A i \in 1..ls : i \in 1..Len(s) /\ i \in 1..lt
  BY <1>2, <1>4
<1>6. \A i \in 1..ls : a[i] = b[i]
  BY <1>3, <1>5 DEF Begins
<1>7. Begins(a, b)
  BY <1>3, <1>4, <1>6 DEF Begins
<1> QED BY <1>3, <1>7 DEF a, b

\* The offer's own words come first, whatever the model adds.
LEMMA OwnWordsFirst ==
  ASSUME NEW X, NEW own \in Seq(X), NEW words \in Seq(X), NEW reply \in Seq(X) \cup {None}
  PROVE  IsPrefix(W!RelevanceKeywords(own, words, None), W!RelevanceKeywords(own, words, reply))
<1> DEFINE longer == IF reply = None THEN words ELSE words \o reply
           few == W!Deduped(words)
           many == W!Deduped(longer)
           head == W!FirstOf(few, MaxKeywords)
           whole == W!FirstOf(many, MaxKeywords)
           s == own \o head
           t == own \o whole
<1>1. /\ longer \in Seq(X) /\ words \in [1..Len(words) -> X] /\ longer \in [1..Len(longer) -> X]
      /\ Len(words) \in Nat /\ Len(longer) \in Nat /\ Len(words) <= Len(longer)
      /\ \A i \in 1..Len(words) : words[i] = longer[i]
  <2>1. CASE reply = None
    <3>1. longer = words
      BY <2>1
    <3>2. /\ words \in Seq(X) /\ words \in [1..Len(words) -> X] /\ Len(words) \in Nat
          /\ Len(words) <= Len(words)
      OBVIOUS
    <3> HIDE DEF longer
    <3> QED BY <3>1, <3>2
  <2>2. CASE reply # None
    <3>1. longer = words \o reply
      BY <2>2
    <3> DEFINE l == words \o reply
    <3>2. /\ l \in Seq(X) /\ Len(l) = Len(words) + Len(reply)
          /\ \A i \in 1..Len(words) : l[i] = words[i]
      BY <2>2
    <3>3. Len(words) \in Nat /\ Len(reply) \in Nat
      BY <2>2
    <3> HIDE DEF l
    <3>4. l \in [1..Len(l) -> X] /\ Len(l) \in Nat /\ Len(words) <= Len(l)
      BY <3>2, <3>3
    <3> QED BY <3>1, <3>2, <3>3, <3>4 DEF l
  <2> QED BY <2>1, <2>2
<1> HIDE DEF longer
<1>2. few \in Seq(X) /\ many \in Seq(X) /\ Begins(few, many)
  BY <1>1, ListedBegins DEF W!Deduped
<1> HIDE DEF few, many
<1>3. head \in Seq(X) /\ whole \in Seq(X) /\ Begins(head, whole)
  <2>1. MaxKeywords \in Nat
    BY InstancesAssumption DEF W!WordingAssumption
  <2> QED BY <1>2, <2>1, FirstBegins
<1> HIDE DEF head, whole
<1>4. /\ s \in Seq(X) /\ t \in Seq(X) /\ s \in [1..Len(s) -> X] /\ t \in [1..Len(t) -> X]
      /\ Len(s) \in Nat /\ Len(t) \in Nat
  <2>1. s \in Seq(X) /\ t \in Seq(X)
    BY <1>3
  <2> HIDE DEF s, t
  <2> QED BY <2>1
<1>5. Len(s) <= Len(t) /\ \A i \in 1..Len(s) : s[i] = t[i]
  BY <1>3 DEF Begins
<1>6. /\ W!RelevanceKeywords(own, words, None) = W!Listed(s, Words \cup W!Range(own))
      /\ W!RelevanceKeywords(own, words, reply) = W!Listed(t, Words \cup W!Range(own))
  BY DEF W!RelevanceKeywords, W!Keywords, head, whole, few, many, longer
<1> HIDE DEF s, t
<1> DEFINE may == Words \cup W!Range(own)
<1> HIDE DEF may
<1>7. /\ W!Listed(s, may) \in Seq(X) /\ W!Listed(t, may) \in Seq(X)
      /\ Begins(W!Listed(s, may), W!Listed(t, may))
  BY <1>4, <1>5, ListedBegins
<1> QED BY <1>6, <1>7, BeginsIsPrefix DEF may

\* What the tasks make of a reply, as the property states it.
TasksStand(input, answered) ==
  /\ IsPrefix(W!RelevanceKeywords(<<"own">>, input.offer, None), answered.keywords)
  /\ input.list = None => answered.pains = input.offer
  /\ answered.type # input.type =>
       /\ {answered.type, input.type} = {"BUYER", "UNKNOWN"}
       /\ input.verdict # None /\ input.verdict.buyer = (answered.type = "BUYER")
  /\ answered.requirement # None =>
       Range(answered.requirement) \subseteq input.tender.text

LEMMA JudgedRight ==
  ASSUME NEW type, NEW verdict \in {None} \cup W!Opinion, type \in Types,
         Judged(type, W!JudgeIntent(verdict)) # type
  PROVE  /\ {Judged(type, W!JudgeIntent(verdict)), type} = {"BUYER", "UNKNOWN"}
         /\ verdict # None /\ verdict.buyer = (Judged(type, W!JudgeIntent(verdict)) = "BUYER")
<1> DEFINE judged == W!JudgeIntent(verdict)
<1>1. verdict # None /\ verdict \in W!Opinion /\ judged # None
  BY DEF Judged, W!JudgeIntent
<1>2. judged.buyer = verdict.buyer /\ verdict.buyer \in BOOLEAN
  BY <1>1 DEF W!JudgeIntent, W!Opinion
<1> HIDE DEF judged
<1>3. type # "VENDOR" =>
        Judged(type, judged) = ApplyVerdict(type, judged.buyer, judged.confidence >= 60)
  BY <1>1 DEF Judged
<1>4. CASE type = "UNKNOWN"
  <2>1. Judged(type, judged) = "BUYER" /\ judged.buyer
    BY <1>3, <1>4 DEF ApplyVerdict, judged
  <2> QED BY <1>1, <1>2, <1>4, <2>1 DEF judged
<1>5. CASE type = "BUYER"
  <2>1. Judged(type, judged) = "UNKNOWN" /\ ~judged.buyer
    BY <1>3, <1>5 DEF ApplyVerdict, judged
  <2> QED BY <1>1, <1>2, <1>5, <2>1 DEF judged
<1>6. CASE type = "VENDOR"
  BY <1>6 DEF Judged
<1> QED BY <1>4, <1>5, <1>6 DEF Types

LEMMA RequirementQuoted ==
  ASSUME NEW text, NEW reply, W!Requirement(text, reply) # None
  PROVE  Range(W!Requirement(text, reply)) \subseteq text
<1> DEFINE kept == IF reply = None THEN {}
                   ELSE {f \in DOMAIN reply : reply[f] # None /\ W!Grounded(reply[f], text)}
<1>1. W!Requirement(text, reply) = [f \in kept |-> reply[f]]
  BY DEF W!Requirement
<1>2. \A f \in kept : reply[f] \in text
  BY DEF W!Grounded
<1> HIDE DEF kept
<1> QED BY <1>1, <1>2 DEF Range

LEMMA TasksDone ==
  ASSUME NEW offer \in Offers, NEW list \in Lists, NEW tender \in Tenders,
         NEW verdict \in Verdicts, NEW type \in {"BUYER", "UNKNOWN", "VENDOR"}
  PROVE  TasksStand([offer |-> offer, list |-> list, tender |-> tender, verdict |-> verdict,
                     type |-> type],
                    [type |-> Judged(type, W!JudgeIntent(verdict)),
                     keywords |-> W!RelevanceKeywords(<<"own">>, offer, list),
                     pains |-> W!ReviewPain(offer, list),
                     requirement |-> W!Requirement(tender.text, tender.reply)])
<1>1. offer \in Seq(STRING) /\ list \in Seq(STRING) \cup {None} /\ verdict \in {None} \cup W!Opinion
  BY QuestionsAssumption
<1>2. IsPrefix(W!RelevanceKeywords(<<"own">>, offer, None),
               W!RelevanceKeywords(<<"own">>, offer, list))
  <2> DEFINE word == "own"
             Term == STRING \cup {word}
             own == <<word>>
  <2>1. \A q \in Seq(STRING) : q \in Seq(Term)
    OBVIOUS
  <2>2. word \in Term
    OBVIOUS
  <2> HIDE DEF word, Term
  <2>3. own \in Seq(Term)
    BY <2>2
  <2>4. offer \in Seq(Term) /\ list \in Seq(Term) \cup {None}
    BY <1>1, <2>1
  <2> HIDE DEF own
  <2>5. IsPrefix(W!RelevanceKeywords(own, offer, None), W!RelevanceKeywords(own, offer, list))
    BY <2>3, <2>4, OwnWordsFirst
  <2> QED BY <2>5 DEF own, word
<1>3. list = None => W!ReviewPain(offer, list) = offer
  BY DEF W!ReviewPain
<1> DEFINE now == Judged(type, W!JudgeIntent(verdict))
<1>4. now # type =>
        /\ {now, type} = {"BUYER", "UNKNOWN"} /\ verdict # None
        /\ verdict.buyer = (now = "BUYER")
  <2>1. type \in Types
    BY DEF Types
  <2> QED BY <1>1, <2>1, JudgedRight
<1> DEFINE wanted == W!Requirement(tender.text, tender.reply)
<1>5. wanted # None => Range(wanted) \subseteq tender.text
  BY RequirementQuoted
<1> HIDE DEF now, wanted
<1>6. TasksStand([offer |-> offer, list |-> list, tender |-> tender, verdict |-> verdict,
                  type |-> type],
                 [type |-> now, keywords |-> W!RelevanceKeywords(<<"own">>, offer, list),
                  pains |-> W!ReviewPain(offer, list), requirement |-> wanted])
  BY <1>2, <1>3, <1>4, <1>5 DEF TasksStand
<1> QED BY <1>6 DEF now, wanted

\* What people wrote decides, whatever texts, replies, opinions and guesses are
\* put together (nl_parser, targeting, reply_classifier, tasks).
THEOREM PeopleDecide == Spec => []WordsDecide
<1>1. Init => WordsDecide
  BY DEF Init, WordsDecide
<1>2. ASSUME WordsDecide, [Next]_vars PROVE WordsDecide'
  <2>1. CASE UNCHANGED vars
    BY <1>2, <2>1 DEF vars, WordsDecide
  <2>2. CASE AskBrief
    <3>1. PICK text \in Texts, reply \in Replies, guesses \in Guesses :
            LET cfg == B!Campaign(text, reply)
            IN Ask("brief", [text |-> text, reply |-> reply],
                   [cfg |-> cfg, searched |-> B!DeriveTargets(cfg.offer, cfg.industries, guesses)])
      BY <2>2 DEF AskBrief
    <3> DEFINE cfg == B!Campaign(text, reply)
    <3>2. text \in B!Text /\ reply \in B!Reply
      BY QuestionsAssumption
    <3>3. B!BriefStands(text, cfg, B!DeriveTargets(cfg.offer, cfg.industries, guesses))
      BY <3>2, BriefsStand
    <3> HIDE DEF cfg
    <3>4. question'.kind = "brief" /\ B!BriefStands(question'.input.text, answer'.cfg, answer'.searched)
      BY <3>1, <3>3 DEF Ask, cfg
    <3> QED BY <3>4 DEF WordsDecide
  <2>3. CASE AskReply
    <3>1. PICK n \in 0..MostLines, subject \in Headings, opinion \in Opinions :
            \E lines \in [1..n -> Lines] :
              LET m == [subject |-> subject, lines |-> lines, own |-> "us", sender |-> "them"]
              IN Ask("reply", [m |-> m, opinion |-> opinion], W!LabelOf(m, opinion))
      BY <2>3 DEF AskReply
    <3>2. PICK lines \in [1..n -> Lines] :
            LET m == [subject |-> subject, lines |-> lines, own |-> "us", sender |-> "them"]
            IN Ask("reply", [m |-> m, opinion |-> opinion], W!LabelOf(m, opinion))
      BY <3>1
    <3> DEFINE m == [subject |-> subject, lines |-> lines, own |-> "us", sender |-> "them"]
    <3>3. n \in Nat /\ lines \in [1..n -> W!Line] /\ None \notin {"us", "them"}
      <4>1. Lines \subseteq W!Line
        BY QuestionsAssumption
      <4>2. None \notin {"us", "them"}
        BY QuestionsAssumption
      <4> QED BY <4>1, <4>2
    <3>4. subject \in W!Line
      <4>1. Headings \subseteq W!Line
        BY QuestionsAssumption
      <4> QED BY <4>1
    <3>5. ReplyStands(m, opinion, W!LabelOf(m, opinion))
      BY <3>3, <3>4, ReplyRead
    <3>6. Ask("reply", [m |-> m, opinion |-> opinion], W!LabelOf(m, opinion))
      BY <3>2
    <3> HIDE DEF m
    <3>7. /\ question'.kind = "reply"
          /\ ReplyStands(question'.input.m, question'.input.opinion, answer')
      BY <3>5, <3>6 DEF Ask
    <3> QED BY <3>7 DEF WordsDecide
  <2>4. CASE AskTasks
    <3>1. PICK offer \in Offers, list \in Lists, tender \in Tenders, verdict \in Verdicts,
               type \in {"BUYER", "UNKNOWN", "VENDOR"} :
            Ask("tasks", [offer |-> offer, list |-> list, tender |-> tender, verdict |-> verdict,
                          type |-> type],
                [type |-> Judged(type, W!JudgeIntent(verdict)),
                 keywords |-> W!RelevanceKeywords(<<"own">>, offer, list),
                 pains |-> W!ReviewPain(offer, list),
                 requirement |-> W!Requirement(tender.text, tender.reply)])
      BY <2>4 DEF AskTasks
    <3>2. question'.kind = "tasks" /\ TasksStand(question'.input, answer')
      BY <3>1, TasksDone DEF Ask
    <3> QED BY <3>2 DEF TasksStand, WordsDecide
  <2>5. CASE AskClassify \/ AskScore \/ AskResolve
    BY <2>5, Kinds DEF WordsDecide
  <2>6. CASE AskFunnel \/ AskScreen \/ AskPresence
    BY <2>6, Kinds DEF WordsDecide
  <2>7. CASE AskCalls \/ AskNews \/ AskPages \/ AskModel
    BY <2>7, Kinds DEF WordsDecide
  <2> QED BY <1>2, <2>1, <2>2, <2>3, <2>4, <2>5, <2>6, <2>7 DEF Next
<1> QED BY <1>1, <1>2, PTL DEF Spec

-----------------------------------------------------------------------------
(* Sequences made in the order of their elements (module Discovery).       *)

Orders(T, upto) ==
  /\ upto \in [T -> SUBSET T]
  /\ \A p, q \in T : /\ p \in upto[q] \/ q \in upto[p]
                     /\ p \in upto[q] /\ q \in upto[p] => p = q
                     /\ p \in upto[q] => upto[p] \subseteq upto[q]

\* Whatever orders a finite set numbers it: each member's place is the number of
\* those up to it.
LEMMA Places ==
  ASSUME NEW T, IsFiniteSet(T), NEW upto, Orders(T, upto)
  PROVE  /\ Cardinality(T) \in Nat
         /\ \A p \in T : Cardinality(upto[p]) \in 1..Cardinality(T)
         /\ \A p, q \in T : Cardinality(upto[p]) <= Cardinality(upto[q]) <=> p \in upto[q]
         /\ \A p, q \in T : Cardinality(upto[p]) = Cardinality(upto[q]) => p = q
         /\ \A n \in 1..Cardinality(T) : \E p \in T : Cardinality(upto[p]) = n
<1> DEFINE size == Cardinality(T)
           place == [p \in T |-> Cardinality(upto[p])]
<1>1. size \in Nat
  BY FS_CardinalityType
<1>2. ASSUME NEW p \in T
      PROVE  IsFiniteSet(upto[p]) /\ place[p] = Cardinality(upto[p]) /\ place[p] \in 1..size
  <2>1. upto[p] \in SUBSET T /\ p \in upto[p]
    BY DEF Orders
  <2>2. IsFiniteSet(upto[p]) /\ Cardinality(upto[p]) <= size
    BY <2>1, FS_Subset
  <2>3. Cardinality(upto[p]) \in Nat /\ Cardinality(upto[p]) # 0
    BY <2>1, <2>2, FS_CardinalityType, FS_EmptySet
  <2> QED BY <1>1, <2>2, <2>3
<1> HIDE DEF place
<1>3. ASSUME NEW p \in T, NEW q \in T, p # q, p \in upto[q]
      PROVE  place[p] < place[q]
  <2>1. upto[p] \in SUBSET upto[q] /\ upto[p] # upto[q]
    BY <1>3 DEF Orders
  <2>2. Cardinality(upto[p]) <= Cardinality(upto[q]) /\ Cardinality(upto[p]) # Cardinality(upto[q])
    BY <1>2, <2>1, FS_Subset
  <2> QED BY <1>1, <1>2, <2>2
<1>4. \A p, q \in T : place[p] <= place[q] <=> p \in upto[q]
  <2> SUFFICES ASSUME NEW p \in T, NEW q \in T
               PROVE  place[p] <= place[q] <=> p \in upto[q]
    OBVIOUS
  <2>1. place[p] \in Nat /\ place[q] \in Nat
    BY <1>1, <1>2
  <2>2. p \in upto[p]
    BY DEF Orders
  <2>3. p = q \/ p \in upto[q] \/ (q \in upto[p] /\ p \notin upto[q])
    BY DEF Orders
  <2> QED BY <1>3, <2>1, <2>2, <2>3
<1>5. \A p, q \in T : place[p] = place[q] => p = q
  <2> SUFFICES ASSUME NEW p \in T, NEW q \in T, place[p] = place[q], p # q
               PROVE  FALSE
    OBVIOUS
  <2>1. p \in upto[q] \/ q \in upto[p]
    BY DEF Orders
  <2>2. place[p] \in Nat /\ place[q] \in Nat
    BY <1>1, <1>2
  <2> QED BY <1>3, <2>1, <2>2
<1>6. place \in Injection(T, 1..size)
  <2>1. place \in [T -> 1..size]
    BY <1>2 DEF place
  <2> QED BY <1>5, <2>1 DEF Injection, IsInjective
<1>7. IsFiniteSet(1..size) /\ Cardinality(1..size) = size
  BY <1>1, FS_Interval
<1>8. place \in Surjection(T, 1..size)
  BY <1>6, <1>7, FS_Injection
<1>9. \A n \in 1..size : \E p \in T : place[p] = n
  BY <1>8 DEF Surjection
<1> QED BY <1>1, <1>2, <1>4, <1>5, <1>9

\* The sequence of a finite set's members is as long as the set is large, and each
\* of them stands at its place.
LEMMA Sorted ==
  ASSUME NEW T, IsFiniteSet(T), NEW upto, Orders(T, upto)
  PROVE  /\ Ordered(T, upto) \in [1..Cardinality(T) -> T]
         /\ \A n \in 1..Cardinality(T) : Cardinality(upto[Ordered(T, upto)[n]]) = n
         /\ \A p \in T : Ordered(T, upto)[Cardinality(upto[p])] = p
<1>1. ASSUME NEW n \in 1..Cardinality(T)
      PROVE  /\ Ordered(T, upto)[n] \in T
             /\ Cardinality(upto[Ordered(T, upto)[n]]) = n
  <2>1. Ordered(T, upto)[n] = CHOOSE p \in T : Cardinality(upto[p]) = n
    BY DEF Ordered
  <2>2. \E p \in T : Cardinality(upto[p]) = n
    BY Places
  <2> QED BY <2>1, <2>2
<1>2. Ordered(T, upto) \in [1..Cardinality(T) -> T]
  BY <1>1 DEF Ordered
<1>3. ASSUME NEW p \in T PROVE Ordered(T, upto)[Cardinality(upto[p])] = p
  <2>1. Cardinality(upto[p]) \in 1..Cardinality(T)
    BY Places
  <2>2. /\ Ordered(T, upto)[Cardinality(upto[p])] \in T
        /\ Cardinality(upto[Ordered(T, upto)[Cardinality(upto[p])]]) = Cardinality(upto[p])
    BY <1>1, <2>1
  <2> QED BY <2>2, Places
<1> QED BY <1>1, <1>2, <1>3

\* Positions in the order of the numbers.
LEMMA Ascending ==
  ASSUME NEW I, IsFiniteSet(I), I \subseteq Int
  PROVE  Orders(I, [i \in I |-> {j \in I : j <= i}])
<1> DEFINE upto == [i \in I |-> {j \in I : j <= i}]
<1>1. upto \in [I -> SUBSET I]
  OBVIOUS
<1>2. \A p, q \in I : p \in upto[q] <=> p <= q
  OBVIOUS
<1>3. ASSUME NEW p \in I, NEW q \in I, p <= q
      PROVE  upto[p] \subseteq upto[q]
  <2>1. \A j \in I : j <= p => j <= q
    BY <1>3
  <2> QED BY <2>1
<1> HIDE DEF upto
<1>4. Orders(I, upto)
  BY <1>1, <1>2, <1>3 DEF Orders
<1> QED BY <1>4 DEF upto

\* A filter keeps the elements at the positions it is given and no others, each
\* once if they were distinct.
LEMMA Kept ==
  ASSUME NEW D, NEW cs \in Seq(D), NEW I, I \subseteq DOMAIN cs
  PROVE  /\ At(cs, I) \in Seq(D)
         /\ IsFiniteSet(I) /\ Len(At(cs, I)) = Cardinality(I)
         /\ Cardinality(I) \in Nat /\ Cardinality(I) <= Len(cs)
         /\ \A n \in DOMAIN At(cs, I) : \E i \in I : At(cs, I)[n] = cs[i]
         /\ \A i \in I : \E n \in DOMAIN At(cs, I) : At(cs, I)[n] = cs[i]
         /\ IsInjective(cs) => IsInjective(At(cs, I))
<1> DEFINE upto == [i \in I |-> {j \in I : j <= i}]
           order == Ordered(I, upto)
           size == Len(cs)
<1>1. DOMAIN cs = 1..size /\ size \in Nat
  OBVIOUS
<1> HIDE DEF size
<1>2. IsFiniteSet(1..size) /\ Cardinality(1..size) = size
  BY <1>1, FS_Interval
<1>3. IsFiniteSet(I) /\ Cardinality(I) <= size /\ Cardinality(I) \in Nat
  BY <1>1, <1>2, FS_Subset, FS_CardinalityType
<1>4. Orders(I, upto)
  BY <1>1, <1>3, Ascending
<1> HIDE DEF upto
<1>5. /\ order \in [1..Cardinality(I) -> I]
      /\ \A n \in 1..Cardinality(I) : Cardinality(upto[order[n]]) = n
      /\ \A i \in I : order[Cardinality(upto[i])] = i /\ Cardinality(upto[i]) \in 1..Cardinality(I)
  BY <1>3, <1>4, Sorted, Places
<1>6. At(cs, I) = [n \in 1..Cardinality(I) |-> cs[order[n]]]
  BY <1>5 DEF At, upto
<1> HIDE DEF order
<1>7. \A n \in 1..Cardinality(I) : order[n] \in DOMAIN cs /\ cs[order[n]] \in D
  BY <1>1, <1>5
<1>8. At(cs, I) \in Seq(D) /\ Len(At(cs, I)) = Cardinality(I)
        /\ DOMAIN At(cs, I) = 1..Cardinality(I)
  BY <1>3, <1>6, <1>7
<1>9. \A n \in DOMAIN At(cs, I) : \E i \in I : At(cs, I)[n] = cs[i]
  BY <1>5, <1>6
<1>10. \A i \in I : \E n \in DOMAIN At(cs, I) : At(cs, I)[n] = cs[i]
  BY <1>5, <1>6, <1>8
<1>11. ASSUME IsInjective(cs) PROVE IsInjective(At(cs, I))
  <2>1. \A n, m \in 1..Cardinality(I) : order[n] = order[m] => n = m
    BY <1>5
  <2>2. \A n, m \in 1..Cardinality(I) : cs[order[n]] = cs[order[m]] => order[n] = order[m]
    BY <1>7, <1>11 DEF IsInjective
  <2> QED BY <1>6, <1>8, <2>1, <2>2 DEF IsInjective
<1> QED BY <1>3, <1>8, <1>9, <1>10, <1>11 DEF size

-----------------------------------------------------------------------------
(* Screening a pool (Discovery's TakeLive).                                *)

LEMMA MinOfTwo ==
  ASSUME NEW a \in Int, NEW b \in Int
  PROVE  Min({a, b}) = IF a <= b THEN a ELSE b
<1> DEFINE m == IF a <= b THEN a ELSE b
<1>1. m \in {a, b} /\ \A n \in {a, b} : m <= n
  OBVIOUS
<1>2. \A n \in {a, b} : (\A k \in {a, b} : n <= k) => n = m
  OBVIOUS
<1> QED BY <1>1, <1>2 DEF Min

LEMMA MaxOfTwo ==
  ASSUME NEW a \in Int, NEW b \in Int
  PROVE  Max({a, b}) = IF a >= b THEN a ELSE b
<1> DEFINE m == IF a >= b THEN a ELSE b
<1>1. m \in {a, b} /\ \A n \in {a, b} : m >= n
  OBVIOUS
<1>2. \A n \in {a, b} : (\A k \in {a, b} : n >= k) => n = m
  OBVIOUS
<1> QED BY <1>1, <1>2 DEF Max

\* Every company is with the ones that have a site or with those that have none.
LEMMA SitedAndBare ==
  ASSUME NEW D, NEW cs \in Seq(D)
  PROVE  /\ Sited(cs) \in Seq(D) /\ Bare(cs) \in Seq(D)
         /\ Len(Sited(cs)) + Len(Bare(cs)) = Len(cs)
         /\ IsInjective(cs) => IsInjective(Sited(cs)) /\ IsInjective(Bare(cs))
         /\ \A n \in DOMAIN Sited(cs) : Sited(cs)[n].site # None
         /\ \A n \in DOMAIN Bare(cs) : Bare(cs)[n].site = None
         /\ \A i \in DOMAIN cs : \/ \E n \in DOMAIN Sited(cs) : Sited(cs)[n] = cs[i]
                                 \/ \E n \in DOMAIN Bare(cs) : Bare(cs)[n] = cs[i]
         /\ \A n \in DOMAIN Sited(cs) : \E i \in DOMAIN cs : Sited(cs)[n] = cs[i]
         /\ \A n \in DOMAIN Bare(cs) : \E i \in DOMAIN cs : Bare(cs)[n] = cs[i]
<1> DEFINE I == {i \in DOMAIN cs : cs[i].site # None}
           J == {i \in DOMAIN cs : cs[i].site = None}
<1>1. I \subseteq DOMAIN cs /\ J \subseteq DOMAIN cs /\ I \cup J = DOMAIN cs /\ I \cap J = {}
  OBVIOUS
<1>2. Sited(cs) = At(cs, I) /\ Bare(cs) = At(cs, J)
  BY DEF Sited, Bare
<1>3. (\A i \in I : cs[i].site # None) /\ (\A i \in J : cs[i].site = None)
  OBVIOUS
<1> HIDE DEF I, J
<1>4. /\ At(cs, I) \in Seq(D) /\ IsFiniteSet(I) /\ Len(At(cs, I)) = Cardinality(I)
      /\ Cardinality(I) \in Nat
      /\ \A n \in DOMAIN At(cs, I) : \E i \in I : At(cs, I)[n] = cs[i]
      /\ \A i \in I : \E n \in DOMAIN At(cs, I) : At(cs, I)[n] = cs[i]
      /\ IsInjective(cs) => IsInjective(At(cs, I))
  BY <1>1, Kept
<1>5. /\ At(cs, J) \in Seq(D) /\ IsFiniteSet(J) /\ Len(At(cs, J)) = Cardinality(J)
      /\ Cardinality(J) \in Nat
      /\ \A n \in DOMAIN At(cs, J) : \E i \in J : At(cs, J)[n] = cs[i]
      /\ \A i \in J : \E n \in DOMAIN At(cs, J) : At(cs, J)[n] = cs[i]
      /\ IsInjective(cs) => IsInjective(At(cs, J))
  BY <1>1, Kept
<1> DEFINE size == Len(cs)
<1>6. DOMAIN cs = 1..size /\ size \in Nat
  OBVIOUS
<1> HIDE DEF size
<1>7. Cardinality(DOMAIN cs) = size
  BY <1>6, FS_Interval
<1>8. Cardinality(I \cup J) = Cardinality(I) + Cardinality(J) - Cardinality(I \cap J)
        /\ Cardinality(I \cap J) = 0
  BY <1>1, <1>4, <1>5, FS_Union, FS_EmptySet
<1>9. Cardinality(I) + Cardinality(J) = Len(cs)
  BY <1>1, <1>4, <1>5, <1>7, <1>8 DEF size
<1>10. /\ \A n \in DOMAIN Sited(cs) : Sited(cs)[n].site # None
       /\ \A n \in DOMAIN Bare(cs) : Bare(cs)[n].site = None
  <2>1. ASSUME NEW n \in DOMAIN Sited(cs) PROVE Sited(cs)[n].site # None
    <3>1. PICK i \in I : At(cs, I)[n] = cs[i]
      BY <1>2, <1>4, <2>1
    <3> QED BY <1>2, <1>3, <3>1
  <2>2. ASSUME NEW n \in DOMAIN Bare(cs) PROVE Bare(cs)[n].site = None
    <3>1. PICK i \in J : At(cs, J)[n] = cs[i]
      BY <1>2, <1>5, <2>2
    <3> QED BY <1>2, <1>3, <3>1
  <2> QED BY <2>1, <2>2
<1>11. \A i \in DOMAIN cs : \/ \E n \in DOMAIN Sited(cs) : Sited(cs)[n] = cs[i]
                            \/ \E n \in DOMAIN Bare(cs) : Bare(cs)[n] = cs[i]
  BY <1>1, <1>2, <1>4, <1>5
<1>12. /\ \A n \in DOMAIN Sited(cs) : \E i \in DOMAIN cs : Sited(cs)[n] = cs[i]
       /\ \A n \in DOMAIN Bare(cs) : \E i \in DOMAIN cs : Bare(cs)[n] = cs[i]
  BY <1>1, <1>2, <1>4, <1>5
<1>13. Sited(cs) \in Seq(D) /\ Bare(cs) \in Seq(D) /\ Len(Sited(cs)) + Len(Bare(cs)) = Len(cs)
  BY <1>2, <1>4, <1>5, <1>9
<1>14. IsInjective(cs) => IsInjective(Sited(cs)) /\ IsInjective(Bare(cs))
  BY <1>2, <1>4, <1>5
<1> QED BY <1>10, <1>11, <1>12, <1>13, <1>14

LEMMA MinIsIn ==
  ASSUME NEW T, T \subseteq Nat, T # {}
  PROVE  Min(T) \in T
<1>1. PICK m \in T : \A n \in T : m <= n
  BY LeastNumber
<1> QED BY <1>1 DEF Min

\* A window ends within the sites, and the last one at their end.
LEMMA WindowEnds ==
  ASSUME NEW size \in Nat, NEW window \in Nat \ {0}, NEW k \in 1..size
  PROVE  Min({k * window, size}) \in 1..size /\ (k = size => Min({k * window, size}) = size)
<1>1. k * window \in Int /\ k * window >= k
  <2>1. window - 1 \in Nat /\ k \in Nat
    OBVIOUS
  <2>2. k * (window - 1) \in Nat
    BY <2>1
  <2>3. k * window = k * (window - 1) + k
    OBVIOUS
  <2> QED BY <2>1, <2>2, <2>3
<1> DEFINE product == k * window
<1> HIDE DEF product
<1>2. Min({product, size}) = IF product <= size THEN product ELSE size
  BY <1>1, MinOfTwo DEF product
<1>3. product \in Int /\ product >= k
  BY <1>1 DEF product
<1>4. Min({product, size}) \in 1..size /\ (k = size => Min({product, size}) = size)
  BY <1>2, <1>3
<1> QED BY <1>4 DEF product

\* The first n elements of a sequence, and the others.
Halved(D, s, n, head, tail) ==
  /\ head \in Seq(D) /\ Len(head) = n /\ \A i \in 1..n : head[i] = s[i]
  /\ tail \in Seq(D) /\ Len(tail) = Len(s) - n
  /\ \A i \in 1..Len(s)-n : tail[i] = s[n + i]
  /\ \A i \in DOMAIN s : s[i] \in Range(head) \cup Range(tail)
  /\ IsInjective(s) => IsInjective(head) /\ Range(head) \cap Range(tail) = {}

LEMMA Halves ==
  ASSUME NEW D, NEW s \in Seq(D), NEW n \in 0..Len(s)
  PROVE  Halved(D, s, n, SubSeq(s, 1, n), SubSeq(s, n + 1, Len(s)))
<1> DEFINE head == SubSeq(s, 1, n)
           tail == SubSeq(s, n + 1, Len(s))
           size == Len(s)
<1>1. size \in Nat /\ n \in Nat /\ n <= size /\ DOMAIN s = 1..size /\ \A i \in 1..size : s[i] \in D
  OBVIOUS
<1>2. head \in Seq(D) /\ Len(head) = n /\ \A i \in 1..n : head[i] = s[i]
  BY SMTT(40)
<1>3. tail \in Seq(D) /\ Len(tail) = size - n /\ \A i \in 1..size-n : tail[i] = s[n + i]
  BY SMTT(40)
<1> HIDE DEF head, tail, size
<1>4. DOMAIN head = 1..n /\ DOMAIN tail = 1..size-n
  <2>1. \A q \in Seq(D) : DOMAIN q = 1..Len(q)
    OBVIOUS
  <2> QED BY <1>2, <1>3, <2>1
<1>5. ASSUME NEW i \in 1..size PROVE s[i] \in Range(head) \cup Range(tail)
  <2>1. CASE i <= n
    <3>1. i \in DOMAIN head /\ head[i] = s[i]
      BY <1>1, <1>2, <1>4, <2>1
    <3> QED BY <3>1 DEF Range
  <2>2. CASE ~ (i <= n)
    <3>1. i - n \in DOMAIN tail /\ n + (i - n) = i
      BY <1>1, <1>4, <2>2
    <3>2. tail[i - n] = s[i]
      BY <1>3, <1>4, <3>1
    <3> QED BY <3>1, <3>2 DEF Range
  <2> QED BY <2>1, <2>2
<1>6. ASSUME IsInjective(s)
      PROVE  IsInjective(head) /\ Range(head) \cap Range(tail) = {}
  <2>1. \A i, j \in 1..size : s[i] = s[j] => i = j
    BY <1>1, <1>6 DEF IsInjective
  <2>2. IsInjective(head)
    BY <1>1, <1>2, <1>4, <2>1 DEF IsInjective
  <2>3. ASSUME NEW i \in 1..n, NEW j \in 1..size-n PROVE head[i] # tail[j]
    <3>1. i \in 1..size /\ n + j \in 1..size /\ i # n + j
      BY <1>1
    <3> QED BY <1>2, <1>3, <2>1, <3>1
  <2>4. Range(head) \cap Range(tail) = {}
    BY <1>4, <2>3 DEF Range
  <2> QED BY <2>2, <2>4
<1>7. Halved(D, s, n, head, tail)
  BY <1>1, <1>2, <1>3, <1>5, <1>6 DEF Halved, size
<1> QED BY <1>7 DEF head, tail

\* Two sequences one behind the other.
Chained(D, s, t, u) ==
  /\ u \in Seq(D) /\ Len(u) = Len(s) + Len(t)
  /\ Range(u) = Range(s) \cup Range(t)
  /\ \A i \in 1..Len(s) : u[i] = s[i]
  /\ \A i \in 1..Len(t) : u[Len(s) + i] = t[i]
  /\ IsInjective(s) /\ IsInjective(t) /\ Range(s) \cap Range(t) = {} => IsInjective(u)

LEMMA Behind ==
  ASSUME NEW D, NEW s \in Seq(D), NEW t \in Seq(D)
  PROVE  Chained(D, s, t, s \o t)
<1> DEFINE u == s \o t
           m == Len(s)
           n == Len(t)
<1>1. m \in Nat /\ n \in Nat /\ DOMAIN s = 1..m /\ DOMAIN t = 1..n
  OBVIOUS
<1>2. u \in Seq(D) /\ Len(u) = m + n /\ DOMAIN u = 1..m+n
  OBVIOUS
<1>3. (\A i \in 1..m : u[i] = s[i]) /\ (\A i \in 1..n : u[m + i] = t[i])
  OBVIOUS
<1> HIDE DEF u, m, n
<1>4. ASSUME NEW i \in 1..m+n
      PROVE  (i \in 1..m /\ u[i] = s[i]) \/ (i - m \in 1..n /\ i > m /\ u[i] = t[i - m])
  <2>1. CASE i <= m
    BY <1>1, <1>3, <2>1
  <2>2. CASE ~ (i <= m)
    <3>1. i - m \in 1..n /\ m + (i - m) = i
      BY <1>1, <2>2
    <3> QED BY <1>1, <1>3, <2>2, <3>1
  <2> QED BY <2>1, <2>2
<1>5. Range(u) \subseteq Range(s) \cup Range(t)
  BY <1>1, <1>2, <1>4 DEF Range
<1>6. Range(s) \subseteq Range(u) /\ Range(t) \subseteq Range(u)
  <2>1. \A i \in 1..m : i \in DOMAIN u /\ u[i] = s[i]
    BY <1>1, <1>2, <1>3
  <2>2. \A i \in 1..n : m + i \in DOMAIN u /\ u[m + i] = t[i]
    BY <1>1, <1>2, <1>3
  <2> QED BY <1>1, <2>1, <2>2 DEF Range
<1>7. ASSUME IsInjective(s), IsInjective(t), Range(s) \cap Range(t) = {}
      PROVE  IsInjective(u)
  <2>1. \A i \in 1..m, j \in 1..n : s[i] # t[j]
    BY <1>1, <1>7 DEF Range
  <2>2. (\A i, j \in 1..m : s[i] = s[j] => i = j) /\ (\A i, j \in 1..n : t[i] = t[j] => i = j)
    BY <1>1, <1>7 DEF IsInjective
  <2>3. ASSUME NEW i \in 1..m+n, NEW j \in 1..m+n, u[i] = u[j] PROVE i = j
    BY <1>1, <1>4, <2>1, <2>2, <2>3
  <2> QED BY <1>2, <2>3 DEF IsInjective
<1>8. Chained(D, s, t, u)
  BY <1>2, <1>3, <1>5, <1>6, <1>7 DEF Chained, m, n
<1> QED BY <1>8 DEF u

\* What screening makes of a pool cs of which more than limit have a site: taken
\* of the batch have one.
Screened(cs, limit, t, taken) ==
  /\ Len(t.batch) + Len(t.pool) + t.dead = Len(cs)
  /\ Range(t.batch) \cap Range(t.pool) = {} /\ IsInjective(t.batch)
  /\ \A c \in Range(cs) : c \in Range(t.batch) \cup Range(t.pool)
                            \/ (c.site # None /\ ~Resolves(c.dns))
  /\ taken \in 0..limit /\ taken <= Len(t.batch)
  /\ Len(t.batch) = Run!AtMost(limit, taken + Len(Bare(cs)))
  /\ \A i \in 1..Len(t.batch) : t.batch[i] \in Range(cs) /\ (t.batch[i].site # None <=> i <= taken)
  /\ taken = limit \/ \A c \in Range(t.pool) : c.site = None

\* The two parts of a pool, and the sites of the first cursor that are alive.
Parted(cs, sited, bare) ==
  /\ IsInjective(sited) /\ IsInjective(bare)
  /\ \A n \in DOMAIN sited : sited[n].site # None
  /\ \A n \in DOMAIN bare : bare[n].site = None
  /\ \A i \in DOMAIN cs : \/ \E n \in DOMAIN sited : sited[n] = cs[i]
                          \/ \E n \in DOMAIN bare : bare[n] = cs[i]
  /\ \A n \in DOMAIN sited : \E i \in DOMAIN cs : sited[n] = cs[i]
  /\ \A n \in DOMAIN bare : \E i \in DOMAIN cs : bare[n] = cs[i]

Alive(sited, cursor, found) ==
  /\ Len(found) <= cursor /\ IsInjective(found)
  /\ \A n \in 1..Len(found) : \E i \in 1..cursor : Resolves(sited[i].dns) /\ found[n] = sited[i]
  /\ \A i \in 1..cursor : Resolves(sited[i].dns) => \E n \in 1..Len(found) : found[n] = sited[i]

LEMMA FoundAlive ==
  ASSUME NEW D, NEW sited \in Seq(D), IsInjective(sited), NEW cursor \in Nat, cursor <= Len(sited)
  PROVE  LET found == At(sited, {i \in 1..cursor : Resolves(sited[i].dns)})
         IN found \in Seq(D) /\ Alive(sited, cursor, found)
<1> DEFINE I == {i \in 1..cursor : Resolves(sited[i].dns)}
           found == At(sited, I)
<1>1. I \subseteq DOMAIN sited /\ I \subseteq 1..cursor
  OBVIOUS
<1>2. \A i \in 1..cursor : i \in I <=> Resolves(sited[i].dns)
  OBVIOUS
<1> HIDE DEF I
<1>3. /\ found \in Seq(D) /\ Len(found) = Cardinality(I) /\ IsInjective(found)
      /\ \A n \in DOMAIN found : \E i \in I : found[n] = sited[i]
      /\ \A i \in I : \E n \in DOMAIN found : found[n] = sited[i]
  BY <1>1, Kept
<1>4. Cardinality(I) <= cursor
  <2>1. IsFiniteSet(1..cursor) /\ Cardinality(1..cursor) = cursor
    BY FS_Interval
  <2> QED BY <1>1, <2>1, FS_Subset
<1> HIDE DEF found
<1>5. DOMAIN found = 1..Len(found)
  BY <1>3
<1>6. Alive(sited, cursor, found)
  BY <1>1, <1>2, <1>3, <1>4, <1>5 DEF Alive
<1> QED BY <1>3, <1>6 DEF found, I

\* The places of a batch: taken for sites found alive, and spare ones.
Shares(live, left, limit, taken, spare) ==
  /\ taken <= limit /\ taken <= live /\ (taken = limit \/ taken = live)
  /\ spare <= left /\ taken + spare <= limit /\ (taken + spare = limit \/ spare = left)

BatchOf(sited, bare, found, cursor, taken, spare) ==
  [batch |-> SubSeq(found, 1, taken) \o SubSeq(bare, 1, spare), dead |-> cursor - Len(found),
   pool |-> (SubSeq(found, taken + 1, Len(found)) \o SubSeq(sited, cursor + 1, Len(sited)))
              \o SubSeq(bare, spare + 1, Len(bare))]

LEMMA BatchMade ==
  ASSUME NEW D, NEW cs \in Seq(D), NEW sited \in Seq(D), NEW bare \in Seq(D), NEW found \in Seq(D),
         NEW size \in Nat, NEW left \in Nat, NEW live \in Nat, NEW limit \in Nat,
         NEW taken \in Nat, NEW spare \in Nat, NEW cursor \in 1..size,
         Len(sited) = size, Len(bare) = left, Len(found) = live, Len(Bare(cs)) = left,
         Len(cs) = size + left, Parted(cs, sited, bare), Alive(sited, cursor, found),
         live >= limit \/ cursor = size, Shares(live, left, limit, taken, spare)
  PROVE  LET t == BatchOf(sited, bare, found, cursor, taken, spare)
         IN t.batch \in Seq(D) /\ Screened(cs, limit, t, taken)
<1> DEFINE liveHead == SubSeq(found, 1, taken)
           liveTail == SubSeq(found, taken + 1, Len(found))
           bareHead == SubSeq(bare, 1, spare)
           bareTail == SubSeq(bare, spare + 1, Len(bare))
           unseen == SubSeq(sited, cursor + 1, Len(sited))
           t == BatchOf(sited, bare, found, cursor, taken, spare)
<1>1. /\ taken <= limit /\ taken <= live /\ (taken = limit \/ taken = live)
      /\ spare <= left /\ taken + spare <= limit /\ (taken + spare = limit \/ spare = left)
  BY DEF Shares
<1>2. t.batch = liveHead \o bareHead /\ t.dead = cursor - live
        /\ t.pool = (liveTail \o unseen) \o bareTail
  BY DEF BatchOf
<1> HIDE DEF t, liveHead, liveTail, bareHead, bareTail, unseen
<1>3. /\ IsInjective(sited) /\ IsInjective(bare)
      /\ \A n \in 1..size : sited[n].site # None
      /\ \A n \in 1..left : bare[n].site = None
      /\ \A i \in DOMAIN cs : \/ \E n \in 1..size : sited[n] = cs[i]
                              \/ \E n \in 1..left : bare[n] = cs[i]
      /\ \A n \in 1..size : \E i \in DOMAIN cs : sited[n] = cs[i]
      /\ \A n \in 1..left : \E i \in DOMAIN cs : bare[n] = cs[i]
  <2>1. DOMAIN sited = 1..size /\ DOMAIN bare = 1..left
    OBVIOUS
  <2> QED BY <2>1 DEF Parted
<1>4. DOMAIN sited = 1..size /\ DOMAIN bare = 1..left /\ cursor \in Nat /\ cursor <= size
  OBVIOUS
<1>8. /\ live <= cursor /\ IsInjective(found) /\ DOMAIN found = 1..live
      /\ \A n \in 1..live : \E i \in 1..cursor : Resolves(sited[i].dns) /\ found[n] = sited[i]
      /\ \A i \in 1..cursor : Resolves(sited[i].dns) => \E n \in 1..live : found[n] = sited[i]
  <2>1. DOMAIN found = 1..live
    OBVIOUS
  <2> QED BY <2>1 DEF Alive
<1>12. /\ liveHead \in Seq(D) /\ Len(liveHead) = taken /\ \A i \in 1..taken : liveHead[i] = found[i]
       /\ liveTail \in Seq(D) /\ Len(liveTail) = live - taken
       /\ \A i \in 1..live-taken : liveTail[i] = found[taken + i]
       /\ \A i \in 1..live : found[i] \in Range(liveHead) \cup Range(liveTail)
       /\ IsInjective(liveHead) /\ Range(liveHead) \cap Range(liveTail) = {}
  <2>1. taken \in 0..Len(found)
    BY <1>1
  <2>2. Halved(D, found, taken, liveHead, liveTail)
    BY <2>1, Halves DEF liveHead, liveTail
  <2> QED BY <1>8, <2>2 DEF Halved
<1>13. /\ bareHead \in Seq(D) /\ Len(bareHead) = spare /\ \A i \in 1..spare : bareHead[i] = bare[i]
       /\ bareTail \in Seq(D) /\ Len(bareTail) = left - spare
       /\ \A i \in 1..left-spare : bareTail[i] = bare[spare + i]
       /\ \A i \in 1..left : bare[i] \in Range(bareHead) \cup Range(bareTail)
       /\ IsInjective(bareHead) /\ Range(bareHead) \cap Range(bareTail) = {}
  <2>1. spare \in 0..Len(bare)
    BY <1>1
  <2>2. Halved(D, bare, spare, bareHead, bareTail)
    BY <2>1, Halves DEF bareHead, bareTail
  <2> QED BY <1>3, <1>4, <2>2 DEF Halved
<1>14. /\ unseen \in Seq(D) /\ Len(unseen) = size - cursor
       /\ \A i \in 1..size-cursor : unseen[i] = sited[cursor + i]
  <2>1. cursor \in 0..Len(sited)
    BY <1>4
  <2>2. Halved(D, sited, cursor, SubSeq(sited, 1, cursor), unseen)
    BY <2>1, Halves DEF unseen
  <2> QED BY <2>2 DEF Halved
<1>15. \A i \in 1..size : i > cursor => sited[i] \in Range(unseen)
  <2> SUFFICES ASSUME NEW i \in 1..size, i > cursor PROVE sited[i] \in Range(unseen)
    OBVIOUS
  <2>1. i - cursor \in 1..size-cursor /\ cursor + (i - cursor) = i
    BY <1>4
  <2>2. DOMAIN unseen = 1..size-cursor
    BY <1>14
  <2>3. unseen[i - cursor] = sited[cursor + (i - cursor)]
    BY <1>14, <2>1
  <2> QED BY <2>1, <2>2, <2>3 DEF Range
\* Where the companies of each part come from.
<1>16. \A c \in Range(liveHead) \cup Range(liveTail) : \E i \in 1..cursor : c = sited[i]
  <2>1. \A i \in 1..taken : i \in 1..live
    BY <1>1
  <2>2. \A i \in 1..live-taken : taken + i \in 1..live
    BY <1>1
  <2>3. DOMAIN liveHead = 1..taken /\ DOMAIN liveTail = 1..live-taken
    BY <1>12
  <2>4. \A i \in 1..live : \E j \in 1..cursor : found[i] = sited[j]
    BY <1>8
  <2>5. \A c \in Range(liveHead) : \E i \in 1..live : c = found[i]
    BY <1>12, <2>1, <2>3 DEF Range
  <2>6. \A c \in Range(liveTail) : \E i \in 1..live : c = found[i]
    BY <1>12, <2>2, <2>3 DEF Range
  <2> SUFFICES ASSUME NEW c \in Range(liveHead) \cup Range(liveTail)
               PROVE  \E i \in 1..cursor : c = sited[i]
    OBVIOUS
  <2>7. PICK i \in 1..live : c = found[i]
    BY <2>5, <2>6
  <2>8. PICK j \in 1..cursor : found[i] = sited[j]
    BY <2>4
  <2> QED BY <2>7, <2>8
<1>17. \A c \in Range(unseen) : \E i \in 1..size : i > cursor /\ c = sited[i]
  <2>1. \A i \in 1..size-cursor : cursor + i \in 1..size /\ cursor + i > cursor
    BY <1>4
  <2>2. DOMAIN unseen = 1..size-cursor
    BY <1>14
  <2> QED BY <1>14, <2>1, <2>2 DEF Range
<1>18. \A c \in Range(bareHead) \cup Range(bareTail) : \E i \in 1..left : c = bare[i]
  <2>1. \A i \in 1..spare : i \in 1..left
    BY <1>1
  <2>2. \A i \in 1..left-spare : spare + i \in 1..left
    BY <1>1
  <2>3. DOMAIN bareHead = 1..spare /\ DOMAIN bareTail = 1..left-spare
    BY <1>13
  <2> QED BY <1>13, <2>1, <2>2, <2>3, SMTT(40) DEF Range
<1>19. /\ \A c \in Range(liveHead) \cup Range(liveTail) \cup Range(unseen) : c.site # None
       /\ \A c \in Range(bareHead) \cup Range(bareTail) : c.site = None
  <2>1. \A i \in 1..cursor : i \in 1..size
    BY <1>4
  <2>2. \A c \in Range(liveHead) \cup Range(liveTail) \cup Range(unseen) :
          \E i \in 1..size : c = sited[i]
    BY <1>16, <1>17, <2>1
  <2> QED BY <1>3, <1>18, <2>2, SMTT(40)
<1>20. Range(liveHead) \cap Range(unseen) = {}
  <2> SUFFICES ASSUME NEW c \in Range(liveHead), c \in Range(unseen) PROVE FALSE
    OBVIOUS
  <2>1. PICK i \in 1..cursor : c = sited[i]
    BY <1>16
  <2>2. PICK j \in 1..size : j > cursor /\ c = sited[j]
    BY <1>17
  <2>3. i \in 1..cursor /\ i \in 1..size /\ i # j
    BY <1>4, <2>2
  <2> QED BY <1>3, <1>4, <2>1, <2>2, <2>3, ZenonT(40) DEF IsInjective
\* The batch.
<1>21. /\ t.batch \in Seq(D) /\ Len(t.batch) = taken + spare
       /\ Range(t.batch) = Range(liveHead) \cup Range(bareHead)
       /\ \A i \in 1..taken : t.batch[i] = liveHead[i]
       /\ \A i \in 1..spare : t.batch[taken + i] = bareHead[i]
       /\ IsInjective(t.batch)
  <2>1. Range(liveHead) \cap Range(bareHead) = {}
    BY <1>19
  <2> DEFINE both == liveHead \o bareHead
  <2>2. Chained(D, liveHead, bareHead, both)
    BY <1>12, <1>13, Behind
  <2> HIDE DEF both
  <2>3. t.batch = both
    BY <1>2 DEF both
  <2> QED BY <1>12, <1>13, <2>1, <2>2, <2>3 DEF Chained
<1>22. /\ Len(t.pool) = (live - taken) + (size - cursor) + (left - spare)
       /\ Range(t.pool) = Range(liveTail) \cup Range(unseen) \cup Range(bareTail)
  <2> DEFINE front == liveTail \o unseen
             all == front \o bareTail
  <2>1. Chained(D, liveTail, unseen, front)
    BY <1>12, <1>14, Behind
  <2>2. t.pool = all
    BY <1>2
  <2> HIDE DEF front
  <2>3. front \in Seq(D)
    BY <2>1 DEF Chained
  <2>4. Chained(D, front, bareTail, all)
    BY <1>13, <2>3, Behind
  <2> HIDE DEF all
  <2>5. Len(front) = (live - taken) + (size - cursor) /\ Len(bareTail) = left - spare
    BY <1>12, <1>13, <1>14, <2>1 DEF Chained
  <2>6. Len(all) = Len(front) + Len(bareTail) /\ Range(all) = Range(front) \cup Range(bareTail)
    BY <2>4 DEF Chained
  <2>7. Range(front) = Range(liveTail) \cup Range(unseen)
    BY <2>1 DEF Chained
  <2> QED BY <2>2, <2>5, <2>6, <2>7
<1>23. Len(t.batch) + Len(t.pool) + t.dead = Len(cs)
  <2>1. (taken + spare) + ((live - taken) + (size - cursor) + (left - spare)) + (cursor - live)
          = size + left
    OBVIOUS
  <2>2. Len(t.batch) = taken + spare /\ t.dead = cursor - live
    BY <1>2, <1>21
  <2> QED BY <1>22, <2>1, <2>2
<1>24. Range(t.batch) \cap Range(t.pool) = {}
  BY <1>12, <1>13, <1>19, <1>20, <1>21, <1>22
<1>25. ASSUME NEW c \in Range(cs)
       PROVE  c \in Range(t.batch) \cup Range(t.pool) \/ (c.site # None /\ ~Resolves(c.dns))
  <2>1. (\E n \in 1..size : sited[n] = c) \/ (\E n \in 1..left : bare[n] = c)
    <3>1. PICK i \in DOMAIN cs : c = cs[i]
      BY DEF Range
    <3> QED BY <1>3, <3>1
  <2>2. ASSUME NEW n \in 1..left, bare[n] = c PROVE c \in Range(t.batch) \cup Range(t.pool)
    BY <1>13, <1>21, <1>22, <2>2
  <2>3. ASSUME NEW n \in 1..size, sited[n] = c
        PROVE  c \in Range(t.batch) \cup Range(t.pool) \/ (c.site # None /\ ~Resolves(c.dns))
    <3>1. CASE n > cursor
      BY <1>15, <1>22, <2>3, <3>1
    <3>2. CASE ~ (n > cursor) /\ Resolves(sited[n].dns)
      <4>1. n \in 1..cursor
        BY <1>4, <3>2
      <4>2. PICK k \in 1..live : found[k] = sited[n]
        BY <1>8, <3>2, <4>1
      <4> QED BY <1>12, <1>21, <1>22, <2>3, <4>2
    <3>3. CASE ~Resolves(sited[n].dns)
      BY <1>3, <1>4, <2>3, <3>3
    <3> QED BY <3>1, <3>2, <3>3
  <2> QED BY <2>1, <2>2, <2>3
<1>26. taken \in 0..limit /\ taken <= Len(t.batch)
         /\ Len(t.batch) = Run!AtMost(limit, taken + Len(Bare(cs)))
  <2>1. Len(t.batch) = taken + spare /\ Len(Bare(cs)) = left
    BY <1>21
  <2> QED BY <1>1, <2>1 DEF Run!AtMost
<1>27. ASSUME NEW i \in 1..Len(t.batch)
       PROVE  t.batch[i] \in Range(cs) /\ (t.batch[i].site # None <=> i <= taken)
  <2>1. CASE i <= taken
    <3>1. i \in 1..taken /\ i \in DOMAIN liveHead /\ t.batch[i] = liveHead[i]
      BY <1>12, <1>21, <2>1, SMTT(40)
    <3>2. t.batch[i] \in Range(liveHead)
      BY <3>1 DEF Range
    <3>3. PICK j \in 1..cursor : t.batch[i] = sited[j]
      BY <1>16, <3>2
    <3>4. j \in 1..size
      BY <1>4
    <3>5. PICK k \in DOMAIN cs : sited[j] = cs[k]
      BY <1>3, <1>4, <3>4
    <3> QED BY <1>19, <2>1, <3>2, <3>3, <3>5 DEF Range
  <2>2. CASE ~ (i <= taken)
    <3>1. i - taken \in 1..spare /\ taken + (i - taken) = i
      BY <1>21, <2>2, SMTT(40)
    <3>2. i - taken \in DOMAIN bareHead
      BY <1>13, <3>1
    <3>3. t.batch[taken + (i - taken)] = bareHead[i - taken]
      BY <1>21, <3>1
    <3>4. t.batch[i] \in Range(bareHead)
      BY <3>1, <3>2, <3>3 DEF Range
    <3>5. PICK j \in 1..left : t.batch[i] = bare[j]
      BY <1>18, <3>4
    <3>6. PICK k \in DOMAIN cs : bare[j] = cs[k]
      BY <1>3, <1>4, <3>5
    <3> QED BY <1>19, <2>2, <3>4, <3>5, <3>6 DEF Range
  <2> QED BY <2>1, <2>2
<1>28. taken = limit \/ \A c \in Range(t.pool) : c.site = None
  <2> SUFFICES ASSUME taken # limit PROVE Range(liveTail) = {} /\ Range(unseen) = {}
    BY <1>19, <1>22
  <2>1. taken = live /\ live < limit
    BY <1>1
  <2>2. cursor = size
    BY <1>4, <1>8, <2>1
  <2>3. DOMAIN liveTail = {} /\ DOMAIN unseen = {}
    BY <1>4, <1>8, <1>12, <1>14, <2>1, <2>2
  <2> QED BY <2>3 DEF Range
<1>29. Screened(cs, limit, t, taken)
  BY <1>21, <1>23, <1>24, <1>25, <1>26, <1>27, <1>28 DEF Screened
<1> QED BY <1>21, <1>29 DEF t, liveHead, liveTail, bareHead, bareTail, unseen

LEMMA SitesScreened ==
  ASSUME NEW D, NEW cs \in Seq(D), IsInjective(cs), NEW limit \in Nat, Len(Sited(cs)) > limit
  PROVE  \E taken \in Nat : /\ TakeLive(cs, limit).batch \in Seq(D)
                            /\ Screened(cs, limit, TakeLive(cs, limit), taken)
<1> DEFINE sited == Sited(cs)
           bare == Bare(cs)
           size == Len(sited)
           left == Len(bare)
           window == Max({limit, Window})
           LiveIn(n) == At(sited, {i \in 1..n : Resolves(sited[i].dns)})
           cursor == Min({n \in {Min({k * window, size}) : k \in 1..size} :
                            Len(LiveIn(n)) >= limit \/ n = size})
           found == LiveIn(cursor)
           live == Len(found)
           taken == Min({limit, live})
           spare == Min({limit - taken, left})
           t == BatchOf(sited, bare, found, cursor, taken, spare)
<1>1. TakeLive(cs, limit) = t
  <2>1. ~ (Len(sited) <= limit)
    OBVIOUS
  <2>2. TakeLive(cs, limit) =
          [batch |-> SubSeq(found, 1, taken) \o SubSeq(bare, 1, spare), dead |-> cursor - live,
           pool |-> Leftover(SubSeq(found, taken + 1, Len(found)),
                             SubSeq(sited, cursor + 1, Len(sited)),
                             SubSeq(bare, spare + 1, Len(bare)))]
    BY <2>1 DEF TakeLive
  <2> QED BY <2>2, ZenonT(40) DEF Leftover, BatchOf
<1>2. /\ sited \in Seq(D) /\ bare \in Seq(D) /\ Len(cs) = size + left
      /\ IsInjective(sited) /\ Parted(cs, sited, bare)
  BY SitedAndBare DEF Parted
<1>3. size \in Nat /\ left \in Nat /\ size > limit
  BY <1>2
<1>4. Len(sited) = size /\ Len(bare) = left /\ Len(Bare(cs)) = left
  OBVIOUS
<1>5. window \in Nat \ {0}
  <2>1. Window \in Nat \ {0}
    BY NamesAssumption
  <2> QED BY <2>1, MaxOfTwo
<1> HIDE DEF sited, bare, size, left, window
<1>6. cursor \in 1..size /\ (live >= limit \/ cursor = size)
  <2> DEFINE All == {Min({k * window, size}) : k \in 1..size}
             T == {n \in All : Len(LiveIn(n)) >= limit \/ n = size}
  <2>1. All \subseteq 1..size /\ size \in All
    <3>1. size \in 1..size
      BY <1>3
    <3> QED BY <1>3, <1>5, <3>1, WindowEnds
  <2> HIDE DEF All
  <2>2. T \subseteq Nat /\ T # {} /\ T \subseteq 1..size
    <3>1. size \in T
      BY <2>1
    <3>2. \A n \in T : n \in All
      OBVIOUS
    <3> HIDE DEF T
    <3> QED BY <1>3, <2>1, <3>1, <3>2
  <2>3. \A n \in T : Len(LiveIn(n)) >= limit \/ n = size
    OBVIOUS
  <2>4. cursor = Min(T)
    BY DEF All
  <2> HIDE DEF T, cursor
  <2>5. cursor \in T
    BY <2>2, <2>4, MinIsIn
  <2> QED BY <2>2, <2>3, <2>5
<1> HIDE DEF cursor
<1>7. found \in Seq(D) /\ Alive(sited, cursor, found)
  <2>1. cursor \in Nat /\ cursor <= Len(sited)
    BY <1>3, <1>4, <1>6
  <2> QED BY <1>2, <2>1, FoundAlive
<1> HIDE DEF found
<1>8. live \in Nat /\ Len(found) = live
  BY <1>7
<1> HIDE DEF live
<1>9. taken \in Nat /\ taken <= limit /\ taken <= live /\ (taken = limit \/ taken = live)
  BY <1>8, MinOfTwo
<1> HIDE DEF taken
<1>10. /\ spare \in Nat /\ spare <= left /\ taken + spare <= limit
       /\ taken + spare = limit \/ spare = left
  <2>1. limit - taken \in Nat
    BY <1>9
  <2>2. spare \in Nat /\ spare <= left /\ spare <= limit - taken
          /\ (spare = limit - taken \/ spare = left)
    BY <1>3, <2>1, MinOfTwo
  <2> QED BY <1>3, <1>9, <2>2
<1> HIDE DEF spare
<1>11. Shares(live, left, limit, taken, spare)
  BY <1>9, <1>10 DEF Shares
<1>12. t.batch \in Seq(D) /\ Screened(cs, limit, t, taken)
  BY <1>2, <1>3, <1>4, <1>6, <1>7, <1>8, <1>9, <1>10, <1>11, BatchMade
<1> HIDE DEF t
<1> QED BY <1>1, <1>9, <1>12, SMTT(40)

\* With no more sites than places nothing is screened, and as the companies with a
\* site come first, all of them have a place.
SitedFirst(cs) ==
  \A i, j \in DOMAIN cs : i <= j /\ cs[j].site # None => cs[i].site # None

LEMMA NothingScreened ==
  ASSUME NEW D, NEW cs \in Seq(D), IsInjective(cs), SitedFirst(cs), NEW limit \in Nat,
         Len(Sited(cs)) <= limit
  PROVE  LET t == TakeLive(cs, limit)
         IN /\ t.batch \in Seq(D) /\ IsInjective(t.batch) /\ t.dead = 0
            /\ Len(t.batch) + Len(t.pool) = Len(cs)
            /\ Len(t.batch) = Run!AtMost(limit, Len(cs))
            /\ Range(t.batch) \cap Range(t.pool) = {}
            /\ Range(t.batch) \cup Range(t.pool) = Range(cs)
            /\ \A c \in Range(t.pool) : c.site = None
<1> DEFINE size == Len(cs)
           n == Min({limit, size})
           I == {i \in DOMAIN cs : cs[i].site # None}
           head == SubSeq(cs, 1, n)
           tail == SubSeq(cs, limit + 1, size)
           rest == SubSeq(cs, n + 1, size)
           t == TakeLive(cs, limit)
<1>1. t.batch = head /\ t.pool = tail /\ t.dead = 0
  BY DEF TakeLive
<1> HIDE DEF t
<1>2. size \in Nat /\ DOMAIN cs = 1..size /\ Len(cs) = size
  OBVIOUS
<1>3. tail = rest /\ n \in Nat /\ n <= limit /\ n <= size /\ (n = limit \/ n = size)
  <2> HIDE DEF size
  <2>1. n \in Nat /\ n <= limit /\ n <= size /\ (n = limit \/ n = size)
    BY <1>2, MinOfTwo
  <2> HIDE DEF n
  <2>2. CASE n = limit
    BY <2>1, <2>2
  <2>3. CASE n # limit
    <3>1. n = size /\ limit > size
      BY <1>2, <2>1, <2>3
    <3>2. tail = <<>> /\ rest = <<>>
      BY <1>2, <3>1
    <3> QED BY <2>1, <3>2
  <2> QED BY <2>2, <2>3
<1> HIDE DEF size, n, tail
<1>4. Halved(D, cs, n, head, rest)
  <2>1. n \in 0..Len(cs)
    BY <1>2, <1>3
  <2> QED BY <2>1, Halves DEF size
<1> HIDE DEF head, rest
<1>5. /\ head \in Seq(D) /\ Len(head) = n /\ \A i \in 1..n : head[i] = cs[i]
      /\ rest \in Seq(D) /\ Len(rest) = size - n
      /\ \A i \in 1..size-n : rest[i] = cs[n + i]
      /\ \A i \in DOMAIN cs : cs[i] \in Range(head) \cup Range(rest)
      /\ IsInjective(head) /\ Range(head) \cap Range(rest) = {}
  BY <1>2, <1>4 DEF Halved
<1>6. DOMAIN head = 1..n /\ DOMAIN rest = 1..size-n
  BY <1>2, <1>3, <1>5
<1>7. Range(head) \cup Range(rest) = Range(cs)
  <2>1. \A i \in 1..n : i \in DOMAIN cs
    BY <1>2, <1>3
  <2>2. \A i \in 1..size-n : n + i \in DOMAIN cs
    BY <1>2, <1>3
  <2> QED BY <1>5, <1>6, <2>1, <2>2 DEF Range
<1>8. ASSUME NEW i \in 1..size-n PROVE rest[i].site = None
  <2> SUFFICES ASSUME cs[n + i].site # None PROVE FALSE
    BY <1>5
  <2>1. n + i \in 1..size /\ n = limit
    BY <1>2, <1>3
  <2>2. 1..(n + i) \subseteq I
    <3> SUFFICES ASSUME NEW j \in 1..(n + i) PROVE j \in I
      OBVIOUS
    <3>1. j \in 1..size /\ j <= n + i
      BY <1>2, <1>3
    <3> QED BY <1>2, <2>1, <3>1 DEF SitedFirst
  <2>3. IsFiniteSet(I) /\ Cardinality(I) = Len(Sited(cs))
    <3>1. I \subseteq DOMAIN cs
      OBVIOUS
    <3>2. Sited(cs) = At(cs, I)
      BY DEF Sited
    <3> HIDE DEF I
    <3> QED BY <3>1, <3>2, Kept
  <2>4. Cardinality(1..(n + i)) = n + i
    <3>1. n + i \in Nat /\ n + i >= 1
      BY <1>3
    <3> DEFINE k == n + i
    <3> HIDE DEF k
    <3>2. Cardinality(1..k) = k
      BY <3>1, FS_Interval DEF k
    <3> QED BY <3>2 DEF k
  <2>5. n + i <= Cardinality(I)
    <3> HIDE DEF I
    <3> QED BY <2>2, <2>3, <2>4, FS_Subset
  <2> QED BY <1>3, <2>1, <2>3, <2>5
<1>9. \A c \in Range(rest) : c.site = None
  BY <1>6, <1>8 DEF Range
<1>10. Len(head) + Len(rest) = Len(cs) /\ Len(head) = Run!AtMost(limit, Len(cs))
  BY <1>2, <1>3, <1>5 DEF Run!AtMost
<1> QED BY <1>1, <1>3, <1>5, <1>7, <1>9, <1>10 DEF t

\* The companies that a screening is asked about have one number each, the small
\* ones have a site, and run puts those first.
Numbers(D) ==
  /\ \A c, d \in D : c.id = d.id => c = d
  /\ \A c \in D : c.id \in 1..(Sites + Bares) /\ (c.site # None <=> c.id \in 1..Sites)

LEMMA ListedNumbers ==
  ASSUME NEW n \in 0..Sites, NEW bare \in 0..Bares, NEW dns
  PROVE  LET cs == Listed(n, bare, dns)
         IN cs \in Seq(Range(cs)) /\ IsInjective(cs) /\ Numbers(Range(cs))
<1> DEFINE cs == Listed(n, bare, dns)
           own == "own"
<1>1. Sites \in Nat /\ Bares \in Nat /\ own # None
  BY QuestionsAssumption
<1>2. n + bare \in Nat
  BY <1>1
<1> HIDE DEF own
<1>3. ASSUME NEW i \in 1..(n + bare)
      PROVE  /\ i <= n => cs[i].id = i /\ cs[i].site = own
             /\ ~ (i <= n) => cs[i].id = Sites + i - n /\ cs[i].site = None
  <2>1. CASE i <= n
    BY <2>1 DEF Listed, own
  <2>2. CASE ~ (i <= n)
    BY <2>2 DEF Listed
  <2> QED BY <2>1, <2>2
<1>4. DOMAIN cs = 1..(n + bare) /\ cs \in Seq(Range(cs))
  <2>1. cs = [i \in 1..(n + bare) |-> cs[i]]
    BY DEF Listed
  <2>2. \A i \in 1..(n + bare) : cs[i] \in Range(cs)
    BY <2>1 DEF Range
  <2> HIDE DEF cs
  <2>3. cs \in [1..(n + bare) -> Range(cs)]
    BY <2>1, <2>2
  <2> QED BY <1>2, <2>3
<1> HIDE DEF cs
<1>5. \A i, j \in 1..(n + bare) : cs[i].id = cs[j].id => i = j
  <2> SUFFICES ASSUME NEW i \in 1..(n + bare), NEW j \in 1..(n + bare), cs[i].id = cs[j].id
               PROVE  i = j
    OBVIOUS
  <2>1. (i <= n => cs[i].id = i) /\ (~ (i <= n) => cs[i].id = Sites + i - n)
    BY <1>3
  <2>2. (j <= n => cs[j].id = j) /\ (~ (j <= n) => cs[j].id = Sites + j - n)
    BY <1>3
  <2> QED BY <1>1, <1>2, <2>1, <2>2
<1>6. \A i \in 1..(n + bare) : /\ cs[i].id \in 1..(Sites + Bares)
                               /\ cs[i].site # None <=> cs[i].id \in 1..Sites
  <2> SUFFICES ASSUME NEW i \in 1..(n + bare)
               PROVE  /\ cs[i].id \in 1..(Sites + Bares)
                      /\ cs[i].site # None <=> cs[i].id \in 1..Sites
    OBVIOUS
  <2>1. CASE i <= n
    <3>1. cs[i].id = i /\ cs[i].site # None
      BY <1>1, <1>3, <2>1
    <3>2. i \in 1..Sites /\ i \in 1..(Sites + Bares)
      BY <1>1, <2>1
    <3> QED BY <3>1, <3>2
  <2>2. CASE ~ (i <= n)
    <3>1. cs[i].id = Sites + i - n /\ cs[i].site = None
      BY <1>3, <2>2
    <3>2. Sites + i - n \in 1..(Sites + Bares) /\ Sites + i - n \notin 1..Sites
      BY <1>1, <2>2
    <3> QED BY <3>1, <3>2
  <2> QED BY <2>1, <2>2
<1>7. IsInjective(cs)
  BY <1>4, <1>5 DEF IsInjective
<1>8. Numbers(Range(cs))
  BY <1>4, <1>5, <1>6 DEF Numbers, Range
<1> QED BY <1>4, <1>7, <1>8 DEF cs

LEMMA SitesGoFirst ==
  ASSUME NEW D, NEW pool \in Seq(D), IsInjective(pool)
  PROVE  LET cs == SitesFirst(pool)
         IN /\ cs \in Seq(D) /\ IsInjective(cs) /\ SitedFirst(cs)
            /\ Len(cs) = Len(pool) /\ Range(cs) = Range(pool)
<1> DEFINE sited == Sited(pool)
           bare == Bare(pool)
           cs == SitesFirst(pool)
           size == Len(sited)
<1>1. /\ sited \in Seq(D) /\ bare \in Seq(D) /\ size + Len(bare) = Len(pool)
      /\ IsInjective(sited) /\ IsInjective(bare)
      /\ \A n \in DOMAIN sited : sited[n].site # None
      /\ \A n \in DOMAIN bare : bare[n].site = None
      /\ \A i \in DOMAIN pool : \/ \E n \in DOMAIN sited : sited[n] = pool[i]
                                \/ \E n \in DOMAIN bare : bare[n] = pool[i]
      /\ \A n \in DOMAIN sited : \E i \in DOMAIN pool : sited[n] = pool[i]
      /\ \A n \in DOMAIN bare : \E i \in DOMAIN pool : bare[n] = pool[i]
  BY SitedAndBare
<1> HIDE DEF sited, bare
<1>2. Chained(D, sited, bare, cs)
  BY <1>1, Behind DEF SitesFirst, sited, bare
<1> HIDE DEF cs
<1>3. Range(sited) \cap Range(bare) = {}
  <2>1. (\A c \in Range(sited) : c.site # None) /\ \A c \in Range(bare) : c.site = None
    BY <1>1 DEF Range
  <2> QED BY <2>1
<1>4. cs \in Seq(D) /\ IsInjective(cs) /\ Len(cs) = Len(pool)
  BY <1>1, <1>2, <1>3 DEF Chained
<1>5. Range(cs) = Range(pool)
  <2>1. Range(cs) = Range(sited) \cup Range(bare)
    BY <1>2 DEF Chained
  <2>2. Range(sited) \cup Range(bare) = Range(pool)
    BY <1>1 DEF Range
  <2> QED BY <2>1, <2>2
<1>6. SitedFirst(cs)
  <2>1. size \in Nat /\ DOMAIN sited = 1..size /\ DOMAIN bare = 1..Len(bare)
          /\ DOMAIN cs = 1..(size + Len(bare)) /\ Len(bare) \in Nat
    BY <1>1, <1>4
  <2>2. \A i \in 1..size : cs[i] = sited[i]
    BY <1>2 DEF Chained
  <2>3. \A i \in 1..Len(bare) : cs[size + i] = bare[i]
    BY <1>2 DEF Chained
  <2> HIDE DEF size
  <2>4. ASSUME NEW i \in DOMAIN cs, ~ (i <= size) PROVE cs[i].site = None
    <3>1. i - size \in 1..Len(bare) /\ size + (i - size) = i
      BY <2>1, <2>4
    <3> QED BY <1>1, <2>1, <2>3, <3>1
  <2>5. ASSUME NEW i \in DOMAIN cs, i <= size PROVE cs[i].site # None
    <3>1. i \in 1..size
      BY <2>1, <2>5
    <3> QED BY <1>1, <2>1, <2>2, <3>1
  <2>6. \A i, j \in DOMAIN cs : i <= j /\ j <= size => i <= size
    BY <2>1
  <2> QED BY <2>4, <2>5, <2>6 DEF SitedFirst
<1> QED BY <1>4, <1>5, <1>6 DEF cs

\* As many numbers as companies.
LEMMA NumbersCount ==
  ASSUME NEW D, Numbers(D), NEW s \in Seq(D), IsInjective(s)
  PROVE  LET ids == {c.id : c \in Range(s)}
         IN IsFiniteSet(ids) /\ Cardinality(ids) = Len(s)
<1> DEFINE ids == {c.id : c \in Range(s)}
           size == Len(s)
           f == [i \in 1..size |-> s[i].id]
<1>1. size \in Nat /\ DOMAIN s = 1..size /\ \A i \in 1..size : s[i] \in D
  OBVIOUS
<1>2. ids = {s[i].id : i \in 1..size}
  BY <1>1 DEF Range
<1> HIDE DEF ids, size
<1>3. \A i, j \in 1..size : s[i].id = s[j].id => i = j
  BY <1>1 DEF Numbers, IsInjective
<1>4. f \in Bijection(1..size, ids)
  <2>1. f \in [1..size -> ids]
    BY <1>2
  <2>2. \A i, j \in 1..size : f[i] = f[j] => i = j
    BY <1>3
  <2>3. \A x \in ids : \E i \in 1..size : f[i] = x
    BY <1>2
  <2>4. DOMAIN f = 1..size
    OBVIOUS
  <2> HIDE DEF f
  <2>5. f \in Injection(1..size, ids)
    BY <2>1, <2>2, <2>4 DEF Injection, IsInjective
  <2>6. f \in Surjection(1..size, ids)
    BY <2>1, <2>3 DEF Surjection
  <2> QED BY <2>5, <2>6 DEF Bijection
<1>5. ExistsBijection(1..size, ids)
  BY <1>4 DEF ExistsBijection
<1>6. IsFiniteSet(1..size) /\ Cardinality(1..size) = size
  BY <1>1, FS_Interval
<1>7. IsFiniteSet(ids) /\ Cardinality(ids) = size
  BY <1>5, <1>6, FS_Bijection
<1> QED BY <1>7 DEF ids, size

\* The companies with a site have the small numbers, in a pool and in a batch.
LEMMA NumbersApart ==
  ASSUME NEW D, Numbers(D), NEW cs \in Seq(D), IsInjective(cs)
  PROVE  LET ids == {c.id : c \in Range(cs)}
         IN /\ Cardinality(ids \cap (1..Sites)) = Len(Sited(cs))
            /\ Cardinality(ids \ (1..Sites)) = Len(Bare(cs))
            /\ IsFiniteSet(ids) /\ Cardinality(ids) = Len(cs)
<1> DEFINE ids == {c.id : c \in Range(cs)}
           small == {c.id : c \in Range(Sited(cs))}
           large == {c.id : c \in Range(Bare(cs))}
<1>1. /\ Sited(cs) \in Seq(D) /\ Bare(cs) \in Seq(D)
      /\ IsInjective(Sited(cs)) /\ IsInjective(Bare(cs))
      /\ \A n \in DOMAIN Sited(cs) : Sited(cs)[n].site # None
      /\ \A n \in DOMAIN Bare(cs) : Bare(cs)[n].site = None
      /\ \A i \in DOMAIN cs : \/ \E n \in DOMAIN Sited(cs) : Sited(cs)[n] = cs[i]
                              \/ \E n \in DOMAIN Bare(cs) : Bare(cs)[n] = cs[i]
      /\ \A n \in DOMAIN Sited(cs) : \E i \in DOMAIN cs : Sited(cs)[n] = cs[i]
      /\ \A n \in DOMAIN Bare(cs) : \E i \in DOMAIN cs : Bare(cs)[n] = cs[i]
  BY SitedAndBare
<1>2. /\ Range(cs) = Range(Sited(cs)) \cup Range(Bare(cs)) /\ Range(cs) \subseteq D
      /\ \A c \in Range(Sited(cs)) : c.site # None
      /\ \A c \in Range(Bare(cs)) : c.site = None
  <2>1. Range(cs) \subseteq D
    BY DEF Range
  <2> QED BY <1>1, <2>1 DEF Range
<1>3. \A c \in Range(cs) : c.site # None <=> c.id \in 1..Sites
  BY <1>2 DEF Numbers
<1>4. ids \cap (1..Sites) = small /\ ids \ (1..Sites) = large
  BY <1>2, <1>3
<1>5. Cardinality(small) = Len(Sited(cs)) /\ Cardinality(large) = Len(Bare(cs))
  BY <1>1, NumbersCount
<1>6. IsFiniteSet(ids) /\ Cardinality(ids) = Len(cs)
  BY NumbersCount
<1> QED BY <1>4, <1>5, <1>6

\* A batch whose first taken companies are the ones with a site.
LEMMA BatchNumbers ==
  ASSUME NEW D, Numbers(D), NEW s \in Seq(D), IsInjective(s), NEW taken \in 0..Len(s),
         \A i \in 1..Len(s) : s[i].site # None <=> i <= taken
  PROVE  LET ids == {c.id : c \in Range(s)}
         IN Cardinality(ids) = Len(s) /\ Cardinality(ids \cap (1..Sites)) = taken
<1> DEFINE ids == {c.id : c \in Range(s)}
           head == SubSeq(s, 1, taken)
           tail == SubSeq(s, taken + 1, Len(s))
           size == Len(s)
<1>1. Halved(D, s, taken, head, tail)
  BY Halves
<1>2. DOMAIN s = 1..size /\ size \in Nat /\ taken \in Nat /\ taken <= size
  OBVIOUS
<1> HIDE DEF head, tail
<1>3. head \in Seq(D) /\ IsInjective(head) /\ Len(head) = taken
        /\ \A i \in 1..taken : head[i] = s[i]
  BY <1>1 DEF Halved
<1>4. \A i \in 1..size : s[i] \in D /\ (s[i].site # None <=> s[i].id \in 1..Sites)
  BY <1>2 DEF Numbers
<1>5. DOMAIN head = 1..taken
  BY <1>3
<1> HIDE DEF size
<1>6. ids = {s[i].id : i \in 1..size}
  BY <1>2 DEF Range
<1>7. {c.id : c \in Range(head)} = {s[i].id : i \in 1..taken}
  BY <1>3, <1>5 DEF Range
<1> HIDE DEF ids
<1>8. \A i \in 1..size : s[i].id \in 1..Sites <=> i \in 1..taken
  BY <1>2, <1>4 DEF size
<1>9. ids \cap (1..Sites) = {s[i].id : i \in 1..taken}
  <2>1. \A i \in 1..taken : i \in 1..size
    BY <1>2
  <2>2. ids \cap (1..Sites) \subseteq {s[i].id : i \in 1..taken}
    BY <1>6, <1>8
  <2>3. {s[i].id : i \in 1..taken} \subseteq ids \cap (1..Sites)
    BY <1>6, <1>8, <2>1
  <2> QED BY <2>2, <2>3
<1>10. Cardinality(ids \cap (1..Sites)) = taken
  BY <1>3, <1>7, <1>9, NumbersCount
<1>11. Cardinality(ids) = Len(s)
  BY NumbersCount DEF ids
<1> QED BY <1>10, <1>11 DEF ids

\* What screening promises, of the companies cs that it was asked about.
Lossless(cs, limit, t) ==
  LET gone == Range(cs) \ (Range(t.batch) \cup Range(t.pool))
      Ids(R) == {c.id : c \in R}
  IN /\ Len(t.batch) + Len(t.pool) + t.dead = Len(cs)
     /\ Range(t.batch) \cap Range(t.pool) = {}
     /\ \A c \in gone : \E i \in 1..2 : Verdict(c.dns[i]) = "dead"
     /\ [batch |-> Ids(Range(t.batch)), dead |-> Ids(gone)] \in Run!TakeLive(Ids(Range(cs)), limit)

LEMMA DeadSaysSo ==
  ASSUME NEW c, ~Resolves(c.dns)
  PROVE  \E i \in 1..2 : Verdict(c.dns[i]) = "dead"
<1>1. Verdict(c.dns[1]) = "dead" \/ Verdict(c.dns[2]) = "dead"
  BY DEF Resolves
<1>2. 1 \in 1..2 /\ 2 \in 1..2
  OBVIOUS
<1> QED BY <1>1, <1>2

\* A batch that is short of neither the limit nor the live companies is one that
\* module LeadRun allows.
LEMMA TakenAsAbstracted ==
  ASSUME NEW pool, NEW batch, NEW dead, NEW limit \in Nat, NEW sited, sited = pool \cap (1..Sites),
         batch \subseteq pool, dead \subseteq sited, dead \cap batch = {},
         Cardinality(batch) <= limit,
         \/ /\ Cardinality(sited) <= limit /\ dead = {} /\ sited \subseteq batch
            /\ Cardinality(batch) = Run!AtMost(limit, Cardinality(pool))
         \/ /\ Cardinality(sited) > limit
            /\ \/ Cardinality(batch \cap (1..Sites)) = limit
               \/ sited \subseteq batch \cup dead
            /\ Cardinality(batch) = Run!AtMost(limit, Cardinality(batch \cap (1..Sites))
                                                        + Cardinality(pool \ (1..Sites)))
  PROVE  [batch |-> batch, dead |-> dead] \in Run!TakeLive(pool, limit)
<1> DEFINE live == batch \cap (1..Sites)
           t == [batch |-> batch, dead |-> dead]
<1>1. t.batch = batch /\ t.dead = dead /\ t \in [batch : SUBSET pool, dead : SUBSET sited]
  OBVIOUS
<1>2. live \subseteq sited /\ dead \cap live = {}
  OBVIOUS
<1>3. sited \subseteq batch => live = sited
  OBVIOUS
<1>4. sited \subseteq batch \cup dead => live \cup dead = sited
  OBVIOUS
<1> HIDE DEF t
<1>5. t \in Run!TakeLive(pool, limit)
  <2>1. t \in [batch : SUBSET pool, dead : SUBSET (pool \cap (1..Sites))]
    BY <1>1
  <2>2. /\ Cardinality(t.batch) <= limit /\ t.dead \cap (t.batch \cap (1..Sites)) = {}
        /\ \/ /\ Cardinality(pool \cap (1..Sites)) <= limit
              /\ t.dead = {} /\ t.batch \cap (1..Sites) = pool \cap (1..Sites)
              /\ Cardinality(t.batch) = Run!AtMost(limit, Cardinality(pool))
           \/ /\ Cardinality(pool \cap (1..Sites)) > limit
              /\ \/ Cardinality(t.batch \cap (1..Sites)) = limit
                 \/ (t.batch \cap (1..Sites)) \cup t.dead = pool \cap (1..Sites)
              /\ Cardinality(t.batch) = Run!AtMost(limit, Cardinality(t.batch \cap (1..Sites))
                                                            + Cardinality(pool \ (1..Sites)))
    BY <1>1, <1>2, <1>3, <1>4
  <2>3. \A R : Run!Cardinality(R) = Cardinality(R)
    BY DEF Run!Cardinality, Cardinality, Run!IsFiniteSet, IsFiniteSet
  <2> QED BY <2>1, <2>2, <2>3 DEF Run!TakeLive
<1> QED BY <1>5 DEF t

\* Nobody is lost, whatever the pool, the limit and the name servers' answers.
LEMMA ScreeningLossless ==
  ASSUME NEW D, Numbers(D), NEW cs \in Seq(D), IsInjective(cs), SitedFirst(cs), NEW limit \in Nat
  PROVE  Lossless(cs, limit, TakeLive(cs, limit))
<1> DEFINE t == TakeLive(cs, limit)
           all == Range(cs)
           gone == all \ (Range(t.batch) \cup Range(t.pool))
           pool == {c.id : c \in all}
           batch == {c.id : c \in Range(t.batch)}
           dead == {c.id : c \in gone}
           sited == pool \cap (1..Sites)
<1>1. all \subseteq D
  BY DEF Range
<1>2. /\ Cardinality(sited) = Len(Sited(cs)) /\ Cardinality(pool \ (1..Sites)) = Len(Bare(cs))
      /\ Cardinality(pool) = Len(cs)
  BY NumbersApart
<1>3. \A c \in all : c.site # None <=> c.id \in 1..Sites
  BY <1>1 DEF Numbers
<1>4. Sited(cs) \in Seq(D) /\ Bare(cs) \in Seq(D) /\ Len(Sited(cs)) + Len(Bare(cs)) = Len(cs)
  BY SitedAndBare
<1>8. Lossless(cs, limit, t) <=>
        /\ Len(t.batch) + Len(t.pool) + t.dead = Len(cs)
        /\ Range(t.batch) \cap Range(t.pool) = {}
        /\ \A c \in gone : \E i \in 1..2 : Verdict(c.dns[i]) = "dead"
        /\ [batch |-> batch, dead |-> dead] \in Run!TakeLive(pool, limit)
  <2> HIDE DEF t
  <2> QED BY DEF Lossless
<1>5. CASE Len(Sited(cs)) <= limit
  <2>1. /\ t.batch \in Seq(D) /\ IsInjective(t.batch) /\ t.dead = 0
        /\ Len(t.batch) + Len(t.pool) = Len(cs)
        /\ Len(t.batch) = Run!AtMost(limit, Len(cs))
        /\ Range(t.batch) \cap Range(t.pool) = {}
        /\ Range(t.batch) \cup Range(t.pool) = Range(cs)
        /\ \A c \in Range(t.pool) : c.site = None
    BY <1>5, NothingScreened
  <2> HIDE DEF t
  <2>2. gone = {} /\ dead = {} /\ batch \subseteq pool
    BY <2>1
  <2>3. sited \subseteq batch
    <3> SUFFICES ASSUME NEW c \in all, c.id \in 1..Sites PROVE c.id \in batch
      OBVIOUS
    <3>1. c \in Range(t.batch)
      BY <1>3, <2>1
    <3> QED BY <3>1
  <2>4. Cardinality(batch) = Len(t.batch)
    BY <2>1, NumbersCount
  <2>5. Cardinality(batch) <= limit
    BY <1>4, <2>1, <2>4 DEF Run!AtMost
  <2> HIDE DEF batch, dead, pool, gone
  <2>6. [batch |-> batch, dead |-> dead] \in Run!TakeLive(pool, limit)
    BY <1>2, <1>5, <2>1, <2>2, <2>3, <2>4, <2>5, TakenAsAbstracted
  <2>7. Len(t.batch) + Len(t.pool) + t.dead = Len(cs)
    BY <1>4, <2>1
  <2>8. \A c \in gone : \E i \in 1..2 : Verdict(c.dns[i]) = "dead"
    BY <2>2
  <2>9. Lossless(cs, limit, t)
    BY <1>8, <2>1, <2>6, <2>7, <2>8
  <2> QED BY <2>9 DEF t
<1>6. CASE Len(Sited(cs)) > limit
  <2>1. PICK taken \in Nat : t.batch \in Seq(D) /\ Screened(cs, limit, t, taken)
    BY <1>6, SitesScreened
  <2> HIDE DEF t
  <2>2. /\ Len(t.batch) + Len(t.pool) + t.dead = Len(cs)
        /\ Range(t.batch) \cap Range(t.pool) = {} /\ IsInjective(t.batch)
        /\ \A c \in gone : c.site # None /\ ~Resolves(c.dns)
        /\ taken <= limit /\ taken <= Len(t.batch)
        /\ Len(t.batch) = Run!AtMost(limit, taken + Len(Bare(cs)))
        /\ \A i \in 1..Len(t.batch) : t.batch[i] \in all /\ (t.batch[i].site # None <=> i <= taken)
        /\ taken = limit \/ \A c \in Range(t.pool) : c.site = None
    BY <2>1 DEF Screened
  <2>3. Range(t.batch) \subseteq all
    BY <2>1, <2>2, SMTT(40) DEF Range
  <2>4. Cardinality(batch) = Len(t.batch) /\ Cardinality(batch \cap (1..Sites)) = taken
    <3>1. taken \in 0..Len(t.batch)
      BY <2>2
    <3> QED BY <2>1, <2>2, <3>1, BatchNumbers
  <2>5. batch \subseteq pool /\ dead \subseteq sited
    BY <1>3, <2>2, <2>3
  <2>6. dead \cap batch = {}
    <3> SUFFICES ASSUME NEW c \in gone, NEW d \in Range(t.batch), c.id = d.id PROVE FALSE
      OBVIOUS
    <3>1. c \in D /\ d \in D
      BY <1>1, <2>3
    <3> QED BY <3>1 DEF Numbers
  <2>7. taken = limit \/ sited \subseteq batch \cup dead
    <3> SUFFICES ASSUME taken # limit, NEW c \in all, c.id \in 1..Sites
                 PROVE  c.id \in batch \cup dead
      OBVIOUS
    <3>1. c \notin Range(t.pool)
      BY <1>3, <2>2
    <3>2. c \in Range(t.batch) \/ c \in gone
      BY <3>1
    <3> QED BY <3>2
  <2>8. Cardinality(batch) <= limit
    BY <1>4, <2>2, <2>4 DEF Run!AtMost
  <2>9. \A c \in gone : \E i \in 1..2 : Verdict(c.dns[i]) = "dead"
    BY <2>2, DeadSaysSo
  <2> HIDE DEF batch, dead, pool, gone
  <2>10. [batch |-> batch, dead |-> dead] \in Run!TakeLive(pool, limit)
    BY <1>2, <1>6, <2>2, <2>4, <2>5, <2>6, <2>7, <2>8, TakenAsAbstracted
  <2>11. Lossless(cs, limit, t)
    BY <1>8, <2>2, <2>9, <2>10
  <2> QED BY <2>11 DEF t
<1>7. Len(Sited(cs)) \in Nat
  BY <1>4
<1> QED BY <1>5, <1>6, <1>7

LEMMA PoolScreened ==
  ASSUME NEW n \in 0..Sites, NEW bare \in 0..Bares, NEW dns, NEW limit \in Limits
  PROVE  Lossless(Listed(n, bare, dns), limit, TakeLive(SitesFirst(Listed(n, bare, dns)), limit))
<1> DEFINE pool == Listed(n, bare, dns)
           cs == SitesFirst(pool)
           D == Range(pool)
           t == TakeLive(cs, limit)
<1>1. limit \in Nat
  BY QuestionsAssumption
<1>2. pool \in Seq(D) /\ IsInjective(pool) /\ Numbers(D)
  BY ListedNumbers
<1> HIDE DEF pool
<1>3. /\ cs \in Seq(D) /\ IsInjective(cs) /\ SitedFirst(cs)
      /\ Len(cs) = Len(pool) /\ Range(cs) = Range(pool)
  BY <1>2, SitesGoFirst
<1> HIDE DEF cs
<1>4. Lossless(cs, limit, t)
  BY <1>1, <1>2, <1>3, ScreeningLossless
<1> HIDE DEF t
<1>5. Lossless(pool, limit, t)
  BY <1>3, <1>4 DEF Lossless
<1> QED BY <1>5 DEF pool, cs, t

\* Screening loses nobody: every company is in the batch, in the pool for a later
\* round or counted dead, and the batch is one that module LeadRun lets the run
\* take (Pipeline._take_live).
THEOREM NobodyIsLost == Spec => []ScreeningLosesNobody
<1>1. Init => ScreeningLosesNobody
  BY DEF Init, ScreeningLosesNobody
<1>2. ASSUME ScreeningLosesNobody, [Next]_vars PROVE ScreeningLosesNobody'
  <2>1. CASE UNCHANGED vars
    BY <1>2, <2>1 DEF vars, ScreeningLosesNobody
  <2>2. CASE AskScreen
    <3>1. PICK n \in 0..Sites, bare \in 0..Bares, limit \in Limits : \E dns \in [1..n -> Answers] :
            Ask("screen", [cs |-> Listed(n, bare, dns), limit |-> limit],
                TakeLive(SitesFirst(Listed(n, bare, dns)), limit))
      BY <2>2 DEF AskScreen
    <3>2. PICK dns \in [1..n -> Answers] :
            Ask("screen", [cs |-> Listed(n, bare, dns), limit |-> limit],
                TakeLive(SitesFirst(Listed(n, bare, dns)), limit))
      BY <3>1
    <3> DEFINE cs == Listed(n, bare, dns)
               t == TakeLive(SitesFirst(cs), limit)
    <3>3. Lossless(cs, limit, t)
      BY PoolScreened
    <3>4. question'.input.cs = cs /\ question'.input.limit = limit /\ answer' = t
      BY <3>2 DEF Ask
    <3> HIDE DEF cs, t
    <3> QED BY <3>3, <3>4 DEF ScreeningLosesNobody, Lossless
  <2>3. CASE \/ AskClassify \/ AskScore \/ AskResolve \/ AskFunnel \/ AskBrief \/ AskPresence
             \/ AskReply \/ AskTasks \/ AskCalls \/ AskNews \/ AskPages \/ AskModel
    BY <2>3, Kinds DEF ScreeningLosesNobody
  <2> QED BY <1>2, <2>1, <2>2, <2>3 DEF Next
<1> QED BY <1>1, <1>2, PTL DEF Spec

-----------------------------------------------------------------------------
(* From the sources to the companies a run keeps (Discovery's Funnel).     *)

Turns(lists) == UNION {{<<i, l>> : i \in DOMAIN lists[l]} : l \in DOMAIN lists}

\* The turns up to each turn.
Before(lists) ==
  [p \in Turns(lists) |->
     {q \in Turns(lists) : q[1] < p[1] \/ (q[1] = p[1] /\ q[2] <= p[2])}]

\* The values of a function on the first n numbers.
LEMMA FirstValues ==
  ASSUME NEW n \in Nat, NEW f
  PROVE  IsFiniteSet({f[i] : i \in 1..n})
<1> DEFINE T == {f[i] : i \in 1..n}
           g == [i \in 1..n |-> f[i]]
<1>1. g \in Surjection(1..n, T)
  <2>1. g \in [1..n -> T] /\ \A x \in T : \E i \in 1..n : g[i] = x
    OBVIOUS
  <2> QED BY <2>1 DEF Surjection
<1>2. IsFiniteSet(1..n)
  BY FS_Interval
<1> HIDE DEF T, g
<1>3. IsFiniteSet(T)
  BY <1>1, <1>2, FS_Surjection
<1> QED BY <1>3 DEF T

\* The lists take turns.
LEMMA TurnsTaken ==
  ASSUME NEW D, NEW lists \in Seq(Seq(D))
  PROVE  /\ IsFiniteSet(Turns(lists)) /\ Orders(Turns(lists), Before(lists))
         /\ \A p : p \in Turns(lists)
                     <=> \E l \in DOMAIN lists : \E i \in DOMAIN lists[l] : p = <<i, l>>
<1> DEFINE T == Turns(lists)
           upto == Before(lists)
           k == Len(lists)
           row == [l \in 1..k |-> {<<i, l>> : i \in DOMAIN lists[l]}]
<1>1. k \in Nat /\ DOMAIN lists = 1..k /\ \A l \in 1..k : lists[l] \in Seq(D)
  OBVIOUS
<1> HIDE DEF k
<1>2. \A p : p \in T <=> \E l \in DOMAIN lists : \E i \in DOMAIN lists[l] : p = <<i, l>>
  BY DEF Turns
<1>3. T = UNION {row[l] : l \in 1..k}
  BY <1>1, <1>2
<1>4. ASSUME NEW l \in 1..k PROVE IsFiniteSet(row[l])
  <2> DEFINE f == [i \in 1..Len(lists[l]) |-> <<i, l>>]
  <2>1. DOMAIN lists[l] = 1..Len(lists[l]) /\ Len(lists[l]) \in Nat
    BY <1>1
  <2>2. row[l] = {<<i, l>> : i \in 1..Len(lists[l])}
    BY <2>1
  <2>3. \A i \in 1..Len(lists[l]) : f[i] = <<i, l>>
    OBVIOUS
  <2> HIDE DEF f, row
  <2>4. row[l] = {f[i] : i \in 1..Len(lists[l])}
    BY <2>2, <2>3
  <2> QED BY <2>1, <2>4, FirstValues
<1> HIDE DEF row
<1>5. IsFiniteSet({row[l] : l \in 1..k})
  BY <1>1, FirstValues
<1> DEFINE rows == {row[l] : l \in 1..k}
<1>6. \A R \in rows : IsFiniteSet(R)
  BY <1>4
<1> HIDE DEF rows
<1>7. IsFiniteSet(UNION rows)
  BY <1>5, <1>6, FS_UNION DEF rows
<1>8. IsFiniteSet(T)
  BY <1>3, <1>7 DEF rows
<1>9. \A p \in T : p[1] \in Int /\ p[2] \in Int /\ p = <<p[1], p[2]>>
  <2> SUFFICES ASSUME NEW p \in T PROVE p[1] \in Int /\ p[2] \in Int /\ p = <<p[1], p[2]>>
    OBVIOUS
  <2>1. PICK l \in DOMAIN lists : \E i \in DOMAIN lists[l] : p = <<i, l>>
    BY <1>2
  <2>2. PICK i \in DOMAIN lists[l] : p = <<i, l>>
    BY <2>1
  <2>3. l \in Int /\ i \in Int
    BY <1>1
  <2> QED BY <2>2, <2>3
<1>10. upto \in [T -> SUBSET T]
  BY DEF Before
<1>11. \A p, q \in T : p \in upto[q] <=> p[1] < q[1] \/ (p[1] = q[1] /\ p[2] <= q[2])
  BY DEF Before
<1> HIDE DEF T, upto
<1>12. ASSUME NEW p \in T, NEW q \in T
       PROVE  /\ p \in upto[q] \/ q \in upto[p]
              /\ p \in upto[q] /\ q \in upto[p] => p = q
  <2>1. p[1] \in Int /\ p[2] \in Int /\ q[1] \in Int /\ q[2] \in Int
    BY <1>9
  <2>2. p \in upto[q] \/ q \in upto[p]
    BY <1>11, <2>1
  <2>3. ASSUME p \in upto[q], q \in upto[p] PROVE p = q
    <3>1. p[1] = q[1] /\ p[2] = q[2]
      BY <1>11, <2>1, <2>3
    <3>2. p = <<p[1], p[2]>> /\ q = <<q[1], q[2]>>
      BY <1>9
    <3> QED BY <3>1, <3>2
  <2> QED BY <2>2, <2>3
<1>13. ASSUME NEW p \in T, NEW q \in T, p \in upto[q]
       PROVE  upto[p] \subseteq upto[q]
  <2>1. p[1] \in Int /\ p[2] \in Int /\ q[1] \in Int /\ q[2] \in Int
    BY <1>9
  <2> SUFFICES ASSUME NEW r \in T, r \in upto[p] PROVE r \in upto[q]
    BY <1>10
  <2>2. r[1] \in Int /\ r[2] \in Int
    BY <1>9
  <2> QED BY <1>11, <1>13, <2>1, <2>2
<1>14. Orders(T, upto)
  BY <1>10, <1>12, <1>13 DEF Orders
<1> QED BY <1>2, <1>8, <1>14 DEF T, upto

\* Where the i-th record of the l-th list comes.
Place(lists, i, l) == Cardinality(Before(lists)[<<i, l>>])

\* Every record has its place, and the places are in the order of the turns.
InTurn(D, lists, all) ==
  /\ all \in Seq(D)
  /\ \A l \in DOMAIN lists : \A i \in DOMAIN lists[l] :
       Place(lists, i, l) \in 1..Len(all) /\ all[Place(lists, i, l)] = lists[l][i]
  /\ \A n \in 1..Len(all) : \E l \in DOMAIN lists : \E i \in DOMAIN lists[l] :
       n = Place(lists, i, l)
  /\ \A l, k \in DOMAIN lists : \A i \in DOMAIN lists[l], j \in DOMAIN lists[k] :
       i < j => Place(lists, i, l) <= Place(lists, j, k)
  /\ \A l \in DOMAIN lists : \A i, j \in DOMAIN lists[l] :
       i <= j => Place(lists, i, l) <= Place(lists, j, l)

LEMMA TakenInTurn ==
  ASSUME NEW D, NEW lists \in Seq(Seq(D))
  PROVE  InTurn(D, lists, RoundRobin(lists))
<1> DEFINE T == Turns(lists)
           upto == Before(lists)
           order == Ordered(T, upto)
           size == Cardinality(T)
           all == RoundRobin(lists)
<1>1. /\ IsFiniteSet(T) /\ Orders(T, upto)
      /\ \A p : p \in T <=> \E l \in DOMAIN lists : \E i \in DOMAIN lists[l] : p = <<i, l>>
  BY TurnsTaken
<1>2. /\ order \in [1..size -> T]
      /\ \A n \in 1..size : Cardinality(upto[order[n]]) = n
      /\ \A p \in T : order[Cardinality(upto[p])] = p
  BY <1>1, Sorted
<1>3. /\ size \in Nat
      /\ \A p \in T : Cardinality(upto[p]) \in 1..size
      /\ \A p, q \in T : Cardinality(upto[p]) <= Cardinality(upto[q]) <=> p \in upto[q]
  BY <1>1, Places
<1>4. all = [n \in DOMAIN order |-> lists[order[n][2]][order[n][1]]]
  BY DEF RoundRobin, Turns, Before
<1>5. \A p, q \in T : p \in upto[q] <=> p[1] < q[1] \/ (p[1] = q[1] /\ p[2] <= q[2])
  BY DEF Before
<1>6. \A l \in DOMAIN lists : l \in Int /\ \A i \in DOMAIN lists[l] : i \in Int /\ lists[l][i] \in D
  OBVIOUS
<1> HIDE DEF T, upto, order, size, all
<1>7. \A l \in DOMAIN lists : \A i \in DOMAIN lists[l] :
        <<i, l>> \in T /\ Place(lists, i, l) = Cardinality(upto[<<i, l>>])
  BY <1>1 DEF Place, upto
<1>8. DOMAIN order = 1..size /\ \A n \in 1..size : order[n] \in T
  BY <1>2
<1>9. ASSUME NEW n \in 1..size
      PROVE  \E l \in DOMAIN lists : \E i \in DOMAIN lists[l] :
               order[n] = <<i, l>> /\ all[n] = lists[l][i] /\ n = Place(lists, i, l)
  <2>1. PICK l \in DOMAIN lists : \E i \in DOMAIN lists[l] : order[n] = <<i, l>>
    BY <1>1, <1>8
  <2>2. PICK i \in DOMAIN lists[l] : order[n] = <<i, l>>
    BY <2>1
  <2>3. all[n] = lists[l][i]
    BY <1>4, <1>8, <2>2
  <2>4. n = Place(lists, i, l)
    BY <1>2, <1>7, <2>2
  <2> QED BY <2>2, <2>3, <2>4
<1>10. all \in Seq(D) /\ Len(all) = size
  <2>1. \A n \in 1..size : all[n] \in D
    BY <1>6, <1>9
  <2>2. all = [n \in 1..size |-> all[n]]
    BY <1>4, <1>8
  <2> QED BY <1>3, <2>1, <2>2
<1>11. \A l \in DOMAIN lists : \A i \in DOMAIN lists[l] :
         Place(lists, i, l) \in 1..Len(all) /\ all[Place(lists, i, l)] = lists[l][i]
  <2> SUFFICES ASSUME NEW l \in DOMAIN lists, NEW i \in DOMAIN lists[l]
               PROVE  Place(lists, i, l) \in 1..size /\ all[Place(lists, i, l)] = lists[l][i]
    BY <1>10
  <2>1. Place(lists, i, l) \in 1..size /\ order[Place(lists, i, l)] = <<i, l>>
    BY <1>2, <1>3, <1>7, ZenonT(40)
  <2> QED BY <1>4, <1>8, <2>1
<1>12. \A l, k \in DOMAIN lists : \A i \in DOMAIN lists[l], j \in DOMAIN lists[k] :
         i < j => Place(lists, i, l) <= Place(lists, j, k)
  <2> SUFFICES ASSUME NEW l \in DOMAIN lists, NEW k \in DOMAIN lists,
                      NEW i \in DOMAIN lists[l], NEW j \in DOMAIN lists[k], i < j
               PROVE  Place(lists, i, l) <= Place(lists, j, k)
    OBVIOUS
  <2>1. <<i, l>> \in T /\ <<j, k>> \in T /\ <<i, l>> \in upto[<<j, k>>]
    BY <1>5, <1>7
  <2> QED BY <1>3, <1>7, <2>1
<1>13. \A l \in DOMAIN lists : \A i, j \in DOMAIN lists[l] :
         i <= j => Place(lists, i, l) <= Place(lists, j, l)
  <2> SUFFICES ASSUME NEW l \in DOMAIN lists,
                      NEW i \in DOMAIN lists[l], NEW j \in DOMAIN lists[l], i <= j
               PROVE  Place(lists, i, l) <= Place(lists, j, l)
    OBVIOUS
  <2>1. <<i, l>> \in T /\ <<j, l>> \in T
    BY <1>7
  <2>2. i < j \/ i = j
    BY <1>6
  <2>3. l <= l
    BY <1>6
  <2>4. <<i, l>> \in upto[<<j, l>>]
    BY <1>5, <2>1, <2>2, <2>3
  <2> QED BY <1>3, <1>7, <2>1, <2>4
<1>14. \A n \in 1..Len(all) : \E l \in DOMAIN lists : \E i \in DOMAIN lists[l] :
         n = Place(lists, i, l)
  BY <1>9, <1>10
<1>15. InTurn(D, lists, all)
  BY <1>10, <1>11, <1>12, <1>13, <1>14 DEF InTurn
<1> QED BY <1>15 DEF all

\* A set of positions without a gap.
LEMMA NoGaps ==
  ASSUME NEW m \in Nat, NEW I, I \subseteq 1..m,
         \A j \in I : \A i \in 1..m : i <= j => i \in I
  PROVE  \E t \in 0..m : I = 1..t
<1> DEFINE free == {t \in 0..m : t + 1 \notin I}
<1>1. m \in free /\ free \subseteq Nat
  OBVIOUS
<1>2. PICK t \in free : \A k \in free : t <= k
  <2> HIDE DEF free
  <2>1. free # {}
    BY <1>1
  <2> QED BY <1>1, <2>1, LeastNumber
<1>3. ASSUME NEW i \in I PROVE i \in 1..t
  <2>1. ~ (t + 1 <= i)
    BY <1>2, <1>3
  <2> QED BY <2>1
<1>4. ASSUME NEW i \in 1..t PROVE i \in I
  <2>1. i - 1 \in 0..m /\ i - 1 < t
    OBVIOUS
  <2>2. i - 1 \notin free
    BY <1>2, <2>1
  <2>3. (i - 1) + 1 = i
    OBVIOUS
  <2> QED BY <2>1, <2>2, <2>3
<1> QED BY <1>3, <1>4

\* No two records of the lists have one number.
ToldApart(lists) ==
  \A l, k \in DOMAIN lists : \A i \in DOMAIN lists[l], j \in DOMAIN lists[k] :
    lists[l][i].of = lists[k][j].of => l = k /\ i = j

\* How many records of list l are among the first n.
TakenOf(lists, l, n) == Cardinality(Range(SubSeq(RoundRobin(lists), 1, n)) \cap Range(lists[l]))

\* The records of a list that were taken are its first ones.
FirstTaken(lists, l, n) ==
  \E t \in 0..Len(lists[l]) :
    /\ TakenOf(lists, l, n) = t
    /\ \A i \in DOMAIN lists[l] : Place(lists, i, l) <= n <=> i <= t

LEMMA TakenAreFirst ==
  ASSUME NEW D, NEW lists \in Seq(Seq(D)), ToldApart(lists), NEW l \in DOMAIN lists,
         NEW n \in 0..Len(RoundRobin(lists))
  PROVE  FirstTaken(lists, l, n)
<1> DEFINE all == RoundRobin(lists)
           own == lists[l]
           m == Len(own)
           I == {i \in DOMAIN own : Place(lists, i, l) <= n}
           R == Range(SubSeq(all, 1, n)) \cap Range(own)
<1>1. /\ all \in Seq(D)
      /\ \A k \in DOMAIN lists : \A i \in DOMAIN lists[k] :
           Place(lists, i, k) \in 1..Len(all) /\ all[Place(lists, i, k)] = lists[k][i]
      /\ \A x \in 1..Len(all) : \E k \in DOMAIN lists : \E i \in DOMAIN lists[k] :
           x = Place(lists, i, k)
      /\ \A i, j \in DOMAIN own : i <= j => Place(lists, i, l) <= Place(lists, j, l)
  BY TakenInTurn DEF InTurn
<1>2. own \in Seq(D) /\ m \in Nat /\ DOMAIN own = 1..m
  OBVIOUS
<1>3. n \in 0..Len(all) /\ Len(all) \in Nat
  BY <1>1
<1>4. \A i \in DOMAIN own : i \in I <=> Place(lists, i, l) <= n
  OBVIOUS
<1>5. I \subseteq 1..m
  BY <1>2
<1> HIDE DEF all, own, m, I
<1>6. \A j \in I : \A i \in 1..m : i <= j => i \in I
  <2> SUFFICES ASSUME NEW j \in I, NEW i \in 1..m, i <= j PROVE i \in I
    OBVIOUS
  <2>1. i \in DOMAIN own /\ j \in DOMAIN own /\ Place(lists, j, l) <= n
    BY <1>2, <1>4, <1>5
  <2>2. Place(lists, i, l) <= Place(lists, j, l)
    BY <1>1, <2>1
  <2>3. Place(lists, i, l) \in Int /\ Place(lists, j, l) \in Int /\ n \in Int
    BY <1>1, <1>3, <2>1 DEF own
  <2> QED BY <1>4, <2>1, <2>2, <2>3
<1>7. PICK t \in 0..m : I = 1..t
  BY <1>2, <1>5, <1>6, NoGaps
<1>8. \A i \in DOMAIN own : Place(lists, i, l) <= n <=> i <= t
  BY <1>2, <1>4, <1>7
<1>9. R = {own[i] : i \in 1..t}
  <2>1. ASSUME NEW c \in R PROVE \E i \in 1..t : c = own[i]
    <3>1. SubSeq(all, 1, n) = [x \in 1..n |-> all[x]]
      BY <1>1, <1>3
    <3>2. PICK x \in 1..n : c = all[x]
      BY <3>1 DEF Range
    <3>3. x \in 1..Len(all)
      BY <1>3
    <3>4. PICK k \in DOMAIN lists : \E i \in DOMAIN lists[k] : x = Place(lists, i, k)
      BY <1>1, <3>3
    <3>5. PICK i \in DOMAIN lists[k] : x = Place(lists, i, k)
      BY <3>4
    <3>6. c = lists[k][i]
      BY <1>1, <3>2, <3>5
    <3>7. PICK j \in DOMAIN own : c = own[j]
      BY DEF Range
    <3>8. lists[l][j].of = lists[k][i].of /\ j \in DOMAIN lists[l]
      BY <3>6, <3>7 DEF own
    <3>9. l = k /\ j = i
      BY <3>8 DEF ToldApart
    <3>10. Place(lists, j, l) <= n
      BY <3>2, <3>5, <3>9
    <3> QED BY <1>4, <1>7, <3>7, <3>10
  <2>2. ASSUME NEW i \in 1..t PROVE own[i] \in R
    <3>1. i \in DOMAIN own /\ Place(lists, i, l) <= n
      BY <1>2, <1>7, <1>8, SMTT(40)
    <3>2. Place(lists, i, l) \in 1..Len(all) /\ all[Place(lists, i, l)] = own[i]
      BY <1>1, <3>1 DEF own
    <3>3. SubSeq(all, 1, n) = [x \in 1..n |-> all[x]]
      BY <1>1, <1>3
    <3>4. Place(lists, i, l) \in 1..n
      BY <1>3, <3>1, <3>2
    <3> QED BY <3>1, <3>2, <3>3, <3>4 DEF Range
  <2> QED BY <2>1, <2>2
<1>10. \A i, j \in 1..t : own[i] = own[j] => i = j
  <2>1. \A i \in 1..t : i \in DOMAIN own
    BY <1>2, <1>7
  <2> QED BY <2>1 DEF own, ToldApart
<1> HIDE DEF R
<1>11. Cardinality(R) = t
  <2> DEFINE f == [i \in 1..t |-> own[i]]
  <2>1. DOMAIN f = 1..t /\ \A i \in 1..t : f[i] = own[i]
    OBVIOUS
  <2>2. f \in [1..t -> R] /\ \A c \in R : \E i \in 1..t : f[i] = c
    BY <1>9
  <2> HIDE DEF f
  <2>3. f \in Injection(1..t, R)
    BY <1>10, <2>1, <2>2 DEF Injection, IsInjective
  <2>4. f \in Surjection(1..t, R)
    BY <2>2 DEF Surjection
  <2>5. ExistsBijection(1..t, R)
    BY <2>3, <2>4 DEF Bijection, ExistsBijection
  <2>6. t \in Int /\ 1 \in Int /\ t \in Nat
    BY <1>2, <1>7
  <2>7. IsFiniteSet(1..t) /\ Cardinality(1..t) = t
    BY <2>6, FS_Interval
  <2> QED BY <2>5, <2>7, FS_Bijection
<1> QED BY <1>7, <1>8, <1>11 DEF FirstTaken, TakenOf, R, all, own, m

\* A list that still has records is at most one behind any other.
LEMMA CapIsShared ==
  ASSUME NEW D, NEW lists \in Seq(Seq(D)), ToldApart(lists)
  PROVE  SharesTheCap(lists)
<1> SUFFICES ASSUME NEW n \in 0..Len(RoundRobin(lists)), NEW l \in DOMAIN lists,
                    NEW k \in DOMAIN lists, TakenOf(lists, l, n) < Len(lists[l])
             PROVE  TakenOf(lists, k, n) <= TakenOf(lists, l, n) + 1
  BY DEF SharesTheCap, TakenOf
<1>1. PICK t \in 0..Len(lists[l]) :
        /\ TakenOf(lists, l, n) = t
        /\ \A i \in DOMAIN lists[l] : Place(lists, i, l) <= n <=> i <= t
  BY TakenAreFirst DEF FirstTaken
<1>2. PICK u \in 0..Len(lists[k]) :
        /\ TakenOf(lists, k, n) = u
        /\ \A i \in DOMAIN lists[k] : Place(lists, i, k) <= n <=> i <= u
  BY TakenAreFirst DEF FirstTaken
<1>3. /\ lists[l] \in Seq(D) /\ lists[k] \in Seq(D)
      /\ DOMAIN lists[l] = 1..Len(lists[l]) /\ DOMAIN lists[k] = 1..Len(lists[k])
      /\ Len(lists[l]) \in Nat /\ Len(lists[k]) \in Nat
  OBVIOUS
<1> SUFFICES ASSUME u > t + 1 PROVE FALSE
  BY <1>1, <1>2, <1>3
<1>4. t + 1 \in DOMAIN lists[l] /\ u \in DOMAIN lists[k] /\ t + 1 < u
  BY <1>1, <1>2, <1>3
<1>5. /\ RoundRobin(lists) \in Seq(D)
      /\ Place(lists, t + 1, l) \in 1..Len(RoundRobin(lists))
      /\ Place(lists, u, k) \in 1..Len(RoundRobin(lists))
      /\ Place(lists, t + 1, l) <= Place(lists, u, k)
  BY <1>4, TakenInTurn DEF InTurn
<1>6. Place(lists, u, k) <= n
  BY <1>2, <1>4
<1>7. n \in Int /\ Place(lists, t + 1, l) \in Int /\ Place(lists, u, k) \in Int
  BY <1>5
<1>8. Place(lists, t + 1, l) <= n
  BY <1>5, <1>6, <1>7
<1> QED BY <1>1, <1>4, <1>8

\* The chunks that are asked about begin before the last record that is.
LEMMA ChunkEnds ==
  ASSUME NEW judged \in Nat, NEW b \in Nat \ {0}
  PROVE  LET chunks == (judged + b - 1) \div b
         IN /\ chunks \in Nat /\ judged <= chunks * b
            /\ \A k \in 1..chunks : /\ (k - 1) * b \in Nat /\ k * b = (k - 1) * b + b
                                    /\ (k - 1) * b < judged
<1> DEFINE chunks == (judged + b - 1) \div b
<1>1. chunks \in Nat /\ chunks * b <= judged + b - 1 /\ judged <= chunks * b
  OBVIOUS
<1> HIDE DEF chunks
<1>2. ASSUME NEW k \in 1..chunks
      PROVE  (k - 1) * b \in Nat /\ k * b = (k - 1) * b + b /\ (k - 1) * b < judged
  <2>1. PICK d \in Nat : chunks = k + d
    <3>1. chunks - k \in Nat /\ chunks = k + (chunks - k)
      BY <1>1
    <3> QED BY <3>1
  <2>2. (k - 1) \in Nat /\ (k - 1) * b \in Nat
    BY <1>1
  <2>3. d * b \in Nat
    OBVIOUS
  <2>4. chunks * b = (k - 1) * b + b + d * b
    BY <1>1, <2>1
  <2>5. k * b = (k - 1) * b + b
    BY <1>1
  <2>6. (k - 1) * b + b + d * b <= judged + b - 1
    BY <1>1, <2>4
  <2> DEFINE x == (k - 1) * b
             y == d * b
  <2> HIDE DEF x, y
  <2>7. x \in Nat /\ y \in Nat /\ x + b + y <= judged + b - 1
    BY <2>2, <2>3, <2>6 DEF x, y
  <2>8. x < judged
    BY <2>7
  <2> QED BY <2>2, <2>5, <2>8 DEF x
<1> QED BY <1>1, <1>2 DEF chunks

\* One list behind another.
LEMMA Concatenated ==
  ASSUME NEW D, NEW s \in Seq(D), NEW t \in Seq(D)
  PROVE  /\ s \o t \in Seq(D) /\ Len(s \o t) = Len(s) + Len(t)
         /\ \A j \in 1..Len(s) : (s \o t)[j] = s[j]
         /\ \A j \in 1..Len(t) : (s \o t)[Len(s) + j] = t[j]
  OBVIOUS

\* What is heard of the records, chunk by chunk.
ChunkOf(cs, judged, k) == SubSeq(cs, (k - 1) * Batch + 1, Min({k * Batch, judged}))

After(cs, replies, judged, k, heard) ==
  heard \o RelevanceBatch(ChunkOf(cs, judged, k), replies[k])

HeardOf(cs, replies, judged, chunks) ==
  {heard \in [0..chunks -> Seq(BOOLEAN)] :
     /\ heard[0] = <<>>
     /\ \A k \in 1..chunks : heard[k] = After(cs, replies, judged, k, heard[k-1])
     /\ CheckRelevance(cs, replies) =
          [i \in DOMAIN cs |-> i > Len(heard[chunks]) \/ heard[chunks][i]]}

\* A reply has nothing against the i-th record of its chunk.
Passes(reply, i) == reply = None \/ i > Len(reply) \/ reply[i] = "true"

LEMMA ChunkTyped ==
  ASSUME NEW D, NEW cs \in Seq(D), NEW reply,
         NEW judged \in 0..Len(cs), NEW a \in Nat, a < judged
  PROVE  LET b == Min({a + Batch, judged})
             chunk == SubSeq(cs, a + 1, b)
             verdicts == RelevanceBatch(chunk, reply)
         IN /\ b \in a..judged /\ (b = a + Batch \/ b = judged) /\ b <= a + Batch
            /\ verdicts \in Seq(BOOLEAN) /\ Len(verdicts) = b - a
            /\ \A i \in 1..(b - a) : verdicts[i] <=> Passes(reply, i)
<1> DEFINE b == Min({a + Batch, judged})
           chunk == SubSeq(cs, a + 1, b)
           verdicts == RelevanceBatch(chunk, reply)
<1>1. Batch \in Nat \ {0} /\ judged \in Nat /\ judged <= Len(cs) /\ Len(cs) \in Nat
  BY NamesAssumption
<1>2. a + Batch \in Int /\ judged \in Int
  BY <1>1
<1>3. b = IF a + Batch <= judged THEN a + Batch ELSE judged
  BY <1>2, MinOfTwo
<1>4. b \in a..judged /\ (b = a + Batch \/ b = judged) /\ b <= a + Batch
  BY <1>1, <1>3
<1> HIDE DEF b
<1>5. /\ Len(chunk) = b - a /\ DOMAIN chunk = 1..(b - a) /\ b - a \in Nat
      /\ \A i \in 1..(b - a) : chunk[i] = cs[a + i] /\ a + i \in 1..Len(cs)
  <2>1. a + 1 \in Int /\ b \in Int /\ a + 1 >= 1 /\ b <= Len(cs) /\ a + 1 <= b + 1
    BY <1>1, <1>4
  <2>2. chunk = [i \in 1..(b - (a + 1) + 1) |-> cs[(a + 1) + i - 1]]
    BY <2>1
  <2>3. b - (a + 1) + 1 = b - a /\ b - a \in Nat
    BY <1>4, <2>1
  <2>4. \A i \in 1..(b - a) : (a + 1) + i - 1 = a + i /\ a + i \in 1..Len(cs)
    BY <1>1, <1>4
  <2>5. chunk = [i \in 1..(b - a) |-> cs[a + i]]
    BY <2>2, <2>3, <2>4
  <2> HIDE DEF chunk
  <2> QED BY <2>3, <2>4, <2>5
<1> HIDE DEF chunk
<1>7. verdicts = [i \in 1..(b - a) |-> Passes(reply, i)]
  BY <1>5 DEF RelevanceBatch, Passes
<1> HIDE DEF verdicts
<1>8. verdicts \in Seq(BOOLEAN) /\ Len(verdicts) = b - a
  <2>1. \A i \in 1..(b - a) : verdicts[i] \in BOOLEAN
    BY <1>7 DEF Passes
  <2>2. verdicts = [i \in 1..(b - a) |-> verdicts[i]]
    BY <1>7
  <2> QED BY <1>5, <2>1, <2>2
<1>9. \A i \in 1..(b - a) : verdicts[i] <=> Passes(reply, i)
  BY <1>7
<1> QED BY <1>4, <1>8, <1>9 DEF b, chunk, verdicts

LEMMA HeardInTurn ==
  ASSUME NEW D, NEW cs \in Seq(D), NEW replies
  PROVE  LET judged == Min({Len(cs), MaxJudged})
             chunks == (judged + Batch - 1) \div Batch
         IN /\ judged \in 0..Len(cs) /\ chunks \in Nat
            /\ HeardOf(cs, replies, judged, chunks) # {}
<1> DEFINE judged == Min({Len(cs), MaxJudged})
           chunks == (judged + Batch - 1) \div Batch
           D2 == Seq(BOOLEAN)
           next == [k \in 1..chunks |-> [x \in D2 |-> After(cs, replies, judged, k, x)]]
<1>1. judged \in 0..Len(cs)
  <2>1. Len(cs) \in Nat /\ MaxJudged \in Nat
    BY NamesAssumption
  <2>2. judged = IF Len(cs) <= MaxJudged THEN Len(cs) ELSE MaxJudged
    BY <2>1, MinOfTwo
  <2> QED BY <2>1, <2>2
<1>2. /\ chunks \in Nat
      /\ \A k \in 1..chunks : (k - 1) * Batch \in Nat /\ (k - 1) * Batch < judged
                              /\ k * Batch = (k - 1) * Batch + Batch
  <2>1. judged \in Nat /\ Batch \in Nat \ {0}
    BY <1>1, NamesAssumption
  <2> HIDE DEF judged
  <2> QED BY <2>1, ChunkEnds
<1> HIDE DEF judged, chunks
<1>3. ASSUME NEW k \in 1..chunks, NEW x \in D2 PROVE After(cs, replies, judged, k, x) \in D2
  <2> DEFINE a == (k - 1) * Batch
             chunk == SubSeq(cs, a + 1, Min({a + Batch, judged}))
  <2>1. k * Batch = a + Batch /\ a \in Nat /\ a < judged
    BY <1>2
  <2>2. ChunkOf(cs, judged, k) = chunk
    BY <2>1 DEF ChunkOf
  <2> HIDE DEF a
  <2>3. RelevanceBatch(chunk, replies[k]) \in Seq(BOOLEAN)
    BY <1>1, <2>1, ChunkTyped
  <2> HIDE DEF chunk
  <2> QED BY <2>2, <2>3 DEF After
<1>4. <<>> \in D2
  OBVIOUS
<1> HIDE DEF D2
<1>5. /\ next \in Steps(chunks, D2)
      /\ \A k \in 1..chunks, x \in D2 : next[k][x] = After(cs, replies, judged, k, x)
  BY <1>3 DEF Steps
<1> HIDE DEF next
<1>6. PICK run \in Runs(chunks, D2, <<>>, next) : TRUE
  BY <1>2, <1>4, <1>5, Recursion
<1>7. run = [k \in 0..chunks |-> IF k = 0 THEN <<>> ELSE After(cs, replies, judged, k, run[k-1])]
  <2>1. \A k \in 1..chunks : run[k-1] \in D2
    BY <1>2, <1>6 DEF Runs
  <2>2. run \in [0..chunks -> D2] /\ run[0] = <<>>
    BY <1>6 DEF Runs
  <2>3. \A k \in 1..chunks : run[k] = next[k][run[k-1]]
    BY <1>6 DEF Runs
  <2>4. \A k \in 1..chunks : run[k] = After(cs, replies, judged, k, run[k-1])
    BY <1>5, <2>1, <2>3
  <2> QED BY <1>2, <2>2, <2>4
<1> DEFINE heard == CHOOSE f : f = [k \in 0..chunks |->
                      IF k = 0 THEN <<>> ELSE After(cs, replies, judged, k, f[k-1])]
<1>8. heard = [k \in 0..chunks |->
                 IF k = 0 THEN <<>> ELSE After(cs, replies, judged, k, heard[k-1])]
  BY <1>7
<1>9. CheckRelevance(cs, replies) = [i \in DOMAIN cs |-> i > Len(heard[chunks]) \/ heard[chunks][i]]
  BY DEF CheckRelevance, After, ChunkOf, judged, chunks
<1> HIDE DEF heard
<1>10. heard[0] = <<>> /\ \A k \in 1..chunks : heard[k] = After(cs, replies, judged, k, heard[k-1])
  BY <1>2, <1>8
<1>11. Stays(chunks, D2, heard)
  BY <1>3, <1>4, <1>10 DEF Stays
<1>12. \A k \in 0..chunks : heard[k] \in D2
  BY <1>2, <1>11, StaysWithin
<1>13. heard \in [0..chunks -> D2]
  BY <1>8, <1>12
<1>14. heard \in HeardOf(cs, replies, judged, chunks)
  BY <1>9, <1>10, <1>13 DEF HeardOf, D2
<1> QED BY <1>1, <1>2, <1>14 DEF judged, chunks

\* A number has one quotient and one rest.
LEMMA OnePlace ==
  ASSUME NEW b \in Nat \ {0}, NEW k1 \in Nat, NEW k2 \in Nat, NEW q1 \in 1..b, NEW q2 \in 1..b,
         k1 * b + q1 = k2 * b + q2, k1 <= k2
  PROVE  k1 = k2 /\ q1 = q2
<1>1. PICK d \in Nat : k2 = k1 + d
  <2>1. k2 - k1 \in Nat /\ k2 = k1 + (k2 - k1)
    OBVIOUS
  <2> QED BY <2>1
<1>2. k2 * b = k1 * b + d * b /\ k1 * b \in Nat /\ d * b \in Nat
  BY <1>1
<1> DEFINE x == k1 * b
           y == d * b
<1>3. x \in Nat /\ y \in Nat /\ x + q1 = x + y + q2
  BY <1>2
<1>4. ASSUME d # 0 PROVE FALSE
  <2>1. PICK e \in Nat : d = e + 1
    <3>1. d - 1 \in Nat /\ d = (d - 1) + 1
      BY <1>4
    <3> QED BY <3>1
  <2>2. y = e * b + b /\ e * b \in Nat
    BY <2>1
  <2> DEFINE z == e * b
  <2>3. z \in Nat /\ y = z + b
    BY <2>2
  <2> HIDE DEF x, y, z
  <2> QED BY <1>3, <2>3
<1>5. d = 0 /\ y = 0
  BY <1>4
<1> HIDE DEF x, y
<1> QED BY <1>1, <1>3, <1>5

\* The verdict on a record is the one that stands in its own place.
LEMMA PlaceOf ==
  ASSUME NEW replies, NEW k \in Nat, NEW q \in 1..Batch, k * Batch + q <= MaxJudged
  PROVE  Spared(replies, k * Batch + q) <=> Passes(replies[k+1], q)
<1> DEFINE n == k * Batch + q
<1>1. Batch \in Nat \ {0} /\ MaxJudged \in Nat /\ k * Batch \in Nat /\ k <= k * Batch
  <2>1. Batch \in Nat \ {0} /\ MaxJudged \in Nat
    BY NamesAssumption
  <2>2. PICK e \in Nat : Batch = e + 1
    <3>1. Batch - 1 \in Nat /\ Batch = (Batch - 1) + 1
      BY <2>1
    <3> QED BY <3>1
  <2>3. k * e \in Nat /\ k * Batch = k * e + k
    BY <2>2
  <2> QED BY <2>1, <2>3
<1>2. n \in Nat /\ q \in Nat /\ q >= 1 /\ k + 1 \in 1..n /\ q \in 1..n /\ q <= Batch
  BY <1>1
<1>3. (k + 1) - 1 = k
  OBVIOUS
<1>4. n = ((k + 1) - 1) * Batch + q
  BY <1>3
<1>5. ASSUME NEW k1 \in 1..n, NEW q1 \in 1..n, q1 <= Batch, n = (k1 - 1) * Batch + q1
      PROVE  k1 = k + 1 /\ q1 = q
  <2> DEFINE k0 == k1 - 1
  <2>1. k0 \in Nat /\ q1 \in 1..Batch /\ k1 = k0 + 1
    BY <1>1, <1>2, <1>5
  <2>2. k0 * Batch + q1 = k * Batch + q
    BY <1>5
  <2> HIDE DEF k0
  <2>3. k0 = k /\ q1 = q
    <3>1. CASE k0 <= k
      BY <1>1, <2>1, <2>2, <3>1, OnePlace
    <3>2. CASE k <= k0
      BY <1>1, <2>1, <2>2, <3>2, OnePlace
    <3> QED BY <2>1, <3>1, <3>2
  <2> QED BY <2>1, <2>3
<1>6. ~(n > MaxJudged)
  BY <1>1, <1>2
<1>7. Spared(replies, n) <=>
        \E k1, q1 \in 1..n : q1 <= Batch /\ n = (k1 - 1) * Batch + q1 /\ Passes(replies[k1], q1)
  BY <1>6 DEF Spared, Passes
<1> HIDE DEF n
<1>8. Spared(replies, n) <=> Passes(replies[k+1], q)
  BY <1>2, <1>4, <1>5, <1>7
<1> QED BY <1>8 DEF n

\* No verdict is shifted to another record.
LEMMA JudgedInPlace ==
  ASSUME NEW D, NEW cs \in Seq(D), NEW replies, NEW i \in DOMAIN cs
  PROVE  CheckRelevance(cs, replies)[i] <=> Spared(replies, i)
<1> DEFINE judged == Min({Len(cs), MaxJudged})
           chunks == (judged + Batch - 1) \div Batch
<1>1. /\ judged \in 0..Len(cs) /\ chunks \in Nat
      /\ HeardOf(cs, replies, judged, chunks) # {}
  BY HeardInTurn
<1>2. /\ judged <= MaxJudged /\ MaxJudged \in Nat /\ (judged = Len(cs) \/ judged = MaxJudged)
      /\ Batch \in Nat \ {0} /\ judged \in Nat
  BY NamesAssumption, MinOfTwo
<1>3. /\ judged <= chunks * Batch
      /\ \A k \in 1..chunks : (k - 1) * Batch \in Nat /\ (k - 1) * Batch < judged
                              /\ k * Batch = (k - 1) * Batch + Batch
  <2> HIDE DEF judged
  <2> QED BY <1>2, ChunkEnds
<1> HIDE DEF judged, chunks
<1>4. PICK heard \in HeardOf(cs, replies, judged, chunks) : TRUE
  BY <1>1
<1>5. /\ heard \in [0..chunks -> Seq(BOOLEAN)] /\ heard[0] = <<>>
      /\ \A k \in 1..chunks : heard[k] = After(cs, replies, judged, k, heard[k-1])
      /\ CheckRelevance(cs, replies) =
           [j \in DOMAIN cs |-> j > Len(heard[chunks]) \/ heard[chunks][j]]
  BY <1>4 DEF HeardOf
<1> DEFINE Right(k) == /\ Len(heard[k]) <= judged
                       /\ IF k < chunks THEN Len(heard[k]) = k * Batch
                                        ELSE Len(heard[k]) = judged
                       /\ \A j \in 1..Len(heard[k]) : heard[k][j] <=> Spared(replies, j)
           T == {k \in 0..chunks : Right(k)}
<1>6. 0 \in T
  <2>1. Len(heard[0]) = 0 /\ 0 * Batch = 0 /\ 0 <= judged /\ 0 \in 0..chunks
    BY <1>1, <1>2, <1>5
  <2>2. \A j \in 1..Len(heard[0]) : heard[0][j] <=> Spared(replies, j)
    BY <2>1
  <2>3. chunks = 0 => judged = 0
    BY <1>2, <1>3
  <2>4. Right(0)
    BY <1>1, <2>1, <2>2, <2>3
  <2> QED BY <2>1, <2>4
<1>7. ASSUME NEW k \in 0..(chunks-1), k \in T PROVE k + 1 \in T
  <2> DEFINE a == k * Batch
             b == Min({a + Batch, judged})
             told == RelevanceBatch(SubSeq(cs, a + 1, b), replies[k+1])
             old == heard[k]
  <2>1. k + 1 \in 1..chunks /\ (k + 1) - 1 = k /\ k \in 0..chunks /\ k < chunks /\ k \in Nat
    BY <1>1
  <2>2. a \in Nat /\ a < judged /\ (k + 1) * Batch = a + Batch
    BY <1>3, <2>1
  <2>3. heard[k+1] = old \o told
    BY <1>5, <2>1, <2>2 DEF After, ChunkOf
  <2>4. old \in Seq(BOOLEAN) /\ Len(old) = a /\ \A j \in 1..a : old[j] <=> Spared(replies, j)
    BY <1>1, <1>5, <1>7, <2>1
  <2>5. \A q \in 1..Batch : a + q <= MaxJudged => (Spared(replies, a + q) <=> Passes(replies[k+1], q))
    BY <2>1, PlaceOf
  <2> HIDE DEF a, old
  <2>6. /\ b \in a..judged /\ (b = a + Batch \/ b = judged) /\ b <= a + Batch
        /\ told \in Seq(BOOLEAN) /\ Len(told) = b - a
        /\ \A j \in 1..(b - a) : told[j] <=> Passes(replies[k+1], j)
    BY <1>1, <2>2, ChunkTyped
  <2> HIDE DEF b, told
  <2>7. heard[k+1] \in Seq(BOOLEAN) /\ Len(heard[k+1]) = b
    <3>1. old \o told \in Seq(BOOLEAN) /\ Len(old \o told) = Len(old) + Len(told)
      BY <2>4, <2>6, Concatenated
    <3>2. Len(old) = a /\ Len(told) = b - a
      BY <2>4, <2>6
    <3>3. a + (b - a) = b
      BY <1>1, <2>2, <2>6
    <3> QED BY <2>3, <3>1, <3>2, <3>3
  <2>8. ASSUME NEW j \in 1..b PROVE heard[k+1][j] <=> Spared(replies, j)
    <3>1. CASE j <= a
      <4>1. heard[k+1][j] = old[j] /\ j \in 1..a
        BY <2>2, <2>3, <2>4, <2>6, <3>1
      <4> QED BY <2>4, <4>1
    <3>2. CASE j > a
      <4> DEFINE q == j - a
      <4>1. q \in 1..(b - a) /\ a + q = j /\ q \in 1..Batch /\ a + q <= MaxJudged
        BY <1>1, <1>2, <2>2, <2>6, <3>2
      <4> HIDE DEF q
      <4>2. q \in 1..Len(told) /\ Len(old) + q = j
        BY <2>4, <2>6, <4>1
      <4>3. \A i0 \in 1..Len(told) : (old \o told)[Len(old) + i0] = told[i0]
        BY <2>4, <2>6, Concatenated
      <4>6. (old \o told)[j] = told[q]
        BY <4>2, <4>3
      <4>4. told[q] <=> Passes(replies[k+1], q)
        BY <2>6, <4>1
      <4>5. Spared(replies, j) <=> Passes(replies[k+1], q)
        BY <2>5, <4>1
      <4> QED BY <2>3, <4>4, <4>5, <4>6
    <3> QED BY <1>1, <2>2, <2>6, <3>1, <3>2
  <2>9. b <= judged
    BY <1>1, <2>2, <2>6
  <2>10. ASSUME k + 1 < chunks PROVE b = (k + 1) * Batch
    <3>1. k + 2 \in 1..chunks /\ (k + 2) - 1 = k + 1
      BY <1>1, <2>10
    <3>2. (k + 1) * Batch < judged
      BY <1>3, <3>1
    <3>3. a + Batch < judged
      BY <2>2, <3>2
    <3>4. b # judged
      BY <1>1, <1>2, <2>2, <2>6, <3>3
    <3> QED BY <2>2, <2>6, <3>4
  <2>11. ASSUME k + 1 = chunks PROVE b = judged
    <3>1. judged <= a + Batch
      BY <1>3, <2>2, <2>11
    <3> QED BY <1>2, <2>2, <2>6, <3>1
  <2>12. Right(k + 1)
    <3>1. IF k + 1 < chunks THEN Len(heard[k+1]) = (k + 1) * Batch ELSE Len(heard[k+1]) = judged
      <4>1. k + 1 < chunks \/ k + 1 = chunks
        BY <1>1, <2>1
      <4> QED BY <2>7, <2>10, <2>11, <4>1
    <3>2. Len(heard[k+1]) <= judged /\ \A j \in 1..Len(heard[k+1]) : heard[k+1][j] <=> Spared(replies, j)
      BY <2>7, <2>8, <2>9
    <3> QED BY <3>1, <3>2
  <2> QED BY <2>1, <2>12
<1> HIDE DEF T
<1>8. 0..chunks \subseteq T
  BY <1>1, <1>6, <1>7, UpTo
<1>9. chunks \in T
  BY <1>1, <1>8
<1>10. Len(heard[chunks]) = judged /\ \A j \in 1..judged : heard[chunks][j] <=> Spared(replies, j)
  BY <1>1, <1>9 DEF T
<1>11. CheckRelevance(cs, replies)[i] <=> i > judged \/ heard[chunks][i]
  BY <1>5, <1>10
<1>12. i \in Nat /\ i >= 1 /\ i <= Len(cs) /\ Len(cs) \in Nat
  OBVIOUS
<1>13. CASE i <= judged
  <2>1. i \in 1..judged /\ ~(i > judged)
    BY <1>2, <1>12, <1>13
  <2> QED BY <1>10, <1>11, <2>1
<1>14. CASE i > judged
  <2>1. i > MaxJudged
    BY <1>2, <1>12, <1>14
  <2> QED BY <1>11, <1>14, <2>1 DEF Spared
<1> QED BY <1>2, <1>12, <1>13, <1>14

\* A filter that keeps the elements at the positions in I.
KeepsAt(D, cs, I, kept) ==
  /\ kept \in Seq(D) /\ Len(kept) <= Len(cs)
  /\ \A i \in I : cs[i] \in Range(kept)

LEMMA FilterKeeps ==
  ASSUME NEW D, NEW cs \in Seq(D), NEW I, I \subseteq DOMAIN cs
  PROVE  KeepsAt(D, cs, I, At(cs, I))
<1>1. /\ At(cs, I) \in Seq(D) /\ Len(At(cs, I)) = Cardinality(I) /\ Cardinality(I) <= Len(cs)
      /\ \A i \in I : \E n \in DOMAIN At(cs, I) : At(cs, I)[n] = cs[i]
  BY Kept
<1> QED BY <1>1 DEF KeepsAt, Range

\* What a filter keeps that drops none of the records in good.
KeepsGood(D, cs, good, kept) ==
  /\ kept \in Seq(D) /\ Len(kept) <= Len(cs)
  /\ \A c \in Range(cs) : c \in good => c \in Range(kept)

LEMMA AreaKeeps ==
  ASSUME NEW D, NEW cs \in Seq(D), NEW req
  PROVE  /\ KeepsGood(D, cs, {c \in D : InArea(req, c)}, AreaFilter(req, cs).kept)
         /\ AreaFilter(req, cs).dropped = Len(cs) - Len(AreaFilter(req, cs).kept)
<1> DEFINE inside == {i \in DOMAIN cs : InArea(req, cs[i])}
           good == {c \in D : InArea(req, c)}
           out == ~req.areas \/ (~req.fences /\ req.sectors = {}) \/ inside = {}
<1>1. AreaFilter(req, cs) = IF out THEN [kept |-> cs, dropped |-> 0]
                            ELSE [kept |-> At(cs, inside), dropped |-> Len(cs) - Len(At(cs, inside))]
  BY DEF AreaFilter
<1>2. inside \subseteq DOMAIN cs /\ \A i \in DOMAIN cs : cs[i] \in good => i \in inside
  OBVIOUS
<1> HIDE DEF out, inside, good
<1>3. KeepsAt(D, cs, inside, At(cs, inside))
  BY <1>2, FilterKeeps
<1>4. KeepsGood(D, cs, good, At(cs, inside))
  BY <1>2, <1>3 DEF KeepsAt, KeepsGood, Range
<1>5. KeepsGood(D, cs, good, cs) /\ Len(cs) - Len(cs) = 0
  BY DEF KeepsGood
<1>6. CASE out
  <2>1. AreaFilter(req, cs).kept = cs /\ AreaFilter(req, cs).dropped = 0
    BY <1>1, <1>6
  <2> QED BY <1>5, <2>1 DEF good
<1>7. CASE ~out
  <2>1. /\ AreaFilter(req, cs).kept = At(cs, inside)
        /\ AreaFilter(req, cs).dropped = Len(cs) - Len(At(cs, inside))
    BY <1>1, <1>7
  <2> QED BY <1>4, <2>1 DEF good
<1> QED BY <1>6, <1>7

\* Records of their own numbers.
Named(D) == D \subseteq Found /\ \A c, d \in D : c.of = d.of => c = d

\* What the check of the types keeps of cs, having asked about some of it.
TypeKept(D, replies, asked, cs, kept) ==
  /\ kept \in Seq(D) /\ Len(kept) <= Len(cs)
  /\ \A c \in Range(cs) :
       \/ c \in Range(kept)
       \/ \E n \in DOMAIN asked : asked[n] = c /\ ~Spared(replies, n)
  /\ \A n \in DOMAIN asked : Spared(replies, n) \/ asked[n] \notin Range(kept)

LEMMA TypeKeeps ==
  ASSUME NEW D, Named(D), NEW cs \in Seq(D), NEW req
  PROVE  TypeKept(D, req.replies, Asked(req, cs), cs, OnType(req, cs))
<1> DEFINE others == {i \in DOMAIN cs : req.typed /\ cs[i].source \notin Targeted}
           asked == Asked(req, cs)
           replies == req.replies
           verdicts == CheckRelevance(asked, replies)
           rejected == {asked[i].of : i \in {j \in DOMAIN asked : ~verdicts[j]}}
           I == {i \in DOMAIN cs : cs[i].of \notin rejected}
           kept == At(cs, I)
<1>1. OnType(req, cs) = kept
  BY DEF OnType
<1>2. I \subseteq DOMAIN cs /\ others \subseteq DOMAIN cs
  OBVIOUS
<1>3. /\ \A i \in DOMAIN cs : i \notin I =>
           \E j \in DOMAIN asked : ~verdicts[j] /\ asked[j].of = cs[i].of
      /\ \A j \in DOMAIN asked : ~verdicts[j] => \A i \in I : cs[i].of # asked[j].of
  OBVIOUS
<1>4. asked \in Seq(D)
  BY <1>2, FilterKeeps DEF KeepsAt, Asked
<1> HIDE DEF I, others, asked, rejected, replies
<1>5. \A j \in DOMAIN asked : verdicts[j] <=> Spared(replies, j)
  BY <1>4, JudgedInPlace
<1> HIDE DEF verdicts
<1>6. /\ kept \in Seq(D) /\ Len(kept) <= Len(cs)
      /\ \A i \in I : cs[i] \in Range(kept)
      /\ \A n \in DOMAIN kept : \E i \in I : kept[n] = cs[i]
  BY <1>2, Kept, FilterKeeps DEF KeepsAt
<1> HIDE DEF kept
<1>7. ASSUME NEW i \in DOMAIN cs, cs[i] \notin Range(kept)
      PROVE  \E n \in DOMAIN asked : asked[n] = cs[i] /\ ~Spared(replies, n)
  <2>1. PICK j \in DOMAIN asked : ~verdicts[j] /\ asked[j].of = cs[i].of
    BY <1>3, <1>6, <1>7
  <2>2. asked[j] \in D /\ cs[i] \in D
    BY <1>4
  <2>3. asked[j] = cs[i]
    BY <2>1, <2>2 DEF Named
  <2> QED BY <1>5, <2>1, <2>3
<1>8. \A c \in Range(cs) :
        c \in Range(kept) \/ \E n \in DOMAIN asked : asked[n] = c /\ ~Spared(replies, n)
  BY <1>7 DEF Range
<1>9. ASSUME NEW n \in DOMAIN asked, ~Spared(replies, n), asked[n] \in Range(kept) PROVE FALSE
  <2>1. PICK m \in DOMAIN kept : kept[m] = asked[n]
    BY <1>9 DEF Range
  <2>2. PICK i \in I : kept[m] = cs[i]
    BY <1>6
  <2>3. cs[i].of # asked[n].of
    BY <1>3, <1>5, <1>9
  <2> QED BY <2>1, <2>2, <2>3
<1>10. TypeKept(D, replies, asked, cs, kept)
  BY <1>6, <1>8, <1>9 DEF TypeKept
<1> QED BY <1>1, <1>10 DEF asked, replies

\* A filter on a condition of the record itself.
LEMMA ConditionKeeps ==
  ASSUME NEW D, NEW cs \in Seq(D), NEW I, I \subseteq DOMAIN cs, NEW good,
         \A i \in DOMAIN cs : cs[i] \in good => i \in I
  PROVE  KeepsGood(D, cs, good, At(cs, I))
<1>1. KeepsAt(D, cs, I, At(cs, I))
  BY FilterKeeps
<1> QED BY <1>1 DEF KeepsAt, KeepsGood, Range

\* The statistics of a run and what it keeps.
Accounted(req, lists, got) ==
  /\ got.discovered = Len(got.kept) + got.chains_excluded + got.area_dropped
                        + got.relevance_dropped + got.demoted
  /\ \A l \in DOMAIN lists : \A i \in DOMAIN lists[l] :
       LET c == lists[l][i]
       IN ~c.brand /\ InArea(req, c) /\ Relevant(req, c) =>
            \/ c \in Range(got.kept)
            \/ \E n \in DOMAIN got.asked : got.asked[n] = c /\ ~Spared(req.replies, n)
  /\ \A n \in DOMAIN got.asked : Spared(req.replies, n) \/ got.asked[n] \notin Range(got.kept)
  /\ SharesTheCap(lists)

LEMMA FunnelAccounted ==
  ASSUME NEW D, Named(D), NEW lists \in Seq(Seq(D)), ToldApart(lists), NEW req
  PROVE  Accounted(req, lists, Funnel(req, lists))
<1> DEFINE found == RoundRobin(lists)
           unbranded == {i \in DOMAIN found : ~req.exclude_chains \/ ~found[i].brand}
           chained == At(found, unbranded)
           area == AreaFilter(req, chained)
           fitting == {i \in DOMAIN area.kept : Relevant(req, area.kept[i])}
           relevant == At(area.kept, fitting)
           typed == OnType(req, relevant)
           asked == Asked(req, relevant)
           got == Funnel(req, lists)
<1>1. got = [discovered |-> Len(found), kept |-> typed, asked |-> asked,
             chains_excluded |-> Len(found) - Len(chained),
             area_dropped |-> area.dropped,
             relevance_dropped |-> Len(area.kept) - Len(relevant),
             demoted |-> Len(relevant) - Len(typed)]
  BY DEF Funnel
<1>2. InTurn(D, lists, found)
  BY TakenInTurn
<1>3. \A l \in DOMAIN lists : \A i \in DOMAIN lists[l] : lists[l][i] \in D /\ lists[l][i] \in Range(found)
  <2> SUFFICES ASSUME NEW l \in DOMAIN lists, NEW i \in DOMAIN lists[l]
               PROVE  lists[l][i] \in D /\ lists[l][i] \in Range(found)
    OBVIOUS
  <2>1. lists[l][i] \in D
    OBVIOUS
  <2>2. found \in Seq(D) /\ Place(lists, i, l) \in 1..Len(found) /\ found[Place(lists, i, l)] = lists[l][i]
    BY <1>2 DEF InTurn
  <2> HIDE DEF found
  <2> QED BY <2>1, <2>2 DEF Range
<1>4. found \in Seq(D)
  BY <1>2 DEF InTurn
<1> HIDE DEF got, found
<1> DEFINE G1 == {c \in D : ~c.brand}
           G2 == {c \in D : InArea(req, c)}
           G3 == {c \in D : Relevant(req, c)}
<1>5. KeepsGood(D, found, G1, chained)
  <2>1. unbranded \subseteq DOMAIN found /\ \A i \in DOMAIN found : found[i] \in G1 => i \in unbranded
    OBVIOUS
  <2> HIDE DEF unbranded, G1
  <2> QED BY <1>4, <2>1, ConditionKeeps
<1>6. chained \in Seq(D)
  BY <1>5 DEF KeepsGood
<1> HIDE DEF chained
<1>7. KeepsGood(D, chained, G2, area.kept) /\ area.dropped = Len(chained) - Len(area.kept)
  BY <1>6, AreaKeeps
<1>8. area.kept \in Seq(D)
  BY <1>7 DEF KeepsGood
<1> HIDE DEF area
<1>9. KeepsGood(D, area.kept, G3, relevant)
  <2>1. fitting \subseteq DOMAIN area.kept
        /\ \A i \in DOMAIN area.kept : area.kept[i] \in G3 => i \in fitting
    OBVIOUS
  <2> HIDE DEF fitting, G3
  <2> QED BY <1>8, <2>1, ConditionKeeps
<1>10. relevant \in Seq(D)
  BY <1>9 DEF KeepsGood
<1> HIDE DEF relevant
<1>11. TypeKept(D, req.replies, asked, relevant, typed)
  BY <1>10, TypeKeeps
<1>12. typed \in Seq(D)
  BY <1>11 DEF TypeKept
<1> HIDE DEF typed, asked
<1>13. got.discovered = Len(got.kept) + got.chains_excluded + got.area_dropped
                          + got.relevance_dropped + got.demoted
  <2> DEFINE a == Len(found)
             b == Len(chained)
             c == Len(area.kept)
             d == Len(relevant)
             e == Len(typed)
  <2>1. a \in Nat /\ b \in Nat /\ c \in Nat /\ d \in Nat /\ e \in Nat
    BY <1>4, <1>6, <1>8, <1>10, <1>12
  <2>2. /\ got.discovered = a /\ Len(got.kept) = e /\ got.chains_excluded = a - b
        /\ got.area_dropped = b - c /\ got.relevance_dropped = c - d /\ got.demoted = d - e
    BY <1>1, <1>7
  <2> HIDE DEF a, b, c, d, e
  <2> QED BY <2>1, <2>2
<1>14. ASSUME NEW c \in D, c \in Range(found), ~c.brand, InArea(req, c), Relevant(req, c)
       PROVE  \/ c \in Range(got.kept)
              \/ \E n \in DOMAIN got.asked : got.asked[n] = c /\ ~Spared(req.replies, n)
  <2>1. c \in G1 /\ c \in G2 /\ c \in G3
    BY <1>14
  <2> HIDE DEF G1, G2, G3
  <2>2. c \in Range(chained)
    BY <1>5, <1>14, <2>1 DEF KeepsGood
  <2>3. c \in Range(area.kept)
    BY <1>7, <2>1, <2>2 DEF KeepsGood
  <2>4. c \in Range(relevant)
    BY <1>9, <2>1, <2>3 DEF KeepsGood
  <2>5. c \in Range(typed) \/ \E n \in DOMAIN asked : asked[n] = c /\ ~Spared(req.replies, n)
    BY <1>11, <2>4 DEF TypeKept
  <2> QED BY <1>1, <2>5
<1>15. SharesTheCap(lists)
  BY CapIsShared
<1>16. \A n \in DOMAIN got.asked : Spared(req.replies, n) \/ got.asked[n] \notin Range(got.kept)
  BY <1>1, <1>11 DEF TypeKept
<1>17. Accounted(req, lists, got)
  BY <1>3, <1>13, <1>14, <1>15, <1>16 DEF Accounted
<1> QED BY <1>17 DEF got

\* What the lists hold are records of their own numbers.
LEMMA OwnNumbers ==
  ASSUME NEW lists \in Seq(Seq(Found)), ToldApart(lists)
  PROVE  LET D == UNION {Range(lists[l]) : l \in DOMAIN lists}
         IN Named(D) /\ lists \in Seq(Seq(D))
<1> DEFINE D == UNION {Range(lists[l]) : l \in DOMAIN lists}
<1>1. \A c : c \in D <=> \E l \in DOMAIN lists : \E i \in DOMAIN lists[l] : c = lists[l][i]
  BY DEF Range
<1> HIDE DEF D
<1>2. \A l \in DOMAIN lists : lists[l] \in Seq(Found) /\ \A i \in DOMAIN lists[l] : lists[l][i] \in Found
  OBVIOUS
<1>3. Named(D)
  BY <1>1, <1>2 DEF Named, ToldApart
<1>4. \A l \in DOMAIN lists : lists[l] \in Seq(D)
  BY <1>1, <1>2
<1>5. lists \in Seq(Seq(D))
  BY <1>4
<1> QED BY <1>3, <1>5 DEF D

\* Records that are numbered from first on.
Counted(s, first, size) ==
  s \in Seq(Found) /\ Len(s) = size /\ \A i \in 1..size : s[i].of = {first + i}

LEMMA PartCounted ==
  ASSUME NEW all \in Seq(Finds), NEW first \in Nat, NEW size \in Nat, first + size <= Len(all)
  PROVE  Counted(SubSeq(Numbered(all), first + 1, first + size), first, size)
<1> DEFINE numbered == Numbered(all)
           part == SubSeq(numbered, first + 1, first + size)
<1>1. Len(all) \in Nat /\ DOMAIN all = 1..Len(all) /\ \A i \in DOMAIN all : all[i] \in Found
  BY QuestionsAssumption
<1>2. \A i \in 1..Len(all) : [all[i] EXCEPT !.of = {i}] \in Found
                             /\ [all[i] EXCEPT !.of = {i}].of = {i}
  <2> SUFFICES ASSUME NEW i \in 1..Len(all), NEW c, c = all[i]
               PROVE  [c EXCEPT !.of = {i}] \in Found /\ [c EXCEPT !.of = {i}].of = {i}
    OBVIOUS
  <2>1. c \in Found /\ {i} \in SUBSET Nat
    BY <1>1
  <2> QED BY <2>1 DEF Found
<1>3. numbered = [i \in 1..Len(all) |-> [all[i] EXCEPT !.of = {i}]]
  BY <1>1 DEF Numbered
<1>4. numbered \in Seq(Found) /\ Len(numbered) = Len(all)
      /\ \A i \in 1..Len(all) : numbered[i].of = {i}
  <2> HIDE DEF numbered
  <2>1. \A i \in 1..Len(all) : numbered[i] = [all[i] EXCEPT !.of = {i}]
    BY <1>3
  <2>2. \A i \in 1..Len(all) : numbered[i] \in Found /\ numbered[i].of = {i}
    BY <1>2, <2>1
  <2>3. numbered = [i \in 1..Len(all) |-> numbered[i]]
    BY <1>3
  <2> QED BY <1>1, <2>2, <2>3
<1> HIDE DEF numbered
<1>5. part = [i \in 1..size |-> numbered[first + i]]
  <2>1. part = [i \in 1..((first + size) - (first + 1) + 1) |-> numbered[(first + 1) + i - 1]]
    BY <1>1, <1>4
  <2>2. (first + size) - (first + 1) + 1 = size /\ \A i \in 1..size : (first + 1) + i - 1 = first + i
    OBVIOUS
  <2> QED BY <2>1, <2>2
<1>6. \A i \in 1..size : first + i \in 1..Len(all)
  BY <1>1
<1> HIDE DEF part
<1>7. part \in Seq(Found) /\ Len(part) = size /\ \A i \in 1..size : part[i].of = {first + i}
  BY <1>4, <1>5, <1>6
<1> QED BY <1>7 DEF Counted, part, numbered

\* Three lists, or two, one numbered behind the other.
LEMMA CountedApart ==
  ASSUME NEW n \in Nat, NEW m \in Nat, NEW a, NEW b, NEW w,
         Counted(a, 0, n), Counted(b, n, m), Counted(w, n + m, 1),
         NEW lists, lists = <<a, b>> \/ lists = <<a, b, w>>
  PROVE  lists \in Seq(Seq(Found)) /\ ToldApart(lists)
<1> DEFINE first == <<0, n, n + m>>
           size == <<n, m, 1>>
<1>1. /\ DOMAIN lists \subseteq 1..3 /\ lists \in Seq(Seq(Found))
      /\ \A l \in DOMAIN lists : Counted(lists[l], first[l], size[l])
  <2> DEFINE D == Seq(Found)
  <2>1. a \in D /\ b \in D /\ w \in D
    BY DEF Counted
  <2>2. first[1] = 0 /\ first[2] = n /\ first[3] = n + m
    OBVIOUS
  <2>3. size[1] = n /\ size[2] = m /\ size[3] = 1
    OBVIOUS
  <2> HIDE DEF first, size, D
  <2>4. CASE lists = <<a, b>>
    <3>1. lists \in Seq(D) /\ DOMAIN lists = 1..2 /\ lists[1] = a /\ lists[2] = b
      BY <2>1, <2>4
    <3>2. \A l \in DOMAIN lists : l = 1 \/ l = 2
      BY <3>1
    <3>3. Counted(lists[1], first[1], size[1]) /\ Counted(lists[2], first[2], size[2])
      BY <2>2, <2>3, <3>1
    <3>4. DOMAIN lists \subseteq 1..3
      BY <3>1
    <3> QED BY <3>1, <3>2, <3>3, <3>4 DEF D
  <2>5. CASE lists = <<a, b, w>>
    <3>1. lists \in Seq(D) /\ DOMAIN lists = 1..3 /\ lists[1] = a /\ lists[2] = b /\ lists[3] = w
      BY <2>1, <2>5
    <3>2. \A l \in DOMAIN lists : l = 1 \/ l = 2 \/ l = 3
      BY <3>1
    <3>3. /\ Counted(lists[1], first[1], size[1]) /\ Counted(lists[2], first[2], size[2])
          /\ Counted(lists[3], first[3], size[3])
      BY <2>2, <2>3, <3>1
    <3> QED BY <3>1, <3>2, <3>3 DEF D
  <2> QED BY <2>4, <2>5
<1>2. /\ \A l \in 1..3 : first[l] \in Nat /\ size[l] \in Nat
      /\ \A l, k \in 1..3 : l < k => first[l] + size[l] <= first[k]
  OBVIOUS
<1> HIDE DEF first, size
<1>3. ASSUME NEW l \in DOMAIN lists, NEW i \in DOMAIN lists[l]
      PROVE  /\ l \in 1..3 /\ i \in 1..size[l] /\ lists[l][i].of = {first[l] + i}
  <2>1. Counted(lists[l], first[l], size[l]) /\ l \in 1..3
    BY <1>1
  <2> DEFINE s == lists[l]
             z == size[l]
  <2>2. s \in Seq(Found) /\ Len(s) = z /\ \A j \in 1..z : s[j].of = {first[l] + j}
    BY <2>1 DEF Counted
  <2>3. i \in DOMAIN s
    OBVIOUS
  <2> HIDE DEF s, z
  <2>4. i \in 1..z
    BY <2>2, <2>3
  <2>5. s[i].of = {first[l] + i}
    BY <2>2, <2>4
  <2> QED BY <2>1, <2>4, <2>5 DEF s, z
<1>4. ASSUME NEW l \in DOMAIN lists, NEW k \in DOMAIN lists,
             NEW i \in DOMAIN lists[l], NEW j \in DOMAIN lists[k],
             lists[l][i].of = lists[k][j].of
      PROVE  l = k /\ i = j
  <2>1. /\ l \in 1..3 /\ i \in 1..size[l] /\ lists[l][i].of = {first[l] + i}
        /\ k \in 1..3 /\ j \in 1..size[k] /\ lists[k][j].of = {first[k] + j}
    BY <1>3
  <2>2. first[l] + i = first[k] + j
    <3> DEFINE x == first[l] + i
               y == first[k] + j
    <3>1. lists[l][i].of = {x} /\ lists[k][j].of = {y}
      BY <2>1
    <3> HIDE DEF x, y
    <3>2. {x} = {y}
      BY <1>4, <3>1
    <3>3. x = y
      BY <3>2
    <3> QED BY <3>3 DEF x, y
  <2> DEFINE fl == first[l]
             fk == first[k]
             sl == size[l]
             sk == size[k]
  <2>3. /\ fl \in Nat /\ fk \in Nat /\ sl \in Nat /\ sk \in Nat
        /\ l < k => fl + sl <= fk
        /\ k < l => fk + sk <= fl
    BY <1>2, <2>1
  <2>4. i \in 1..sl /\ j \in 1..sk /\ fl + i = fk + j /\ l \in 1..3 /\ k \in 1..3
    BY <2>1, <2>2
  <2>5. l = k => fl = fk
    OBVIOUS
  <2> HIDE DEF fl, fk, sl, sk
  <2>6. ~(l < k) /\ ~(k < l)
    BY <2>3, <2>4
  <2>7. l = k
    BY <2>4, <2>6
  <2> QED BY <2>3, <2>4, <2>5, <2>7
<1> QED BY <1>1, <1>4 DEF ToldApart

\* Lists made of single lists.
LEMMA ListsJoined ==
  ASSUME NEW a, NEW b, NEW w
  PROVE  <<a>> \o <<b>> \o <<>> = <<a, b>> /\ <<a>> \o <<b>> \o <<w>> = <<a, b, w>>
<1> DEFINE D == {a, b, w}
           x == <<a>> \o <<b>>
           y == <<a, b>> \o <<w>>
           z == <<a, b>> \o <<>>
<1>1. /\ <<a>> \in Seq(D) /\ <<b>> \in Seq(D) /\ <<w>> \in Seq(D) /\ <<>> \in Seq(D)
      /\ <<a, b>> \in Seq(D)
      /\ Len(<<a>>) = 1 /\ Len(<<b>>) = 1 /\ Len(<<w>>) = 1 /\ Len(<<a, b>>) = 2 /\ Len(<<>>) = 0
      /\ <<a>>[1] = a /\ <<b>>[1] = b /\ <<w>>[1] = w /\ <<a, b>>[1] = a /\ <<a, b>>[2] = b
  OBVIOUS
<1> HIDE DEF D
<1>2. x \in Seq(D) /\ Len(x) = 2 /\ x[1] = a /\ x[2] = b
  <2>1. x \in Seq(D) /\ Len(x) = 1 + 1 /\ x[1] = a /\ x[1 + 1] = b
    BY <1>1, Concatenated
  <2> QED BY <2>1
<1>3. y \in Seq(D) /\ Len(y) = 3 /\ y[1] = a /\ y[2] = b /\ y[3] = w
  <2>1. y \in Seq(D) /\ Len(y) = 2 + 1 /\ y[1] = a /\ y[2] = b /\ y[2 + 1] = w
    BY <1>1, Concatenated
  <2> QED BY <2>1
<1>4. z \in Seq(D) /\ Len(z) = 2 /\ z[1] = a /\ z[2] = b
  <2>1. z \in Seq(D) /\ Len(z) = 2 + 0 /\ z[1] = a /\ z[2] = b
    BY <1>1, Concatenated
  <2> QED BY <2>1
<1> HIDE DEF x, y, z
<1>5. x = <<a, b>> /\ z = <<a, b>> /\ y = <<a, b, w>>
  BY <1>2, <1>3, <1>4
<1> QED BY <1>5 DEF x, y, z

LEMMA SourcesApart ==
  ASSUME NEW req \in Requests, NEW n \in Nat, NEW m \in Nat,
         NEW geo \in [1..n -> Finds], NEW other \in [1..m -> Finds]
  PROVE  LET numbered == Numbered(geo \o other)
             lists == SourcesOf(req, <<SubSeq(numbered, 1, n)>>, <<SubSeq(numbered, n + 1, n + m)>>,
                                <<[req.web EXCEPT !.of = {n + m + 1}]>>)
         IN lists \in Seq(Seq(Found)) /\ ToldApart(lists)
<1> DEFINE both == geo \o other
           numbered == Numbered(both)
           a == SubSeq(numbered, 1, n)
           b == SubSeq(numbered, n + 1, n + m)
           web == [req.web EXCEPT !.of = {n + m + 1}]
           w == <<[web EXCEPT !.source = "websearch_sparse"]>>
           lists == SourcesOf(req, <<a>>, <<b>>, <<web>>)
<1>1. both \in Seq(Finds) /\ Len(both) = n + m
  OBVIOUS
<1> HIDE DEF both
<1>2. Counted(a, 0, n)
  <2>1. 0 \in Nat /\ 0 + n <= Len(both) /\ 0 + 1 = 1 /\ 0 + n = n
    BY <1>1
  <2>2. Counted(SubSeq(numbered, 0 + 1, 0 + n), 0, n)
    BY <1>1, <2>1, PartCounted
  <2> QED BY <2>1, <2>2
<1>3. Counted(b, n, m)
  <2>1. n + m <= Len(both)
    BY <1>1
  <2> QED BY <1>1, <2>1, PartCounted
<1>4. web \in Found /\ web.of = {n + m + 1}
  <2> DEFINE r == req.web
             i == n + m + 1
  <2>1. r \in Found /\ i \in Nat /\ {i} \in SUBSET Nat
    BY QuestionsAssumption
  <2> HIDE DEF r, i
  <2>2. [r EXCEPT !.of = {i}] \in Found /\ [r EXCEPT !.of = {i}].of = {i}
    BY <2>1 DEF Found
  <2> QED BY <2>2 DEF r, i
<1> HIDE DEF web
<1>5. Counted(w, n + m, 1)
  <2> DEFINE word == "websearch_sparse"
             c == [web EXCEPT !.source = word]
             i == n + m + 1
  <2>0. word \in Sources
    BY DEF Sources
  <2> HIDE DEF word
  <2>1. c \in Found /\ c.of = {i}
    <3> HIDE DEF i
    <3>1. web \in Found /\ web.of = {i}
      BY <1>4 DEF i
    <3> QED BY <2>0, <3>1 DEF Found
  <2>2. w = <<c>>
    BY DEF word
  <2>3. \A j \in 1..1 : (n + m) + j = i
    OBVIOUS
  <2> HIDE DEF c, i, w
  <2>4. w \in Seq(Found) /\ Len(w) = 1 /\ \A j \in 1..1 : w[j].of = {i}
    BY <2>1, <2>2
  <2> QED BY <2>3, <2>4 DEF Counted
<1> HIDE DEF a, b
<1>6. lists = <<a, b>> \/ lists = <<a, b, w>>
  <2> DEFINE sparse == req.fallback /\ <<a>> # <<>> /\ Len(FlattenSeq(<<a>>)) < SparseThreshold
             renamed == [i \in DOMAIN <<web>> |-> [<<web>>[i] EXCEPT !.source = "websearch_sparse"]]
  <2>1. lists = <<a>> \o <<b>> \o (IF sparse THEN <<renamed>> ELSE <<>>)
    BY DEF SourcesOf
  <2>2. renamed = w
    OBVIOUS
  <2> HIDE DEF sparse, renamed, w, lists
  <2>3. <<a>> \o <<b>> \o <<>> = <<a, b>> /\ <<a>> \o <<b>> \o <<w>> = <<a, b, w>>
    BY ListsJoined
  <2>4. CASE sparse
    BY <2>1, <2>2, <2>3, <2>4
  <2>5. CASE ~sparse
    BY <2>1, <2>3, <2>5
  <2> QED BY <2>4, <2>5
<1> HIDE DEF w, lists
<1>7. lists \in Seq(Seq(Found)) /\ ToldApart(lists)
  BY <1>2, <1>3, <1>5, <1>6, CountedApart
<1> QED BY <1>7 DEF lists, a, b, web, numbered, both

\* The run's statistics account for every record; a record that meets the other
\* filters' conditions is dropped as off type exactly when a reply has something
\* other than a yes in its own place, whatever calls fail and however long the
\* replies are; and a cap on what is kept samples all the sources (Pipeline.run,
\* check_discovery_relevance, _round_robin).
THEOREM EverybodyCounted == Spec => []FunnelAccounts
<1>1. Init => FunnelAccounts
  BY DEF Init, FunnelAccounts
<1>2. ASSUME FunnelAccounts, [Next]_vars PROVE FunnelAccounts'
  <2>1. CASE UNCHANGED vars
    BY <1>2, <2>1 DEF vars, FunnelAccounts
  <2>2. CASE AskFunnel
    <3>1. PICK req \in Requests, n \in 0..2, m \in 0..2 :
            \E geo \in [1..n -> Finds], other \in [1..m -> Finds] :
              LET numbered == Numbered(geo \o other)
                  lists == SourcesOf(req, <<SubSeq(numbered, 1, n)>>,
                                     <<SubSeq(numbered, n + 1, n + m)>>,
                                     <<[req.web EXCEPT !.of = {n + m + 1}]>>)
              IN Ask("funnel", [req |-> req, lists |-> lists], Funnel(req, lists))
      BY <2>2 DEF AskFunnel
    <3>2. PICK geo \in [1..n -> Finds], other \in [1..m -> Finds] :
            LET numbered == Numbered(geo \o other)
                lists == SourcesOf(req, <<SubSeq(numbered, 1, n)>>,
                                   <<SubSeq(numbered, n + 1, n + m)>>,
                                   <<[req.web EXCEPT !.of = {n + m + 1}]>>)
            IN Ask("funnel", [req |-> req, lists |-> lists], Funnel(req, lists))
      BY <3>1
    <3> DEFINE numbered == Numbered(geo \o other)
               lists == SourcesOf(req, <<SubSeq(numbered, 1, n)>>,
                                  <<SubSeq(numbered, n + 1, n + m)>>,
                                  <<[req.web EXCEPT !.of = {n + m + 1}]>>)
               D == UNION {Range(lists[l]) : l \in DOMAIN lists}
    <3>3. n \in Nat /\ m \in Nat
      OBVIOUS
    <3>4. lists \in Seq(Seq(Found)) /\ ToldApart(lists)
      BY <3>3, SourcesApart
    <3>5. Ask("funnel", [req |-> req, lists |-> lists], Funnel(req, lists))
      BY <3>2
    <3> HIDE DEF lists
    <3>6. Named(D) /\ lists \in Seq(Seq(D))
      BY <3>4, OwnNumbers
    <3> HIDE DEF D
    <3>7. Accounted(req, lists, Funnel(req, lists))
      BY <3>4, <3>6, FunnelAccounted
    <3> DEFINE got == Funnel(req, lists)
    <3>8. question'.input.req = req /\ question'.input.lists = lists /\ answer' = got
      BY <3>5 DEF Ask
    <3> HIDE DEF got
    <3>9. Accounted(req, lists, got)
      BY <3>7 DEF got
    <3> QED BY <3>8, <3>9 DEF FunnelAccounts, Accounted
  <2>3. CASE \/ AskClassify \/ AskScore \/ AskResolve \/ AskScreen \/ AskBrief \/ AskPresence
             \/ AskReply \/ AskTasks \/ AskCalls \/ AskNews \/ AskPages \/ AskModel
    BY <2>3, Kinds DEF FunnelAccounts
  <2> QED BY <1>2, <2>1, <2>2, <2>3 DEF Next
<1> QED BY <1>1, <1>2, PTL DEF Spec

-----------------------------------------------------------------------------
(* Records that are one company (Discovery's merging).                     *)

\* What a filter leaves: the elements at the positions it is given, in some order.
Picks(g, f, I, order) ==
  /\ order \in [DOMAIN g -> I]
  /\ \A m, l \in DOMAIN g : order[m] = order[l] => m = l
  /\ \A i \in I : \E m \in DOMAIN g : order[m] = i
  /\ \A m \in DOMAIN g : g[m] = f[order[m]]

LEMMA Picked ==
  ASSUME NEW n \in Nat, NEW I, I \subseteq 1..n, NEW f
  PROVE  /\ Len(At(f, I)) \in Nat /\ DOMAIN At(f, I) = 1..Len(At(f, I))
         /\ \E order : Picks(At(f, I), f, I, order)
<1> DEFINE upto == [i \in I |-> {j \in I : j <= i}]
           order == Ordered(I, upto)
           size == Cardinality(I)
<1>1. IsFiniteSet(1..n) /\ I \in SUBSET (1..n)
  BY FS_Interval
<1>2. IsFiniteSet(I) /\ I \subseteq Int
  <2>1. IsFiniteSet(I)
    BY <1>1, FS_Subset
  <2>2. \A i \in I : i \in Int
    BY <1>1
  <2> QED BY <2>1, <2>2
<1>3. Orders(I, upto)
  BY <1>2, Ascending
<1>4. At(f, I) = [m \in DOMAIN order |-> f[order[m]]]
  BY DEF At
<1> HIDE DEF upto
<1>5. /\ order \in [1..size -> I]
      /\ \A m \in 1..size : Cardinality(upto[order[m]]) = m
      /\ \A i \in I : order[Cardinality(upto[i])] = i
  BY <1>2, <1>3, Sorted
<1>6. /\ size \in Nat
      /\ \A i \in I : Cardinality(upto[i]) \in 1..size
  BY <1>2, <1>3, Places
<1> HIDE DEF order, size
<1>7. At(f, I) = [m \in 1..size |-> f[order[m]]]
  BY <1>4, <1>5
<1>8. Len(At(f, I)) = size /\ DOMAIN At(f, I) = 1..size
  BY <1>6, <1>7
<1>9. \A m, l \in 1..size : order[m] = order[l] => m = l
  BY <1>5
<1>10. \A i \in I : \E m \in 1..size : order[m] = i
  BY <1>5, <1>6
<1>11. \A m \in 1..size : At(f, I)[m] = f[order[m]]
  BY <1>7
<1>12. Picks(At(f, I), f, I, order)
  BY <1>5, <1>8, <1>9, <1>10, <1>11 DEF Picks
<1> QED BY <1>6, <1>8, <1>12

\* The fields of a record that merging reads or makes.
Fields == {"name", "city", "country", "domain", "lei", "reg"}

Shaped(cs) ==
  /\ Len(cs) \in Nat /\ DOMAIN cs = 1..Len(cs)
  /\ \A i \in DOMAIN cs : Fields \cup {"of"} \subseteq DOMAIN cs[i]

\* A company's field, for each of a list: its own, or one of those it is merged of.
Takes(value, cs, k, I, f) ==
  /\ cs[k][f] # None => value = cs[k][f]
  /\ value # None => \E i \in I : cs[i][f] = value

LEMMA MergeTakes ==
  ASSUME NEW cs, Shaped(cs), NEW I, I \subseteq DOMAIN cs, NEW k \in I
  PROVE  /\ Fields \cup {"of"} \subseteq DOMAIN Merge(cs, k, I)
         /\ Merge(cs, k, I).of = UNION {cs[i].of : i \in I}
         /\ \A f \in Fields : Takes(Merge(cs, k, I)[f], cs, k, I, f)
<1> DEFINE m == Merge(cs, k, I)
           Having(f) == {i \in I : cs[i][f] # None}
<1>1. DOMAIN m = DOMAIN cs[k] /\ k \in DOMAIN cs
  BY DEF Merge
<1>2. \A f \in DOMAIN cs[k] :
        m[f] = IF f = "of" THEN UNION {cs[i].of : i \in I}
               ELSE IF cs[k][f] # None \/ Having(f) = {} THEN cs[k][f] ELSE cs[Min(Having(f))][f]
  BY DEF Merge
<1>3. Fields \cup {"of"} \subseteq DOMAIN cs[k]
  BY <1>1 DEF Shaped
<1>4. m["of"] = UNION {cs[i].of : i \in I}
  BY <1>2, <1>3
<1>5. ASSUME NEW f \in Fields PROVE Takes(m[f], cs, k, I, f)
  <2>1. f # "of" /\ f \in DOMAIN cs[k]
    BY <1>3 DEF Fields
  <2>2. m[f] = IF cs[k][f] # None \/ Having(f) = {} THEN cs[k][f] ELSE cs[Min(Having(f))][f]
    BY <1>2, <2>1
  <2>3. Having(f) \subseteq Nat
    BY DEF Shaped
  <2>4. Having(f) # {} => Min(Having(f)) \in Having(f)
    BY <2>3, MinIsIn
  <2> QED BY <2>2, <2>4 DEF Takes
<1> HIDE DEF m
<1>6. m.of = UNION {cs[i].of : i \in I}
  BY <1>4
<1>7. Fields \cup {"of"} \subseteq DOMAIN m
  BY <1>1, <1>3
<1> QED BY <1>5, <1>6, <1>7 DEF m

\* Every record has a company that takes it, and the company takes itself.
Homes(cs, home) ==
  \A i \in DOMAIN cs : home[i] \in DOMAIN cs /\ home[home[i]] = home[i]

Family(cs, home, k) == {i \in DOMAIN cs : home[i] = k}

\* Company j of g is the one at h[j], merged with those that go there.
Grouped(cs, home, g, h) ==
  /\ h \in [DOMAIN g -> DOMAIN cs]
  /\ \A j, k \in DOMAIN g : h[j] = h[k] => j = k
  /\ \A i \in DOMAIN cs : \E j \in DOMAIN g : h[j] = home[i]
  /\ \A j \in DOMAIN g : home[h[j]] = h[j]
  /\ \A j \in DOMAIN g : g[j].of = UNION {cs[i].of : i \in Family(cs, home, h[j])}
  /\ \A j \in DOMAIN g : \A f \in Fields : Takes(g[j][f], cs, h[j], Family(cs, home, h[j]), f)

LEMMA Grouping ==
  ASSUME NEW cs, Shaped(cs), NEW home, Homes(cs, home)
  PROVE  /\ Shaped(Merged(cs, home))
         /\ \E h : Grouped(cs, home, Merged(cs, home), h)
<1> DEFINE f == [k \in DOMAIN cs |-> Merge(cs, k, Family(cs, home, k))]
           I == {k \in DOMAIN cs : home[k] = k}
           g == Merged(cs, home)
<1>1. g = At(f, I)
  BY DEF Merged, Family
<1>2. I \subseteq 1..Len(cs) /\ Len(cs) \in Nat /\ I \subseteq DOMAIN cs
  BY DEF Shaped
<1> HIDE DEF g
<1>3. \A k \in DOMAIN cs : f[k] = Merge(cs, k, Family(cs, home, k))
  OBVIOUS
<1>4. \A k \in I : k \in Family(cs, home, k) /\ Family(cs, home, k) \subseteq DOMAIN cs
  BY DEF Family
<1>5. \A i \in DOMAIN cs : home[i] \in I
  BY DEF Homes
<1>6. \A k \in I : home[k] = k
  OBVIOUS
<1> HIDE DEF f, I
<1>7. Len(g) \in Nat /\ DOMAIN g = 1..Len(g) /\ \E order : Picks(g, f, I, order)
  BY <1>1, <1>2, Picked
<1>8. PICK h : Picks(g, f, I, h)
  BY <1>7
<1>9. /\ h \in [DOMAIN g -> I]
      /\ \A j, k \in DOMAIN g : h[j] = h[k] => j = k
      /\ \A i \in I : \E j \in DOMAIN g : h[j] = i
      /\ \A j \in DOMAIN g : g[j] = f[h[j]]
  BY <1>8 DEF Picks
<1>10. ASSUME NEW j \in DOMAIN g
       PROVE  /\ Fields \cup {"of"} \subseteq DOMAIN g[j]
              /\ g[j].of = UNION {cs[i].of : i \in Family(cs, home, h[j])}
              /\ \A e \in Fields : Takes(g[j][e], cs, h[j], Family(cs, home, h[j]), e)
  <2> DEFINE k == h[j]
             F == Family(cs, home, k)
  <2>1. k \in I /\ k \in DOMAIN cs
    BY <1>2, <1>9
  <2>2. g[j] = Merge(cs, k, F)
    BY <1>3, <1>9, <2>1
  <2>3. k \in F /\ F \subseteq DOMAIN cs
    BY <1>4, <2>1
  <2> HIDE DEF k, F
  <2>4. /\ Fields \cup {"of"} \subseteq DOMAIN g[j]
        /\ g[j].of = UNION {cs[i].of : i \in F}
        /\ \A e \in Fields : Takes(g[j][e], cs, k, F, e)
    BY <2>2, <2>3, MergeTakes
  <2> QED BY <2>4 DEF k, F
<1>11. Shaped(g)
  BY <1>7, <1>10 DEF Shaped
<1>12. h \in [DOMAIN g -> DOMAIN cs]
  BY <1>2, <1>9
<1>13. \A i \in DOMAIN cs : \E j \in DOMAIN g : h[j] = home[i]
  BY <1>5, <1>9
<1>14. \A j \in DOMAIN g : home[h[j]] = h[j]
  BY <1>6, <1>9
<1>15. Grouped(cs, home, g, h)
  BY <1>9, <1>10, <1>12, <1>13, <1>14 DEF Grouped
<1> QED BY <1>11, <1>15 DEF g

\* A chain of links connects all of R.
Hangs(R, links) ==
  \A T \in SUBSET R : T \notin {{}, R} => \E a \in T, b \in R \ T : <<a, b>> \in links

Mutual(links) == \A a, b : <<a, b>> \in links => <<b, a>> \in links

\* Sets that hang together, all of them linked to the one at k.
Star(F, I, k, links) ==
  /\ k \in I
  /\ \A i \in I : Hangs(F[i], links)
  /\ \A i \in I : i = k \/ \E a \in F[i], b \in F[k] : <<a, b>> \in links

Unites(R, F, I) == \A x : x \in R <=> \E i \in I : x \in F[i]

LEMMA HangJointly ==
  ASSUME NEW links, Mutual(links), NEW I, NEW F, NEW k, Star(F, I, k, links),
         NEW R, Unites(R, F, I)
  PROVE  Hangs(R, links)
<1> USE DEF Star, Unites
<1> SUFFICES ASSUME NEW T \in SUBSET R, T # {}, T # R
             PROVE  \E a \in T, b \in R \ T : <<a, b>> \in links
  BY DEF Hangs
<1>1. \A i \in I : F[i] \subseteq R
  OBVIOUS
<1>2. \A x \in R : \E i \in I : x \in F[i]
  OBVIOUS
<1>3. CASE \E i \in I : F[i] \cap T # {} /\ ~ (F[i] \subseteq T)
  <2>1. PICK i \in I : F[i] \cap T # {} /\ ~ (F[i] \subseteq T)
    BY <1>3
  <2> DEFINE S0 == F[i] \cap T
  <2>2. S0 \in SUBSET F[i] /\ S0 # {} /\ S0 # F[i]
    BY <2>1
  <2>3. Hangs(F[i], links)
    OBVIOUS
  <2> HIDE DEF S0
  <2>4. \E a \in S0, b \in F[i] \ S0 : <<a, b>> \in links
    BY <2>2, <2>3 DEF Hangs
  <2>5. S0 \subseteq T /\ F[i] \ S0 \subseteq R \ T
    BY <1>1 DEF S0
  <2> QED BY <2>4, <2>5
<1>4. CASE ~ \E i \in I : F[i] \cap T # {} /\ ~ (F[i] \subseteq T)
  <2>1. PICK x \in T : TRUE
    OBVIOUS
  <2>2. PICK y \in R : y \notin T
    OBVIOUS
  <2>3. PICK i \in I : x \in F[i]
    BY <1>2
  <2>4. PICK j \in I : y \in F[j]
    BY <1>2, <2>2
  <2>5. F[i] \subseteq T /\ F[j] \cap T = {}
    BY <1>4, <2>1, <2>2, <2>3, <2>4
  <2>6. CASE F[k] \cap T # {}
    <3>1. F[k] \subseteq T /\ j # k
      BY <1>4, <2>5, <2>6
    <3>2. PICK a \in F[j], b \in F[k] : <<a, b>> \in links
      BY <3>1
    <3>3. <<b, a>> \in links
      BY <3>2 DEF Mutual
    <3>4. b \in T /\ a \in R \ T
      BY <1>1, <2>5, <3>1, <3>2
    <3> QED BY <3>3, <3>4
  <2>7. CASE F[k] \cap T = {}
    <3>1. i # k
      BY <2>3, <2>1, <2>7, <2>5
    <3>2. PICK a \in F[i], b \in F[k] : <<a, b>> \in links
      BY <3>1
    <3>3. a \in T /\ b \in R \ T
      BY <1>1, <2>5, <2>7, <3>2
    <3> QED BY <3>2, <3>3
  <2> QED BY <2>6, <2>7
<1> QED BY <1>3, <1>4

\* Records each of which but the first is linked to one in front of it hang together.
Chain(cs, F, k, links) ==
  /\ k \in F /\ F \subseteq Nat
  /\ \A i \in F : i = k \/ \E j \in F : j < i /\ <<cs[i], cs[j]>> \in links

Consists(R, cs, F) == \A x : x \in R <=> \E i \in F : x = cs[i]

LEMMA HangInTurn ==
  ASSUME NEW links, Mutual(links), NEW F, NEW k, NEW cs, Chain(cs, F, k, links),
         NEW R, Consists(R, cs, F)
  PROVE  Hangs(R, links)
<1> USE DEF Chain, Consists
<1> SUFFICES ASSUME NEW T \in SUBSET R, T # {}, T # R
             PROVE  \E a \in T, b \in R \ T : <<a, b>> \in links
  BY DEF Hangs
<1> DEFINE In == {i \in F : cs[i] \in T}
           Out == {i \in F : cs[i] \notin T}
<1>1. In # {} /\ Out # {} /\ In \subseteq Nat /\ Out \subseteq Nat
  OBVIOUS
<1>2. \A i \in In : cs[i] \in T
  OBVIOUS
<1>3. \A i \in Out : cs[i] \in R \ T
  OBVIOUS
<1>4. \A i \in F : i \in In \/ i \in Out
  OBVIOUS
<1>5. \A i \in Out : i \in F /\ i \in Nat /\ i \notin In
  OBVIOUS
<1>6. \A i \in In : i \in F /\ i \in Nat /\ i \notin Out
  OBVIOUS
<1> HIDE DEF In, Out
<1>7. CASE k \in In
  <2>1. PICK i \in Out : \A j \in Out : i <= j
    BY <1>1, LeastNumber
  <2>2. PICK j \in F : j < i /\ <<cs[i], cs[j]>> \in links
    BY <1>5, <1>6, <1>7, <2>1
  <2>3. j \in In
    BY <1>4, <1>5, <2>1, <2>2
  <2>4. <<cs[j], cs[i]>> \in links
    BY <2>2 DEF Mutual
  <2> QED BY <1>2, <1>3, <2>3, <2>4
<1>8. CASE k \in Out
  <2>1. PICK i \in In : \A j \in In : i <= j
    BY <1>1, LeastNumber
  <2>2. PICK j \in F : j < i /\ <<cs[i], cs[j]>> \in links
    BY <1>5, <1>6, <1>8, <2>1
  <2>3. j \in Out
    BY <1>4, <1>6, <2>1, <2>2
  <2> QED BY <1>2, <1>3, <2>2, <2>3
<1> QED BY <1>4, <1>7, <1>8

LEMMA HangAlone ==
  ASSUME NEW links, NEW R, \A a, b \in R : a = b
  PROVE  Hangs(R, links)
BY DEF Hangs

\* The records a company was made of: the companies of a list, by what they were
\* made of.
SetApart(cs) == \A i \in DOMAIN cs : cs[i].of # {}
               /\ \A j \in DOMAIN cs : i = j \/ cs[i].of \cap cs[j].of = {}

\* Each company of g, of the records of cs that parts names for it, which hang together.
Composed(g, cs, parts, links) ==
  /\ parts \in [DOMAIN g -> SUBSET Range(cs)]
  /\ \A j \in DOMAIN g : g[j].of = UNION {c.of : c \in parts[j]}
  /\ \A j \in DOMAIN g : Hangs(parts[j], links)

\* Merging leaves companies apart and puts every company into one of them.
LEMMA GroupedApart ==
  ASSUME NEW cs, SetApart(cs), NEW home, Homes(cs, home), NEW g, NEW h, Grouped(cs, home, g, h)
  PROVE  /\ SetApart(g)
         /\ \A i \in DOMAIN cs : \E j \in DOMAIN g : h[j] = home[i] /\ cs[i].of \subseteq g[j].of
         /\ UNION {c.of : c \in Range(g)} = UNION {c.of : c \in Range(cs)}
<1>1. \A j \in DOMAIN g : \A x : x \in g[j].of <=> \E i \in DOMAIN cs : home[i] = h[j] /\ x \in cs[i].of
  BY DEF Grouped, Family
<1>2. ASSUME NEW j \in DOMAIN g PROVE g[j].of # {}
  <2>1. h[j] \in DOMAIN cs /\ home[h[j]] = h[j]
    BY DEF Grouped
  <2>2. PICK x : x \in cs[h[j]].of
    BY <2>1 DEF SetApart
  <2> QED BY <1>1, <2>1, <2>2
<1>3. ASSUME NEW j \in DOMAIN g, NEW k \in DOMAIN g, j # k PROVE g[j].of \cap g[k].of = {}
  <2> SUFFICES ASSUME NEW x, x \in g[j].of, x \in g[k].of PROVE FALSE
    OBVIOUS
  <2>1. PICK i \in DOMAIN cs : home[i] = h[j] /\ x \in cs[i].of
    BY <1>1
  <2>2. PICK l \in DOMAIN cs : home[l] = h[k] /\ x \in cs[l].of
    BY <1>1
  <2>3. i = l
    BY <2>1, <2>2 DEF SetApart
  <2> QED BY <1>3, <2>1, <2>2, <2>3 DEF Grouped
<1>4. ASSUME NEW i \in DOMAIN cs
      PROVE  \E j \in DOMAIN g : h[j] = home[i] /\ cs[i].of \subseteq g[j].of
  <2>1. PICK j \in DOMAIN g : h[j] = home[i]
    BY DEF Grouped
  <2>2. cs[i].of \subseteq g[j].of
    BY <1>1, <2>1
  <2> QED BY <2>1, <2>2
<1>5. ASSUME NEW x PROVE (\E c \in Range(g) : x \in c.of) <=> (\E c \in Range(cs) : x \in c.of)
  <2>1. (\E c \in Range(g) : x \in c.of) <=> (\E j \in DOMAIN g : x \in g[j].of)
    BY DEF Range
  <2>2. (\E c \in Range(cs) : x \in c.of) <=> (\E i \in DOMAIN cs : x \in cs[i].of)
    BY DEF Range
  <2>3. (\E j \in DOMAIN g : x \in g[j].of) <=> (\E i \in DOMAIN cs : x \in cs[i].of)
    BY <1>1, <1>4
  <2> QED BY <2>1, <2>2, <2>3
<1>6. UNION {c.of : c \in Range(g)} = UNION {c.of : c \in Range(cs)}
  BY <1>5
<1> QED BY <1>2, <1>3, <1>4, <1>6 DEF SetApart

LEMMA ComposedAlone ==
  ASSUME NEW cs, NEW links
  PROVE  Composed(cs, cs, [i \in DOMAIN cs |-> {cs[i]}], links)
<1>1. [i \in DOMAIN cs |-> {cs[i]}] \in [DOMAIN cs -> SUBSET Range(cs)]
  BY DEF Range
<1>2. ASSUME NEW i \in DOMAIN cs PROVE cs[i].of = UNION {c.of : c \in {cs[i]}} /\ Hangs({cs[i]}, links)
  BY HangAlone
<1> QED BY <1>1, <1>2 DEF Composed

\* The parts of companies that are merged into one they are linked to.
Joint(cs, parts, home, g, h) == [j \in DOMAIN g |-> UNION {parts[i] : i \in Family(cs, home, h[j])}]

LEMMA ComposedAgain ==
  ASSUME NEW cs, NEW mid, NEW parts, NEW links, Mutual(links), Composed(mid, cs, parts, links),
         NEW home, NEW g, NEW h, Grouped(mid, home, g, h),
         \A i \in DOMAIN mid :
            home[i] = i \/ \E a \in parts[i], b \in parts[home[i]] : <<a, b>> \in links
  PROVE  Composed(g, cs, Joint(mid, parts, home, g, h), links)
<1> DEFINE joint == Joint(mid, parts, home, g, h)
<1>1. \A j \in DOMAIN g : joint[j] = UNION {parts[i] : i \in Family(mid, home, h[j])}
  BY DEF Joint
<1>2. DOMAIN joint = DOMAIN g /\ joint = [j \in DOMAIN g |-> joint[j]]
  BY DEF Joint
<1> HIDE DEF joint
<1>3. ASSUME NEW j \in DOMAIN g
      PROVE  /\ joint[j] \in SUBSET Range(cs)
             /\ g[j].of = UNION {c.of : c \in joint[j]}
             /\ Hangs(joint[j], links)
  <2> DEFINE F == Family(mid, home, h[j])
             k == h[j]
  <2>1. F \subseteq DOMAIN mid /\ \A i \in F : home[i] = k
    BY DEF Family
  <2>2. k \in F
    BY DEF Family, Grouped
  <2>3. g[j].of = UNION {mid[i].of : i \in F}
    BY DEF Grouped
  <2>4. joint[j] = UNION {parts[i] : i \in F}
    BY <1>1
  <2> HIDE DEF F, k
  <2>5. \A i \in F : /\ parts[i] \in SUBSET Range(cs)
                     /\ mid[i].of = UNION {c.of : c \in parts[i]}
                     /\ Hangs(parts[i], links)
    BY <2>1 DEF Composed
  <2>6. joint[j] \in SUBSET Range(cs)
    BY <2>4, <2>5
  <2>7. ASSUME NEW x PROVE x \in g[j].of <=> \E c \in joint[j] : x \in c.of
    <3>1. x \in g[j].of <=> \E i \in F : x \in mid[i].of
      BY <2>3
    <3>2. \A i \in F : x \in mid[i].of <=> \E c \in parts[i] : x \in c.of
      BY <2>5
    <3>3. \A c : c \in joint[j] <=> \E i \in F : c \in parts[i]
      BY <2>4
    <3> QED BY <3>1, <3>2, <3>3
  <2>8. g[j].of = UNION {c.of : c \in joint[j]}
    BY <2>7
  <2>9. \A i \in F : i = k \/ \E a \in parts[i], b \in parts[k] : <<a, b>> \in links
    BY <2>1
  <2>10. \A x : x \in joint[j] <=> \E i \in F : x \in parts[i]
    BY <2>4
  <2>11. \A i \in F : Hangs(parts[i], links)
    BY <2>5
  <2>12. Star(parts, F, k, links) /\ Unites(joint[j], parts, F)
    BY <2>2, <2>9, <2>10, <2>11 DEF Star, Unites
  <2>13. Hangs(joint[j], links)
    BY <2>12, HangJointly
  <2> QED BY <2>6, <2>8, <2>13
<1>4. joint \in [DOMAIN g -> SUBSET Range(cs)]
  BY <1>2, <1>3
<1>5. Composed(g, cs, joint, links)
  BY <1>3, <1>4 DEF Composed
<1> QED BY <1>5 DEF joint

\* The parts of companies that are merged one after the other.
Single(cs, home, g, h) == [j \in DOMAIN g |-> {cs[i] : i \in Family(cs, home, h[j])}]

LEMMA ComposedInTurn ==
  ASSUME NEW cs, DOMAIN cs \subseteq Nat, NEW links, Mutual(links),
         NEW home, NEW g, NEW h, Grouped(cs, home, g, h),
         \A i \in DOMAIN cs :
            \/ home[i] = i
            \/ \E j \in DOMAIN cs : j < i /\ home[j] = home[i] /\ <<cs[i], cs[j]>> \in links
  PROVE  Composed(g, cs, Single(cs, home, g, h), links)
<1> DEFINE parts == Single(cs, home, g, h)
<1>1. \A j \in DOMAIN g : parts[j] = {cs[i] : i \in Family(cs, home, h[j])}
  BY DEF Single
<1>2. parts = [j \in DOMAIN g |-> parts[j]]
  BY DEF Single
<1> HIDE DEF parts
<1>3. ASSUME NEW j \in DOMAIN g
      PROVE  /\ parts[j] \in SUBSET Range(cs)
             /\ g[j].of = UNION {c.of : c \in parts[j]}
             /\ Hangs(parts[j], links)
  <2> DEFINE F == Family(cs, home, h[j])
             k == h[j]
  <2>1. F \subseteq DOMAIN cs /\ \A i \in DOMAIN cs : i \in F <=> home[i] = k
    BY DEF Family
  <2>2. k \in F
    BY DEF Family, Grouped
  <2>3. g[j].of = UNION {cs[i].of : i \in F}
    BY DEF Grouped
  <2>4. parts[j] = {cs[i] : i \in F}
    BY <1>1
  <2> HIDE DEF F, k
  <2>5. parts[j] \in SUBSET Range(cs)
    BY <2>1, <2>4 DEF Range
  <2>6. g[j].of = UNION {c.of : c \in parts[j]}
    BY <2>3, <2>4
  <2>7. \A i \in F : i = k \/ \E l \in F : l < i /\ <<cs[i], cs[l]>> \in links
    BY <2>1
  <2>8. F \subseteq Nat
    BY <2>1
  <2>9. \A x : x \in parts[j] <=> \E i \in F : x = cs[i]
    BY <2>4
  <2>10. Chain(cs, F, k, links) /\ Consists(parts[j], cs, F)
    BY <2>2, <2>7, <2>8, <2>9 DEF Chain, Consists
  <2>11. Hangs(parts[j], links)
    BY <2>10, HangInTurn
  <2> QED BY <2>5, <2>6, <2>11
<1>4. parts \in [DOMAIN g -> SUBSET Range(cs)]
  BY <1>2, <1>3
<1>5. Composed(g, cs, parts, links)
  BY <1>3, <1>4 DEF Composed
<1> QED BY <1>5 DEF parts

\* Companies that are apart can be told from what they were made of.
LEMMA PartsFound ==
  ASSUME NEW cs, SetApart(cs), NEW g, NEW parts, NEW links, Composed(g, cs, parts, links),
         NEW j \in DOMAIN g
  PROVE  MadeOf(g[j], Range(cs), links)
<1> DEFINE R == {c \in Range(cs) : c.of \subseteq g[j].of}
<1>1. /\ parts[j] \subseteq Range(cs) /\ g[j].of = UNION {c.of : c \in parts[j]}
      /\ Hangs(parts[j], links)
  BY DEF Composed
<1>2. ASSUME NEW c \in parts[j] PROVE c \in R
  BY <1>1
<1>3. ASSUME NEW c \in R PROVE c \in parts[j]
  <2>1. PICK i \in DOMAIN cs : c = cs[i]
    BY DEF Range
  <2>2. PICK x : x \in c.of
    BY <2>1 DEF SetApart
  <2>3. PICK d \in parts[j] : x \in d.of
    BY <1>1, <2>2
  <2>4. PICK k \in DOMAIN cs : d = cs[k]
    BY <1>1 DEF Range
  <2>5. i = k
    BY <2>1, <2>2, <2>3, <2>4 DEF SetApart
  <2> QED BY <2>1, <2>3, <2>4, <2>5
<1>4. R = parts[j]
  BY <1>2, <1>3
<1>5. g[j].of = UNION {c.of : c \in R} /\ Hangs(R, links)
  BY <1>1, <1>4
<1> QED BY <1>5 DEF MadeOf, Hangs

LEMMA MaxIsIn ==
  ASSUME NEW n \in Nat, NEW T, T \subseteq 1..n, T # {}
  PROVE  Max(T) \in T
<1> DEFINE U == {n - t : t \in T}
<1>1. U \subseteq Nat /\ U # {}
  <2>1. \A t \in T : n - t \in Nat
    OBVIOUS
  <2> QED BY <2>1
<1>2. PICK u \in U : \A v \in U : u <= v
  BY <1>1, LeastNumber
<1>3. PICK m \in T : u = n - m
  OBVIOUS
<1>4. ASSUME NEW t \in T PROVE m >= t
  <2>1. n - t \in U
    OBVIOUS
  <2> HIDE DEF U
  <2>2. n - m <= n - t
    BY <1>2, <1>3, <2>1
  <2> QED BY <2>2
<1> QED BY <1>4 DEF Max

\* What each step of the resolution makes of the companies cs: companies that are
\* apart, each of companies that hang together, with the name of one of them.
Resolved(g, cs, parts, links) ==
  /\ Shaped(g) /\ SetApart(g)
  /\ UNION {c.of : c \in Range(g)} = UNION {c.of : c \in Range(cs)}
  /\ \A i \in DOMAIN cs : \E j \in DOMAIN g : cs[i].of \subseteq g[j].of
  /\ Composed(g, cs, parts, links)
  /\ \A j \in DOMAIN g : g[j].name # None /\ \E a \in parts[j] : a.name = g[j].name

NoTwo(g, f) == \A j, k \in DOMAIN g : j # k => g[j][f] = None \/ g[j][f] # g[k][f]

AllNamed(cs) == \A i \in DOMAIN cs : cs[i].name # None

LinksKeys(links, R) == \A a, b \in R : SameKey(a, b) => <<a, b>> \in links

LEMMA KeysAgree ==
  ASSUME NEW a, NEW b, KeyOf(a) = KeyOf(b)
  PROVE  /\ SameKey(a, b)
         /\ a.domain = b.domain
<1>1. CASE a.domain # None /\ b.domain # None
  BY <1>1 DEF KeyOf, SameKey
<1>2. CASE a.domain = None /\ b.domain = None
  BY <1>2 DEF KeyOf, SameKey
<1>3. ASSUME NEW d, NEW n, NEW c, <<d>> = <<n, c>> PROVE FALSE
  <2>1. Len(<<d>>) = 1 /\ Len(<<n, c>>) = 2
    OBVIOUS
  <2> QED BY <1>3, <2>1
<1>4. CASE a.domain # None /\ b.domain = None
  <2>1. <<a.domain>> = <<b.name, b.city>>
    BY <1>4 DEF KeyOf
  <2> QED BY <1>3, <2>1
<1>5. CASE a.domain = None /\ b.domain # None
  <2>1. <<b.domain>> = <<a.name, a.city>>
    BY <1>5 DEF KeyOf
  <2> QED BY <1>3, <2>1
<1> QED BY <1>1, <1>2, <1>4, <1>5

\* The first loop: a record with the key of an earlier one is merged into it.
KeyHome(cs) == [i \in DOMAIN cs |-> Min({j \in DOMAIN cs : KeyOf(cs[j]) = KeyOf(cs[i])})]

LEMMA KeysHome ==
  ASSUME NEW cs, Shaped(cs)
  PROVE  /\ Homes(cs, KeyHome(cs))
         /\ \A i \in DOMAIN cs : KeyOf(cs[KeyHome(cs)[i]]) = KeyOf(cs[i])
         /\ \A i, j \in DOMAIN cs : KeyOf(cs[i]) = KeyOf(cs[j]) => KeyHome(cs)[i] = KeyHome(cs)[j]
<1> DEFINE Same(i) == {j \in DOMAIN cs : KeyOf(cs[j]) = KeyOf(cs[i])}
<1>1. \A i \in DOMAIN cs : KeyHome(cs)[i] = Min(Same(i))
  BY DEF KeyHome
<1>2. \A i \in DOMAIN cs : Same(i) \subseteq Nat /\ i \in Same(i)
  BY DEF Shaped
<1>3. \A i, j \in DOMAIN cs : KeyOf(cs[i]) = KeyOf(cs[j]) => Same(i) = Same(j)
  OBVIOUS
<1>4. \A i \in DOMAIN cs : KeyHome(cs)[i] \in Same(i)
  BY <1>1, <1>2, MinIsIn
<1>5. \A i \in DOMAIN cs : KeyHome(cs)[i] \in DOMAIN cs /\ KeyOf(cs[KeyHome(cs)[i]]) = KeyOf(cs[i])
  BY <1>4
<1> HIDE DEF Same
<1>6. \A i, j \in DOMAIN cs : KeyOf(cs[i]) = KeyOf(cs[j]) => KeyHome(cs)[i] = KeyHome(cs)[j]
  BY <1>1, <1>3
<1>7. Homes(cs, KeyHome(cs))
  BY <1>5, <1>6 DEF Homes
<1> QED BY <1>5, <1>6, <1>7

LEMMA KeyedOnce ==
  ASSUME NEW cs, Shaped(cs), SetApart(cs), AllNamed(cs),
         NEW links, Mutual(links), LinksKeys(links, Range(cs))
  PROVE  LET g == Merged(cs, KeyHome(cs))
         IN NoTwo(g, "domain") /\ \E parts : Resolved(g, cs, parts, links)
<1> DEFINE home == KeyHome(cs)
           g == Merged(cs, home)
           single == [i \in DOMAIN cs |-> {cs[i]}]
<1>1. /\ Homes(cs, home)
      /\ \A i \in DOMAIN cs : KeyOf(cs[home[i]]) = KeyOf(cs[i])
      /\ \A i, j \in DOMAIN cs : KeyOf(cs[i]) = KeyOf(cs[j]) => home[i] = home[j]
  BY KeysHome
<1> HIDE DEF home
<1>2. Shaped(g)
  BY <1>1, Grouping
<1>3. PICK h : Grouped(cs, home, g, h)
  BY <1>1, Grouping
<1> HIDE DEF g
<1>4. /\ SetApart(g) /\ \A i \in DOMAIN cs : \E j \in DOMAIN g : cs[i].of \subseteq g[j].of
      /\ UNION {c.of : c \in Range(g)} = UNION {c.of : c \in Range(cs)}
  BY <1>1, <1>3, GroupedApart
<1>5. Composed(cs, cs, single, links)
  BY ComposedAlone
<1>6. \A i \in DOMAIN cs : single[i] = {cs[i]}
  OBVIOUS
<1>7. \A i \in DOMAIN cs : \E a \in single[i], b \in single[home[i]] : <<a, b>> \in links
  <2> SUFFICES ASSUME NEW i \in DOMAIN cs PROVE <<cs[i], cs[home[i]]>> \in links
    BY <1>1, <1>6 DEF Homes
  <2>1. cs[i] \in Range(cs) /\ cs[home[i]] \in Range(cs)
    BY <1>1 DEF Range, Homes
  <2>2. SameKey(cs[i], cs[home[i]])
    BY <1>1, KeysAgree
  <2> QED BY <2>1, <2>2 DEF LinksKeys
<1> HIDE DEF single
<1>8. Composed(g, cs, Joint(cs, single, home, g, h), links)
  BY <1>3, <1>5, <1>7, ComposedAgain
<1>9. ASSUME NEW j \in DOMAIN g
      PROVE  /\ g[j].name = cs[h[j]].name /\ g[j].name # None
             /\ cs[h[j]] \in Joint(cs, single, home, g, h)[j]
             /\ g[j].domain = cs[h[j]].domain
  <2>1. h[j] \in DOMAIN cs /\ home[h[j]] = h[j] /\ h[j] \in Family(cs, home, h[j])
    BY <1>3 DEF Grouped, Family
  <2>2. /\ Takes(g[j].name, cs, h[j], Family(cs, home, h[j]), "name")
        /\ Takes(g[j].domain, cs, h[j], Family(cs, home, h[j]), "domain")
    BY <1>3 DEF Grouped, Fields
  <2>3. g[j].name = cs[h[j]].name /\ g[j].name # None
    BY <2>1, <2>2 DEF Takes, AllNamed
  <2>4. cs[h[j]] \in Joint(cs, single, home, g, h)[j]
    BY <1>6, <2>1 DEF Joint
  <2>5. \A i \in Family(cs, home, h[j]) : cs[i].domain = cs[h[j]].domain
    <3> SUFFICES ASSUME NEW i \in Family(cs, home, h[j]) PROVE cs[i].domain = cs[h[j]].domain
      OBVIOUS
    <3>1. i \in DOMAIN cs /\ home[i] = h[j]
      BY DEF Family
    <3>2. KeyOf(cs[i]) = KeyOf(cs[h[j]])
      BY <1>1, <3>1
    <3> QED BY <3>2, KeysAgree
  <2>6. g[j].domain = cs[h[j]].domain
    BY <2>2, <2>5 DEF Takes
  <2> QED BY <2>3, <2>4, <2>6
<1>10. ASSUME NEW j \in DOMAIN g, NEW k \in DOMAIN g, j # k, g[j].domain # None
       PROVE  g[j].domain # g[k].domain
  <2> SUFFICES ASSUME g[j].domain = g[k].domain PROVE FALSE
    OBVIOUS
  <2>1. cs[h[j]].domain = cs[h[k]].domain /\ cs[h[j]].domain # None
    BY <1>9, <1>10
  <2>2. KeyOf(cs[h[j]]) = KeyOf(cs[h[k]])
    BY <2>1 DEF KeyOf
  <2>3. home[h[j]] = home[h[k]]
    BY <1>1, <1>3, <2>2 DEF Grouped
  <2> QED BY <1>3, <1>10, <2>3 DEF Grouped
<1>11. NoTwo(g, "domain")
  BY <1>10 DEF NoTwo
<1>12. Resolved(g, cs, Joint(cs, single, home, g, h), links)
  BY <1>2, <1>4, <1>8, <1>9 DEF Resolved
<1> QED BY <1>11, <1>12 DEF g, home

\* A step that merges companies which it finds linked.
LEMMA ResolvedAgain ==
  ASSUME NEW cs, NEW mid, NEW parts, NEW links, Mutual(links), Resolved(mid, cs, parts, links),
         NEW home, Homes(mid, home),
         \A i \in DOMAIN mid :
            home[i] = i \/ \E a \in parts[i], b \in parts[home[i]] : <<a, b>> \in links
  PROVE  LET g == Merged(mid, home)
         IN \E h : /\ Grouped(mid, home, g, h)
                   /\ Resolved(g, cs, Joint(mid, parts, home, g, h), links)
<1> DEFINE g == Merged(mid, home)
<1>1. Shaped(mid) /\ SetApart(mid) /\ Composed(mid, cs, parts, links)
  BY DEF Resolved
<1>2. Shaped(g)
  BY <1>1, Grouping
<1>3. PICK h : Grouped(mid, home, g, h)
  BY <1>1, Grouping
<1> HIDE DEF g
<1>4. /\ SetApart(g) /\ \A i \in DOMAIN mid : \E j \in DOMAIN g : mid[i].of \subseteq g[j].of
      /\ UNION {c.of : c \in Range(g)} = UNION {c.of : c \in Range(mid)}
  BY <1>1, <1>3, GroupedApart
<1>5. UNION {c.of : c \in Range(g)} = UNION {c.of : c \in Range(cs)}
  BY <1>4 DEF Resolved
<1>6. ASSUME NEW i \in DOMAIN cs PROVE \E j \in DOMAIN g : cs[i].of \subseteq g[j].of
  <2>1. PICK k \in DOMAIN mid : cs[i].of \subseteq mid[k].of
    BY DEF Resolved
  <2>2. PICK j \in DOMAIN g : mid[k].of \subseteq g[j].of
    BY <1>4
  <2> QED BY <2>1, <2>2
<1>7. Composed(g, cs, Joint(mid, parts, home, g, h), links)
  BY <1>1, <1>3, ComposedAgain
<1>8. ASSUME NEW j \in DOMAIN g
      PROVE  g[j].name # None /\ \E a \in Joint(mid, parts, home, g, h)[j] : a.name = g[j].name
  <2>1. h[j] \in DOMAIN mid /\ home[h[j]] = h[j] /\ h[j] \in Family(mid, home, h[j])
    BY <1>3 DEF Grouped, Family
  <2>2. Takes(g[j].name, mid, h[j], Family(mid, home, h[j]), "name")
    BY <1>3 DEF Grouped, Fields
  <2>3. mid[h[j]].name # None /\ \E a \in parts[h[j]] : a.name = mid[h[j]].name
    BY <2>1 DEF Resolved
  <2>4. g[j].name = mid[h[j]].name
    BY <2>2, <2>3 DEF Takes
  <2>5. parts[h[j]] \subseteq Joint(mid, parts, home, g, h)[j]
    BY <2>1 DEF Joint
  <2> QED BY <2>3, <2>4, <2>5
<1>9. Resolved(g, cs, Joint(mid, parts, home, g, h), links)
  BY <1>2, <1>4, <1>5, <1>6, <1>7, <1>8 DEF Resolved
<1> QED BY <1>3, <1>9 DEF g

\* The second loop: a company without a domain joins one with its name and city.
TwinsOf(cs, i) ==
  {j \in DOMAIN cs : cs[j].domain # None /\ cs[j].name = cs[i].name /\ cs[j].city = cs[i].city}

TwinHome(cs) ==
  [i \in DOMAIN cs |->
     IF cs[i].domain # None \/ TwinsOf(cs, i) = {} THEN i ELSE Max(TwinsOf(cs, i))]

LEMMA TwinsHome ==
  ASSUME NEW cs, Shaped(cs)
  PROVE  /\ Homes(cs, TwinHome(cs))
         /\ \A i \in DOMAIN cs : TwinHome(cs)[i] = i \/ cs[TwinHome(cs)[i]].name = cs[i].name
<1> DEFINE home == TwinHome(cs)
<1>1. \A i \in DOMAIN cs : home[i] = IF cs[i].domain # None \/ TwinsOf(cs, i) = {} THEN i
                                     ELSE Max(TwinsOf(cs, i))
  BY DEF TwinHome
<1> HIDE DEF home
<1>2. ASSUME NEW i \in DOMAIN cs PROVE home[i] = i \/ home[i] \in TwinsOf(cs, i)
  <2>1. Len(cs) \in Nat /\ TwinsOf(cs, i) \subseteq 1..Len(cs)
    BY DEF Shaped, TwinsOf
  <2>2. TwinsOf(cs, i) # {} => Max(TwinsOf(cs, i)) \in TwinsOf(cs, i)
    BY <2>1, MaxIsIn
  <2> QED BY <1>1, <2>2
<1>3. \A i \in DOMAIN cs : cs[i].domain # None => home[i] = i
  BY <1>1
<1>4. \A i \in DOMAIN cs : home[i] = i \/ /\ home[i] \in DOMAIN cs
                                          /\ cs[home[i]].name = cs[i].name
                                          /\ cs[home[i]].domain # None
  BY <1>2 DEF TwinsOf
<1>5. Homes(cs, home)
  BY <1>3, <1>4 DEF Homes
<1> QED BY <1>4, <1>5 DEF home

\* What no two companies share before a merging, no two share after it.
LEMMA NoTwoKept ==
  ASSUME NEW mid, NEW home, NEW g, NEW h, Grouped(mid, home, g, h),
         NEW f \in Fields, NoTwo(mid, f)
  PROVE  NoTwo(g, f)
<1> SUFFICES ASSUME NEW j \in DOMAIN g, NEW k \in DOMAIN g, j # k, g[j][f] # None,
                    g[j][f] = g[k][f]
             PROVE  FALSE
  BY DEF NoTwo
<1>1. /\ Takes(g[j][f], mid, h[j], Family(mid, home, h[j]), f)
      /\ Takes(g[k][f], mid, h[k], Family(mid, home, h[k]), f)
  BY DEF Grouped
<1>2. PICK i \in Family(mid, home, h[j]) : mid[i][f] = g[j][f]
  BY <1>1 DEF Takes
<1>3. PICK l \in Family(mid, home, h[k]) : mid[l][f] = g[j][f]
  BY <1>1 DEF Takes
<1>4. i = l
  BY <1>2, <1>3 DEF NoTwo, Family
<1> QED BY <1>4 DEF Family, Grouped

LEMMA JoinedOnce ==
  ASSUME NEW cs, NEW mid, NEW parts, NEW links, Mutual(links), LinksKeys(links, Range(cs)),
         Resolved(mid, cs, parts, links), NoTwo(mid, "domain")
  PROVE  LET g == Merged(mid, TwinHome(mid))
         IN NoTwo(g, "domain") /\ \E made : Resolved(g, cs, made, links)
<1> DEFINE home == TwinHome(mid)
           g == Merged(mid, home)
<1>1. /\ Homes(mid, home)
      /\ \A i \in DOMAIN mid : home[i] = i \/ mid[home[i]].name = mid[i].name
  BY TwinsHome DEF Resolved
<1> HIDE DEF home
<1>2. ASSUME NEW i \in DOMAIN mid
      PROVE  home[i] = i \/ \E a \in parts[i], b \in parts[home[i]] : <<a, b>> \in links
  <2> SUFFICES ASSUME home[i] # i
               PROVE  \E a \in parts[i], b \in parts[home[i]] : <<a, b>> \in links
    OBVIOUS
  <2>1. home[i] \in DOMAIN mid /\ mid[home[i]].name = mid[i].name
    BY <1>1 DEF Homes
  <2>2. PICK a \in parts[i] : a.name = mid[i].name
    BY DEF Resolved
  <2>3. PICK b \in parts[home[i]] : b.name = mid[home[i]].name
    BY <2>1 DEF Resolved
  <2>4. a \in Range(cs) /\ b \in Range(cs)
    BY <2>1 DEF Resolved, Composed
  <2>5. SameKey(a, b)
    BY <2>1, <2>2, <2>3 DEF SameKey
  <2> QED BY <2>4, <2>5 DEF LinksKeys
<1>3. PICK h : Grouped(mid, home, g, h) /\ Resolved(g, cs, Joint(mid, parts, home, g, h), links)
  BY <1>1, <1>2, ResolvedAgain
<1> HIDE DEF g
<1>4. "domain" \in Fields
  BY DEF Fields
<1>5. NoTwo(g, "domain")
  BY <1>3, <1>4, NoTwoKept
<1> QED BY <1>3, <1>5 DEF g, home

\* A function of positions each value of which is made of those in front of it.
Makes(n, D, step) == \A i \in 1..n : \A f \in [1..(i-1) -> D] : step[i][f] \in D

Made(k, step, f) == \A i \in 1..k : f[i] = step[i][[j \in 1..(i-1) |-> f[j]]]

LEMMA CourseOfValues ==
  ASSUME NEW n \in Nat, NEW D, NEW step, Makes(n, D, step)
  PROVE  \E f \in [1..n -> D] : Made(n, step, f)
<1> DEFINE T == {k \in 0..n : \E f \in [1..k -> D] : Made(k, step, f)}
<1>1. 0 \in T
  <2> DEFINE f == [i \in 1..0 |-> 0]
  <2>1. f \in [1..0 -> D] /\ Made(0, step, f)
    BY DEF Made
  <2>2. 0 \in 0..n
    OBVIOUS
  <2> HIDE DEF f
  <2>3. \E x \in [1..0 -> D] : Made(0, step, x)
    BY <2>1
  <2> QED BY <2>2, <2>3
<1>2. ASSUME NEW k \in 0..(n-1), k \in T PROVE k + 1 \in T
  <2>1. PICK f \in [1..k -> D] : Made(k, step, f)
    BY <1>2
  <2> DEFINE next == step[k+1][f]
             g == [i \in 1..(k+1) |-> IF i = k + 1 THEN next ELSE f[i]]
  <2>2. next \in D
    <3>1. k + 1 \in 1..n /\ (k + 1) - 1 = k
      OBVIOUS
    <3> QED BY <3>1 DEF Makes
  <2>3. g \in [1..(k+1) -> D]
    BY <2>2
  <2>4. g[k+1] = next /\ \A i \in 1..k : g[i] = f[i]
    OBVIOUS
  <2> HIDE DEF g
  <2>5. [j \in 1..((k + 1) - 1) |-> g[j]] = f
    <3>1. (k + 1) - 1 = k
      OBVIOUS
    <3>2. [j \in 1..k |-> g[j]] = f
      BY <2>4
    <3> QED BY <3>1, <3>2
  <2>6. ASSUME NEW i \in 1..k PROVE g[i] = step[i][[j \in 1..(i-1) |-> g[j]]]
    <3>1. \A j \in 1..(i-1) : g[j] = f[j]
      BY <2>4
    <3>2. [j \in 1..(i-1) |-> g[j]] = [j \in 1..(i-1) |-> f[j]]
      BY <3>1
    <3>3. f[i] = step[i][[j \in 1..(i-1) |-> f[j]]]
      BY <2>1 DEF Made
    <3> QED BY <2>4, <3>2, <3>3
  <2>7. ASSUME NEW i \in 1..(k+1) PROVE g[i] = step[i][[j \in 1..(i-1) |-> g[j]]]
    <3>1. CASE i = k + 1
      BY <2>4, <2>5, <3>1
    <3>2. CASE i # k + 1
      <4>1. i \in 1..k
        BY <3>2
      <4> QED BY <2>6, <4>1
    <3> QED BY <3>1, <3>2
  <2>8. Made(k + 1, step, g)
    BY <2>7 DEF Made
  <2>9. k + 1 \in 0..n
    OBVIOUS
  <2> QED BY <2>3, <2>8, <2>9
<1> HIDE DEF T
<1>3. 0..n \subseteq T
  BY <1>1, <1>2, UpTo
<1>4. n \in T
  BY <1>3, SMTT(40)
<1> QED BY <1>4 DEF T

LEMMA MinIsLeast ==
  ASSUME NEW T, T \subseteq Nat, NEW t \in T
  PROVE  Min(T) \in T /\ Min(T) <= t
<1>1. PICK m \in T : \A x \in T : m <= x
  BY LeastNumber
<1> QED BY <1>1 DEF Min

FromTiers(x, a, b, c, i) == (a # {} => x = Min(a)) /\ x \in {i} \cup a \cup b \cup c

LEMMA FirstOfTiers ==
  ASSUME NEW a, a \subseteq Nat, NEW b, b \subseteq Nat, NEW c, c \subseteq Nat, NEW i
  PROVE  FromTiers(FirstOf(<<a, b, c>>, i), a, b, c, i)
<1> USE DEF FromTiers
<1> DEFINE tiers == <<a, b, c>>
           found == {t \in DOMAIN tiers : tiers[t] # {}}
<1>1. FirstOf(tiers, i) = IF found = {} THEN i ELSE Min(tiers[Min(found)])
  BY DEF FirstOf
<1>2. DOMAIN tiers = 1..3 /\ tiers[1] = a /\ tiers[2] = b /\ tiers[3] = c
  OBVIOUS
<1>3. found \subseteq 1..3 /\ \A t \in found : tiers[t] # {}
  BY <1>2
<1>4. a # {} => 1 \in found
  BY <1>2
<1> HIDE DEF tiers, found
<1>5. CASE found = {}
  BY <1>1, <1>4, <1>5 DEF tiers
<1>6. CASE found # {}
  <2> DEFINE t == Min(found)
  <2>1. found \subseteq Nat
    BY <1>3
  <2>2. t \in found /\ FirstOf(tiers, i) = Min(tiers[t])
    BY <1>1, <1>6, <2>1, MinIsIn
  <2>3. a # {} => t <= 1
    BY <1>4, <2>1, MinIsLeast
  <2> HIDE DEF t
  <2>4. t \in 1..3 /\ tiers[t] # {} /\ (a # {} => t = 1)
    BY <1>3, <2>2, <2>3
  <2>5. tiers[t] = a \/ tiers[t] = b \/ tiers[t] = c
    <3>1. t = 1 \/ t = 2 \/ t = 3
      BY <2>4
    <3> QED BY <1>2, <3>1
  <2> DEFINE tier == tiers[t]
  <2>8. tier \subseteq Nat /\ tier \subseteq a \cup b \cup c
    BY <2>5
  <2>9. tier # {} /\ (a # {} => tier = a)
    BY <1>2, <2>4
  <2> HIDE DEF tier
  <2>6. Min(tier) \in tier
    BY <2>8, <2>9, MinIsIn
  <2>7. FirstOf(tiers, i) = Min(tier)
    BY <2>2 DEF tier
  <2> QED BY <2>8, <2>9, <2>6, <2>7 DEF tiers
<1> QED BY <1>5, <1>6

LinksEntities(links, R) == \A a, b \in R : SameEntity(a, b) => <<a, b>> \in links

\* Where a record leads: to itself or one in front of it that is the same entity,
\* and with an LEI to the first that has it.
LEMMA IdentifiersLead ==
  ASSUME NEW cs, Shaped(cs), NEW i \in DOMAIN cs
  PROVE  /\ IdentifiedBy(cs, i) \in 1..i
         /\ \/ IdentifiedBy(cs, i) = i
            \/ IdentifiedBy(cs, i) < i /\ SameEntity(cs[i], cs[IdentifiedBy(cs, i)])
         /\ SameLei(cs, i) # {} => IdentifiedBy(cs, i) = Min(SameLei(cs, i))
<1> DEFINE a == SameLei(cs, i)
           b == SameNumber(cs, i)
           c == SameDomain(cs, i)
           x == IdentifiedBy(cs, i)
<1>1. i \in Nat /\ i >= 1
  BY DEF Shaped
<1>2. ASSUME NEW j \in a \cup b \cup c PROVE j \in 1..(i-1) /\ SameEntity(cs[i], cs[j])
  <2>1. CASE j \in a
    BY <2>1 DEF SameLei, SameEntity
  <2>2. CASE j \in b
    <3>1. <<cs[j].country, cs[j].reg>> = <<cs[i].country, cs[i].reg>> /\ cs[i].reg # None
      BY <2>2 DEF SameNumber
    <3>2. cs[j].country = cs[i].country /\ cs[j].reg = cs[i].reg
      BY <3>1
    <3> QED BY <2>2, <3>1, <3>2 DEF SameNumber, SameEntity
  <2>3. CASE j \in c
    BY <2>3 DEF SameDomain, SameEntity
  <2> QED BY <2>1, <2>2, <2>3
<1>3. x = FirstOf(<<a, b, c>>, i)
  BY DEF IdentifiedBy
<1>4. a \subseteq Nat /\ b \subseteq Nat /\ c \subseteq Nat
  BY DEF SameLei, SameNumber, SameDomain
<1>5. i \in 1..i /\ \A j \in 1..(i-1) : j \in 1..i /\ j < i
  BY <1>1
<1> HIDE DEF a, b, c, x
<1>6. FromTiers(FirstOf(<<a, b, c>>, i), a, b, c, i)
  BY <1>4, FirstOfTiers
<1>7. FromTiers(x, a, b, c, i)
  BY <1>3, <1>6
<1>8. (a # {} => x = Min(a)) /\ (x = i \/ x \in a \cup b \cup c)
  BY <1>7 DEF FromTiers
<1>9. x \in 1..i /\ (x = i \/ (x < i /\ SameEntity(cs[i], cs[x])))
  <2>1. CASE x = i
    BY <1>5, <2>1
  <2>2. CASE x \in a \cup b \cup c
    <3>1. x \in 1..(i-1) /\ SameEntity(cs[i], cs[x])
      BY <1>2, <2>2
    <3> QED BY <1>5, <3>1
  <2> QED BY <1>8, <2>1, <2>2
<1> QED BY <1>8, <1>9 DEF a, x

\* The company each record goes to, as Identified finds it.
Leads(cs, home) ==
  /\ home \in [DOMAIN cs -> DOMAIN cs]
  /\ \A i \in DOMAIN cs :
       home[i] = IF IdentifiedBy(cs, i) = i THEN i ELSE home[IdentifiedBy(cs, i)]

LEMMA IdentifiedInTurn ==
  ASSUME NEW cs, Shaped(cs)
  PROVE  \E home : Leads(cs, home) /\ Identified(cs) = Merged(cs, home)
<1> DEFINE n == Len(cs)
           to(i) == IdentifiedBy(cs, i)
           step == [i \in 1..n |-> [f \in [1..(i-1) -> 1..n] |-> IF to(i) = i THEN i ELSE f[to(i)]]]
           home == CHOOSE f : f = [i \in DOMAIN cs |-> IF to(i) = i THEN i ELSE f[to(i)]]
<1>1. n \in Nat /\ DOMAIN cs = 1..n
  BY DEF Shaped
<1>2. \A i \in 1..n : to(i) = i \/ to(i) \in 1..(i-1)
  <2> SUFFICES ASSUME NEW i \in 1..n PROVE to(i) = i \/ to(i) \in 1..(i-1)
    OBVIOUS
  <2>1. i \in DOMAIN cs
    BY <1>1
  <2>2. to(i) \in 1..i
    BY <2>1, IdentifiersLead
  <2> HIDE DEF to
  <2> QED BY <1>1, <2>2
<1>3. Identified(cs) = Merged(cs, home)
  BY DEF Identified
<1> HIDE DEF to, n
<1>4. \A i \in 1..n : \A f \in [1..(i-1) -> 1..n] : step[i][f] = IF to(i) = i THEN i ELSE f[to(i)]
  OBVIOUS
<1>5. Makes(n, 1..n, step)
  BY <1>2, <1>4 DEF Makes
<1> HIDE DEF step
<1>6. PICK g \in [1..n -> 1..n] : Made(n, step, g)
  BY <1>1, <1>5, CourseOfValues
<1>7. \A i \in 1..n : g[i] = IF to(i) = i THEN i ELSE g[to(i)]
  <2> SUFFICES ASSUME NEW i \in 1..n PROVE g[i] = IF to(i) = i THEN i ELSE g[to(i)]
    OBVIOUS
  <2> DEFINE f == [j \in 1..(i-1) |-> g[j]]
  <2>1. f \in [1..(i-1) -> 1..n]
    BY <1>1
  <2>2. \A j \in 1..(i-1) : f[j] = g[j]
    OBVIOUS
  <2>3. g[i] = step[i][f]
    BY <1>6 DEF Made
  <2> HIDE DEF f
  <2> QED BY <1>2, <1>4, <2>1, <2>2, <2>3
<1>8. g = [i \in DOMAIN cs |-> IF to(i) = i THEN i ELSE g[to(i)]]
  BY <1>1, <1>7
<1>9. home = [i \in DOMAIN cs |-> IF to(i) = i THEN i ELSE home[to(i)]]
  BY <1>8
<1> HIDE DEF home
<1> DEFINE T == {k \in 0..n : \A i \in 1..k : home[i] \in 1..n}
<1>10. 0 \in T
  BY <1>1
<1>11. ASSUME NEW k \in 0..(n-1), k \in T PROVE k + 1 \in T
  <2>1. k + 1 \in 1..n /\ \A i \in 1..(k+1) : i \in 1..k \/ i = k + 1
    BY <1>1
  <2>2. to(k+1) = k + 1 \/ to(k+1) \in 1..k
    BY <1>2, <2>1
  <2>3. home[k+1] = IF to(k+1) = k + 1 THEN k + 1 ELSE home[to(k+1)]
    BY <1>1, <1>9, <2>1
  <2>4. home[k+1] \in 1..n
    BY <1>11, <2>1, <2>2, <2>3
  <2> QED BY <1>1, <1>11, <2>1, <2>4
<1>12. 0..n \subseteq T
  <2> HIDE DEF T
  <2> QED BY <1>1, <1>10, <1>11, UpTo
<1>13. \A i \in 1..n : home[i] \in 1..n
  BY <1>1, <1>12
<1>14. home \in [DOMAIN cs -> DOMAIN cs]
  BY <1>1, <1>9, <1>13
<1>15. Leads(cs, home)
  BY <1>9, <1>14 DEF Leads, to
<1> QED BY <1>3, <1>15

LEMMA LeadsHome ==
  ASSUME NEW cs, Shaped(cs), NEW home, Leads(cs, home)
  PROVE  /\ Homes(cs, home)
         /\ \A i \in DOMAIN cs :
              \/ home[i] = i
              \/ \E j \in DOMAIN cs : j < i /\ home[j] = home[i] /\ SameEntity(cs[i], cs[j])
         /\ \A i, k \in DOMAIN cs : cs[i].lei # None /\ cs[k].lei = cs[i].lei => home[i] = home[k]
<1> DEFINE n == Len(cs)
           T == {k \in 0..n : \A i \in 1..k : home[home[i]] = home[i]}
<1>1. n \in Nat /\ DOMAIN cs = 1..n /\ \A i \in 1..n : home[i] \in 1..n
  BY DEF Shaped, Leads
<1>2. \A i \in 1..n : home[i] = IF IdentifiedBy(cs, i) = i THEN i ELSE home[IdentifiedBy(cs, i)]
  BY <1>1 DEF Leads
<1>3. \A i \in 1..n : /\ IdentifiedBy(cs, i) \in 1..i
                      /\ \/ IdentifiedBy(cs, i) = i
                         \/ /\ IdentifiedBy(cs, i) < i
                            /\ SameEntity(cs[i], cs[IdentifiedBy(cs, i)])
                      /\ SameLei(cs, i) # {} => IdentifiedBy(cs, i) = Min(SameLei(cs, i))
  BY <1>1, IdentifiersLead
<1> HIDE DEF n
<1>4. 0 \in T
  BY <1>1
<1>5. ASSUME NEW k \in 0..(n-1), k \in T PROVE k + 1 \in T
  <2> DEFINE j == IdentifiedBy(cs, k + 1)
  <2>1. k + 1 \in 1..n /\ \A i \in 1..(k+1) : i \in 1..k \/ i = k + 1
    BY <1>1
  <2>2. j \in 1..(k+1) /\ home[k+1] = IF j = k + 1 THEN k + 1 ELSE home[j]
    BY <1>2, <1>3, <2>1
  <2> HIDE DEF j
  <2>3. home[home[k+1]] = home[k+1]
    BY <1>5, <2>1, <2>2
  <2> QED BY <1>1, <1>5, <2>1, <2>3
<1>6. 0..n \subseteq T
  <2> HIDE DEF T
  <2> QED BY <1>1, <1>4, <1>5, UpTo
<1>7. \A i \in 1..n : home[home[i]] = home[i]
  BY <1>1, <1>6
<1>8. Homes(cs, home)
  BY <1>1, <1>7 DEF Homes
<1>9. ASSUME NEW i \in 1..n, home[i] # i
      PROVE  \E j \in 1..n : j < i /\ home[j] = home[i] /\ SameEntity(cs[i], cs[j])
  <2> DEFINE j == IdentifiedBy(cs, i)
  <2>1. /\ home[i] = IF j = i THEN i ELSE home[j]
        /\ j \in 1..i
        /\ j = i \/ (j < i /\ SameEntity(cs[i], cs[j]))
    BY <1>2, <1>3
  <2> HIDE DEF j
  <2> QED BY <1>1, <1>9, <2>1
<1>10. ASSUME NEW i \in 1..n, NEW k \in 1..n, cs[i].lei # None, cs[k].lei = cs[i].lei
       PROVE  home[i] = home[k]
  <2> DEFINE A == {j \in 1..n : cs[j].lei = cs[i].lei}
             m == Min(A)
  <2>1. A \subseteq Nat /\ i \in A /\ k \in A
    BY <1>10
  <2>2. m \in A /\ \A j \in A : m <= j
    BY <2>1, MinIsLeast
  <2>3. ASSUME NEW x \in A PROVE home[x] = home[m]
    <3>1. CASE x = m
      BY <3>1
    <3>2. CASE x # m
      <4>1. x \in 1..n /\ m \in 1..n /\ m < x /\ cs[x].lei = cs[i].lei /\ cs[m].lei = cs[i].lei
        BY <2>2, <3>2
      <4> DEFINE Shared == SameLei(cs, x)
      <4>2. m \in Shared
        BY <1>10, <4>1 DEF SameLei
      <4>3. Shared \subseteq Nat /\ Shared \subseteq A
        BY <1>1, <4>1 DEF SameLei
      <4>4. IdentifiedBy(cs, x) = Min(Shared)
        BY <1>3, <4>1, <4>2
      <4>9. \A j \in A : m <= j
        BY <2>2
      <4> HIDE DEF Shared, A, m
      <4>5. Min(Shared) \in Shared /\ Min(Shared) <= m
        BY <4>2, <4>3, MinIsLeast
      <4>6. Min(Shared) \in A /\ Min(Shared) \in Nat /\ m \in Nat
        <5>1. Min(Shared) \in A /\ Min(Shared) \in Nat
          BY <4>3, <4>5
        <5>2. m \in Nat
          BY <2>1, <2>2
        <5> QED BY <5>1, <5>2
      <4>7. m <= Min(Shared)
        BY <4>6, <4>9
      <4>8. IdentifiedBy(cs, x) = m
        BY <4>4, <4>5, <4>6, <4>7
      <4> QED BY <1>2, <4>1, <4>8
    <3> QED BY <3>1, <3>2
  <2> HIDE DEF A
  <2> QED BY <2>1, <2>3
<1> QED BY <1>1, <1>8, <1>9, <1>10

\* One of a company's parts lends it its name, and its country if it has one.
Represented(g, parts) ==
  \A j \in DOMAIN g : \E a \in parts[j] :
     a.name = g[j].name /\ (a.country = None \/ a.country = g[j].country)

LEMMA IdentifiedOnce ==
  ASSUME NEW cs, Shaped(cs), SetApart(cs), AllNamed(cs), NoTwo(cs, "domain"),
         NEW links, Mutual(links), LinksEntities(links, Range(cs))
  PROVE  /\ NoTwo(Identified(cs), "domain") /\ NoTwo(Identified(cs), "lei")
         /\ \E parts : Resolved(Identified(cs), cs, parts, links) /\ Represented(Identified(cs), parts)
<1> DEFINE g == Identified(cs)
<1>1. PICK home : Leads(cs, home) /\ g = Merged(cs, home)
  BY IdentifiedInTurn
<1> HIDE DEF g
<1>2. /\ Homes(cs, home)
      /\ \A i \in DOMAIN cs :
           \/ home[i] = i
           \/ \E j \in DOMAIN cs : j < i /\ home[j] = home[i] /\ SameEntity(cs[i], cs[j])
      /\ \A i, k \in DOMAIN cs : cs[i].lei # None /\ cs[k].lei = cs[i].lei => home[i] = home[k]
  BY <1>1, LeadsHome
<1>3. Shaped(g)
  BY <1>1, <1>2, Grouping
<1>4. PICK h : Grouped(cs, home, g, h)
  BY <1>1, <1>2, Grouping
<1>5. /\ SetApart(g) /\ \A i \in DOMAIN cs : \E j \in DOMAIN g : cs[i].of \subseteq g[j].of
      /\ UNION {c.of : c \in Range(g)} = UNION {c.of : c \in Range(cs)}
  BY <1>2, <1>4, GroupedApart
<1> DEFINE parts == Single(cs, home, g, h)
<1>6. \A i \in DOMAIN cs :
         \/ home[i] = i
         \/ \E j \in DOMAIN cs : j < i /\ home[j] = home[i] /\ <<cs[i], cs[j]>> \in links
  <2>1. \A i \in DOMAIN cs : cs[i] \in Range(cs)
    BY DEF Range
  <2> QED BY <1>2, <2>1 DEF LinksEntities
<1>7. DOMAIN cs \subseteq Nat
  BY DEF Shaped
<1>8. Composed(g, cs, parts, links)
  BY <1>4, <1>6, <1>7, ComposedInTurn
<1>9. ASSUME NEW j \in DOMAIN g
      PROVE  /\ cs[h[j]] \in parts[j] /\ cs[h[j]].name = g[j].name /\ g[j].name # None
             /\ cs[h[j]].country = None \/ cs[h[j]].country = g[j].country
  <2>1. h[j] \in DOMAIN cs /\ h[j] \in Family(cs, home, h[j])
    BY <1>4 DEF Grouped, Family
  <2>2. /\ Takes(g[j].name, cs, h[j], Family(cs, home, h[j]), "name")
        /\ Takes(g[j].country, cs, h[j], Family(cs, home, h[j]), "country")
    BY <1>4 DEF Grouped, Fields
  <2>3. cs[h[j]] \in parts[j]
    BY <2>1 DEF Single
  <2> QED BY <2>1, <2>2, <2>3 DEF Takes, AllNamed
<1>10. NoTwo(g, "domain")
  <2>1. "domain" \in Fields
    BY DEF Fields
  <2> QED BY <1>4, <2>1, NoTwoKept
<1>11. NoTwo(g, "lei")
  <2> SUFFICES ASSUME NEW j \in DOMAIN g, NEW k \in DOMAIN g, j # k, g[j].lei # None,
                      g[j].lei = g[k].lei
               PROVE  FALSE
    BY DEF NoTwo
  <2>1. /\ Takes(g[j].lei, cs, h[j], Family(cs, home, h[j]), "lei")
        /\ Takes(g[k].lei, cs, h[k], Family(cs, home, h[k]), "lei")
    BY <1>4 DEF Grouped, Fields
  <2>2. PICK i \in Family(cs, home, h[j]) : cs[i].lei = g[j].lei
    BY <2>1 DEF Takes
  <2>3. PICK l \in Family(cs, home, h[k]) : cs[l].lei = g[j].lei
    BY <2>1 DEF Takes
  <2>4. i \in DOMAIN cs /\ l \in DOMAIN cs /\ home[i] = h[j] /\ home[l] = h[k]
    BY DEF Family
  <2>5. h[j] = h[k]
    BY <1>2, <2>2, <2>3, <2>4
  <2> QED BY <1>4, <2>5 DEF Grouped
<1> HIDE DEF parts
<1>12. Resolved(g, cs, parts, links)
  BY <1>3, <1>5, <1>8, <1>9 DEF Resolved
<1>13. Represented(g, parts)
  BY <1>9 DEF Represented
<1> QED BY <1>10, <1>11, <1>12, <1>13 DEF g

\* The companies in front of i that _fuzzy_merge_by_name compares it with.
AlikeBefore(cs, home, i) == {j \in 1..(i-1) : home[j] = j /\ Alike(cs[j], cs[i])}

FirstAlike(cs, home, i) ==
  IF AlikeBefore(cs, home, i) = {} THEN i ELSE Min(AlikeBefore(cs, home, i))

LEMMA ComparedInTurn ==
  ASSUME NEW cs, Shaped(cs)
  PROVE  \E home : /\ \A i \in DOMAIN cs : home[i] = FirstAlike(cs, home, i)
                   /\ FuzzyMerge(cs) = Merged(cs, home)
<1> DEFINE n == Len(cs)
           step == [i \in 1..n |-> [f \in [1..(i-1) -> Nat] |-> FirstAlike(cs, f, i)]]
           home == CHOOSE f : f = [i \in DOMAIN cs |-> FirstAlike(cs, f, i)]
<1>1. n \in Nat /\ DOMAIN cs = 1..n
  BY DEF Shaped
<1>2. FuzzyMerge(cs) = Merged(cs, home)
  BY DEF FuzzyMerge, FirstAlike, AlikeBefore
<1>3. \A i \in 1..n : \A f \in [1..(i-1) -> Nat] : step[i][f] = FirstAlike(cs, f, i)
  OBVIOUS
<1> HIDE DEF n, step
<1>4. ASSUME NEW i \in 1..n, NEW f PROVE FirstAlike(cs, f, i) \in Nat
  <2>1. AlikeBefore(cs, f, i) \subseteq Nat
    BY DEF AlikeBefore
  <2>2. AlikeBefore(cs, f, i) # {} => Min(AlikeBefore(cs, f, i)) \in AlikeBefore(cs, f, i)
    BY <2>1, MinIsIn
  <2> QED BY <2>1, <2>2 DEF FirstAlike
<1>5. Makes(n, Nat, step)
  BY <1>3, <1>4 DEF Makes
<1>6. PICK g \in [1..n -> Nat] : Made(n, step, g)
  BY <1>1, <1>5, CourseOfValues
<1>7. ASSUME NEW i \in 1..n PROVE g[i] = FirstAlike(cs, g, i)
  <2> DEFINE f == [j \in 1..(i-1) |-> g[j]]
  <2>1. f \in [1..(i-1) -> Nat]
    BY <1>1
  <2>2. \A j \in 1..(i-1) : f[j] = g[j]
    OBVIOUS
  <2>3. g[i] = step[i][f]
    BY <1>6 DEF Made
  <2> HIDE DEF f
  <2>4. AlikeBefore(cs, f, i) = AlikeBefore(cs, g, i)
    BY <2>2 DEF AlikeBefore
  <2>5. FirstAlike(cs, f, i) = FirstAlike(cs, g, i)
    BY <2>4 DEF FirstAlike
  <2> QED BY <1>3, <2>1, <2>3, <2>5
<1>8. g = [i \in DOMAIN cs |-> FirstAlike(cs, g, i)]
  BY <1>1, <1>7
<1>9. home = [i \in DOMAIN cs |-> FirstAlike(cs, home, i)]
  BY <1>8
<1> HIDE DEF home
<1>10. \A i \in DOMAIN cs : home[i] = FirstAlike(cs, home, i)
  BY <1>9
<1> QED BY <1>2, <1>10

LEMMA ComparedHome ==
  ASSUME NEW cs, Shaped(cs), NEW home, \A i \in DOMAIN cs : home[i] = FirstAlike(cs, home, i)
  PROVE  /\ Homes(cs, home)
         /\ \A i \in DOMAIN cs : home[i] = i \/ Alike(cs[home[i]], cs[i])
<1>1. ASSUME NEW i \in DOMAIN cs
      PROVE  \/ home[i] = i
             \/ home[i] \in DOMAIN cs /\ home[home[i]] = home[i] /\ Alike(cs[home[i]], cs[i])
  <2> DEFINE Fits == AlikeBefore(cs, home, i)
  <2>1. home[i] = IF Fits = {} THEN i ELSE Min(Fits)
    BY DEF FirstAlike
  <2>2. Fits \subseteq Nat /\ \A j \in Fits : j \in DOMAIN cs /\ home[j] = j /\ Alike(cs[j], cs[i])
    BY DEF AlikeBefore, Shaped
  <2> HIDE DEF Fits
  <2>3. Fits # {} => Min(Fits) \in Fits
    BY <2>2, MinIsIn
  <2> QED BY <2>1, <2>2, <2>3
<1> QED BY <1>1 DEF Homes

LEMMA ComparedOnce ==
  ASSUME NEW cs, NEW mid, NEW parts, NEW links, Mutual(links), LinksEntities(links, Range(cs)),
         Resolved(mid, cs, parts, links), Represented(mid, parts),
         NoTwo(mid, "domain"), NoTwo(mid, "lei")
  PROVE  /\ NoTwo(FuzzyMerge(mid), "domain") /\ NoTwo(FuzzyMerge(mid), "lei")
         /\ \E made : Resolved(FuzzyMerge(mid), cs, made, links)
<1> DEFINE g == FuzzyMerge(mid)
<1>1. Shaped(mid)
  BY DEF Resolved
<1>2. PICK home : /\ \A i \in DOMAIN mid : home[i] = FirstAlike(mid, home, i)
                  /\ g = Merged(mid, home)
  BY <1>1, ComparedInTurn
<1> HIDE DEF g
<1>3. Homes(mid, home) /\ \A i \in DOMAIN mid : home[i] = i \/ Alike(mid[home[i]], mid[i])
  BY <1>1, <1>2, ComparedHome
<1>4. ASSUME NEW i \in DOMAIN mid
      PROVE  home[i] = i \/ \E a \in parts[i], b \in parts[home[i]] : <<a, b>> \in links
  <2> SUFFICES ASSUME home[i] # i
               PROVE  \E a \in parts[i], b \in parts[home[i]] : <<a, b>> \in links
    OBVIOUS
  <2> DEFINE k == home[i]
  <2>1. k \in DOMAIN mid /\ Alike(mid[k], mid[i])
    BY <1>3 DEF Homes
  <2> HIDE DEF k
  <2>2. PICK a \in parts[i] : a.name = mid[i].name /\ (a.country = None \/ a.country = mid[i].country)
    BY DEF Represented
  <2>3. PICK b \in parts[k] : b.name = mid[k].name /\ (b.country = None \/ b.country = mid[k].country)
    BY <2>1 DEF Represented
  <2>4. mid[k].country = mid[i].country /\ <<LegalName[mid[i].name], LegalName[mid[k].name]>> \in Similar
    BY <2>1 DEF Alike
  <2>5. a.country = b.country \/ None \in {a.country, b.country}
    BY <2>2, <2>3, <2>4
  <2>6. SameEntity(a, b)
    BY <2>2, <2>3, <2>4, <2>5 DEF SameEntity
  <2>7. a \in Range(cs) /\ b \in Range(cs)
    BY <2>1 DEF Resolved, Composed
  <2> QED BY <2>6, <2>7 DEF LinksEntities, k
<1>5. PICK h : Grouped(mid, home, g, h) /\ Resolved(g, cs, Joint(mid, parts, home, g, h), links)
  BY <1>2, <1>3, <1>4, ResolvedAgain
<1>6. NoTwo(g, "domain") /\ NoTwo(g, "lei")
  <2>1. "domain" \in Fields /\ "lei" \in Fields
    BY DEF Fields
  <2> QED BY <1>5, <2>1, NoTwoKept
<1> QED BY <1>5, <1>6 DEF g

\* What resolve_entities makes of the companies that dedupe_companies leaves.
LEMMA EntitiesOnce ==
  ASSUME NEW cs, Shaped(cs), SetApart(cs), AllNamed(cs), NoTwo(cs, "domain"),
         NEW links, Mutual(links), LinksEntities(links, Range(cs)),
         NEW g, g = IF Len(cs) <= 1 THEN cs ELSE FuzzyMerge(Identified(cs))
  PROVE  /\ NoTwo(g, "domain") /\ NoTwo(g, "lei")
         /\ \E parts : Resolved(g, cs, parts, links)
<1>1. CASE Len(cs) <= 1
  <2> DEFINE single == [i \in DOMAIN cs |-> {cs[i]}]
  <2>1. g = cs
    BY <1>1
  <2>2. Composed(cs, cs, single, links)
    BY ComposedAlone
  <2>3. \A i \in DOMAIN cs : cs[i] \in single[i]
    OBVIOUS
  <2> HIDE DEF single
  <2>4. \A i, j \in DOMAIN cs : i = j
    BY <1>1 DEF Shaped
  <2>5. Resolved(cs, cs, single, links)
    BY <2>2, <2>3 DEF Resolved, AllNamed
  <2>6. NoTwo(cs, "lei")
    BY <2>4 DEF NoTwo
  <2> QED BY <2>1, <2>5, <2>6
<1>2. CASE ~ (Len(cs) <= 1)
  <2> DEFINE mid == Identified(cs)
  <2>1. /\ NoTwo(mid, "domain") /\ NoTwo(mid, "lei")
        /\ \E parts : Resolved(mid, cs, parts, links) /\ Represented(mid, parts)
    BY IdentifiedOnce
  <2>2. g = FuzzyMerge(mid)
    BY <1>2
  <2> HIDE DEF mid
  <2>3. PICK parts : Resolved(mid, cs, parts, links) /\ Represented(mid, parts)
    BY <2>1
  <2> QED BY <2>1, <2>2, <2>3, ComparedOnce
<1> QED BY <1>1, <1>2

\* A list of numbered records, and what dedupe_companies reads of it.
Reported(cs) ==
  /\ Len(cs) \in Nat /\ DOMAIN cs = 1..Len(cs)
  /\ \A i \in DOMAIN cs : cs[i] \in Record /\ cs[i].of = {i}

LEMMA CleanedKeeps ==
  ASSUME NEW c \in Record
  PROVE  /\ Fields \cup {"of"} \subseteq DOMAIN Cleaned(c)
         /\ Cleaned(c).name = c.name /\ Cleaned(c).of = c.of
<1>1. DOMAIN c = {"name", "city", "country", "site", "domain", "lei", "reg", "of"}
  BY DEF Record
<1>2. DOMAIN Cleaned(c) = DOMAIN c
  BY DEF Cleaned
<1>3. Cleaned(c).name = c.name /\ Cleaned(c).of = c.of
  BY <1>1 DEF Cleaned
<1> QED BY <1>1, <1>2, <1>3 DEF Fields

LEMMA NamedApart ==
  ASSUME NEW cs, Reported(cs)
  PROVE  LET all == [i \in DOMAIN cs |-> Cleaned(cs[i])]
             named == At(cs, {i \in DOMAIN cs : cs[i].name # None})
             clean == [i \in DOMAIN named |-> Cleaned(named[i])]
         IN /\ SetApart(all) /\ \A i \in DOMAIN cs : all[i].name = cs[i].name /\ all[i].of = {i}
            /\ Shaped(clean) /\ SetApart(clean) /\ AllNamed(clean) /\ Range(clean) \subseteq Range(all)
            /\ \A i \in DOMAIN cs : cs[i].name # None => \E m \in DOMAIN clean : clean[m] = all[i]
<1> DEFINE all == [i \in DOMAIN cs |-> Cleaned(cs[i])]
           I == {i \in DOMAIN cs : cs[i].name # None}
           named == At(cs, I)
           clean == [i \in DOMAIN named |-> Cleaned(named[i])]
           size == Len(named)
<1>1. \A i \in DOMAIN cs : /\ Fields \cup {"of"} \subseteq DOMAIN all[i]
                           /\ all[i].name = cs[i].name /\ all[i].of = {i}
  BY CleanedKeeps DEF Reported
<1>2. DOMAIN all = DOMAIN cs
  OBVIOUS
<1>3. Len(cs) \in Nat /\ I \subseteq 1..Len(cs) /\ DOMAIN cs = 1..Len(cs)
  BY DEF Reported
<1>4. /\ \A i \in I : i \in DOMAIN cs /\ cs[i].name # None
      /\ \A i \in DOMAIN cs : cs[i].name # None => i \in I
      /\ \A i \in DOMAIN cs : all[i] = Cleaned(cs[i])
  OBVIOUS
<1> HIDE DEF I, all
<1>5. size \in Nat /\ DOMAIN named = 1..size /\ \E order : Picks(named, cs, I, order)
  BY <1>3, Picked
<1>6. PICK o : Picks(named, cs, I, o)
  BY <1>5
<1> HIDE DEF named
<1>7. DOMAIN clean = 1..size /\ Len(clean) = size /\ \A m \in 1..size : clean[m] = Cleaned(named[m])
  BY <1>5
<1> HIDE DEF clean, size
<1>8. \A m \in 1..size : o[m] \in I /\ clean[m] = all[o[m]]
  <2>1. \A m \in 1..size : o[m] \in I /\ named[m] = cs[o[m]]
    BY <1>5, <1>6 DEF Picks
  <2> QED BY <1>4, <1>7, <2>1
<1>9. \A m, l \in 1..size : m = l \/ o[m] # o[l]
  BY <1>5, <1>6 DEF Picks
<1>10. \A m \in 1..size : /\ Fields \cup {"of"} \subseteq DOMAIN clean[m]
                          /\ clean[m].name # None /\ clean[m].of = {o[m]}
  BY <1>1, <1>4, <1>8
<1>11. Shaped(clean) /\ AllNamed(clean)
  BY <1>5, <1>7, <1>10 DEF Shaped, AllNamed
<1>12. SetApart(clean)
  <2>1. ASSUME NEW m \in 1..size, NEW l \in 1..size, m # l
        PROVE  clean[m].of \cap clean[l].of = {}
    <3>1. o[m] # o[l] /\ clean[m].of = {o[m]} /\ clean[l].of = {o[l]}
      BY <1>9, <1>10, <2>1
    <3> QED BY <3>1
  <2>2. \A m \in 1..size : clean[m].of # {}
    BY <1>10
  <2> QED BY <1>7, <2>1, <2>2 DEF SetApart
<1>13. SetApart(all)
  BY <1>1, <1>2 DEF SetApart
<1>14. Range(clean) \subseteq Range(all)
  BY <1>2, <1>4, <1>7, <1>8 DEF Range
<1>15. \A i \in DOMAIN cs : cs[i].name # None => \E m \in DOMAIN clean : clean[m] = all[i]
  BY <1>4, <1>5, <1>6, <1>7, <1>8 DEF Picks
<1> QED BY <1>1, <1>11, <1>12, <1>13, <1>14, <1>15 DEF all, clean, named, I

KeyLinks(R) == {p \in R \X R : SameKey(p[1], p[2])}
EntityLinks(R) == {p \in R \X R : SameEntity(p[1], p[2])}

LEMMA LinksMutual ==
  ASSUME NEW R
  PROVE  /\ Mutual(KeyLinks(R)) /\ LinksKeys(KeyLinks(R), R)
         /\ Mutual(EntityLinks(R)) /\ LinksEntities(EntityLinks(R), R)
<1>1. \A a, b : /\ <<a, b>> \in KeyLinks(R) <=> a \in R /\ b \in R /\ SameKey(a, b)
                /\ <<a, b>> \in EntityLinks(R) <=> a \in R /\ b \in R /\ SameEntity(a, b)
  BY DEF KeyLinks, EntityLinks
<1>2. \A a, b : SameKey(a, b) => SameKey(b, a)
  BY DEF SameKey
<1>3. ASSUME NEW a, NEW b, SameEntity(a, b) PROVE SameEntity(b, a)
  <2> DEFINE x == LegalName[a.name]
             y == LegalName[b.name]
  <2>1. {<<x, y>>, <<y, x>>} = {<<y, x>>, <<x, y>>} /\ {a.country, b.country} = {b.country, a.country}
    OBVIOUS
  <2> QED BY <1>3, <2>1 DEF SameEntity
<1> QED BY <1>1, <1>2, <1>3 DEF Mutual, LinksKeys, LinksEntities

\* What the two loops of dedupe_companies make of the records they are given.
LEMMA DedupedOnce ==
  ASSUME NEW cs, Reported(cs)
  PROVE  LET all == [i \in DOMAIN cs |-> Cleaned(cs[i])]
             base == Dedupe(cs)
         IN /\ SetApart(all) /\ \A i \in DOMAIN cs : all[i].name = cs[i].name /\ all[i].of = {i}
            /\ Shaped(base) /\ SetApart(base) /\ AllNamed(base) /\ NoTwo(base, "domain")
            /\ \A i \in DOMAIN cs :
                 IF cs[i].name # None THEN \E j \in DOMAIN base : i \in base[j].of
                 ELSE \A j \in DOMAIN base : i \notin base[j].of
            /\ \A j \in DOMAIN base : MadeOf(base[j], Range(all), KeyLinks(Range(all)))
<1> DEFINE all == [i \in DOMAIN cs |-> Cleaned(cs[i])]
           named == At(cs, {i \in DOMAIN cs : cs[i].name # None})
           clean == [i \in DOMAIN named |-> Cleaned(named[i])]
           keyed == ByKey(cs)
           base == Dedupe(cs)
           links == KeyLinks(Range(all))
<1>1. /\ SetApart(all) /\ \A i \in DOMAIN cs : all[i].name = cs[i].name /\ all[i].of = {i}
      /\ Shaped(clean) /\ SetApart(clean) /\ AllNamed(clean) /\ Range(clean) \subseteq Range(all)
      /\ \A i \in DOMAIN cs : cs[i].name # None => \E m \in DOMAIN clean : clean[m] = all[i]
  BY NamedApart
<1>2. keyed = Merged(clean, KeyHome(clean))
  BY DEF ByKey, KeyHome
<1>3. base = Merged(keyed, TwinHome(keyed))
  BY DEF Dedupe, TwinHome, TwinsOf
<1>4. DOMAIN all = DOMAIN cs
  OBVIOUS
<1> HIDE DEF all, clean, keyed, base
<1>5. Mutual(links) /\ LinksKeys(links, Range(all))
  BY LinksMutual
<1>6. LinksKeys(links, Range(clean))
  BY <1>1, <1>5 DEF LinksKeys
<1> HIDE DEF links
<1>7. NoTwo(keyed, "domain") /\ \E parts : Resolved(keyed, clean, parts, links)
  BY <1>1, <1>2, <1>5, <1>6, KeyedOnce
<1>8. NoTwo(base, "domain") /\ \E parts : Resolved(base, clean, parts, links)
  <2>1. PICK parts : Resolved(keyed, clean, parts, links)
    BY <1>7
  <2> QED BY <1>3, <1>5, <1>6, <1>7, <2>1, JoinedOnce
<1>9. PICK parts : Resolved(base, clean, parts, links)
  BY <1>8
<1>10. Shaped(base) /\ SetApart(base) /\ AllNamed(base)
  BY <1>9 DEF Resolved, AllNamed
<1>11. ASSUME NEW i \in DOMAIN cs, cs[i].name # None PROVE \E j \in DOMAIN base : i \in base[j].of
  <2>1. PICK m \in DOMAIN clean : clean[m] = all[i]
    BY <1>1, <1>11
  <2>2. PICK j \in DOMAIN base : clean[m].of \subseteq base[j].of
    BY <1>9 DEF Resolved
  <2> QED BY <1>1, <2>1, <2>2
<1>12. ASSUME NEW i \in DOMAIN cs, cs[i].name = None, NEW j \in DOMAIN base, i \in base[j].of
       PROVE  FALSE
  <2>1. base[j] \in Range(base)
    BY DEF Range
  <2>2. i \in UNION {c.of : c \in Range(clean)}
    BY <1>9, <1>12, <2>1 DEF Resolved
  <2>3. PICK m \in DOMAIN clean : i \in clean[m].of
    BY <2>2 DEF Range
  <2>4. clean[m] \in Range(all)
    BY <1>1 DEF Range
  <2>5. PICK k \in DOMAIN cs : clean[m] = all[k]
    BY <1>4, <2>4 DEF Range
  <2>6. k = i
    BY <1>1, <2>3, <2>5
  <2> QED BY <1>1, <1>12, <2>5, <2>6 DEF AllNamed
<1>13. Composed(base, all, parts, links)
  BY <1>1, <1>9 DEF Resolved, Composed
<1>14. \A j \in DOMAIN base : MadeOf(base[j], Range(all), links)
  BY <1>1, <1>13, PartsFound
<1> QED BY <1>1, <1>8, <1>10, <1>11, <1>12, <1>14 DEF all, base, links

\* A resolution: what the answer to a list of records promises.
Resolution(cs, g) ==
  LET input == {Cleaned(c) : c \in Range(cs)}
      base == Range(Dedupe(cs))
      sameKey == {p \in input \X input : SameKey(p[1], p[2])}
      sameEntity == {p \in base \X base : SameEntity(p[1], p[2])}
  IN /\ \A c \in input : Cardinality({j \in DOMAIN g : c.of \subseteq g[j].of})
                           = IF c.name = None THEN 0 ELSE 1
     /\ \A d \in base : MadeOf(d, input, sameKey)
     /\ \A d \in Range(g) : MadeOf(d, base, sameEntity)
     /\ \A j, k \in DOMAIN g : j # k =>
          /\ g[j].domain = None \/ g[j].domain # g[k].domain
          /\ g[j].lei = None \/ g[j].lei # g[k].lei

LEMMA EntitiesResolved ==
  ASSUME NEW cs, Reported(cs)
  PROVE  Resolution(cs, ResolveEntities(cs))
<1> DEFINE all == [i \in DOMAIN cs |-> Cleaned(cs[i])]
           base == Dedupe(cs)
           g == ResolveEntities(cs)
           input == {Cleaned(c) : c \in Range(cs)}
           links == EntityLinks(Range(base))
<1>1. /\ SetApart(all) /\ \A i \in DOMAIN cs : all[i].name = cs[i].name /\ all[i].of = {i}
      /\ Shaped(base) /\ SetApart(base) /\ AllNamed(base) /\ NoTwo(base, "domain")
      /\ \A i \in DOMAIN cs :
           IF cs[i].name # None THEN \E j \in DOMAIN base : i \in base[j].of
           ELSE \A j \in DOMAIN base : i \notin base[j].of
      /\ \A j \in DOMAIN base : MadeOf(base[j], Range(all), KeyLinks(Range(all)))
  BY DedupedOnce
<1>2. g = IF Len(base) <= 1 THEN base ELSE FuzzyMerge(Identified(base))
  BY DEF ResolveEntities
<1>3. Range(all) = input /\ DOMAIN all = DOMAIN cs
  BY DEF Range
<1> HIDE DEF all, base, g
<1>4. Mutual(links) /\ LinksEntities(links, Range(base))
  BY LinksMutual
<1> HIDE DEF links
<1>5. /\ NoTwo(g, "domain") /\ NoTwo(g, "lei")
      /\ \E parts : Resolved(g, base, parts, links)
  BY <1>1, <1>2, <1>4, EntitiesOnce
<1>6. PICK parts : Resolved(g, base, parts, links)
  BY <1>5
<1>7. \A d \in Range(g) : MadeOf(d, Range(base), links)
  <2>1. \A j \in DOMAIN g : MadeOf(g[j], Range(base), links)
    BY <1>1, <1>6, PartsFound DEF Resolved
  <2> QED BY <2>1 DEF Range
<1>8. \A d \in Range(base) : MadeOf(d, input, KeyLinks(input))
  BY <1>1, <1>3 DEF Range
<1>9. ASSUME NEW i \in DOMAIN cs
      PROVE  Cardinality({j \in DOMAIN g : all[i].of \subseteq g[j].of})
               = IF all[i].name = None THEN 0 ELSE 1
  <2> DEFINE J == {j \in DOMAIN g : all[i].of \subseteq g[j].of}
  <2>1. \A j \in DOMAIN g : j \in J <=> i \in g[j].of
    BY <1>1
  <2>2. J \subseteq DOMAIN g
    OBVIOUS
  <2> HIDE DEF J
  <2>3. \A x : (\E j \in DOMAIN g : x \in g[j].of) <=> (\E j \in DOMAIN base : x \in base[j].of)
    <3>1. UNION {c.of : c \in Range(g)} = UNION {c.of : c \in Range(base)}
      BY <1>6 DEF Resolved
    <3>2. \A x : x \in UNION {c.of : c \in Range(g)} <=> \E j \in DOMAIN g : x \in g[j].of
      BY DEF Range
    <3>3. \A x : x \in UNION {c.of : c \in Range(base)} <=> \E j \in DOMAIN base : x \in base[j].of
      BY DEF Range
    <3> QED BY <3>1, <3>2, <3>3
  <2>4. CASE all[i].name = None
    <3>1. J = {}
      BY <1>1, <2>1, <2>2, <2>3, <2>4
    <3> QED BY <2>4, <3>1, FS_EmptySet DEF J
  <2>5. CASE all[i].name # None
    <3>1. PICK j \in DOMAIN g : i \in g[j].of
      BY <1>1, <2>3, <2>5
    <3>2. \A k \in DOMAIN g : i \in g[k].of => k = j
      BY <1>6, <3>1 DEF Resolved, SetApart
    <3>3. J = {j}
      BY <2>1, <2>2, <3>1, <3>2
    <3> QED BY <2>5, <3>3, FS_Singleton DEF J
  <2> QED BY <2>4, <2>5
<1>10. \A c \in input : Cardinality({j \in DOMAIN g : c.of \subseteq g[j].of})
                          = IF c.name = None THEN 0 ELSE 1
  <2>1. \A c \in input : \E i \in DOMAIN cs : c = all[i]
    BY <1>3 DEF Range
  <2> QED BY <1>9, <2>1
<1>11. \A j, k \in DOMAIN g : j # k =>
          /\ g[j].domain = None \/ g[j].domain # g[k].domain
          /\ g[j].lei = None \/ g[j].lei # g[k].lei
  BY <1>5 DEF NoTwo
<1> HIDE DEF input
<1>12. /\ KeyLinks(input) = {p \in input \X input : SameKey(p[1], p[2])}
       /\ links = {p \in Range(base) \X Range(base) : SameEntity(p[1], p[2])}
  BY DEF KeyLinks, EntityLinks, links
<1> QED BY <1>7, <1>8, <1>10, <1>11, <1>12 DEF Resolution, input, base, g

\* Entity resolution merges what belongs together and nothing else, whatever
\* the records and in whatever order the sources report them
\* (dedupe_companies, resolve_entities).
THEOREM CompaniesOnce == Spec => []ResolvedOnce
<1>1. Init => ResolvedOnce
  BY DEF Init, ResolvedOnce
<1>2. ASSUME ResolvedOnce, [Next]_vars PROVE ResolvedOnce'
  <2>1. CASE UNCHANGED vars
    BY <1>2, <2>1 DEF vars, ResolvedOnce
  <2>2. CASE AskResolve
    <3>1. PICK n \in 0..MostRecords : \E cs \in [1..n -> Records] :
             Ask("resolve", Numbered(cs), ResolveEntities(Numbered(cs)))
      BY <2>2 DEF AskResolve
    <3>2. PICK raw \in [1..n -> Records] :
             Ask("resolve", Numbered(raw), ResolveEntities(Numbered(raw)))
      BY <3>1
    <3> DEFINE cs == Numbered(raw)
               got == ResolveEntities(cs)
    <3>3. n \in Nat
      OBVIOUS
    <3>4. Reported(cs)
      <4>1. \A i \in 1..n : /\ [raw[i] EXCEPT !.of = {i}] \in Record
                            /\ [raw[i] EXCEPT !.of = {i}].of = {i}
        <5> SUFFICES ASSUME NEW i \in 1..n, NEW c \in Record
                     PROVE  [c EXCEPT !.of = {i}] \in Record /\ [c EXCEPT !.of = {i}].of = {i}
          BY QuestionsAssumption
        <5>1. {i} \in SUBSET Nat
          BY <3>3
        <5> QED BY <5>1 DEF Record
      <4>2. cs = [i \in 1..n |-> [raw[i] EXCEPT !.of = {i}]]
        BY DEF Numbered
      <4>3. Len(cs) = n /\ DOMAIN cs = 1..n
        BY <3>3, <4>2
      <4>4. \A i \in 1..n : cs[i] \in Record /\ cs[i].of = {i}
        BY <4>1, <4>2
      <4> HIDE DEF cs
      <4> QED BY <3>3, <4>3, <4>4 DEF Reported
    <3>5. question'.input = cs /\ answer' = got
      BY <3>2 DEF Ask
    <3> HIDE DEF cs
    <3>6. Resolution(cs, got)
      BY <3>4, EntitiesResolved
    <3> HIDE DEF got
    <3> QED BY <3>5, <3>6 DEF ResolvedOnce, Resolution
  <2>3. CASE \/ AskClassify \/ AskScore \/ AskFunnel \/ AskScreen \/ AskBrief \/ AskPresence
             \/ AskReply \/ AskTasks \/ AskCalls \/ AskNews \/ AskPages \/ AskModel
    BY <2>3, Kinds DEF ResolvedOnce
  <2> QED BY <1>2, <2>1, <2>2, <2>3 DEF Next
<1> QED BY <1>1, <1>2, PTL DEF Spec

=============================================================================
