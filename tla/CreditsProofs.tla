--------------------------- MODULE CreditsProofs ---------------------------
(***************************************************************************)
(* What TLAPS proves of module Credits for every instance of it: typing,   *)
(* what becomes of a hold, that delivered leads are charged, the cap on    *)
(* runs, and that holds stay within the tier if the gate and the           *)
(* reservation of one user do not overlap.  Liveness is left to TLC.       *)
(***************************************************************************)
EXTENDS Credits, FiniteSetTheorems, FunctionTheorems, WellFoundedInduction, TLAPS

-----------------------------------------------------------------------------
(* Typing.                                                                 *)

LEMMA CallTypes ==
  ASSUME call \in [Dispatches -> Calls], NEW d \in Dispatches
  PROVE  /\ call[d].user \in Callers
         /\ call[d].campaign \in Campaigns
         /\ call[d].size \in Nat \ {0}
         /\ Metered(d) => call[d].user \in Users
  BY SizesAssumption DEF Calls, Metered

LEMMA MonthType == \A day \in Nat : MonthOf(day) \in Nat
  BY ClockAssumption DEF MonthOf

LEMMA CounterTypes ==
  /\ NoCounter \in Counter /\ NoBalance \in Balance
  /\ \A row \in Counter, day \in Nat, n \in Nat : Bump(row, day, n) \in Counter
  /\ \A row \in Counter, day \in Nat : BalanceOn(row, day) \in Balance
<1>1. NoCounter \in Counter /\ NoBalance \in Balance
  BY DEF NoCounter, NoCount, Counter, CountRow, NoBalance, Balance
<1>2. \A row \in CountRow, period, n \in Nat : Added(row, period, n) \in CountRow /\ Reading(row, period) \in Nat
  BY DEF CountRow, Added, Reading
<1>3. ASSUME NEW row \in Counter, NEW day \in Nat, NEW n \in Nat
      PROVE  Bump(row, day, n) \in Counter /\ BalanceOn(row, day) \in Balance
  <2>1. row.daily \in CountRow /\ row.monthly \in CountRow
    BY DEF Counter
  <2> QED BY <1>2, <2>1, MonthType DEF Bump, BalanceOn, Counter, Balance
<1> QED BY <1>1, <1>3

\* A statement's date is a date.
LEMMA DatesAreDays ==
  ASSUME since \in [Dispatches -> Nat], clock \in [hour : Nat, day : Nat],
         NEW d \in Dispatches
  PROVE  Dates(d) \subseteq Nat
<1>1. since[d] \in Nat /\ clock.day \in Nat
  OBVIOUS
<1> QED BY <1>1 DEF Dates

\* Only metered callers come to the statements that count and hold.
MeteredOnly ==
  \A d \in Dispatches : req[d] \in {"count", "read", "gate", "reserve"} => Metered(d)

Typed == TypeOK /\ MeteredOnly

HoldRow == [state : HoldStates, age : Nat]
ProgressRow == [stage : {"over", "live"}, age : Nat]

\* Releases, reservations and the passing of time keep the rows' type.
LEMMA RowTypes ==
  ASSUME hold \in [Dispatches -> HoldRow], progress \in [Campaigns -> ProgressRow]
  PROVE  /\ \A c \in Campaigns, state \in HoldStates :
              Release(c, state) => hold' \in [Dispatches -> HoldRow]
         /\ \A d \in Dispatches : Reserve(d) => hold' \in [Dispatches -> HoldRow]
         /\ \A c \in Campaigns, stage \in {"over", "live"} :
              SetProgress(c, stage) => progress' \in [Campaigns -> ProgressRow]
         /\ \A row \in HoldRow : Older(row, HoldTTL) \in HoldRow
         /\ \A row \in ProgressRow : Older(row, StaleAfter) \in ProgressRow
<1>1. \A state \in HoldStates : Row(state) \in HoldRow
  BY DEF Row, HoldRow
<1>2. ASSUME NEW c \in Campaigns, NEW state \in HoldStates, Release(c, state)
      PROVE  hold' \in [Dispatches -> HoldRow]
  BY <1>1, <1>2 DEF Release
<1>3. ASSUME NEW d \in Dispatches, Reserve(d)
      PROVE  hold' \in [Dispatches -> HoldRow]
  BY <1>1, <1>3 DEF Reserve, HoldStates
<1>4. ASSUME NEW c \in Campaigns, NEW stage \in {"over", "live"}, SetProgress(c, stage)
      PROVE  progress' \in [Campaigns -> ProgressRow]
  BY <1>4 DEF SetProgress, ProgressRow
<1>5. \A row \in HoldRow : Older(row, HoldTTL) \in HoldRow
  BY ClockAssumption DEF Older, HoldRow
<1>6. \A row \in ProgressRow : Older(row, StaleAfter) \in ProgressRow
  BY ClockAssumption DEF Older, ProgressRow
<1> QED BY <1>2, <1>3, <1>4, <1>5, <1>6

LEMMA StampTypes ==
  ASSUME since \in [Dispatches -> Nat], clock \in [hour : Nat, day : Nat],
         NEW d \in Dispatches, Stamp(d) \/ Unstamp(d)
  PROVE  since' \in [Dispatches -> Nat]
<1>1. clock.day \in Nat
  OBVIOUS
<1> QED BY <1>1 DEF Stamp, Unstamp

\* Billing writes one user's credits, nothing else of the counters.
LEMMA BillOwnerRow ==
  ASSUME NEW d \in Dispatches, BillOwner(d), Typed
  PROVE  \/ usage' = usage
         \/ \E u \in Users, row \in Counter : usage' = [usage EXCEPT ![u].credits = row]
<1> DEFINE owner == IF call[d].campaign \in deleted THEN NoOne ELSE Owner[call[d].campaign]
<1>1. CASE owner = NoOne \/ ready[d] = 0
  BY <1>1 DEF BillOwner
<1>2. CASE ~(owner = NoOne \/ ready[d] = 0)
  <2>1. PICK day \in Dates(d) : usage' = [usage EXCEPT ![owner].credits = Bump(@, day, ready[d])]
    BY <1>2 DEF BillOwner
  <2>2. owner \in Users
    BY <1>2, CallTypes, CallersAssumption DEF Callers, Typed, TypeOK
  <2> HIDE DEF owner
  <2>3. Bump(usage[owner].credits, day, ready[d]) \in Counter
    BY <2>2, CounterTypes, DatesAreDays DEF Typed, TypeOK
  <2>4. usage' = [usage EXCEPT ![owner].credits = Bump(usage[owner].credits, day, ready[d])]
    BY <2>1, <2>2 DEF Typed, TypeOK
  <2> QED BY <2>2, <2>3, <2>4
<1> QED BY <1>1, <1>2

LEMMA EarlierFinite ==
  ASSUME NEW S \in SUBSET {[by |-> d, on |-> 0, found |-> 0] : d \in Earlier},
         NEW T \in SUBSET S
  PROVE  IsFiniteSet(T)
<1> DEFINE Entry(d) == [by |-> d, on |-> 0, found |-> 0]
           E == {Entry(d) : d \in Earlier}
           f == [d \in Earlier |-> Entry(d)]
<1>1. f \in [Earlier -> E] /\ \A e \in E : \E d \in Earlier : f[d] = e
  OBVIOUS
<1>2. T \subseteq E
  OBVIOUS
<1> HIDE DEF E, f
<1>3. IsFiniteSet(Earlier)
  BY DispatchesAssumption, FS_Subset
<1>4. f \in Surjection(Earlier, E)
  BY <1>1, Fun_IsSurj
<1>5. IsFiniteSet(E)
  BY <1>3, <1>4, FS_Surjection
<1> QED BY <1>2, <1>5, FS_Subset

LEMMA InitTyped == Init => Typed
<1> SUFFICES ASSUME Init PROVE Typed
  OBVIOUS
<1>1. hold \in [Dispatches -> HoldRow] /\ progress \in [Campaigns -> ProgressRow]
  BY DEF Init, Row, HoldRow, HoldStates, ProgressRow
<1>2. admitted \subseteq [by : Dispatches, on : Nat, found : Nat]
  BY DispatchesAssumption DEF Init
<1>3. usage \in [Users -> [runs : Counter, credits : Counter]]
  <2>1. ASSUME NEW u \in Users PROVE EarlierRuns(u) \in Counter
    <3>1. IsFiniteSet(Admitted(u))
      BY EarlierFinite DEF Init, Admitted
    <3>2. Cardinality(Admitted(u)) \in Nat
      BY <3>1, FS_CardinalityType
    <3> QED BY <3>2 DEF EarlierRuns, Counter, CountRow
  <2> QED BY <2>1, CounterTypes DEF Init
<1>4. call \in [Dispatches -> Calls]
  BY DEF Init, Asking
<1> QED
  BY <1>1, <1>2, <1>3, <1>4, CounterTypes
  DEF Init, TypeOK, Typed, MeteredOnly, ReqStates, JobStates, HoldRow, ProgressRow

LEMMA RequestTypeOK ==
  ASSUME Typed, NEW d \in Dispatches, Request(d)
  PROVE  TypeOK'
<1> USE DEF TypeOK, Typed, apiVars, jobVars, calendar, counts
<1>0. /\ call[d].user \in Callers /\ call[d].campaign \in Campaigns
      /\ Metered(d) => call[d].user \in Users
  BY CallTypes
<1>r. \A state \in ReqStates : Goto(d, state) => req' \in [Dispatches -> ReqStates]
  BY DEF Goto
<1>h. hold \in [Dispatches -> HoldRow] /\ progress \in [Campaigns -> ProgressRow]
  BY DEF HoldRow, ProgressRow
<1>s. (Stamp(d) \/ Unstamp(d)) => since' \in [Dispatches -> Nat]
  BY StampTypes
<1>1. CASE CheckActive(d)
  BY <1>1, <1>r, <1>s DEF CheckActive, ReqStates
<1>2. CASE CountRun(d)
  <2>1. req' \in [Dispatches -> ReqStates]
    BY <1>2, <1>r DEF CountRun, ReqStates
  <2>2. call[d].user \in Users
    BY <1>0, <1>2 DEF CountRun, MeteredOnly
  <2>3. usage' \in [Users -> [runs : Counter, credits : Counter]]
    <3>1. \A day \in Dates(d) : Bump(usage[call[d].user].runs, day, 1) \in Counter
      BY <2>2, CounterTypes, DatesAreDays
    <3> QED BY <1>2, <2>2, <3>1 DEF CountRun
  <2>4. admitted' \subseteq [by : Dispatches, on : Nat, found : Nat]
    <3>1. usage[call[d].user].runs.daily.at \in Nat
      BY <2>2 DEF Counter, CountRow
    <3> QED BY <1>2, <3>1, DatesAreDays DEF CountRun
  <2>5. since' \in [Dispatches -> Nat]
    BY <1>2, <1>s DEF CountRun
  <2> QED BY <1>2, <2>1, <2>3, <2>4, <2>5 DEF CountRun
<1>3. CASE RefuseSize(d)
  BY <1>3, <1>r, <1>s DEF RefuseSize, ReqStates
<1>4. CASE ReadCredits(d)
  <2>1. call[d].user \in Users
    BY <1>0, <1>4 DEF ReadCredits, MeteredOnly
  <2>2. \A day \in Dates(d) : BalanceOn(usage[call[d].user].credits, day) \in Balance
    BY <2>1, CounterTypes, DatesAreDays
  <2>3. seen' \in [Dispatches -> Balance]
    BY <1>4, <2>2 DEF ReadCredits
  <2> QED BY <1>4, <1>r, <1>s, <2>3 DEF ReadCredits, ReqStates
<1>5. CASE Gate(d)
  BY <1>5, <1>r, CounterTypes DEF Gate, ReqStates
<1>6. CASE HoldCredits(d)
  <2>1. hold' \in [Dispatches -> HoldRow]
    BY <1>6, <1>h, RowTypes DEF HoldCredits
  <2> QED BY <1>6, <1>r, <2>1 DEF HoldCredits, ReqStates, HoldRow
<1>7. CASE DispatchOK(d)
  BY <1>7, <1>r DEF DispatchOK, ReqStates, JobStates
<1>8. CASE DispatchRaises(d)
  BY <1>8, <1>r DEF DispatchRaises, ReqStates, JobStates
<1>9. CASE RefundRequest(d)
  <2>1. hold' \in [Dispatches -> HoldRow]
    BY <1>9, <1>0, <1>h, RowTypes DEF RefundRequest, HoldStates
  <2> QED BY <1>9, <1>r, <2>1 DEF RefundRequest, ReqStates, HoldRow
<1>10. CASE Announce(d)
  <2>1. progress' \in [Campaigns -> ProgressRow]
    BY <1>10, <1>0, <1>h, RowTypes DEF Announce
  <2> QED BY <1>10, <1>r, <2>1 DEF Announce, ReqStates, ProgressRow
<1>11. CASE RequestCrash(d)
  BY <1>11, <1>r, <1>s DEF RequestCrash, ReqStates
<1> QED
  BY <1>1, <1>2, <1>3, <1>4, <1>5, <1>6, <1>7, <1>8, <1>9, <1>10, <1>11 DEF Request

LEMMA RunnerTypeOK ==
  ASSUME Typed, NEW d \in Dispatches, Runner(d)
  PROVE  TypeOK'
<1> USE DEF TypeOK, Typed, apiVars, jobVars, calendar, counts
<1>0. /\ call[d].user \in Callers /\ call[d].campaign \in Campaigns
      /\ call[d].size \in Nat \ {0}
  BY CallTypes
<1>s. \A from, to \in JobStates : Step(d, from, to) => job' \in [Dispatches -> JobStates]
  BY DEF Step
<1>t. (Stamp(d) \/ Unstamp(d)) => since' \in [Dispatches -> Nat]
  BY StampTypes
<1>h. hold \in [Dispatches -> HoldRow] /\ progress \in [Campaigns -> ProgressRow]
  BY DEF HoldRow, ProgressRow
<1>1. CASE StartJob(d)
  BY <1>1, <1>s DEF StartJob, JobStates
<1>2. CASE Report(d)
  <2>1. progress' \in [Campaigns -> ProgressRow]
    BY <1>2, <1>0, <1>h, RowTypes DEF Report
  <2> QED BY <1>2, <2>1 DEF Report, ProgressRow
<1>3. CASE PipelineRaises(d)
  <2>1. progress' \in [Campaigns -> ProgressRow]
    BY <1>3, <1>0, <1>h, RowTypes DEF PipelineRaises
  <2> QED BY <1>3, <1>s, <2>1 DEF PipelineRaises, JobStates, ProgressRow
<1>4. CASE RefundJob(d)
  <2>1. hold' \in [Dispatches -> HoldRow]
    BY <1>4, <1>0, <1>h, RowTypes DEF RefundJob, HoldStates
  <2> QED BY <1>4, <1>s, <2>1 DEF RefundJob, JobStates, HoldRow
<1>5. CASE PipelineReturns(d)
  <2>1. progress' \in [Campaigns -> ProgressRow]
    BY <1>5, <1>0, <1>h, RowTypes DEF PipelineReturns
  <2>2. MaxReady(call[d].size) \in Nat
    BY <1>0 DEF MaxReady
  <2>3. ready' \in [Dispatches -> Nat] /\ unpaid' \subseteq Dispatches
    BY <1>5, <2>2 DEF PipelineReturns
  <2> QED BY <1>5, <1>s, <1>t, <2>1, <2>3 DEF PipelineReturns, JobStates, ProgressRow
<1>6. CASE BillOwner(d)
  <2>3. usage' \in [Users -> [runs : Counter, credits : Counter]]
    BY <1>6, BillOwnerRow
  <2>4. ready' \in [Dispatches -> Nat] /\ unpaid' \subseteq Dispatches
    BY <1>6 DEF BillOwner
  <2> QED BY <1>6, <1>s, <1>t, <2>3, <2>4 DEF BillOwner, JobStates
<1>7. CASE SettleJob(d)
  <2>1. hold' \in [Dispatches -> HoldRow]
    BY <1>7, <1>0, <1>h, RowTypes DEF SettleJob, HoldStates
  <2> QED BY <1>7, <1>s, <2>1 DEF SettleJob, JobStates, HoldRow
<1>8. CASE LoseJob(d)
  BY <1>8, <1>t DEF LoseJob, JobStates
<1> QED
  BY <1>1, <1>2, <1>3, <1>4, <1>5, <1>6, <1>7, <1>8 DEF Runner

LEMMA TickTypeOK == ASSUME TypeOK, Tick PROVE TypeOK'
<1> USE DEF TypeOK, apiVars, jobVars
<1>1. clock' \in [hour : Nat, day : Nat]
  BY ClockAssumption DEF Tick
<1>2. progress' \in [Campaigns -> ProgressRow]
  <2>1. progress \in [Campaigns -> ProgressRow] /\ hold \in [Dispatches -> HoldRow]
    BY DEF ProgressRow, HoldRow
  <2> QED BY <2>1, RowTypes DEF Tick
<1>3. hold' \in [Dispatches -> HoldRow]
  <2>1. progress \in [Campaigns -> ProgressRow] /\ hold \in [Dispatches -> HoldRow]
    BY DEF ProgressRow, HoldRow
  <2> QED BY <2>1, RowTypes DEF Tick
<1> QED BY <1>1, <1>2, <1>3 DEF Tick, counts, HoldRow, ProgressRow

\* Who asks for what never changes.
LEMMA CallConstant == [Next]_vars => call' = call
  BY DEF Next, Request, Runner, CheckActive, CountRun, RefuseSize, ReadCredits,
     Gate, HoldCredits, DispatchOK, DispatchRaises, RefundRequest, Announce,
     RequestCrash, StartJob, Report, PipelineRaises, RefundJob, PipelineReturns,
     BillOwner, SettleJob, LoseJob, DeleteCampaign, Tick, vars

LEMMA MeteredOnlyStep ==
  ASSUME Typed, [Next]_vars
  PROVE  MeteredOnly'
<1> USE DEF Typed, TypeOK, MeteredOnly, Metered, apiVars
<1>1. ASSUME NEW d \in Dispatches, Request(d) PROVE MeteredOnly'
  BY <1>1, CallConstant DEF Request, CheckActive, CountRun, RefuseSize, ReadCredits,
     Gate, HoldCredits, DispatchOK, DispatchRaises, RefundRequest, Announce,
     RequestCrash, Goto
<1>2. ASSUME NEW d \in Dispatches, Runner(d) PROVE MeteredOnly'
  BY <1>2, CallConstant DEF Runner, StartJob, Report, PipelineRaises, RefundJob,
     PipelineReturns, BillOwner, SettleJob, LoseJob
<1>3. CASE Tick \/ (\E c \in Campaigns : DeleteCampaign(c)) \/ UNCHANGED vars
  BY <1>3, CallConstant DEF Tick, DeleteCampaign, vars
<1> QED BY <1>1, <1>2, <1>3 DEF Next

LEMMA TypedStep == Typed /\ [Next]_vars => Typed'
<1> SUFFICES ASSUME Typed, [Next]_vars PROVE Typed'
  OBVIOUS
<1>1. TypeOK'
  <2>1. ASSUME NEW c \in Campaigns, DeleteCampaign(c) PROVE TypeOK'
    BY <2>1, CallersAssumption
    DEF DeleteCampaign, Typed, TypeOK, apiVars, jobVars, counts
  <2>2. CASE UNCHANGED vars
    BY <2>2 DEF vars, Typed, TypeOK, apiVars, jobVars, counts, calendar
  <2> QED BY <2>1, <2>2, RequestTypeOK, RunnerTypeOK, TickTypeOK DEF Next, Typed
<1> QED BY <1>1, MeteredOnlyStep DEF Typed

\* Rows and states stay what they are, and only metered callers are counted.
LEMMA TypedInvariant == Spec => []Typed
  BY InitTyped, TypedStep, PTL DEF Spec

\* Every reachable state is well typed.
THEOREM TypeCorrect == Spec => []TypeOK
<1>1. Typed => TypeOK
  BY DEF Typed
<1> QED BY <1>1, TypedInvariant, PTL

-----------------------------------------------------------------------------
(* What becomes of a hold.                                                 *)

\* A request takes its hold before it asks for the runner, and neither exists
\* earlier than that.
NothingYet ==
  \A d \in Dispatches :
    /\ req[d] \in {"new", "count", "read", "gate", "reserve", "dispatch"}
         => job[d] = "none"
    /\ req[d] \in {"new", "count", "read", "gate", "reserve"}
         => hold[d].state = "none"

HoldInv == NothingYet /\ EndedRunHoldsNothing /\ HoldDroppedOnlyBySibling

\* A run that gave up its hold never takes that back.
LEMMA GivenUpForGood ==
  ASSUME Typed, NothingYet, [Next]_vars, NEW d \in Dispatches, GivenUp(d)
  PROVE  GivenUp(d)'
<1> USE DEF Typed, TypeOK, NothingYet, GivenUp, apiVars, jobVars
<1>1. ASSUME NEW e \in Dispatches, Request(e) PROVE GivenUp(d)'
  BY <1>1 DEF Request, CheckActive, CountRun, RefuseSize, ReadCredits,
     Gate, HoldCredits, DispatchOK, DispatchRaises, RefundRequest, Announce,
     RequestCrash, Goto
<1>2. ASSUME NEW e \in Dispatches, Runner(e) PROVE GivenUp(d)'
  BY <1>2 DEF Runner, StartJob, Report, PipelineRaises, RefundJob,
     PipelineReturns, BillOwner, SettleJob, LoseJob, Step, AtWork
<1>3. CASE Tick \/ (\E c \in Campaigns : DeleteCampaign(c)) \/ UNCHANGED vars
  BY <1>3 DEF Tick, DeleteCampaign, vars
<1> QED BY <1>1, <1>2, <1>3 DEF Next

\* What a release, a reservation and the clock do to one row.
LEMMA ReleaseRow ==
  ASSUME Typed, NEW c, NEW state, Release(c, state), NEW d \in Dispatches
  PROVE  /\ hold'[d].state = IF hold[d].state = "active" /\ call[d].campaign = c
                             THEN state ELSE hold[d].state
         /\ hold[d].state # "active" => hold'[d] = hold[d]
  BY DEF Release, Row

LEMMA ReserveRow ==
  ASSUME Typed, NEW e \in Dispatches, Reserve(e), NEW d \in Dispatches
  PROVE  /\ d = e => hold'[d].state = "active"
         /\ d # e => hold'[d].state \in {hold[d].state, "expired"}
         /\ d # e /\ hold[d].state # "active" => hold'[d] = hold[d]
         /\ d # e /\ hold'[d].state = "active" => hold[d].state = "active"
  BY DEF Reserve, Row

LEMMA TickRow ==
  ASSUME Typed, Tick, NEW d \in Dispatches
  PROVE  /\ hold'[d].state = hold[d].state
         /\ hold[d].state # "active" => hold'[d] = hold[d]
  BY DEF Typed, TypeOK, Tick, Older

\* The four ways a step treats the holds.
LEMMA HoldSteps ==
  ASSUME Typed, [Next]_vars
  PROVE  \/ hold' = hold
         \/ Tick
         \/ \E e \in Dispatches : HoldCredits(e)
         \/ \E e \in Dispatches :
              /\ \E state \in {"refunded", "consumed"} : Release(call[e].campaign, state)
              /\ GivenUp(e)'
              /\ RefundRequest(e) \/ RefundJob(e) \/ SettleJob(e)
<1> USE DEF Typed, TypeOK
<1>1. ASSUME NEW e \in Dispatches, RefundRequest(e)
      PROVE  Release(call[e].campaign, "refunded") /\ GivenUp(e)'
  BY <1>1 DEF RefundRequest, Goto, GivenUp
<1>2. ASSUME NEW e \in Dispatches, RefundJob(e)
      PROVE  Release(call[e].campaign, "refunded") /\ GivenUp(e)'
  BY <1>2 DEF RefundJob, Step, GivenUp
<1>3. ASSUME NEW e \in Dispatches, SettleJob(e)
      PROVE  Release(call[e].campaign, "consumed") /\ GivenUp(e)'
  BY <1>3 DEF SettleJob, Step, GivenUp
<1>4. ASSUME NEW e \in Dispatches, Request(e)
      PROVE  hold' = hold \/ HoldCredits(e) \/ RefundRequest(e)
  BY <1>4 DEF Request, CheckActive, CountRun, RefuseSize, ReadCredits, Gate,
     DispatchOK, DispatchRaises, Announce, RequestCrash
<1>5. ASSUME NEW e \in Dispatches, Runner(e)
      PROVE  hold' = hold \/ RefundJob(e) \/ SettleJob(e)
  BY <1>5 DEF Runner, StartJob, Report, PipelineRaises, PipelineReturns,
     BillOwner, LoseJob
<1>6. ASSUME NEW c \in Campaigns, DeleteCampaign(c) PROVE hold' = hold
  BY <1>6 DEF DeleteCampaign
<1>7. CASE UNCHANGED vars
  BY <1>7 DEF vars
<1> QED BY <1>1, <1>2, <1>3, <1>4, <1>5, <1>6, <1>7 DEF Next

LEMMA NothingYetStep ==
  ASSUME Typed, NothingYet, [Next]_vars
  PROVE  NothingYet'
<1> USE DEF Typed, TypeOK, NothingYet, apiVars, jobVars
<1>1. ASSUME NEW e \in Dispatches, RefundRequest(e) PROVE NothingYet'
  BY <1>1, ReleaseRow DEF RefundRequest, Goto
<1>2. ASSUME NEW e \in Dispatches, HoldCredits(e) PROVE NothingYet'
  BY <1>2, ReserveRow DEF HoldCredits, Goto
<1>3. ASSUME NEW e \in Dispatches, Request(e), ~RefundRequest(e), ~HoldCredits(e)
      PROVE  NothingYet'
  BY <1>3 DEF Request, CheckActive, CountRun, RefuseSize, ReadCredits,
     Gate, DispatchOK, DispatchRaises, Announce, RequestCrash, Goto
<1>4. ASSUME NEW e \in Dispatches, RefundJob(e) \/ SettleJob(e) PROVE NothingYet'
  BY <1>4, ReleaseRow DEF RefundJob, SettleJob, Step
<1>5. ASSUME NEW e \in Dispatches, Runner(e), ~RefundJob(e), ~SettleJob(e)
      PROVE  NothingYet'
  BY <1>5 DEF Runner, StartJob, Report, PipelineRaises, PipelineReturns,
     BillOwner, LoseJob, Step, AtWork
<1>6. CASE Tick
  BY <1>6, TickRow DEF Tick
<1>7. CASE (\E c \in Campaigns : DeleteCampaign(c)) \/ UNCHANGED vars
  BY <1>7 DEF DeleteCampaign, vars
<1> QED BY <1>1, <1>2, <1>3, <1>4, <1>5, <1>6, <1>7 DEF Next

\* A step that gives a run's hold up releases that hold: only the three
\* releasing steps make GivenUp true.
LEMMA GivingUpReleases ==
  ASSUME Typed, [Next]_vars, NEW d \in Dispatches, ~GivenUp(d), GivenUp(d)'
  PROVE  \E state \in {"refunded", "consumed"} : Release(call[d].campaign, state)
<1> USE DEF Typed, TypeOK, GivenUp, apiVars, jobVars
<1>1. ASSUME NEW e \in Dispatches, Request(e)
      PROVE  e = d /\ RefundRequest(d)
  BY <1>1 DEF Request, CheckActive, CountRun, RefuseSize, ReadCredits,
     Gate, HoldCredits, DispatchOK, DispatchRaises, RefundRequest, Announce,
     RequestCrash, Goto
<1>2. ASSUME NEW e \in Dispatches, Runner(e)
      PROVE  e = d /\ (RefundJob(d) \/ SettleJob(d))
  BY <1>2 DEF Runner, StartJob, Report, PipelineRaises, RefundJob,
     PipelineReturns, BillOwner, SettleJob, LoseJob, Step, AtWork
<1>3. ~(Tick \/ (\E c \in Campaigns : DeleteCampaign(c)) \/ UNCHANGED vars)
  BY DEF Tick, DeleteCampaign, vars
<1> QED
  BY <1>1, <1>2, <1>3 DEF Next, RefundRequest, RefundJob, SettleJob

LEMMA EndedRunHoldsNothingStep ==
  ASSUME Typed, HoldInv, [Next]_vars
  PROVE  EndedRunHoldsNothing'
<1> SUFFICES ASSUME NEW d \in Dispatches, GivenUp(d)'
             PROVE  hold'[d].state # "active"
  BY DEF EndedRunHoldsNothing
<1> USE DEF HoldInv
<1>1. CASE ~GivenUp(d)
  <2>1. PICK state \in {"refunded", "consumed"} : Release(call[d].campaign, state)
    BY <1>1, GivingUpReleases
  <2> QED BY <2>1, ReleaseRow
<1>2. CASE GivenUp(d)
  <2>1. hold[d].state # "active"
    BY <1>2 DEF EndedRunHoldsNothing
  <2>2. CASE hold' = hold
    BY <2>1, <2>2
  <2>3. CASE Tick
    BY <2>1, <2>3, TickRow
  <2>4. ASSUME NEW e \in Dispatches, HoldCredits(e) PROVE hold'[d].state # "active"
    <3>1. e # d
      BY <1>2, <2>4 DEF HoldCredits, NothingYet, GivenUp
    <3> QED BY <2>1, <2>4, <3>1, ReserveRow DEF HoldCredits
  <2>5. ASSUME NEW e \in Dispatches, NEW state \in {"refunded", "consumed"},
               Release(call[e].campaign, state)
        PROVE  hold'[d].state # "active"
    BY <2>1, <2>5, ReleaseRow
  <2> QED BY <2>2, <2>3, <2>4, <2>5, HoldSteps
<1> QED BY <1>1, <1>2

LEMMA HoldDroppedOnlyBySiblingStep ==
  ASSUME Typed, HoldInv, [Next]_vars
  PROVE  HoldDroppedOnlyBySibling'
<1> SUFFICES ASSUME NEW d \in Dispatches, hold'[d].state \in {"consumed", "refunded"}
             PROVE  \E e \in Dispatches :
                      call'[e].campaign = call'[d].campaign /\ GivenUp(e)'
  BY DEF HoldDroppedOnlyBySibling
<1> USE DEF HoldInv
<1>1. CASE hold[d].state \in {"consumed", "refunded"}
  <2>1. PICK e \in Dispatches : call[e].campaign = call[d].campaign /\ GivenUp(e)
    BY <1>1 DEF HoldDroppedOnlyBySibling
  <2> QED BY <2>1, GivenUpForGood, CallConstant
<1>2. CASE hold[d].state \notin {"consumed", "refunded"}
  <2>1. hold' # hold /\ ~Tick
    BY <1>2, TickRow
  <2>2. \A e \in Dispatches : ~HoldCredits(e)
    BY <1>2, ReserveRow DEF HoldCredits
  <2>3. PICK e \in Dispatches :
          /\ \E state \in {"refunded", "consumed"} : Release(call[e].campaign, state)
          /\ GivenUp(e)'
    BY <2>1, <2>2, HoldSteps
  <2>4. call[e].campaign = call[d].campaign
    BY <1>2, <2>3, ReleaseRow
  <2> QED BY <2>3, <2>4, CallConstant
<1> QED BY <1>1, <1>2

LEMMA HoldInvariant == Spec => [](Typed /\ HoldInv)
<1>1. Init => HoldInv
  BY DEF Init, HoldInv, NothingYet, EndedRunHoldsNothing, HoldDroppedOnlyBySibling,
     GivenUp, Row
<1>2. Typed /\ HoldInv /\ [Next]_vars => HoldInv'
  BY NothingYetStep, EndedRunHoldsNothingStep, HoldDroppedOnlyBySiblingStep
  DEF HoldInv
<1> QED BY <1>1, <1>2, TypedInvariant, PTL DEF Spec

\* A run that is over holds no credits, in every instance and interleaving.
THEOREM EndedRunsHoldNothing == Spec => []EndedRunHoldsNothing
<1>1. HoldInv => EndedRunHoldsNothing
  BY DEF HoldInv
<1> QED BY <1>1, HoldInvariant, PTL

\* A hold ends by its campaign's own runs and requests, or by expiry: never by
\* another campaign's.
THEOREM HoldsDropWithTheirCampaign == Spec => []HoldDroppedOnlyBySibling
<1>1. HoldInv => HoldDroppedOnlyBySibling
  BY DEF HoldInv
<1> QED BY <1>1, HoldInvariant, PTL

\* A row that was consumed, refunded or expired never changes again.
THEOREM SettledHoldsAreFinal == Spec => SettledHoldsStaySettled
<1>1. ASSUME Typed, HoldInv, [Next]_vars, NEW d \in Dispatches,
             hold[d].state \in {"consumed", "refunded", "expired"}
      PROVE  hold'[d] = hold[d]
  <2>1. CASE Tick
    BY <1>1, <2>1, TickRow
  <2>2. ASSUME NEW e \in Dispatches, HoldCredits(e) PROVE hold'[d] = hold[d]
    <3>1. e # d
      BY <1>1, <2>2 DEF HoldCredits, HoldInv, NothingYet
    <3> QED BY <1>1, <2>2, <3>1, ReserveRow DEF HoldCredits
  <2>3. ASSUME NEW e \in Dispatches, NEW state \in {"refunded", "consumed"},
               Release(call[e].campaign, state)
        PROVE  hold'[d] = hold[d]
    BY <1>1, <2>3, ReleaseRow
  <2> QED BY <1>1, <2>1, <2>2, <2>3, HoldSteps
<1>2. Typed /\ HoldInv /\ [Next]_vars
        => [\A d \in Dispatches :
              hold[d].state \in {"consumed", "refunded", "expired"}
                => hold'[d] = hold[d]]_hold
  BY <1>1
<1> QED BY <1>2, HoldInvariant, PTL DEF Spec, SettledHoldsStaySettled

-----------------------------------------------------------------------------
(* What becomes of delivered leads.                                        *)

\* The debt of a run arises when the pipeline returns and is what the runner
\* is about to bill; past the billing only runs without an owner have one.
DebtInv ==
  \A d \in Dispatches :
    /\ job[d] \in {"none", "queued", "running"} => d \notin unpaid
    /\ job[d] = "billing" /\ d \in unpaid => ready[d] > 0
    /\ /\ job[d] \in {"releasing", "done"}
       /\ Owner[call[d].campaign] # NoOne
       /\ call[d].campaign \notin deleted
       => d \notin unpaid

LEMMA DebtInvStep ==
  ASSUME Typed, NothingYet, DebtInv, [Next]_vars
  PROVE  DebtInv'
<1> USE DEF Typed, TypeOK, DebtInv, apiVars, jobVars, calendar
<1>c. call' = call
  BY CallConstant
<1>1. ASSUME NEW e \in Dispatches, Request(e) PROVE DebtInv'
  BY <1>c, <1>1 DEF Request, CheckActive, CountRun, RefuseSize, ReadCredits,
     Gate, HoldCredits, DispatchOK, DispatchRaises, RefundRequest, Announce,
     RequestCrash, NothingYet
<1>2. ASSUME NEW e \in Dispatches, PipelineReturns(e) PROVE DebtInv'
  BY <1>c, <1>2 DEF PipelineReturns, Step
<1>3. ASSUME NEW e \in Dispatches, BillOwner(e) PROVE DebtInv'
  BY <1>c, <1>3 DEF BillOwner, Step
<1>4. ASSUME NEW e \in Dispatches, Runner(e), ~PipelineReturns(e), ~BillOwner(e)
      PROVE  DebtInv'
  BY <1>c, <1>4 DEF Runner, StartJob, Report, PipelineRaises, RefundJob, SettleJob,
     LoseJob, Step, AtWork
<1>5. CASE Tick \/ (\E c \in Campaigns : DeleteCampaign(c)) \/ UNCHANGED vars
  BY <1>c, <1>5 DEF Tick, DeleteCampaign, vars
<1> QED BY <1>1, <1>2, <1>3, <1>4, <1>5 DEF Next

\* Whatever is dispatched, cancelled, retried or deleted meanwhile, a runner
\* that ended normally has billed the owner of its campaign.
THEOREM DoneRunsAreCharged == Spec => []DoneMeansCharged
<1>1. Init => DebtInv
  BY DEF Init, DebtInv
<1>2. Typed /\ HoldInv /\ DebtInv /\ [Next]_vars => DebtInv'
  BY DebtInvStep DEF HoldInv
<1>3. DebtInv => DoneMeansCharged
  BY DEF DebtInv, DoneMeansCharged
<1> QED BY <1>1, <1>2, <1>3, HoldInvariant, PTL DEF Spec

-----------------------------------------------------------------------------
(* The cap on runs.                                                        *)

LEMMA SmallestRunExists ==
  \E n \in AllowedSizes : \A m \in AllowedSizes : n <= m
<1>1. AllowedSizes \subseteq Nat /\ AllowedSizes # {}
  BY SizesAssumption
<1>2. PICK n \in AllowedSizes : \A m \in AllowedSizes : ~(<<m, n>> \in OpToRel(<, Nat))
  BY <1>1, WFMin, NatLessThanWellFounded
<1>3. \A m \in AllowedSizes : ~(m < n)
  BY <1>1, <1>2 DEF OpToRel
<1> QED BY <1>1, <1>3

LEMMA RunsPerMonthType == RunsPerMonth \in Nat \ {0}
<1> DEFINE smallest == CHOOSE n \in AllowedSizes : \A m \in AllowedSizes : n <= m
<1>1. smallest \in Nat \ {0}
  BY SmallestRunExists, SizesAssumption
<1> HIDE DEF smallest
<1>2. (MonthlyCredits + smallest - 1) \div smallest \in Nat \ {0}
  <2> DEFINE n == MonthlyCredits + smallest - 1
  <2>1. n \in Nat /\ n >= smallest
    BY <1>1, LimitsAssumption
  <2> HIDE DEF n
  <2>2. n \div smallest \in Nat /\ n \div smallest > 0
    BY <1>1, <2>1
  <2> QED BY <2>2 DEF n
<1> QED BY <1>2 DEF RunsPerMonth, smallest

\* How many dispatches with one date a row stands for: the limit at most for
\* every statement that landed late and, if the row has the date or a later one,
\* what the row says or the limit once more.
Sound(row, period, limit, total, late) ==
  total <= limit * late
           + (IF row.at = period THEN row.n ELSE IF row.at > period THEN limit ELSE 0)

\* A statement with room on the row dates it and stays within the limit.
LEMMA SoundOwn ==
  ASSUME NEW row \in CountRow, NEW limit \in Nat \ {0}, row.n <= limit,
         NEW on \in Nat, HasRoom(row, on, limit)
  PROVE  Added(row, on, 1).at = on /\ Added(row, on, 1).n <= limit
  BY DEF CountRow, Added, HasRoom

\* It adds one with its date and, if it is late, one to the late ones.
LEMMA SoundStep ==
  ASSUME NEW row \in CountRow, NEW limit \in Nat \ {0}, row.n <= limit,
         NEW on \in Nat, HasRoom(row, on, limit),
         NEW period \in Nat, NEW total \in Nat, NEW late \in Nat,
         Sound(row, period, limit, total, late)
  PROVE  Sound(Added(row, on, 1), period, limit,
               IF period = on THEN total + 1 ELSE total,
               IF on < row.at THEN late + 1 ELSE late)
<1> DEFINE product == limit * late
           next == Added(row, on, 1)
<1>1. row.at \in Nat /\ row.n \in Nat
  BY DEF CountRow
<1>2. product \in Nat /\ limit * (late + 1) = product + limit
  OBVIOUS
<1>3. /\ next.at = on
      /\ next.n = IF row.at = on THEN row.n + 1 ELSE 1
  BY DEF Added
<1>4. total <= product
        + (IF row.at = period THEN row.n ELSE IF row.at > period THEN limit ELSE 0)
  BY DEF Sound
<1> HIDE DEF product, next
<1>7. (IF period = on THEN total + 1 ELSE total)
        <= (IF on < row.at THEN product + limit ELSE product)
           + (IF on = period THEN next.n ELSE IF on > period THEN limit ELSE 0)
  <2>1. CASE row.at = on
    BY <1>1, <1>2, <1>3, <1>4, <2>1
  <2>2. CASE row.at > on
    BY <1>1, <1>2, <1>3, <1>4, <2>2
  <2>3. CASE row.at < on
    BY <1>1, <1>2, <1>3, <1>4, <2>3
  <2> QED BY <1>1, <2>1, <2>2, <2>3
<1>8. limit * (IF on < row.at THEN late + 1 ELSE late)
        = IF on < row.at THEN product + limit ELSE product
  BY <1>2 DEF product
<1>9. Sound(next, period, limit, IF period = on THEN total + 1 ELSE total,
            IF on < row.at THEN late + 1 ELSE late)
  BY <1>3, <1>7, <1>8 DEF Sound
<1> QED BY <1>9 DEF next

LEMMA SoundBound ==
  ASSUME NEW row \in CountRow, NEW limit \in Nat, row.n <= limit,
         NEW period \in Nat, NEW total \in Nat, NEW late \in Nat,
         Sound(row, period, limit, total, late)
  PROVE  total <= limit * (1 + late)
<1> DEFINE product == limit * late
<1>1. product \in Nat /\ limit * (1 + late) = product + limit
  OBVIOUS
<1>2. total <= product + limit
  BY <1>1 DEF Sound, CountRow
<1> QED BY <1>1, <1>2

\* What a row says of the dispatches of its user, period by period.
DaySound(u) ==
  /\ usage[u].runs.daily.n <= RunsPerDay
  /\ \A day \in Nat :
       Sound(usage[u].runs.daily, day, RunsPerDay,
             Cardinality(AdmittedOn(u, day)), Cardinality(LateByDays(u)))

MonthSound(u) ==
  /\ usage[u].runs.monthly.at = MonthOf(usage[u].runs.daily.at)
  /\ usage[u].runs.monthly.n <= RunsPerMonth
  /\ \A month \in Nat :
       Sound(usage[u].runs.monthly, month, RunsPerMonth,
             Cardinality(AdmittedIn(u, month)), Cardinality(LateByMonths(u)))

\* Each dispatch passed check_usage once.
CountInv ==
  /\ IsFiniteSet(admitted)
  /\ \A a \in admitted : req[a.by] \notin {"new", "count"}
  /\ \A u \in Users : DaySound(u) /\ MonthSound(u)

\* A set with one element more, and one with the same.
LEMMA OneMore ==
  ASSUME NEW S, NEW T, NEW x, NEW more \in BOOLEAN, IsFiniteSet(S), x \notin S,
         T = IF more THEN S \cup {x} ELSE S
  PROVE  /\ Cardinality(S) \in Nat
         /\ Cardinality(T) = IF more THEN Cardinality(S) + 1 ELSE Cardinality(S)
  BY FS_AddElement, FS_CardinalityType

\* The parts of a finite set of admissions are finite.
LEMMA PartsFinite ==
  ASSUME IsFiniteSet(admitted), NEW u
  PROVE  /\ IsFiniteSet(LateByDays(u)) /\ IsFiniteSet(LateByMonths(u))
         /\ \A p : IsFiniteSet(AdmittedOn(u, p)) /\ IsFiniteSet(AdmittedIn(u, p))
<1>1. /\ LateByDays(u) \subseteq admitted /\ LateByMonths(u) \subseteq admitted
      /\ \A p : AdmittedOn(u, p) \subseteq admitted /\ AdmittedIn(u, p) \subseteq admitted
  BY DEF LateByDays, LateByMonths, AdmittedOn, AdmittedIn, Admitted
<1> QED BY <1>1, FS_Subset

\* Steps that neither admit nor count leave the two in agreement.
LEMMA CountsUnchanged ==
  ASSUME CountInv, call' = call, admitted' = admitted,
         \A u \in Users : usage'[u].runs = usage[u].runs,
         \A a \in admitted : req'[a.by] \notin {"new", "count"}
  PROVE  CountInv'
<1>1. ASSUME NEW u \in Users
      PROVE  /\ LateByDays(u)' = LateByDays(u) /\ LateByMonths(u)' = LateByMonths(u)
             /\ \A p : AdmittedOn(u, p)' = AdmittedOn(u, p)
             /\ \A p : AdmittedIn(u, p)' = AdmittedIn(u, p)
  BY DEF LateByDays, LateByMonths, AdmittedOn, AdmittedIn, Admitted
<1>2. ASSUME NEW u \in Users PROVE DaySound(u)' /\ MonthSound(u)'
  BY <1>1 DEF CountInv, DaySound, MonthSound
<1> QED BY <1>2 DEF CountInv

\* A counted dispatch is one more with its date, and late if the row had a
\* later one.
LEMMA CountRunCounts ==
  ASSUME Typed, CountInv, NEW d \in Dispatches, CountRun(d)
  PROVE  CountInv'
<1> USE DEF Typed, TypeOK
<1>c. call' = call
  BY DEF CountRun
<1>m. call[d].user \in Users
  BY CallTypes DEF CountRun, MeteredOnly
<1>1. CASE UNCHANGED counts
  <2>1. \A a \in admitted : req'[a.by] \notin {"new", "count"}
    BY DEF CountRun, CountInv, Goto
  <2> QED BY <1>1, <1>c, <2>1, CountsUnchanged DEF counts
<1>2. CASE ~UNCHANGED counts
  <2>u. PICK v : v = call[d].user
    OBVIOUS
  <2>r. PICK row : row = usage[v].runs
    OBVIOUS
  <2>v. v \in Users
    BY <1>m, <2>u
  <2>1. PICK day \in Dates(d) :
          /\ UnderRunLimit(row, day)
          /\ usage' = [usage EXCEPT ![v].runs = Bump(row, day, 1)]
          /\ admitted' = admitted \cup {[by |-> d, on |-> day, found |-> row.daily.at]}
          /\ req' = [req EXCEPT ![d] = "read"]
    BY <1>2, <2>u, <2>r DEF CountRun, Goto
  <2>n. PICK new : new = [by |-> d, on |-> day, found |-> row.daily.at]
    OBVIOUS
  <2>m. PICK month : month = MonthOf(day)
    OBVIOUS
  <2>2. day \in Nat /\ month \in Nat
    BY <2>m, DatesAreDays, MonthType
  <2>3. new \notin admitted
    BY <2>n DEF CountRun, CountInv
  <2>4. /\ row.daily \in CountRow /\ row.monthly \in CountRow
        /\ row.daily.n <= RunsPerDay /\ row.monthly.n <= RunsPerMonth
        /\ row.monthly.at = MonthOf(row.daily.at)
    BY <2>v, <2>r DEF Counter, CountInv, DaySound, MonthSound
  <2>5. /\ RunsPerDay \in Nat \ {0} /\ RunsPerMonth \in Nat \ {0}
        /\ HasRoom(row.daily, day, RunsPerDay)
        /\ HasRoom(row.monthly, month, RunsPerMonth)
    BY <2>1, <2>m, RunsPerMonthType, LimitsAssumption DEF UnderRunLimit
  <2>6. /\ usage'[v].runs.daily = Added(row.daily, day, 1)
        /\ usage'[v].runs.monthly = Added(row.monthly, month, 1)
    BY <2>v, <2>1, <2>m DEF Bump
  <2>7. IsFiniteSet(admitted')
    <3>1. admitted' = admitted \cup {new}
      BY <2>1, <2>n
    <3> QED BY <3>1, FS_AddElement DEF CountInv
  <2>8. \A a \in admitted' : req'[a.by] \notin {"new", "count"}
    BY <2>1 DEF CountInv
  <2>9. DaySound(v)'
    <3>1. Added(row.daily, day, 1).n <= RunsPerDay
      <4> HIDE DEF Typed, TypeOK
      <4> QED BY <2>2, <2>4, <2>5, SoundOwn
    <3>2. ASSUME NEW p \in Nat
          PROVE  Sound(Added(row.daily, day, 1), p, RunsPerDay,
                       Cardinality(AdmittedOn(v, p))', Cardinality(LateByDays(v))')
      <4>1. AdmittedOn(v, p)' = IF p = day THEN AdmittedOn(v, p) \cup {new} ELSE AdmittedOn(v, p)
        BY <1>c, <2>1, <2>n, <2>u, <2>m DEF AdmittedOn, Admitted
      <4>2. LateByDays(v)' = IF day < row.daily.at THEN LateByDays(v) \cup {new} ELSE LateByDays(v)
        BY <1>c, <2>1, <2>n, <2>u, <2>m DEF LateByDays, Admitted
      <4>3. new \notin AdmittedOn(v, p) /\ new \notin LateByDays(v)
        BY <2>3 DEF AdmittedOn, LateByDays, Admitted
      <4>4. /\ Cardinality(AdmittedOn(v, p)) \in Nat
            /\ Cardinality(AdmittedOn(v, p))'
                 = IF p = day THEN Cardinality(AdmittedOn(v, p)) + 1
                   ELSE Cardinality(AdmittedOn(v, p))
        BY <4>1, <4>3, PartsFinite, OneMore DEF CountInv
      <4>5. /\ Cardinality(LateByDays(v)) \in Nat
            /\ Cardinality(LateByDays(v))'
                 = IF day < row.daily.at THEN Cardinality(LateByDays(v)) + 1
                   ELSE Cardinality(LateByDays(v))
        BY <4>2, <4>3, PartsFinite, OneMore DEF CountInv
      <4>6. Sound(row.daily, p, RunsPerDay,
                  Cardinality(AdmittedOn(v, p)), Cardinality(LateByDays(v)))
        BY <2>v, <2>r DEF CountInv, DaySound
      <4>7. /\ row.daily \in CountRow /\ row.daily.n <= RunsPerDay /\ day \in Nat
            /\ RunsPerDay \in Nat \ {0} /\ HasRoom(row.daily, day, RunsPerDay)
        BY <2>2, <2>4, <2>5
      <4> HIDE DEF Typed, TypeOK
      <4>8. Sound(Added(row.daily, day, 1), p, RunsPerDay,
                  IF p = day THEN Cardinality(AdmittedOn(v, p)) + 1
                  ELSE Cardinality(AdmittedOn(v, p)),
                  IF day < row.daily.at THEN Cardinality(LateByDays(v)) + 1
                  ELSE Cardinality(LateByDays(v)))
        BY <4>4, <4>5, <4>6, <4>7, SoundStep
      <4> QED BY <4>4, <4>5, <4>8
    <3> QED BY <2>6, <3>1, <3>2 DEF DaySound
  <2>10. MonthSound(v)'
    <3>1. /\ Added(row.monthly, month, 1).n <= RunsPerMonth
          /\ Added(row.monthly, month, 1).at = MonthOf(Added(row.daily, day, 1).at)
      <4> HIDE DEF Typed, TypeOK
      <4>1. Added(row.monthly, month, 1).at = month /\ Added(row.monthly, month, 1).n <= RunsPerMonth
        BY <2>2, <2>4, <2>5, SoundOwn
      <4>2. Added(row.daily, day, 1).at = day
        BY <2>2, <2>4, <2>5, SoundOwn
      <4> QED BY <2>m, <4>1, <4>2
    <3>2. ASSUME NEW p \in Nat
          PROVE  Sound(Added(row.monthly, month, 1), p, RunsPerMonth,
                       Cardinality(AdmittedIn(v, p))', Cardinality(LateByMonths(v))')
      <4>1. AdmittedIn(v, p)' = IF p = month THEN AdmittedIn(v, p) \cup {new} ELSE AdmittedIn(v, p)
        BY <1>c, <2>1, <2>n, <2>u, <2>m DEF AdmittedIn, Admitted
      <4>2. LateByMonths(v)' = IF month < row.monthly.at THEN LateByMonths(v) \cup {new}
                               ELSE LateByMonths(v)
        BY <1>c, <2>1, <2>4, <2>n, <2>u, <2>m DEF LateByMonths, Admitted
      <4>3. new \notin AdmittedIn(v, p) /\ new \notin LateByMonths(v)
        BY <2>3 DEF AdmittedIn, LateByMonths, Admitted
      <4>4. /\ Cardinality(AdmittedIn(v, p)) \in Nat
            /\ Cardinality(AdmittedIn(v, p))'
                 = IF p = month THEN Cardinality(AdmittedIn(v, p)) + 1
                   ELSE Cardinality(AdmittedIn(v, p))
        BY <4>1, <4>3, PartsFinite, OneMore DEF CountInv
      <4>5. /\ Cardinality(LateByMonths(v)) \in Nat
            /\ Cardinality(LateByMonths(v))'
                 = IF month < row.monthly.at THEN Cardinality(LateByMonths(v)) + 1
                   ELSE Cardinality(LateByMonths(v))
        BY <4>2, <4>3, PartsFinite, OneMore DEF CountInv
      <4>6. Sound(row.monthly, p, RunsPerMonth,
                  Cardinality(AdmittedIn(v, p)), Cardinality(LateByMonths(v)))
        BY <2>v, <2>r DEF CountInv, MonthSound
      <4>7. /\ row.monthly \in CountRow /\ row.monthly.n <= RunsPerMonth /\ month \in Nat
            /\ RunsPerMonth \in Nat \ {0} /\ HasRoom(row.monthly, month, RunsPerMonth)
        BY <2>2, <2>4, <2>5
      <4> HIDE DEF Typed, TypeOK
      <4>8. Sound(Added(row.monthly, month, 1), p, RunsPerMonth,
                  IF p = month THEN Cardinality(AdmittedIn(v, p)) + 1
                  ELSE Cardinality(AdmittedIn(v, p)),
                  IF month < row.monthly.at THEN Cardinality(LateByMonths(v)) + 1
                  ELSE Cardinality(LateByMonths(v)))
        BY <4>4, <4>5, <4>6, <4>7, SoundStep
      <4> QED BY <4>4, <4>5, <4>8
    <3> QED BY <2>6, <3>1, <3>2 DEF MonthSound
  <2>11. ASSUME NEW u \in Users, u # v PROVE DaySound(u)' /\ MonthSound(u)'
    <3>1. usage'[u].runs = usage[u].runs
      BY <2>1, <2>v, <2>11
    <3>2. Admitted(u)' = Admitted(u)
      BY <1>c, <2>1, <2>u, <2>11 DEF Admitted
    <3>3. /\ LateByDays(u)' = LateByDays(u) /\ LateByMonths(u)' = LateByMonths(u)
          /\ \A p : AdmittedOn(u, p)' = AdmittedOn(u, p) /\ AdmittedIn(u, p)' = AdmittedIn(u, p)
      BY <3>2 DEF LateByDays, LateByMonths, AdmittedOn, AdmittedIn
    <3> QED BY <3>1, <3>3 DEF CountInv, DaySound, MonthSound
  <2> QED BY <2>7, <2>8, <2>9, <2>10, <2>11 DEF CountInv
<1> QED BY <1>1, <1>2

LEMMA CountInvStep ==
  ASSUME Typed, CountInv, [Next]_vars
  PROVE  CountInv'
<1> USE DEF Typed, TypeOK, apiVars, counts
<1>1. SUFFICES ASSUME \A d \in Dispatches : ~CountRun(d)
               PROVE  CountInv'
  BY CountRunCounts
<1>2. call' = call /\ \A a \in admitted : a.by \in Dispatches
  BY CallConstant
<1>3. ASSUME NEW d \in Dispatches, Request(d) PROVE CountInv'
  <2>1. UNCHANGED counts
    BY <1>1, <1>3 DEF Request, CheckActive, RefuseSize, ReadCredits, Gate, HoldCredits,
       DispatchOK, DispatchRaises, RefundRequest, Announce, RequestCrash
  <2>2. \A e \in Dispatches : req[e] \notin {"new", "count"} => req'[e] \notin {"new", "count"}
    BY <1>1, <1>3 DEF Request, CheckActive, RefuseSize, ReadCredits, Gate, HoldCredits,
       DispatchOK, DispatchRaises, RefundRequest, Announce, RequestCrash, Goto
  <2> QED BY <1>2, <2>1, <2>2, CountsUnchanged DEF CountInv
<1>4. ASSUME NEW d \in Dispatches, BillOwner(d) PROVE CountInv'
  <2>0. \/ usage' = usage
        \/ \E u \in Users, row \in Counter : usage' = [usage EXCEPT ![u].credits = row]
    <3> USE DEF Typed
    <3> QED BY <1>4, BillOwnerRow
  <2>1. \A u \in Users : usage'[u].runs = usage[u].runs
    BY <2>0
  <2> QED BY <1>2, <1>4, <2>1, CountsUnchanged DEF BillOwner, CountInv
<1>5. ASSUME NEW d \in Dispatches, Runner(d), ~BillOwner(d) PROVE CountInv'
  <2>1. UNCHANGED <<counts, req>>
    BY <1>5 DEF Runner, StartJob, Report, PipelineRaises, RefundJob, PipelineReturns,
       SettleJob, LoseJob
  <2> QED BY <1>2, <2>1, CountsUnchanged DEF CountInv
<1>6. CASE Tick \/ (\E c \in Campaigns : DeleteCampaign(c)) \/ UNCHANGED vars
  <2>1. UNCHANGED <<counts, req>>
    BY <1>6 DEF Tick, DeleteCampaign, vars
  <2> QED BY <1>2, <2>1, CountsUnchanged DEF CountInv
<1> QED BY <1>1, <1>3, <1>4, <1>5, <1>6 DEF Next

\* Whatever dispatches had been counted on the first day.
LEMMA InitCounts == Init => CountInv
<1> SUFFICES ASSUME Init PROVE CountInv
  OBVIOUS
<1>1. \A T \in SUBSET admitted : IsFiniteSet(T) /\ Cardinality(T) \in Nat
  BY EarlierFinite, FS_CardinalityType DEF Init
<1>2. \A a \in admitted : req[a.by] = "over" /\ a.on = 0 /\ a.found = 0
  BY DispatchesAssumption DEF Init
<1>3. MonthOf(0) = 0
  BY ClockAssumption DEF MonthOf
<1>4. ASSUME NEW u \in Users PROVE DaySound(u) /\ MonthSound(u)
  <2> DEFINE n == Cardinality(Admitted(u))
  <2>1. /\ n \in Nat /\ n <= RunsPerDay /\ n <= RunsPerMonth
        /\ RunsPerDay \in Nat /\ RunsPerMonth \in Nat
    BY <1>1, LimitsAssumption, RunsPerMonthType DEF Init, Admitted
  <2>2. usage[u].runs = [daily |-> [at |-> 0, n |-> n], monthly |-> [at |-> 0, n |-> n]]
    BY DEF Init, EarlierRuns
  <2>3. LateByDays(u) = {} /\ LateByMonths(u) = {}
    BY <1>2, <1>3 DEF LateByDays, LateByMonths, Admitted
  <2>4. \A p \in Nat : /\ AdmittedOn(u, p) = IF p = 0 THEN Admitted(u) ELSE {}
                       /\ AdmittedIn(u, p) = IF p = 0 THEN Admitted(u) ELSE {}
    BY <1>2, <1>3 DEF AdmittedOn, AdmittedIn, Admitted
  <2>5. Cardinality({}) = 0
    BY FS_EmptySet
  <2> HIDE DEF n
  <2>6. \A p \in Nat : /\ Cardinality(AdmittedOn(u, p)) = IF p = 0 THEN n ELSE 0
                       /\ Cardinality(AdmittedIn(u, p)) = IF p = 0 THEN n ELSE 0
    BY <2>4, <2>5 DEF n
  <2>7. RunsPerDay * 0 = 0 /\ RunsPerMonth * 0 = 0
    BY <2>1
  <2>8. Cardinality(LateByDays(u)) = 0 /\ Cardinality(LateByMonths(u)) = 0
    BY <2>3, <2>5
  <2>9. DaySound(u)
    BY <2>1, <2>2, <2>6, <2>7, <2>8 DEF DaySound, Sound
  <2>10. MonthSound(u)
    BY <1>3, <2>1, <2>2, <2>6, <2>7, <2>8 DEF MonthSound, Sound
  <2> QED BY <2>9, <2>10
<1> QED BY <1>1, <1>2, <1>4 DEF CountInv

\* For any limits, users and dispatches, and whatever dates the statements bring
\* in whatever order: with one date, or one month, a user gets no more dispatches
\* past check_usage than the limit, and the limit again for each late statement.
THEOREM RunsAreCapped == Spec => []RunCapRespected
<1>1. Typed /\ CountInv => RunCapRespected
  <2> SUFFICES ASSUME Typed, CountInv, NEW u \in Users, NEW a \in admitted
               PROVE  /\ Cardinality(AdmittedOn(u, a.on))
                           <= RunsPerDay * (1 + Cardinality(LateByDays(u)))
                      /\ Cardinality(AdmittedIn(u, MonthOf(a.on)))
                           <= RunsPerMonth * (1 + Cardinality(LateByMonths(u)))
    BY DEF RunCapRespected
  <2>1. a.on \in Nat /\ MonthOf(a.on) \in Nat
    BY MonthType DEF Typed, TypeOK
  <2>2. /\ Cardinality(AdmittedOn(u, a.on)) \in Nat /\ Cardinality(LateByDays(u)) \in Nat
        /\ Cardinality(AdmittedIn(u, MonthOf(a.on))) \in Nat
        /\ Cardinality(LateByMonths(u)) \in Nat
    BY PartsFinite, FS_CardinalityType DEF CountInv
  <2>3. usage[u].runs.daily \in CountRow /\ usage[u].runs.monthly \in CountRow
    BY DEF Typed, TypeOK, Counter
  <2>4. RunsPerDay \in Nat /\ RunsPerMonth \in Nat
    BY LimitsAssumption, RunsPerMonthType
  <2>5. DaySound(u) /\ MonthSound(u)
    BY DEF CountInv
  <2> QED BY <2>1, <2>2, <2>3, <2>4, <2>5, SoundBound DEF DaySound, MonthSound
<1>2. Typed /\ CountInv /\ [Next]_vars => CountInv'
  BY CountInvStep
<1> QED BY <1>1, <1>2, InitCounts, TypedInvariant, PTL DEF Spec

-----------------------------------------------------------------------------
(* The credits held.  Nothing but a reservation adds to them, and a        *)
(* request about to reserve passed a gate since which, if the gate and the *)
(* reservation are exclusive, nobody else reserved for its user.           *)

Units(u) == UNION {CreditsOf(d) : d \in Holding(u)}

LEMMA CreditsCounted ==
  ASSUME Typed, NEW d \in Dispatches
  PROVE  IsFiniteSet(CreditsOf(d)) /\ Cardinality(CreditsOf(d)) = call[d].size
<1> DEFINE n == call[d].size
<1>1. n \in Nat /\ n > 0
  BY CallTypes DEF Typed, TypeOK
<1> HIDE DEF n
<1>2. IsFiniteSet(1..n) /\ Cardinality(1..n) = IF 1 > n THEN 0 ELSE n - 1 + 1
  <2>1. 1 \in Int /\ n \in Int
    BY <1>1
  <2> QED BY <2>1, FS_Interval, Zenon
<1>3. IsFiniteSet({d}) /\ Cardinality({d}) = 1
  BY FS_Singleton
<1>4. /\ IsFiniteSet({d} \X (1..n))
      /\ Cardinality({d} \X (1..n)) = Cardinality({d}) * Cardinality(1..n)
  BY <1>2, <1>3, FS_Product, Zenon
<1>5. Cardinality(1..n) = n
  BY <1>1, <1>2
<1>6. Cardinality({d} \X (1..n)) = n
  BY <1>1, <1>3, <1>4, <1>5
<1>7. CreditsOf(d) = {d} \X (1..n)
  BY DEF CreditsOf, n
<1> QED BY <1>4, <1>6, <1>7 DEF n

\* What a user holds is a finite number of credits.
LEMMA UnitsFinite ==
  ASSUME Typed, NEW u
  PROVE  IsFiniteSet(Units(u)) /\ Held(u) = Cardinality(Units(u)) /\ Held(u) \in Nat
<1> DEFINE S == Holding(u)
           T == {CreditsOf(d) : d \in S}
           f == [d \in S |-> CreditsOf(d)]
<1>1. IsFiniteSet(S)
  BY DispatchesAssumption, FS_Subset DEF Holding
<1>2. \A x \in T : IsFiniteSet(x)
  BY CreditsCounted DEF Holding
<1>3. f \in [S -> T] /\ \A t \in T : \E d \in S : f[d] = t
  OBVIOUS
<1>4. IsFiniteSet(T)
  <2> HIDE DEF S, T, f
  <2>1. f \in Surjection(S, T)
    BY <1>3, Fun_IsSurj
  <2> QED BY <1>1, <2>1, FS_Surjection
<1>5. IsFiniteSet(Units(u))
  <2>1. IsFiniteSet(UNION T)
    <3> HIDE DEF T
    <3> QED BY <1>2, <1>4, FS_UNION
  <2> QED BY <2>1 DEF Units
<1> QED BY <1>5, FS_CardinalityType DEF Units, Held

\* Fewer holds, fewer credits; and one hold more adds at most its credits.
LEMMA HeldShrinks ==
  ASSUME Typed, call' = call, NEW u, Holding(u)' \subseteq Holding(u)
  PROVE  Held(u)' \in Nat /\ Held(u)' <= Held(u)
<1>1. Units(u)' \subseteq Units(u)
  BY DEF Units, CreditsOf
<1>2. IsFiniteSet(Units(u)') /\ Cardinality(Units(u)') <= Cardinality(Units(u))
  BY <1>1, UnitsFinite, FS_Subset
<1>3. Cardinality(Units(u)') \in Nat
  BY <1>2, FS_CardinalityType
<1> QED BY <1>2, <1>3 DEF Held, Units

LEMMA HeldGrows ==
  ASSUME Typed, call' = call, NEW u, NEW d \in Dispatches,
         Holding(u)' \subseteq Holding(u) \cup {d}
  PROVE  Held(u)' \in Nat /\ Held(u)' <= Held(u) + call[d].size
<1>1. Units(u)' \subseteq Units(u) \cup CreditsOf(d)
  BY DEF Units, CreditsOf
<1>2. IsFiniteSet(Units(u)) /\ Cardinality(Units(u)) = Held(u) /\ Held(u) \in Nat
  BY UnitsFinite
<1>3. IsFiniteSet(CreditsOf(d)) /\ Cardinality(CreditsOf(d)) = call[d].size
  BY CreditsCounted
<1>4. call[d].size \in Nat
  BY CallTypes DEF Typed, TypeOK
<1>5. /\ IsFiniteSet(Units(u) \cup CreditsOf(d))
      /\ Cardinality(Units(u) \cup CreditsOf(d))
           = Held(u) + call[d].size - Cardinality(Units(u) \cap CreditsOf(d))
  BY <1>2, <1>3, FS_Union
<1>6. Cardinality(Units(u) \cap CreditsOf(d)) \in Nat
  BY <1>2, FS_Subset, FS_CardinalityType
<1>7. Cardinality(Units(u) \cup CreditsOf(d)) <= Held(u) + call[d].size
  BY <1>2, <1>4, <1>5, <1>6
<1>8. /\ Cardinality(Units(u)') <= Cardinality(Units(u) \cup CreditsOf(d))
      /\ IsFiniteSet(Units(u)')
  BY <1>1, <1>5, FS_Subset
<1>9. /\ Cardinality(Units(u)') \in Nat
      /\ Cardinality(Units(u) \cup CreditsOf(d)) \in Nat
  BY <1>5, <1>8, FS_CardinalityType
<1>10. Held(u)' = Cardinality(Units(u)')
  BY DEF Held, Units
<1> QED BY <1>2, <1>4, <1>7, <1>8, <1>9, <1>10

\* Only a reservation of the user's adds a hold that counts.
LEMMA HoldingSteps ==
  ASSUME Typed, [Next]_vars, NEW u
  PROVE  \/ Holding(u)' \subseteq Holding(u)
         \/ \E d \in Dispatches : /\ HoldCredits(d) /\ call[d].user = u
                                 /\ Holding(u)' \subseteq Holding(u) \cup {d}
<1>0. call' = call
  BY CallConstant
<1>1. CASE hold' = hold
  BY <1>0, <1>1 DEF Holding, Counts
<1>2. CASE Tick
  <2>1. ASSUME NEW d \in Dispatches, Counts(d)' PROVE Counts(d)
    <3>1. hold[d].state = "active" /\ hold'[d].age < HoldTTL
      BY <2>1, <1>2, TickRow DEF Counts
    <3>2. hold[d].age \in Nat /\ hold[d] \in [state : HoldStates, age : Nat]
      BY DEF Typed, TypeOK
    <3>3. hold'[d] = Older(hold[d], HoldTTL)
      BY <1>2, <3>1 DEF Tick
    <3>4. hold'[d].age = IF hold[d].age < HoldTTL THEN hold[d].age + 1 ELSE hold[d].age
      BY <3>2, <3>3 DEF Older
    <3> QED BY <3>1, <3>2, <3>4, ClockAssumption DEF Counts
  <2> QED BY <1>0, <2>1 DEF Holding
<1>3. ASSUME NEW e \in Dispatches, HoldCredits(e)
      PROVE  \/ Holding(u)' \subseteq Holding(u)
             \/ call[e].user = u /\ Holding(u)' \subseteq Holding(u) \cup {e}
  <2>1. ASSUME NEW d \in Dispatches, d # e, Counts(d)' PROVE Counts(d)
    BY <1>3, <2>1 DEF HoldCredits, Reserve, Counts, Row
  <2> QED BY <1>0, <2>1 DEF Holding
<1>4. ASSUME NEW c, NEW state \in {"refunded", "consumed"}, Release(c, state)
      PROVE  Holding(u)' \subseteq Holding(u)
  <2>1. ASSUME NEW d \in Dispatches, Counts(d)' PROVE Counts(d)
    BY <1>4, <2>1 DEF Release, Counts, Row
  <2> QED BY <1>0, <2>1 DEF Holding
<1> QED BY <1>1, <1>2, <1>3, <1>4, HoldSteps

\* A request about to reserve can afford what it will hold.
ReservesAfford ==
  \A d \in Dispatches : req[d] = "reserve" =>
    /\ Held(call[d].user) + call[d].size <= MonthlyCredits
    /\ Held(call[d].user) + call[d].size <= DailyThrottle

TierInv == GateExclusive /\ ReservesAfford /\ HeldWithinTier

\* Who is about to reserve has just passed the gate, or was so before.
LEMMA ReserveAhead ==
  ASSUME Typed, [Next]_vars, NEW d \in Dispatches, req'[d] = "reserve"
  PROVE  \/ req[d] = "reserve" /\ ~HoldCredits(d)
         \/ Gate(d) /\ Affords(d)
<1> USE DEF Typed, TypeOK, apiVars
<1>1. ASSUME NEW e \in Dispatches, Request(e)
      PROVE  \/ req[d] = "reserve" /\ ~HoldCredits(d)
             \/ Gate(d) /\ Affords(d)
  BY <1>1 DEF Request, CheckActive, CountRun, RefuseSize, ReadCredits,
     Gate, HoldCredits, DispatchOK, DispatchRaises, RefundRequest, Announce,
     RequestCrash, Goto
<1>2. ASSUME NEW e \in Dispatches, Runner(e)
      PROVE  req[d] = "reserve" /\ ~HoldCredits(d)
  BY <1>2 DEF Runner, StartJob, Report, PipelineRaises, RefundJob,
     PipelineReturns, BillOwner, SettleJob, LoseJob, HoldCredits, Goto
<1>3. CASE Tick \/ (\E c \in Campaigns : DeleteCampaign(c)) \/ UNCHANGED vars
  BY <1>3 DEF Tick, DeleteCampaign, vars, HoldCredits, Goto
<1> QED BY <1>1, <1>2, <1>3 DEF Next

LEMMA TierStep ==
  ASSUME Typed, TierInv, [Next /\ GateExclusive']_vars
  PROVE  TierInv'
<1> USE DEF TierInv
<1>n. [Next]_vars /\ call' = call
  BY CallConstant
<1>l. MonthlyCredits \in Nat /\ DailyThrottle \in Nat
  BY LimitsAssumption
<1>1. GateExclusive'
  BY DEF GateExclusive, vars, apiVars
<1>2. ReservesAfford'
  <2> SUFFICES ASSUME NEW d \in Dispatches, req'[d] = "reserve"
               PROVE  /\ Held(call[d].user)' + call[d].size <= MonthlyCredits
                      /\ Held(call[d].user)' + call[d].size <= DailyThrottle
    BY <1>n DEF ReservesAfford
  <2> DEFINE u == call[d].user
  <2>0. Held(u) \in Nat /\ call[d].size \in Nat
    BY UnitsFinite, CallTypes DEF Typed, TypeOK
  <2>1. CASE req[d] = "reserve" /\ ~HoldCredits(d)
    <3>1. ASSUME NEW e \in Dispatches, HoldCredits(e), call[e].user = u PROVE FALSE
      BY <2>1, <3>1 DEF GateExclusive, HoldCredits
    <3>2. Held(u)' \in Nat /\ Held(u)' <= Held(u)
      BY <1>n, <3>1, HoldingSteps, HeldShrinks
    <3> QED BY <1>l, <2>0, <2>1, <3>2 DEF ReservesAfford
  <2>2. CASE Gate(d) /\ Affords(d)
    <3>1. Held(u)' = Held(u)
      BY <1>n, <2>2 DEF Gate, Held, Holding, CreditsOf, Counts
    <3>2. seen[d].monthly \in Nat /\ seen[d].daily \in Nat
      BY DEF Typed, TypeOK, Balance
    <3> QED BY <1>l, <2>0, <2>2, <3>1, <3>2 DEF Affords
  <2> QED BY <1>n, <2>1, <2>2, ReserveAhead
<1>3. HeldWithinTier'
  <2> SUFFICES ASSUME NEW u \in Users
               PROVE  Held(u)' <= MonthlyCredits /\ Held(u)' <= DailyThrottle
    BY DEF HeldWithinTier
  <2>0. /\ Held(u) \in Nat
        /\ Held(u) <= MonthlyCredits /\ Held(u) <= DailyThrottle
    BY UnitsFinite DEF HeldWithinTier
  <2>1. CASE Holding(u)' \subseteq Holding(u)
    <3>1. Held(u)' \in Nat /\ Held(u)' <= Held(u)
      BY <1>n, <2>1, HeldShrinks
    <3> QED BY <1>l, <2>0, <3>1
  <2>2. ASSUME NEW d \in Dispatches, HoldCredits(d), call[d].user = u,
               Holding(u)' \subseteq Holding(u) \cup {d}
        PROVE  Held(u)' <= MonthlyCredits /\ Held(u)' <= DailyThrottle
    <3>1. /\ Held(u)' \in Nat /\ Held(u)' <= Held(u) + call[d].size
          /\ call[d].size \in Nat
      BY <1>n, <2>2, HeldGrows, CallTypes DEF Typed, TypeOK
    <3>2. /\ Held(u) + call[d].size <= MonthlyCredits
          /\ Held(u) + call[d].size <= DailyThrottle
      BY <2>2 DEF ReservesAfford, HoldCredits
    <3> QED BY <1>l, <2>0, <3>1, <3>2
  <2> QED BY <1>n, <2>1, <2>2, HoldingSteps
<1> QED BY <1>1, <1>2, <1>3

\* If requests of one user do not overlap between the gate and the reservation,
\* what the user's runs hold never exceeds the tier: for any users, dispatches
\* and sizes, whatever crashes, expiries, releases and midnights come between.
THEOREM HoldsStayWithinTier == SerialSpec => []HeldWithinTier
<1>1. Init => TierInv
  <2> SUFFICES ASSUME Init PROVE TierInv
    OBVIOUS
  <2>1. GateExclusive /\ ReservesAfford
    BY DEF Init, GateExclusive, ReservesAfford
  <2>2. ASSUME NEW u \in Users PROVE Held(u) = 0
    <3>1. UNION {CreditsOf(d) : d \in Holding(u)} = {}
      BY DEF Init, Holding, Counts, Row
    <3> QED BY <3>1, FS_EmptySet DEF Held
  <2> QED BY <2>1, <2>2, LimitsAssumption DEF TierInv, HeldWithinTier
<1>2. SerialSpec => [](Typed /\ TierInv)
  <2>1. [Next /\ GateExclusive']_vars => [Next]_vars
    OBVIOUS
  <2>2. Typed /\ TierInv /\ [Next /\ GateExclusive']_vars => (Typed /\ TierInv)'
    BY <2>1, TypedStep, TierStep
  <2> QED BY <1>1, <2>2, InitTyped, PTL DEF SerialSpec
<1>3. TierInv => HeldWithinTier
  BY DEF TierInv
<1> QED BY <1>2, <1>3, PTL

=============================================================================
