-------------------------- MODULE CampaignsProofs ---------------------------
(***************************************************************************)
(* What TLAPS proves of Campaigns and Accounts, for every set of accounts, *)
(* names, requests and calls: typing, that owners and deletions last, that *)
(* a stranger's configuration needs a race, how far a quota can be passed, *)
(* that a call stays within its caller's rows, and that what concurrent    *)
(* feedback leaves of a model is a consistent pair.                        *)
(***************************************************************************)
EXTENDS Accounts, Sequences, FiniteSetTheorems, TLAPS

-----------------------------------------------------------------------------
(* Typing.  What a request holds depends on how far it is.                 *)

Holds ==
  \A r \in Requests :
    /\ req[r].pc \in {"begun", "counted"} => req[r].name \in Names /\ req[r].kind \in Creations
    /\ req[r].pc \in {"named", "allowed", "loaded"} => req[r].id \in Ids
    /\ req[r].pc = "loaded" => req[r].config \in Config

Typed0 == TypeOK /\ Holds

LEMMA OwnerType == ASSUME NEW c \in Callers PROVE Owner(c) \in Tenants \cup {None}
  BY DEF Owner, Callers

LEMMA IdleType == Idle \in Request /\ Idle.pc = "idle"
  BY DEF Idle, Request, Callers

\* A write keeps the types of the tables.
LEMMA SaveTypes ==
  ASSUME TypeOK, NEW r \in Requests, req[r].id \in Ids,
         NEW cfg \in Config, NEW who \in Tenants \cup {None},
         Save(r, cfg, who)
  PROVE  rows' \in [Ids -> Row \cup {NoRow}] /\ racers' \in [Ids -> SUBSET Requests]
<1> DEFINE i == req[r].id
           new == [owner |-> IF rows[i].owner # None THEN rows[i].owner ELSE who,
                   config |-> cfg, deleted |-> Exists(i) /\ rows[i].deleted]
<1>1. rows[i].owner \in Tenants \cup {None} /\ rows[i].deleted \in BOOLEAN
  <2>1. rows[i] \in Row \/ rows[i] = NoRow
    BY DEF TypeOK
  <2>2. rows[i] \in Row => rows[i].owner \in Tenants \cup {None} /\ rows[i].deleted \in BOOLEAN
    BY DEF Row
  <2>3. NoRow.owner \in Tenants \cup {None} /\ NoRow.deleted \in BOOLEAN
    BY DEF NoRow
  <2> QED BY <2>1, <2>2, <2>3
<1>2. (Exists(i) /\ rows[i].deleted) \in BOOLEAN
  OBVIOUS
<1>3. new \in Row
  BY <1>1, <1>2 DEF Row
<1>4. rows' = [rows EXCEPT ![i] = new]
  BY DEF Save, Upsert
<1>5. rows' \in [Ids -> Row \cup {NoRow}]
  BY <1>3, <1>4 DEF TypeOK
<1>6. racers' \in [Ids -> SUBSET Requests]
  BY DEF Save, TypeOK
<1> QED BY <1>5, <1>6

\* A request that moves on or ends keeps the types of the requests.
LEMMA MoveTypes ==
  ASSUME TypeOK, Holds, NEW r \in Requests, NEW q \in Request,
         req' = [req EXCEPT ![r] = q],
         q.pc \in {"begun", "counted"} => q.name \in Names /\ q.kind \in Creations,
         q.pc \in {"named", "allowed", "loaded"} => q.id \in Ids,
         q.pc = "loaded" => q.config \in Config
  PROVE  req' \in [Requests -> Request] /\ Holds'
  BY DEF TypeOK, Holds

LEMMA InitTyped == Init => Typed0
<1> SUFFICES ASSUME Init PROVE Typed0
  OBVIOUS
<1>1. req \in [Requests -> Request] /\ Holds
  BY IdleType DEF Init, Holds
<1>2. rows \in [Ids -> Row \cup {NoRow}]
  BY DEF Init, Row, NoRow, Config, Callers
<1>3. used \in [Tenants -> 0..NlLimit] /\ racers \in [Ids -> SUBSET Requests]
  BY QuotaAssumption DEF Init
<1>4. hidden \subseteq Files /\ posted \subseteq Ids
  BY DEF Init
<1> QED BY <1>1, <1>2, <1>3, <1>4 DEF Typed0, TypeOK

LEMMA EndTypes ==
  ASSUME Typed0, NEW r \in Requests, NEW pc \in {"done", "refused"}, End(r, pc)
  PROVE  req' \in [Requests -> Request] /\ Holds'
<1> DEFINE q == [Idle EXCEPT !.pc = pc]
<1>1. q \in Request /\ q.pc = pc
  BY DEF Idle, Request, Callers
<1> QED BY <1>1, MoveTypes DEF Typed0, End

\* The rest of a request is kept when only its place changes.
LEMMA GoTypes ==
  ASSUME Typed0, NEW r \in Requests, NEW pc \in {"counted"}, req[r].pc = "begun", Go(r, pc)
  PROVE  req' \in [Requests -> Request] /\ Holds'
<1> DEFINE q == [req[r] EXCEPT !.pc = pc]
<1>1. req' = [req EXCEPT ![r] = q]
  BY DEF Go
<1>2. q \in Request /\ q.pc = pc /\ q.name \in Names /\ q.kind \in Creations
  BY DEF Typed0, TypeOK, Holds, Request
<1> QED BY <1>1, <1>2, MoveTypes DEF Typed0

LEMMA StepTyped == Typed0 /\ [Next]_vars => Typed0'
<1> SUFFICES ASSUME Typed0, [Next]_vars PROVE Typed0'
  OBVIOUS
<1> USE DEF Typed0
<1>1. CASE UNCHANGED vars
  BY <1>1 DEF vars, TypeOK, Holds
<1>2. ASSUME NEW r \in Requests, NEW kind \in Creations, NEW c \in Callers, NEW name \in Names,
             BeginCreate(r, kind, c, name)
      PROVE  Typed0'
  <2> DEFINE q == [Idle EXCEPT !.pc = "begun", !.kind = kind, !.caller = c, !.name = name]
  <2>1. q \in Request /\ q.pc = "begun" /\ q.name = name /\ q.kind = kind
    BY DEF Idle, Request, Kinds, Creations
  <2>2. req' \in [Requests -> Request] /\ Holds'
    BY <1>2, <2>1, MoveTypes DEF BeginCreate
  <2> QED BY <1>2, <2>2 DEF BeginCreate, TypeOK
<1>3. ASSUME NEW r \in Requests, Count(r) PROVE Typed0'
  <2>1. used' \in [Tenants -> 0..NlLimit]
    BY <1>3, QuotaAssumption DEF Count, TypeOK, Limited
  <2>2. req' \in [Requests -> Request] /\ Holds'
    BY <1>3, EndTypes, GoTypes DEF Count
  <2> QED BY <1>3, <2>1, <2>2 DEF Count, TypeOK
<1>4. ASSUME NEW r \in Requests, MakeId(r) PROVE Typed0'
  <2>1. PICK i \in Ids : req' = [req EXCEPT ![r].pc = "named", ![r].id = i]
    BY <1>4 DEF MakeId
  <2> DEFINE q == [req[r] EXCEPT !.pc = "named", !.id = i]
  <2>2. q \in Request /\ q.pc = "named" /\ q.id = i
    BY DEF TypeOK, Request
  <2>3. req' = [req EXCEPT ![r] = q]
    BY <2>1 DEF TypeOK
  <2>4. req' \in [Requests -> Request] /\ Holds'
    BY <2>2, <2>3, MoveTypes
  <2> QED BY <1>4, <2>4 DEF MakeId, TypeOK
<1>5. ASSUME NEW r \in Requests, RejectConfig(r) PROVE Typed0'
  BY <1>5, EndTypes DEF RejectConfig, TypeOK
<1>6. ASSUME NEW r \in Requests, Insert(r) PROVE Typed0'
  <2>1. req[r].id \in Ids /\ req[r].caller \in Callers
    BY <1>6 DEF Insert, Holds, TypeOK, Request
  <2>2. [author |-> req[r].caller, from |-> r] \in Config
    BY <2>1 DEF Config
  <2>3. rows' \in [Ids -> Row \cup {NoRow}] /\ racers' \in [Ids -> SUBSET Requests]
    BY <1>6, <2>1, <2>2, OwnerType, SaveTypes DEF Insert
  <2>4. req' \in [Requests -> Request] /\ Holds'
    BY <1>6, EndTypes DEF Insert
  <2> QED BY <1>6, <2>1, <2>3, <2>4 DEF Insert, TypeOK
<1>7. ASSUME NEW r \in Requests, NEW name \in Names, BeginCli(r, name) PROVE Typed0'
  <2>1. PICK i \in Ids : req' = [req EXCEPT ![r] = [Idle EXCEPT !.pc = "named", !.kind = "cli", !.id = i]]
    BY <1>7 DEF BeginCli
  <2> DEFINE q == [Idle EXCEPT !.pc = "named", !.kind = "cli", !.id = i]
  <2>2. q \in Request /\ q.pc = "named" /\ q.id = i
    BY DEF Idle, Request, Kinds, Callers
  <2>3. req' \in [Requests -> Request] /\ Holds'
    BY <2>1, <2>2, MoveTypes
  <2> QED BY <1>7, <2>3 DEF BeginCli, TypeOK
<1>8. ASSUME NEW r \in Requests, CliInsert(r) PROVE Typed0'
  <2>1. req[r].id \in Ids /\ [author |-> Operator, from |-> r] \in Config
    BY <1>8 DEF CliInsert, Holds, Config, Callers
  <2>2. rows' \in [Ids -> Row \cup {NoRow}] /\ racers' \in [Ids -> SUBSET Requests]
    BY <1>8, <2>1, SaveTypes DEF CliInsert
  <2>3. req' \in [Requests -> Request] /\ Holds'
    BY <1>8, EndTypes DEF CliInsert
  <2> QED BY <1>8, <2>2, <2>3 DEF CliInsert, TypeOK
<1>9. ASSUME NEW r \in Requests, NEW c \in Callers, NEW i \in Ids, CheckPut(r, c, i)
      PROVE  Typed0'
  <2> DEFINE q == [Idle EXCEPT !.pc = "allowed", !.kind = "put", !.caller = c, !.id = i]
  <2>1. q \in Request /\ q.pc = "allowed" /\ q.id = i
    BY DEF Idle, Request, Kinds
  <2>2. req' \in [Requests -> Request] /\ Holds'
    BY <1>9, <2>1, MoveTypes, EndTypes DEF CheckPut
  <2> QED BY <1>9, <2>2 DEF CheckPut, TypeOK
<1>10. ASSUME NEW r \in Requests, Put(r) PROVE Typed0'
  <2>1. req[r].id \in Ids /\ req[r].caller \in Callers
    BY <1>10 DEF Put, Holds, TypeOK, Request
  <2>2. [author |-> req[r].caller, from |-> r] \in Config
    BY <2>1 DEF Config
  <2>3. rows' \in [Ids -> Row \cup {NoRow}] /\ racers' \in [Ids -> SUBSET Requests]
    BY <1>10, <2>1, <2>2, OwnerType, SaveTypes DEF Put
  <2>4. req' \in [Requests -> Request] /\ Holds'
    BY <1>10, EndTypes DEF Put
  <2> QED BY <1>10, <2>3, <2>4 DEF Put, TypeOK
<1>11. ASSUME NEW r \in Requests, NEW c \in Callers, NEW i \in Ids, CheckDelete(r, c, i)
       PROVE  Typed0'
  <2> DEFINE q == [Idle EXCEPT !.pc = "allowed", !.kind = "delete", !.caller = c, !.id = i]
  <2>1. q \in Request /\ q.pc = "allowed" /\ q.id = i
    BY DEF Idle, Request, Kinds
  <2>2. req' \in [Requests -> Request] /\ Holds'
    BY <1>11, <2>1, MoveTypes DEF CheckDelete
  <2> QED BY <1>11, <2>2 DEF CheckDelete, TypeOK
<1>12. ASSUME NEW r \in Requests, Delete(r) PROVE Typed0'
  <2>1. req' \in [Requests -> Request] /\ Holds'
    BY <1>12, EndTypes DEF Delete
  <2> DEFINE i == req[r].id
             gone == [rows[i] EXCEPT !.deleted = TRUE]
  <2>2. \/ i \in Files /\ hidden' = hidden \cup {i} /\ rows' = rows
        \/ Live(i) /\ hidden' = hidden /\ rows' = [rows EXCEPT ![i] = gone]
        \/ hidden' = hidden /\ rows' = rows
    BY <1>12 DEF Delete
  <2>3. rows \in [Ids -> Row \cup {NoRow}] /\ hidden \subseteq Files /\ i \in Ids \cup {NoId}
    BY DEF Typed0, TypeOK, Request
  <2>4. i \in Ids /\ Live(i) => gone \in Row
    BY <2>3 DEF Row, Live, Exists
  <2> HIDE DEF i, gone
  <2>5. hidden' \subseteq Files
    BY <2>2, <2>3
  <2>6. rows' \in [Ids -> Row \cup {NoRow}]
    BY <2>2, <2>3, <2>4
  <2> QED BY <1>12, <2>1, <2>5, <2>6 DEF Delete, TypeOK
<1>13. ASSUME NEW r \in Requests, NEW i \in Ids, Load(r, i) PROVE Typed0'
  <2> DEFINE cfg == IF i \in Files THEN [author |-> Operator, from |-> Shipped] ELSE rows[i].config
             q == [Idle EXCEPT !.pc = "loaded", !.kind = "run", !.id = i, !.config = cfg]
  <2>1. cfg \in Config
    BY <1>13 DEF Load, TypeOK, Row, Config, Callers, Live, Exists
  <2>2. q \in Request /\ q.pc = "loaded" /\ q.id = i /\ q.config = cfg
    BY <2>1 DEF Idle, Request, Kinds, Callers
  <2>3. req' = [req EXCEPT ![r] = q]
    BY <1>13 DEF Load
  <2>4. req' \in [Requests -> Request] /\ Holds'
    BY <2>1, <2>2, <2>3, MoveTypes
  <2> QED BY <1>13, <2>4 DEF Load, TypeOK
<1>14. ASSUME NEW r \in Requests, StartRun(r) PROVE Typed0'
  <2>1. req[r].id \in Ids /\ req[r].config \in Config
    BY <1>14 DEF StartRun, Holds
  <2>2. rows' \in [Ids -> Row \cup {NoRow}] /\ racers' \in [Ids -> SUBSET Requests]
    BY <1>14, <2>1, SaveTypes DEF StartRun
  <2>3. req' \in [Requests -> Request] /\ Holds'
    BY <1>14, EndTypes DEF StartRun
  <2> QED BY <1>14, <2>2, <2>3 DEF StartRun, TypeOK
<1> QED BY <1>1, <1>2, <1>3, <1>4, <1>5, <1>6, <1>7, <1>8, <1>9, <1>10, <1>11, <1>12,
           <1>13, <1>14 DEF Next, Create, Cli, Edit, Remove, Run

\* Every variable keeps the shape the tables and the handlers give it.
THEOREM TypeCorrect == Spec => []TypeOK
<1>1. Typed0 => TypeOK
  BY DEF Typed0
<1> QED BY <1>1, InitTyped, StepTyped, PTL DEF Spec

-----------------------------------------------------------------------------
(* What a write does to the rows.                                          *)

LEMMA SaveEffect ==
  ASSUME Typed0, NEW r \in Requests, NEW i \in Ids, req[r].id = i,
         NEW cfg \in Config, NEW who \in Tenants \cup {None},
         Save(r, cfg, who)
  PROVE  /\ \A j \in Ids \ {i} : rows'[j] = rows[j] /\ racers'[j] = racers[j]
         /\ rows[i].owner # None => rows'[i].owner = rows[i].owner /\ racers'[i] = racers[i]
         /\ rows[i].owner = None => rows'[i].owner = who
         /\ rows[i].owner = None /\ who # None => racers'[i] = {q \in Requests : UnderWay(q)}
         /\ rows[i].owner = None /\ who = None => racers'[i] = racers[i]
         /\ rows'[i].config = cfg
         /\ rows'[i].deleted = (Exists(i) /\ rows[i].deleted)
         /\ rows'[i] # NoRow
<1> DEFINE new == [owner |-> IF rows[i].owner # None THEN rows[i].owner ELSE who,
                    config |-> cfg, deleted |-> Exists(i) /\ rows[i].deleted]
<1>1. rows' = [rows EXCEPT ![i] = new]
  BY DEF Save, Upsert
<1>2. rows'[i] = new /\ \A j \in Ids \ {i} : rows'[j] = rows[j]
  BY <1>1 DEF Typed0, TypeOK
<1>3. cfg # NoConfig
  BY CallersAssumption DEF Config, NoConfig, None
<1>4. rows'[i] # NoRow
  BY <1>2, <1>3 DEF NoRow
<1>5. /\ \A j \in Ids \ {i} : racers'[j] = racers[j]
      /\ racers'[i] = IF rows[i].owner = None /\ who # None
                      THEN {q \in Requests : UnderWay(q)} ELSE racers[i]
  BY DEF Save, Typed0, TypeOK
<1> QED BY <1>2, <1>4, <1>5

\* The actions that write a row, with what they write.
Writes(r, cfg, who) ==
  /\ UnderWay(r) /\ req[r].id \in Ids /\ Save(r, cfg, who)
  /\ \/ /\ Insert(r) \/ Put(r)
        /\ who = Owner(req[r].caller) /\ cfg = [author |-> req[r].caller, from |-> r]
     \/ who = None /\ cfg.author = Operator
     \/ who = None /\ req[r].pc = "loaded" /\ cfg = req[r].config

\* A step writes one row, deletes one, or leaves the rows as they are.
LEMMA RowSteps ==
  ASSUME Typed0, [Next]_vars
  PROVE  \/ UNCHANGED <<rows, racers>>
         \/ \E r \in Requests : Delete(r)
         \/ \E r \in Requests, cfg \in Config, who \in Tenants \cup {None} :
              Writes(r, cfg, who)
<1>1. ASSUME NEW r \in Requests, Insert(r) \/ Put(r)
      PROVE  \E cfg \in Config, who \in Tenants \cup {None} : Writes(r, cfg, who)
  <2>1. req[r].id \in Ids /\ req[r].caller \in Callers /\ UnderWay(r)
    BY <1>1 DEF Insert, Put, Typed0, Holds, TypeOK, Request, UnderWay
  <2>2. [author |-> req[r].caller, from |-> r] \in Config
    BY <2>1 DEF Config
  <2>3. Save(r, [author |-> req[r].caller, from |-> r], Owner(req[r].caller))
    BY <1>1 DEF Insert, Put
  <2> QED BY <1>1, <2>1, <2>2, <2>3, OwnerType DEF Writes
<1>2. ASSUME NEW r \in Requests, CliInsert(r)
      PROVE  \E cfg \in Config, who \in Tenants \cup {None} : Writes(r, cfg, who)
  <2>1. req[r].id \in Ids /\ UnderWay(r) /\ [author |-> Operator, from |-> r] \in Config
    BY <1>2 DEF CliInsert, Typed0, Holds, Config, Callers, UnderWay
  <2> QED BY <1>2, <2>1 DEF CliInsert, Writes
<1>3. ASSUME NEW r \in Requests, StartRun(r)
      PROVE  \E cfg \in Config, who \in Tenants \cup {None} : Writes(r, cfg, who)
  <2>1. req[r].id \in Ids /\ UnderWay(r) /\ req[r].config \in Config
    BY <1>3 DEF StartRun, Typed0, Holds, UnderWay
  <2> QED BY <1>3, <2>1 DEF StartRun, Writes
<1>4. CASE UNCHANGED vars
  BY <1>4 DEF vars
<1>5. CASE Next
  <2>1. PICK r \in Requests : Create(r) \/ Cli(r) \/ Edit(r) \/ Remove(r) \/ Run(r)
    BY <1>5 DEF Next
  <2>2. CASE Create(r)
    BY <2>2, <1>1 DEF Create, BeginCreate, Count, MakeId, RejectConfig
  <2>3. CASE Cli(r)
    BY <2>3, <1>2 DEF Cli, BeginCli
  <2>4. CASE Edit(r)
    BY <2>4, <1>1 DEF Edit, CheckPut
  <2>5. CASE Remove(r)
    BY <2>5 DEF Remove, CheckDelete
  <2>6. CASE Run(r)
    BY <2>6, <1>3 DEF Run, Load
  <2> QED BY <2>1, <2>2, <2>3, <2>4, <2>5, <2>6
<1> QED BY <1>4, <1>5

\* Deleting stamps a live row and keeps everything else of it.
LEMMA DeleteEffect ==
  ASSUME Typed0, NEW r \in Requests, Delete(r), NEW j \in Ids
  PROVE  /\ rows'[j].owner = rows[j].owner /\ rows'[j].config = rows[j].config
         /\ rows[j].deleted => rows'[j].deleted
         /\ rows[j] = NoRow => rows'[j] = NoRow
         /\ rows[j] # NoRow => rows'[j] # NoRow
         /\ racers'[j] = racers[j]
<1>1. CASE rows' = rows
  BY <1>1 DEF Delete
<1>2. CASE Live(req[r].id) /\ rows' = [rows EXCEPT ![req[r].id].deleted = TRUE]
  <2> DEFINE i == req[r].id
  <2>1. rows[j] \in Row \/ rows[j] = NoRow
    BY DEF Typed0, TypeOK
  <2>2. CASE j = i
    <3>1. rows[i] \in Row /\ rows[i] # NoRow
      BY <1>2, <2>1, <2>2 DEF Live, Exists
    <3>2. rows'[i] = [rows[i] EXCEPT !.deleted = TRUE]
      BY <1>2, <2>2 DEF Typed0, TypeOK
    <3>3. rows[i].config \in Config
      BY <3>1 DEF Row
    <3>4. rows[i].config # NoConfig
      BY <3>3, CallersAssumption DEF Config, NoConfig, None
    <3>5. rows'[i].config = rows[i].config /\ rows'[i].owner = rows[i].owner /\ rows'[i].deleted
      BY <3>1, <3>2 DEF Row
    <3>6. rows'[i] # NoRow
      BY <3>4, <3>5 DEF NoRow
    <3> QED BY <2>2, <3>1, <3>5, <3>6 DEF Delete
  <2>3. CASE j # i
    BY <1>2, <2>3 DEF Typed0, TypeOK, Delete
  <2> QED BY <2>2, <2>3
<1> QED BY <1>1, <1>2 DEF Delete

-----------------------------------------------------------------------------
(* Owners and deletions.                                                   *)

OwnerAndDeletionLast(i) ==
  /\ rows[i].owner # None => rows'[i].owner = rows[i].owner
  /\ Exists(i) /\ rows[i].deleted => Exists(i)' /\ rows'[i].deleted

LEMMA StepLasts == Typed0 /\ [Next]_vars => \A i \in Ids : OwnerAndDeletionLast(i)
<1> SUFFICES ASSUME Typed0, [Next]_vars, NEW i \in Ids PROVE OwnerAndDeletionLast(i)
  OBVIOUS
<1>1. CASE UNCHANGED <<rows, racers>>
  BY <1>1 DEF OwnerAndDeletionLast, Exists
<1>2. CASE \E r \in Requests : Delete(r)
  BY <1>2, DeleteEffect DEF OwnerAndDeletionLast, Exists
<1>3. ASSUME NEW r \in Requests, NEW cfg \in Config, NEW who \in Tenants \cup {None},
             Writes(r, cfg, who)
      PROVE  OwnerAndDeletionLast(i)
  BY <1>3, SaveEffect DEF Writes, OwnerAndDeletionLast, Exists
<1> QED BY <1>1, <1>2, <1>3, RowSteps

\* A run's upsert, an edit or a racing creation never changes the owner of a
\* row, and no write brings a deleted campaign back.
THEOREM OwnersLast == Spec => OwnersAndDeletionsLast
<1>1. Typed0 /\ [Next]_vars =>
        [\A i \in Ids :
           /\ rows[i].owner # None => rows'[i].owner = rows[i].owner
           /\ Exists(i) /\ rows[i].deleted => Exists(i)' /\ rows'[i].deleted]_vars
  BY StepLasts DEF OwnerAndDeletionLast
<1> QED BY <1>1, InitTyped, StepTyped, PTL DEF Spec, OwnersAndDeletionsLast

-----------------------------------------------------------------------------
(* Strangers.  Inductively: a shared row is the operator's; a request that *)
(* is about to write a row of another account was under way when the row   *)
(* got its owner; and what a run loaded is the owner's, the operator's or  *)
(* a racer's.                                                              *)

Proper(cfg, i) ==
  \/ cfg.author = Operator
  \/ rows[i].owner # None /\ (cfg.author = rows[i].owner \/ cfg.from \in racers[i])

Racing(r) ==
  LET i == req[r].id IN
    Live(i) /\ rows[i].owner \notin {None, req[r].caller} => r \in racers[i]

Standing(r) ==
  /\ req[r].pc = "named" /\ req[r].kind \in Creations /\ req[r].caller # Operator => Racing(r)
  /\ req[r].pc = "allowed" /\ req[r].kind = "put" /\ req[r].caller # Operator => Racing(r)
  /\ req[r].pc = "loaded" =>
       /\ Live(req[r].id) => Proper(req[r].config, req[r].id)
       /\ ~Exists(req[r].id) => req[r].config.author = Operator

StrangersInv ==
  /\ \A i \in Ids : Live(i) => Proper(rows[i].config, i)
  /\ \A r \in Requests : Standing(r)

LEMMA InitStrangers == Init => StrangersInv
<1> SUFFICES ASSUME Init PROVE StrangersInv
  OBVIOUS
<1>1. \A i \in Ids : Live(i) => rows[i].config.author = Operator
  BY DEF Init, Live, Exists, NoRow
<1>2. \A r \in Requests : req[r].pc = "idle"
  BY DEF Init, Idle
<1> QED BY <1>1, <1>2 DEF StrangersInv, Standing, Proper

LEMMA StrangersImplied == Typed0 /\ StrangersInv => StrangersNeedARace
  BY DEF StrangersInv, StrangersNeedARace, Proper

\* Nothing a step does to the rows makes a proper configuration improper while
\* its row is live, nor a racing request a late one.
LEMMA RowsKeep ==
  ASSUME Typed0, [Next]_vars, NEW j \in Ids, Live(j)'
  PROVE  /\ \A cfg \in Config : (Live(j) => Proper(cfg, j)) /\ (~Exists(j) => cfg.author = Operator)
                                    => Proper(cfg, j)'
         /\ rows[j].owner # None => rows'[j].owner = rows[j].owner /\ racers'[j] = racers[j]
         /\ \A r \in Requests : rows[j].owner = None /\ rows'[j].owner # None /\ UnderWay(r)
              => r \in racers'[j]
<1>1. CASE UNCHANGED <<rows, racers>>
  BY <1>1 DEF Proper, Live, Exists
<1>2. CASE \E r \in Requests : Delete(r)
  BY <1>2, DeleteEffect DEF Proper, Live, Exists
<1>3. ASSUME NEW r \in Requests, NEW cfg \in Config, NEW who \in Tenants \cup {None},
             Writes(r, cfg, who), j = req[r].id
      PROVE  /\ \A c \in Config : (Live(j) => Proper(c, j)) /\ (~Exists(j) => c.author = Operator)
                                   => Proper(c, j)'
             /\ rows[j].owner # None => rows'[j].owner = rows[j].owner /\ racers'[j] = racers[j]
             /\ \A q \in Requests : rows[j].owner = None /\ rows'[j].owner # None /\ UnderWay(q)
                  => q \in racers'[j]
  <2>1. /\ rows[j].owner # None => rows'[j].owner = rows[j].owner /\ racers'[j] = racers[j]
        /\ rows[j].owner = None => rows'[j].owner = who
        /\ rows[j].owner = None /\ who # None => racers'[j] = {q \in Requests : UnderWay(q)}
        /\ rows[j].owner = None /\ who = None => racers'[j] = racers[j]
    <3>1. Save(r, cfg, who) /\ req[r].id \in Ids
      BY <1>3 DEF Writes
    <3> QED BY <1>3, <3>1, SaveEffect
  <2>2. ~Exists(j) \/ Live(j)
    BY StepLasts DEF OwnerAndDeletionLast, Live
  <2>3. ASSUME NEW c \in Config, Live(j) => Proper(c, j), ~Exists(j) => c.author = Operator
        PROVE  Proper(c, j)'
    BY <2>1, <2>2, <2>3 DEF Proper
  <2> QED BY <2>1, <2>3
<1>4. ASSUME NEW r \in Requests, NEW cfg \in Config, NEW who \in Tenants \cup {None},
             Writes(r, cfg, who), j # req[r].id
      PROVE  rows'[j] = rows[j] /\ racers'[j] = racers[j]
  BY <1>4, SaveEffect DEF Writes
<1>5. CASE rows'[j] = rows[j] /\ racers'[j] = racers[j]
  <2>1. Live(j)
    BY <1>5 DEF Live, Exists
  <2> QED BY <1>5, <2>1 DEF Proper
<1> QED BY <1>1, <1>2, <1>3, <1>4, <1>5, RowSteps

\* No row goes away.
LEMMA ExistsLasts ==
  ASSUME Typed0, [Next]_vars, NEW i \in Ids, Exists(i)
  PROVE  Exists(i)'
<1>1. CASE UNCHANGED <<rows, racers>>
  BY <1>1 DEF Exists
<1>2. CASE \E r \in Requests : Delete(r)
  BY <1>2, DeleteEffect DEF Exists
<1>3. ASSUME NEW r \in Requests, NEW cfg \in Config, NEW who \in Tenants \cup {None},
             Writes(r, cfg, who)
      PROVE  Exists(i)'
  BY <1>3, SaveEffect DEF Writes, Exists
<1> QED BY <1>1, <1>2, <1>3, RowSteps

\* What a request stands for holds on while a step leaves the request alone.
LEMMA BystanderKeeps ==
  ASSUME Typed0, StrangersInv, [Next]_vars, NEW r \in Requests, req'[r] = req[r]
  PROVE  Standing(r)'
<1> DEFINE i == req[r].id
<1>1. ASSUME req[r].pc \in {"named", "allowed"}, Racing(r) PROVE Racing(r)'
  <2>1. i \in Ids /\ UnderWay(r)
    BY <1>1 DEF Typed0, Holds, UnderWay
  <2>2. SUFFICES ASSUME Live(i)', rows'[i].owner \notin {None, req[r].caller}
                 PROVE  r \in racers'[i]
    BY DEF Racing
  <2>3. CASE rows[i].owner = None
    BY <2>1, <2>2, <2>3, RowsKeep
  <2>4. CASE rows[i].owner # None
    <3>1. rows'[i].owner = rows[i].owner /\ racers'[i] = racers[i]
      BY <2>1, <2>2, <2>4, RowsKeep
    <3>2. Live(i)
      <4>1. Exists(i)
        BY <2>4 DEF Exists, NoRow
      <4> QED BY <2>1, <2>2, <4>1, StepLasts DEF OwnerAndDeletionLast, Live
    <3> QED BY <1>1, <2>2, <3>1, <3>2 DEF Racing
  <2> QED BY <2>3, <2>4
<1>2. ASSUME req[r].pc = "loaded"
      PROVE  /\ Live(i)' => Proper(req[r].config, i)'
             /\ ~Exists(i)' => req[r].config.author = Operator
  <2>1. i \in Ids /\ req[r].config \in Config
    BY <1>2 DEF Typed0, Holds
  <2>2. (Live(i) => Proper(req[r].config, i)) /\ (~Exists(i) => req[r].config.author = Operator)
    BY <1>2 DEF StrangersInv, Standing
  <2>3. Live(i)' => Proper(req[r].config, i)'
    BY <2>1, <2>2, RowsKeep
  <2>4. Exists(i) => Exists(i)'
    BY <2>1, ExistsLasts
  <2> QED BY <2>2, <2>3, <2>4
<1>3. Standing(r)
  BY DEF StrangersInv
<1> QED BY <1>1, <1>2, <1>3 DEF Standing

\* What a write leaves in the row is the owner's, the operator's or a racer's.
LEMMA WriteProper ==
  ASSUME Typed0, StrangersInv, [Next]_vars, NEW r \in Requests, NEW cfg \in Config,
         NEW who \in Tenants \cup {None}, Writes(r, cfg, who),
         NEW j \in Ids, j = req[r].id, Live(j)'
  PROVE  Proper(cfg, j)'
<1>1. UnderWay(r) /\ req[r].caller \in Callers
  BY DEF Writes, Typed0, TypeOK, Request
<1>2. /\ rows[j].owner # None => rows'[j].owner = rows[j].owner /\ racers'[j] = racers[j]
      /\ rows[j].owner = None => rows'[j].owner = who
      /\ rows[j].owner = None /\ who # None => racers'[j] = {q \in Requests : UnderWay(q)}
      /\ rows[j].owner = None /\ who = None => racers'[j] = racers[j]
  <2>1. Save(r, cfg, who) /\ req[r].id \in Ids
    BY DEF Writes
  <2> QED BY <2>1, SaveEffect
<1>3. CASE who = Owner(req[r].caller) /\ cfg = [author |-> req[r].caller, from |-> r]
           /\ req[r].caller # Operator /\ (Insert(r) \/ Put(r))
  <2>1. /\ who = req[r].caller /\ who # None
        /\ cfg.author = req[r].caller /\ cfg.from = r
    BY <1>1, <1>3, CallersAssumption DEF Owner, None
  <2>2. CASE rows[j].owner = None
    BY <1>2, <1>3, <2>1, <2>2 DEF Proper
  <2>3. CASE rows[j].owner # None
    <3>1. Live(j)
      <4>1. Exists(j)
        BY <2>3 DEF Exists, NoRow
      <4> QED BY <1>1, <4>1, StepLasts DEF OwnerAndDeletionLast, Live
    <3>2. Racing(r)
      BY <1>3 DEF StrangersInv, Standing, Insert, Put
    <3> QED BY <1>2, <1>3, <2>1, <2>3, <3>1, <3>2 DEF Proper, Racing
  <2> QED BY <2>2, <2>3
<1>4. CASE cfg.author = Operator
  BY <1>4 DEF Proper
<1>5. CASE who = None /\ req[r].pc = "loaded" /\ cfg = req[r].config
  BY <1>1, <1>5, RowsKeep DEF StrangersInv, Standing
<1>6. cfg = [author |-> req[r].caller, from |-> r] /\ req[r].caller = Operator
        => cfg.author = Operator
  OBVIOUS
<1> QED BY <1>3, <1>4, <1>5, <1>6 DEF Writes

\* One request moves: the others are bystanders, so what the mover now stands
\* for and the rows decide.
LEMMA MoverDecides ==
  ASSUME Typed0, StrangersInv, [Next]_vars, NEW r \in Requests,
         \A q \in Requests \ {r} : req'[q] = req[q],
         Standing(r)',
         \A i \in Ids : Live(i)' => Proper(rows[i].config, i)'
  PROVE  StrangersInv'
<1>1. ASSUME NEW q \in Requests PROVE Standing(q)'
  <2>1. CASE q # r
    <3>1. req'[q] = req[q]
      BY <2>1
    <3> QED BY <3>1, BystanderKeeps
  <2> QED BY <2>1
<1> QED BY <1>1 DEF StrangersInv

LEMMA StepStrangers == Typed0 /\ StrangersInv /\ [Next]_vars => StrangersInv'
<1> SUFFICES ASSUME Typed0, StrangersInv, [Next]_vars PROVE StrangersInv'
  OBVIOUS
<1>1. CASE UNCHANGED vars
  BY <1>1 DEF vars, StrangersInv, Standing, Proper, Racing, Live, Exists
\* The rows: one that is written holds what was written, the others are as
\* proper as they were.
<1>2. ASSUME NEW i \in Ids, Live(i)' PROVE Proper(rows[i].config, i)'
  <2>1. CASE \E r \in Requests, cfg \in Config, who \in Tenants \cup {None} :
               Writes(r, cfg, who) /\ req[r].id = i
    <3>1. PICK r \in Requests, cfg \in Config, who \in Tenants \cup {None} :
            Writes(r, cfg, who) /\ req[r].id = i
      BY <2>1
    <3>2. Save(r, cfg, who) /\ req[r].id \in Ids
      BY <3>1 DEF Writes
    <3>3. rows'[i].config = cfg
      BY <3>1, <3>2, SaveEffect
    <3>4. Proper(cfg, i)'
      BY <1>2, <3>1, WriteProper
    <3> QED BY <3>3, <3>4 DEF Proper
  <2>2. CASE rows'[i].config = rows[i].config /\ (Live(i)' => Live(i))
    <3>1. rows[i].config \in Config
      <4>1. rows[i] \in Row \cup {NoRow} /\ rows[i] # NoRow
        BY <1>2, <2>2 DEF Typed0, TypeOK, Live, Exists
      <4> QED BY <4>1 DEF Row
    <3>2. Proper(rows[i].config, i) /\ Exists(i)
      BY <1>2, <2>2 DEF StrangersInv, Live
    <3>3. PICK c \in Config : c = rows[i].config
      BY <3>1
    <3>4. Proper(c, i)'
      BY <1>2, <3>2, <3>3, RowsKeep
    <3> QED BY <2>2, <3>3, <3>4 DEF Proper
  <2>3. UNCHANGED <<rows, racers>> => rows'[i].config = rows[i].config /\ (Live(i)' => Live(i))
    BY DEF Live, Exists
  <2>4. ASSUME NEW r \in Requests, Delete(r)
        PROVE  rows'[i].config = rows[i].config /\ (Live(i)' => Live(i))
    BY <2>4, DeleteEffect DEF Live, Exists
  <2>5. ASSUME NEW r \in Requests, NEW cfg \in Config, NEW who \in Tenants \cup {None},
               Writes(r, cfg, who), req[r].id # i
        PROVE  rows'[i].config = rows[i].config /\ (Live(i)' => Live(i))
    <3>1. rows'[i] = rows[i]
      BY <2>5, SaveEffect DEF Writes
    <3> QED BY <3>1 DEF Live, Exists
  <2> QED BY <2>1, <2>2, <2>3, <2>4, <2>5, RowSteps
\* The requests that end hold nothing.
<1>3. ASSUME NEW r \in Requests, NEW pc \in {"done", "refused"}, End(r, pc)
      PROVE  StrangersInv'
  <2>1. req'[r].pc = pc /\ \A q \in Requests \ {r} : req'[q] = req[q]
    BY <1>3 DEF End, Idle, Typed0, TypeOK
  <2>s. Standing(r)'
    BY <2>1 DEF Standing
  <2> QED BY <1>2, <2>1, <2>s, MoverDecides
<1>4. ASSUME NEW r \in Requests, NEW kind \in Creations, NEW c \in Callers, NEW name \in Names,
             BeginCreate(r, kind, c, name)
      PROVE  StrangersInv'
  <2>1. req'[r].pc = "begun" /\ \A q \in Requests \ {r} : req'[q] = req[q]
    BY <1>4 DEF BeginCreate, Idle, Typed0, TypeOK
  <2>s. Standing(r)'
    BY <2>1 DEF Standing
  <2> QED BY <1>2, <2>1, <2>s, MoverDecides
<1>5. ASSUME NEW r \in Requests, Count(r) PROVE StrangersInv'
  <2>1. CASE Go(r, "counted")
    <3>1. req'[r].pc = "counted" /\ \A q \in Requests \ {r} : req'[q] = req[q]
      BY <2>1 DEF Go, Typed0, TypeOK, Request
    <3>s. Standing(r)'
      BY <3>1 DEF Standing
    <3> QED BY <1>2, <3>1, <3>s, MoverDecides
  <2> QED BY <1>3, <1>5, <2>1 DEF Count
<1>6. ASSUME NEW r \in Requests, MakeId(r) PROVE StrangersInv'
  <2>1. PICK i \in Ids : /\ IsSlug(i, req[r].name, AllIds \cup Files)
                         /\ req' = [req EXCEPT ![r].pc = "named", ![r].id = i]
    BY <1>6 DEF MakeId
  <2>2. ~Exists(i)
    <3>1. i = <<i[1], i[2]>>
      BY DEF Ids
    <3> QED BY <2>1, <3>1 DEF IsSlug, Free, AllIds
  <2>3. /\ req'[r].pc = "named" /\ req'[r].id = i
        /\ \A q \in Requests \ {r} : req'[q] = req[q]
    BY <2>1 DEF Typed0, TypeOK, Request
  <2>4. Racing(r)'
    BY <1>6, <2>2, <2>3 DEF MakeId, Racing, Live, Exists
  <2>s. Standing(r)'
    BY <2>3, <2>4 DEF Standing
  <2> QED BY <1>2, <2>3, <2>4, <2>s, MoverDecides
<1>7. ASSUME NEW r \in Requests, NEW name \in Names, BeginCli(r, name) PROVE StrangersInv'
  <2>1. /\ req'[r].pc = "named" /\ req'[r].kind = "cli"
        /\ \A q \in Requests \ {r} : req'[q] = req[q]
    BY <1>7 DEF BeginCli, Idle, Typed0, TypeOK
  <2>2. "cli" \notin Creations
    BY DEF Creations
  <2>s. Standing(r)'
    BY <2>1, <2>2 DEF Standing
  <2> QED BY <1>2, <2>1, <2>2, <2>s, MoverDecides
<1>8. ASSUME NEW r \in Requests, NEW c \in Callers, NEW i \in Ids, CheckPut(r, c, i)
      PROVE  StrangersInv'
  <2>1. CASE MayWrite(c, i) /\ req' = [req EXCEPT ![r] =
               [Idle EXCEPT !.pc = "allowed", !.kind = "put", !.caller = c, !.id = i]]
    <3>1. /\ req'[r].pc = "allowed" /\ req'[r].id = i /\ req'[r].caller = c
          /\ \A q \in Requests \ {r} : req'[q] = req[q]
      BY <2>1 DEF Idle, Typed0, TypeOK
    <3>2. c # Operator => Racing(r)'
      BY <1>8, <2>1, <3>1 DEF CheckPut, MayWrite, OwnerOf, Owner, Racing, Live, Exists
    <3>s. Standing(r)'
      BY <3>1, <3>2 DEF Standing
    <3> QED BY <1>2, <3>1, <3>2, <3>s, MoverDecides
  <2> QED BY <1>3, <1>8, <2>1 DEF CheckPut
<1>9. ASSUME NEW r \in Requests, NEW c \in Callers, NEW i \in Ids, CheckDelete(r, c, i)
      PROVE  StrangersInv'
  <2>1. /\ req'[r].pc = "allowed" /\ req'[r].kind = "delete"
        /\ \A q \in Requests \ {r} : req'[q] = req[q]
    BY <1>9 DEF CheckDelete, Idle, Typed0, TypeOK
  <2>s. Standing(r)'
    BY <2>1 DEF Standing
  <2> QED BY <1>2, <2>1, <2>s, MoverDecides
<1>10. ASSUME NEW r \in Requests, NEW i \in Ids, Load(r, i) PROVE StrangersInv'
  <2> DEFINE cfg == IF i \in Files THEN [author |-> Operator, from |-> Shipped] ELSE rows[i].config
  <2>1. /\ req'[r].pc = "loaded" /\ req'[r].id = i /\ req'[r].config = cfg
        /\ \A q \in Requests \ {r} : req'[q] = req[q]
    BY <1>10 DEF Load, Idle, Typed0, TypeOK
  <2>2. (Live(i) => Proper(cfg, i)) /\ (~Exists(i) => cfg.author = Operator)
    BY <1>10 DEF Load, StrangersInv, Proper, Live
  <2>3. Live(i)' => Live(i)
    BY <1>10 DEF Load, Live, Exists
  <2>4. Standing(r)'
    BY <1>10, <2>1, <2>2, <2>3 DEF Standing, Load, Proper, Live, Exists
  <2> QED BY <1>2, <2>1, <2>4, MoverDecides
<1>11. CASE Next
  <2>1. PICK r \in Requests : Create(r) \/ Cli(r) \/ Edit(r) \/ Remove(r) \/ Run(r)
    BY <1>11 DEF Next
  <2>2. CASE Create(r)
    BY <2>2, <1>3, <1>4, <1>5, <1>6 DEF Create, RejectConfig, Insert
  <2>3. CASE Cli(r)
    BY <2>3, <1>3, <1>7 DEF Cli, CliInsert
  <2>4. CASE Edit(r)
    BY <2>4, <1>3, <1>8 DEF Edit, Put
  <2>5. CASE Remove(r)
    BY <2>5, <1>3, <1>9 DEF Remove, Delete
  <2>6. CASE Run(r)
    BY <2>6, <1>3, <1>10 DEF Run, StartRun
  <2> QED BY <2>1, <2>2, <2>3, <2>4, <2>5, <2>6
<1> QED BY <1>1, <1>11

\* The configuration of a live campaign is its owner's or the operator's, or
\* was written by a request already under way when the campaign got its owner.
THEOREM StrangersRace == Spec => []StrangersNeedARace
<1>1. Typed0 /\ StrangersInv => StrangersNeedARace
  BY StrangersImplied
<1> QED BY <1>1, InitTyped, StepTyped, InitStrangers, StepStrangers, PTL DEF Spec

-----------------------------------------------------------------------------
(* The quota.  When a request passes the gate its caller had fewer rows    *)
(* than allowed, and every creation past the gate is one of the few that   *)
(* run at once: rows and requests past the gate together stay bounded, and *)
(* each insert turns one of the requests into one row.                     *)

PostedBy(c) == {i \in posted : Live(i) /\ rows[i].owner = c}

\* A POST made the owner, so there is one.
PostedOwned == \A i \in posted : rows[i].owner # None

QuotaOf(c) ==
  /\ Cardinality(Creating(c)) <= Parallel
  /\ Cardinality(PostedBy(c)) + Cardinality(PastGate(c)) <= MaxCampaigns - 1 + Parallel

QuotaInv == PostedOwned /\ \A c \in Tenants \ Masters : QuotaOf(c)

\* The ids and the sets that are counted are finite.
LEMMA IdsFinite == IsFiniteSet(Ids)
<1>0. 1 \in Int /\ MaxSuffix \in Int
  BY IdsAssumption
<1>1. IsFiniteSet(1..MaxSuffix)
  BY <1>0, FS_Interval, Zenon
<1> QED BY <1>1, IdsAssumption, FS_Product DEF Ids

LEMMA CountedFinite ==
  ASSUME Typed0, NEW c \in Callers
  PROVE  /\ IsFiniteSet(Creating(c)) /\ IsFiniteSet(PastGate(c))
         /\ IsFiniteSet(PostedBy(c)) /\ IsFiniteSet(Listed(c))
         /\ Cardinality(PastGate(c)) <= Cardinality(Creating(c))
<1>1. IsFiniteSet(Creating(c))
  BY RequestsAssumption, FS_Subset DEF Creating
<1>2. PastGate(c) \in SUBSET Creating(c)
  BY DEF PastGate
<1>3. PostedBy(c) \in SUBSET Ids /\ Listed(c) \in SUBSET Ids
  BY DEF PostedBy, Listed, Typed0, TypeOK
<1>4. IsFiniteSet(PastGate(c)) /\ Cardinality(PastGate(c)) <= Cardinality(Creating(c))
  BY <1>1, <1>2, FS_Subset
<1>5. IsFiniteSet(PostedBy(c)) /\ IsFiniteSet(Listed(c))
  BY <1>3, IdsFinite, FS_Subset
<1> QED BY <1>1, <1>4, <1>5

\* A row is posted by an insert that finds no owner.
LEMMA PostedSteps ==
  ASSUME Typed0, [Next]_vars
  PROVE  \/ posted' = posted
         \/ \E r \in Requests : /\ Insert(r) /\ rows[req[r].id].owner = None
                                /\ req[r].caller \in Tenants
                                /\ posted' = posted \cup {req[r].id}
<1>1. CASE UNCHANGED vars
  BY <1>1 DEF vars
<1>2. CASE Next
  <2>1. PICK r \in Requests : Create(r) \/ Cli(r) \/ Edit(r) \/ Remove(r) \/ Run(r)
    BY <1>2 DEF Next
  <2>2. CASE Create(r)
    BY <2>2 DEF Create, BeginCreate, Count, MakeId, RejectConfig, Insert
  <2>3. CASE Cli(r) \/ Edit(r) \/ Remove(r) \/ Run(r)
    BY <2>3 DEF Cli, BeginCli, CliInsert, Edit, CheckPut, Put, Remove, CheckDelete, Delete,
                Run, Load, StartRun
  <2> QED BY <2>1, <2>2, <2>3
<1> QED BY <1>1, <1>2

\* The owner an insert gives to a row without one.
LEMMA InsertOwner ==
  ASSUME Typed0, NEW r \in Requests, Insert(r), rows[req[r].id].owner = None,
         req[r].caller \in Tenants
  PROVE  req[r].id \in Ids /\ rows'[req[r].id].owner = req[r].caller
<1>1. req[r].id \in Ids /\ req[r].caller \in Callers
  BY DEF Insert, Typed0, Holds, TypeOK, Request
<1>2. [author |-> req[r].caller, from |-> r] \in Config
  BY <1>1 DEF Config
<1>3. Save(r, [author |-> req[r].caller, from |-> r], Owner(req[r].caller))
  BY DEF Insert
<1>4. Owner(req[r].caller) = req[r].caller
  BY CallersAssumption DEF Owner
<1>5. rows'[req[r].id].owner = Owner(req[r].caller)
  BY <1>1, <1>2, <1>3, OwnerType, SaveEffect
<1> QED BY <1>1, <1>4, <1>5

LEMMA StepPostedOwned == Typed0 /\ PostedOwned /\ [Next]_vars => PostedOwned'
<1> SUFFICES ASSUME Typed0, PostedOwned, [Next]_vars, NEW i \in posted'
             PROVE  rows'[i].owner # None
  BY DEF PostedOwned
<1>1. CASE i \in posted
  <2>1. i \in Ids /\ rows[i].owner # None
    BY <1>1 DEF Typed0, TypeOK, PostedOwned
  <2> QED BY <2>1, StepLasts DEF OwnerAndDeletionLast
<1>2. CASE i \notin posted
  <2>1. PICK r \in Requests : /\ Insert(r) /\ rows[req[r].id].owner = None
                              /\ req[r].caller \in Tenants
                              /\ posted' = posted \cup {req[r].id}
    BY <1>2, PostedSteps
  <2>2. i = req[r].id
    BY <1>2, <2>1
  <2> QED BY <2>1, <2>2, InsertOwner, CallersAssumption DEF None, Callers
<1> QED BY <1>1, <1>2

\* A posted row that is its owner's and live was so before.
LEMMA PostedByKept ==
  ASSUME Typed0, PostedOwned, [Next]_vars, NEW c \in Tenants, NEW i \in PostedBy(c)', i \in posted
  PROVE  i \in PostedBy(c)
<1>1. Live(i)' /\ rows'[i].owner = c
  BY DEF PostedBy
<1>2. i \in Ids /\ rows[i].owner # None
  BY DEF Typed0, TypeOK, PostedOwned
<1>3. Exists(i)
  BY <1>2 DEF Exists, NoRow
<1>4. Live(i) /\ rows[i].owner = c
  BY <1>1, <1>2, <1>3, StepLasts DEF OwnerAndDeletionLast, Live
<1> QED BY <1>4 DEF PostedBy

\* An insert adds its row to its caller's posted rows, and to no other's.
LEMMA PostedByInsert ==
  ASSUME Typed0, PostedOwned, [Next]_vars, NEW r \in Requests, Insert(r), NEW c \in Tenants
  PROVE  PostedBy(c)' \subseteq PostedBy(c) \cup (IF req[r].caller = c THEN {req[r].id} ELSE {})
<1> SUFFICES ASSUME NEW i \in PostedBy(c)', i \notin posted
             PROVE  req[r].caller = c /\ i = req[r].id
  BY PostedByKept
<1>1. i \in posted' /\ rows'[i].owner = c
  BY DEF PostedBy
<1>2. rows[req[r].id].owner = None /\ req[r].caller \in Tenants /\ i = req[r].id
  BY <1>1 DEF Insert
<1> QED BY <1>1, <1>2, InsertOwner

-----------------------------------------------------------------------------
(* The step of the quota.                                                  *)

\* The others stay, and the request that moved is no creation of the caller's.
LEMMA CreationLeaves ==
  ASSUME NEW c \in Callers, NEW r \in Requests,
         \A q \in Requests \ {r} : req'[q] = req[q], r \notin Creating(c)'
  PROVE  Creating(c)' \subseteq Creating(c) \ {r} /\ PastGate(c)' \subseteq PastGate(c) \ {r}
<1>1. Creating(c)' \subseteq Creating(c) \ {r}
  BY DEF Creating, UnderWay
<1>2. \A q \in PastGate(c)' : q \in Creating(c)' /\ req'[q].pc \in {"counted", "named"}
  BY DEF PastGate
<1>3. \A q \in PastGate(c)' : req'[q] = req[q]
  BY <1>2 DEF Creating
<1>4. \A q \in PastGate(c)' : q \in PastGate(c) \ {r}
  BY <1>1, <1>2, <1>3 DEF PastGate
<1> QED BY <1>1, <1>4

\* With fewer rows and requests the bound holds on.
LEMMA QuotaShrinks ==
  ASSUME Typed0, NEW c \in Tenants, QuotaOf(c),
         Creating(c)' \subseteq Creating(c), PastGate(c)' \subseteq PastGate(c),
         PostedBy(c)' \subseteq PostedBy(c)
  PROVE  QuotaOf(c)'
<1> DEFINE C == Creating(c)  G == PastGate(c)  P == PostedBy(c)
<1>1. IsFiniteSet(C) /\ IsFiniteSet(G) /\ IsFiniteSet(P)
  BY CountedFinite DEF Callers
<1>2. C' \in SUBSET C /\ G' \in SUBSET G /\ P' \in SUBSET P
  OBVIOUS
<1>3. /\ IsFiniteSet(C') /\ Cardinality(C') <= Cardinality(C)
      /\ IsFiniteSet(G') /\ Cardinality(G') <= Cardinality(G)
      /\ IsFiniteSet(P') /\ Cardinality(P') <= Cardinality(P)
  BY <1>1, <1>2, FS_Subset
<1>4. /\ Cardinality(C) \in Nat /\ Cardinality(G) \in Nat /\ Cardinality(P) \in Nat
      /\ Cardinality(C') \in Nat /\ Cardinality(G') \in Nat /\ Cardinality(P') \in Nat
  BY <1>1, <1>3, FS_CardinalityType
<1>5. Cardinality(C) <= Parallel /\ Cardinality(P) + Cardinality(G) <= MaxCampaigns - 1 + Parallel
  BY DEF QuotaOf
<1>6. Cardinality(C') <= Parallel /\ Cardinality(P') + Cardinality(G') <= MaxCampaigns - 1 + Parallel
  BY <1>3, <1>4, <1>5, QuotaAssumption
<1> QED BY <1>6 DEF QuotaOf

\* A creation that begins is one of the few the caller runs at once.
LEMMA QuotaBegin ==
  ASSUME Typed0, PostedOwned, [Next]_vars, NEW c \in Tenants, QuotaOf(c),
         NEW r \in Requests, NEW kind \in Creations, NEW name \in Names,
         BeginCreate(r, kind, c, name)
  PROVE  QuotaOf(c)'
<1>1. req'[r].pc = "begun" /\ \A q \in Requests \ {r} : req'[q] = req[q]
  BY DEF BeginCreate, Idle, Typed0, TypeOK
<1>2. Creating(c)' \subseteq Creating(c) \cup {r}
  BY <1>1 DEF Creating, UnderWay
<1>3. PastGate(c)' \subseteq PastGate(c)
  <2>1. \A q \in PastGate(c)' : q \in Creating(c)' /\ req'[q].pc \in {"counted", "named"}
    BY DEF PastGate
  <2>2. \A q \in PastGate(c)' : q # r /\ req'[q] = req[q]
    BY <1>1, <2>1 DEF Creating
  <2> QED BY <1>2, <2>1, <2>2 DEF PastGate
<1>4. PostedBy(c)' \subseteq PostedBy(c)
  <2>1. posted' = posted
    BY DEF BeginCreate
  <2>2. \A i \in PostedBy(c)' : i \in posted
    BY <2>1 DEF PostedBy
  <2> QED BY <2>2, PostedByKept
<1> DEFINE C == Creating(c)  G == PastGate(c)  P == PostedBy(c)
<1>5. IsFiniteSet(C) /\ IsFiniteSet(G) /\ IsFiniteSet(P)
  BY CountedFinite DEF Callers
<1>6. /\ IsFiniteSet(C \cup {r}) /\ Cardinality(C \cup {r}) <= Cardinality(C) + 1
      /\ Cardinality(C) \in Nat
  <2>1. /\ IsFiniteSet(C \cup {r})
        /\ Cardinality(C \cup {r}) = IF r \in C THEN Cardinality(C) ELSE Cardinality(C) + 1
    BY <1>5, FS_AddElement
  <2>2. Cardinality(C) \in Nat
    BY <1>5, FS_CardinalityType
  <2> QED BY <2>1, <2>2
<1>7. C' \in SUBSET (C \cup {r}) /\ G' \in SUBSET G /\ P' \in SUBSET P
  BY <1>2, <1>3, <1>4
<1>8. /\ IsFiniteSet(C') /\ Cardinality(C') <= Cardinality(C \cup {r})
      /\ IsFiniteSet(G') /\ Cardinality(G') <= Cardinality(G)
      /\ IsFiniteSet(P') /\ Cardinality(P') <= Cardinality(P)
  BY <1>5, <1>6, <1>7, FS_Subset
<1>9. /\ Cardinality(C \cup {r}) \in Nat /\ Cardinality(G) \in Nat /\ Cardinality(P) \in Nat
      /\ Cardinality(C') \in Nat /\ Cardinality(G') \in Nat /\ Cardinality(P') \in Nat
  BY <1>5, <1>6, <1>8, FS_CardinalityType
<1>10. Cardinality(C) < Parallel
  BY DEF BeginCreate
<1>11. Cardinality(P) + Cardinality(G) <= MaxCampaigns - 1 + Parallel
  BY DEF QuotaOf
<1>12. Cardinality(C') <= Parallel /\ Cardinality(P') + Cardinality(G') <= MaxCampaigns - 1 + Parallel
  BY <1>6, <1>8, <1>9, <1>10, <1>11, QuotaAssumption
<1> QED BY <1>12 DEF QuotaOf

\* At the gate the caller has fewer campaigns than allowed, and no more
\* creations under way than it may have.
LEMMA QuotaCount ==
  ASSUME Typed0, PostedOwned, [Next]_vars, NEW c \in Tenants \ Masters, QuotaOf(c),
         NEW r \in Requests, req[r].caller = c, Count(r), Go(r, "counted")
  PROVE  QuotaOf(c)'
<1>1. /\ req'[r] = [req[r] EXCEPT !.pc = "counted"] /\ req[r].pc = "begun"
      /\ \A q \in Requests \ {r} : req'[q] = req[q]
  BY DEF Go, Count, Typed0, TypeOK
<1>2. req'[r].pc = "counted" /\ req'[r].caller = req[r].caller /\ req'[r].kind = req[r].kind
  BY <1>1 DEF Typed0, TypeOK, Request
<1>3. Creating(c)' \subseteq Creating(c)
  BY <1>1, <1>2 DEF Creating, UnderWay
<1>4. PostedBy(c)' \subseteq PostedBy(c)
  <2>1. posted' = posted
    BY DEF Count
  <2>2. \A i \in PostedBy(c)' : i \in posted
    BY <2>1 DEF PostedBy
  <2> QED BY <2>2, PostedByKept
<1>5. Cardinality(Listed(c)) < MaxCampaigns
  <2>1. ~End(r, "refused")
    <3>1. SUFFICES ASSUME End(r, "refused") PROVE FALSE
      OBVIOUS
    <3>2. req'[r].pc = "refused"
      BY <3>1 DEF End, Idle, Typed0, TypeOK
    <3> QED BY <1>2, <3>2
  <2>2. WithinQuota(c)
    BY <2>1 DEF Count
  <2> QED BY <2>2 DEF WithinQuota, Limited
<1> DEFINE C == Creating(c)  G == PastGate(c)  P == PostedBy(c)  L == Listed(c)
<1>6. IsFiniteSet(C) /\ IsFiniteSet(L) /\ IsFiniteSet(P)
  BY CountedFinite DEF Callers
<1>7. P \in SUBSET L
  BY DEF PostedBy, Listed, Typed0, TypeOK
<1>8. G' \in SUBSET C /\ C' \in SUBSET C /\ P' \in SUBSET P
  <2>1. G' \subseteq C'
    BY DEF PastGate
  <2> QED BY <1>3, <1>4, <2>1
<1>9. /\ IsFiniteSet(C') /\ Cardinality(C') <= Cardinality(C)
      /\ IsFiniteSet(G') /\ Cardinality(G') <= Cardinality(C)
      /\ IsFiniteSet(P') /\ Cardinality(P') <= Cardinality(P)
      /\ Cardinality(P) <= Cardinality(L)
  BY <1>6, <1>7, <1>8, FS_Subset
<1>10. /\ Cardinality(C) \in Nat /\ Cardinality(L) \in Nat /\ Cardinality(P) \in Nat
       /\ Cardinality(C') \in Nat /\ Cardinality(G') \in Nat /\ Cardinality(P') \in Nat
  BY <1>6, <1>9, FS_CardinalityType
<1>11. Cardinality(C) <= Parallel
  BY DEF QuotaOf
<1>12. Cardinality(C') <= Parallel /\ Cardinality(P') + Cardinality(G') <= MaxCampaigns - 1 + Parallel
  BY <1>5, <1>9, <1>10, <1>11, QuotaAssumption
<1> QED BY <1>12 DEF QuotaOf

\* An insert turns one of the requests past the gate into one row.
LEMMA QuotaInsert ==
  ASSUME Typed0, PostedOwned, [Next]_vars, NEW c \in Tenants, QuotaOf(c),
         NEW r \in Requests, req[r].caller = c, Insert(r)
  PROVE  QuotaOf(c)'
<1>1. req'[r].pc = "done" /\ \A q \in Requests \ {r} : req'[q] = req[q]
  BY DEF Insert, End, Idle, Typed0, TypeOK
<1>2. r \notin Creating(c)'
  BY <1>1 DEF Creating, UnderWay
<1>3. Creating(c)' \subseteq Creating(c) \ {r} /\ PastGate(c)' \subseteq PastGate(c) \ {r}
  BY <1>1, <1>2, CreationLeaves DEF Callers
<1>4. r \in PastGate(c)
  BY DEF Insert, PastGate, Creating, UnderWay
<1>5. PostedBy(c)' \subseteq PostedBy(c) \cup {req[r].id}
  BY PostedByInsert
<1> DEFINE C == Creating(c)  G == PastGate(c)  P == PostedBy(c)  i == req[r].id
<1>6. IsFiniteSet(C) /\ IsFiniteSet(G) /\ IsFiniteSet(P)
  BY CountedFinite DEF Callers
<1>7. /\ IsFiniteSet(P \cup {i}) /\ Cardinality(P \cup {i}) <= Cardinality(P) + 1
      /\ IsFiniteSet(G \ {r}) /\ Cardinality(G \ {r}) = Cardinality(G) - 1
      /\ Cardinality(C) \in Nat /\ Cardinality(P) \in Nat /\ Cardinality(G) \in Nat
  <2>1. /\ IsFiniteSet(P \cup {i})
        /\ Cardinality(P \cup {i}) = IF i \in P THEN Cardinality(P) ELSE Cardinality(P) + 1
    BY <1>6, FS_AddElement
  <2>2. IsFiniteSet(G \ {r}) /\ Cardinality(G \ {r}) = Cardinality(G) - 1
    BY <1>4, <1>6, FS_RemoveElement
  <2>3. Cardinality(C) \in Nat /\ Cardinality(P) \in Nat /\ Cardinality(G) \in Nat
    BY <1>6, FS_CardinalityType
  <2> QED BY <2>1, <2>2, <2>3
<1>8. C' \in SUBSET C /\ G' \in SUBSET (G \ {r}) /\ P' \in SUBSET (P \cup {i})
  BY <1>3, <1>5
<1>9. /\ IsFiniteSet(C') /\ Cardinality(C') <= Cardinality(C)
      /\ IsFiniteSet(G') /\ Cardinality(G') <= Cardinality(G \ {r})
      /\ IsFiniteSet(P') /\ Cardinality(P') <= Cardinality(P \cup {i})
  BY <1>6, <1>7, <1>8, FS_Subset
<1>10. /\ Cardinality(P \cup {i}) \in Nat
       /\ Cardinality(C') \in Nat /\ Cardinality(G') \in Nat /\ Cardinality(P') \in Nat
  BY <1>7, <1>9, FS_CardinalityType
<1>11. Cardinality(C) <= Parallel /\ Cardinality(P) + Cardinality(G) <= MaxCampaigns - 1 + Parallel
  BY DEF QuotaOf
<1>12. Cardinality(C') <= Parallel /\ Cardinality(P') + Cardinality(G') <= MaxCampaigns - 1 + Parallel
  BY <1>7, <1>9, <1>10, <1>11, QuotaAssumption
<1> QED BY <1>12 DEF QuotaOf

LEMMA InitQuota == Init => QuotaInv
<1> SUFFICES ASSUME Init, NEW c \in Tenants PROVE QuotaOf(c)
  BY DEF Init, QuotaInv, PostedOwned
<1>1. Creating(c) = {} /\ PastGate(c) = {} /\ PostedBy(c) = {}
  BY DEF Init, Creating, PastGate, PostedBy, UnderWay, Idle
<1>2. Cardinality(Creating(c)) = 0 /\ Cardinality(PastGate(c)) = 0 /\ Cardinality(PostedBy(c)) = 0
  BY <1>1, FS_EmptySet
<1> QED BY <1>2, QuotaAssumption DEF QuotaOf

LEMMA StepQuota ==
  ASSUME Typed0, PostedOwned, [Next]_vars, NEW c \in Tenants \ Masters, QuotaOf(c)
  PROVE  QuotaOf(c)'
<1>0. c \in Callers
  BY DEF Callers
\* No creation of the caller's begins or passes the gate.
<1>1. ASSUME NEW r \in Requests, \A q \in Requests \ {r} : req'[q] = req[q],
             r \notin Creating(c)', posted' = posted
      PROVE  QuotaOf(c)'
  <2>1. Creating(c)' \subseteq Creating(c) /\ PastGate(c)' \subseteq PastGate(c)
    BY <1>0, <1>1, CreationLeaves
  <2>2. \A i \in PostedBy(c)' : i \in posted
    BY <1>1 DEF PostedBy
  <2>3. PostedBy(c)' \subseteq PostedBy(c)
    BY <2>2, PostedByKept
  <2> QED BY <2>1, <2>3, QuotaShrinks
<1>2. ASSUME NEW r \in Requests, NEW pc \in {"done", "refused"}, End(r, pc)
      PROVE  r \notin Creating(c)' /\ \A q \in Requests \ {r} : req'[q] = req[q]
  <2>1. req'[r].pc = pc /\ \A q \in Requests \ {r} : req'[q] = req[q]
    BY <1>2 DEF End, Idle, Typed0, TypeOK
  <2> QED BY <2>1 DEF Creating, UnderWay
<1>3. ASSUME NEW r \in Requests, NEW k \in Request, k.kind \notin Creations \/ k.caller # c,
             req' = [req EXCEPT ![r] = k]
      PROVE  r \notin Creating(c)' /\ \A q \in Requests \ {r} : req'[q] = req[q]
  <2>1. req'[r] = k /\ \A q \in Requests \ {r} : req'[q] = req[q]
    BY <1>3 DEF Typed0, TypeOK
  <2> QED BY <1>3, <2>1 DEF Creating
<1>4. CASE UNCHANGED vars
  <2>1. /\ Creating(c)' \subseteq Creating(c) /\ PastGate(c)' \subseteq PastGate(c)
        /\ PostedBy(c)' \subseteq PostedBy(c)
    BY <1>4 DEF vars, Creating, PastGate, PostedBy, UnderWay, Live, Exists
  <2> QED BY <2>1, QuotaShrinks
<1>5. ASSUME NEW r \in Requests, NEW kind \in Creations, NEW o \in Callers, NEW name \in Names,
             BeginCreate(r, kind, o, name)
      PROVE  QuotaOf(c)'
  <2> DEFINE k == [Idle EXCEPT !.pc = "begun", !.kind = kind, !.caller = o, !.name = name]
  <2>1. k \in Request /\ k.caller = o
    BY DEF Idle, Request, Kinds, Creations
  <2>2. CASE o # c
    BY <1>1, <1>3, <1>5, <2>1, <2>2 DEF BeginCreate
  <2>3. CASE o = c
    BY <1>5, <2>3, QuotaBegin
  <2> QED BY <2>2, <2>3
<1>6. ASSUME NEW r \in Requests, Count(r) PROVE QuotaOf(c)'
  <2>1. CASE End(r, "refused")
    BY <1>1, <1>2, <1>6, <2>1 DEF Count
  <2>2. CASE Go(r, "counted") /\ req[r].caller = c
    BY <1>6, <2>2, QuotaCount
  <2>3. CASE Go(r, "counted") /\ req[r].caller # c
    <3> DEFINE k == [req[r] EXCEPT !.pc = "counted"]
    <3>1. k \in Request /\ k.caller = req[r].caller
      BY DEF Typed0, TypeOK, Request
    <3>2. req' = [req EXCEPT ![r] = k]
      BY <2>3 DEF Go
    <3> QED BY <1>1, <1>3, <1>6, <2>3, <3>1, <3>2 DEF Count
  <2> QED BY <1>6, <2>1, <2>2, <2>3 DEF Count
<1>7. ASSUME NEW r \in Requests, MakeId(r) PROVE QuotaOf(c)'
  <2>1. PICK i \in Ids : req' = [req EXCEPT ![r].pc = "named", ![r].id = i]
    BY <1>7 DEF MakeId
  <2>2. req[r].pc = "counted" /\ posted' = posted
    BY <1>7 DEF MakeId
  <2>3. req'[r].pc = "named" /\ req'[r].caller = req[r].caller /\ req'[r].kind = req[r].kind
    BY <2>1 DEF Typed0, TypeOK, Request
  <2>4. \A q \in Requests \ {r} : req'[q] = req[q]
    BY <2>1 DEF Typed0, TypeOK
  <2>5. Creating(c)' \subseteq Creating(c)
    BY <2>2, <2>3, <2>4 DEF Creating, UnderWay
  <2>6. \A q \in PastGate(c)' : q \in Creating(c) /\ req'[q].pc \in {"counted", "named"}
    BY <2>5 DEF PastGate
  <2>7. \A q \in PastGate(c)' : q \in Requests
    BY <2>6 DEF Creating
  <2>8. PastGate(c)' \subseteq PastGate(c)
    BY <2>2, <2>4, <2>6, <2>7 DEF PastGate
  <2>9. \A p \in PostedBy(c)' : p \in posted
    BY <2>2 DEF PostedBy
  <2>10. PostedBy(c)' \subseteq PostedBy(c)
    BY <2>9, PostedByKept
  <2> QED BY <2>5, <2>8, <2>10, QuotaShrinks
<1>8. ASSUME NEW r \in Requests, RejectConfig(r) PROVE QuotaOf(c)'
  BY <1>1, <1>2, <1>8 DEF RejectConfig
<1>9. ASSUME NEW r \in Requests, Insert(r) PROVE QuotaOf(c)'
  <2>1. CASE req[r].caller = c
    BY <1>9, <2>1, QuotaInsert
  <2>2. CASE req[r].caller # c
    <3>1. r \notin Creating(c)' /\ \A q \in Requests \ {r} : req'[q] = req[q]
      BY <1>2, <1>9 DEF Insert
    <3>2. Creating(c)' \subseteq Creating(c) /\ PastGate(c)' \subseteq PastGate(c)
      BY <1>0, <3>1, CreationLeaves
    <3>3. PostedBy(c)' \subseteq PostedBy(c)
      BY <1>9, <2>2, PostedByInsert
    <3> QED BY <3>2, <3>3, QuotaShrinks
  <2> QED BY <2>1, <2>2
<1>10. ASSUME NEW r \in Requests, NEW name \in Names, BeginCli(r, name) PROVE QuotaOf(c)'
  <2>1. PICK i \in Ids : req' = [req EXCEPT ![r] = [Idle EXCEPT !.pc = "named", !.kind = "cli", !.id = i]]
    BY <1>10 DEF BeginCli
  <2> DEFINE k == [Idle EXCEPT !.pc = "named", !.kind = "cli", !.id = i]
  <2>2. k \in Request /\ k.kind \notin Creations
    BY DEF Idle, Request, Kinds, Callers, Creations
  <2> QED BY <1>1, <1>3, <1>10, <2>1, <2>2 DEF BeginCli
<1>11. ASSUME NEW r \in Requests, CliInsert(r) \/ Put(r) \/ Delete(r) \/ StartRun(r)
       PROVE  QuotaOf(c)'
  BY <1>1, <1>2, <1>11 DEF CliInsert, Put, Delete, StartRun
<1>12. ASSUME NEW r \in Requests, NEW o \in Callers, NEW i \in Ids, CheckPut(r, o, i)
       PROVE  QuotaOf(c)'
  <2> DEFINE k == [Idle EXCEPT !.pc = "allowed", !.kind = "put", !.caller = o, !.id = i]
  <2>1. k \in Request /\ k.kind \notin Creations
    BY DEF Idle, Request, Kinds, Creations
  <2>2. CASE req' = [req EXCEPT ![r] = k]
    BY <1>1, <1>3, <1>12, <2>1, <2>2 DEF CheckPut
  <2>3. CASE End(r, "refused")
    BY <1>1, <1>2, <1>12, <2>3 DEF CheckPut
  <2> QED BY <1>12, <2>2, <2>3 DEF CheckPut
<1>13. ASSUME NEW r \in Requests, NEW o \in Callers, NEW i \in Ids, CheckDelete(r, o, i)
       PROVE  QuotaOf(c)'
  <2> DEFINE k == [Idle EXCEPT !.pc = "allowed", !.kind = "delete", !.caller = o, !.id = i]
  <2>1. k \in Request /\ k.kind \notin Creations
    BY DEF Idle, Request, Kinds, Creations
  <2> QED BY <1>1, <1>3, <1>13, <2>1 DEF CheckDelete
<1>14. ASSUME NEW r \in Requests, NEW i \in Ids, Load(r, i) PROVE QuotaOf(c)'
  <2> DEFINE cfg == IF i \in Files THEN [author |-> Operator, from |-> Shipped] ELSE rows[i].config
             k == [Idle EXCEPT !.pc = "loaded", !.kind = "run", !.id = i, !.config = cfg]
  <2>1. cfg \in Config
    BY <1>14 DEF Load, Typed0, TypeOK, Row, Config, Callers, Live, Exists
  <2>2. k \in Request /\ k.kind \notin Creations
    BY <2>1 DEF Idle, Request, Kinds, Callers, Creations
  <2>3. req' = [req EXCEPT ![r] = k]
    BY <1>14 DEF Load
  <2> QED BY <1>1, <1>3, <1>14, <2>2, <2>3 DEF Load
<1>15. CASE Next
  <2>1. PICK r \in Requests : Create(r) \/ Cli(r) \/ Edit(r) \/ Remove(r) \/ Run(r)
    BY <1>15 DEF Next
  <2>2. CASE Create(r)
    BY <2>2, <1>5, <1>6, <1>7, <1>8, <1>9 DEF Create
  <2>3. CASE Cli(r)
    BY <2>3, <1>10, <1>11 DEF Cli
  <2>4. CASE Edit(r)
    BY <2>4, <1>11, <1>12 DEF Edit
  <2>5. CASE Remove(r)
    BY <2>5, <1>11, <1>13 DEF Remove
  <2>6. CASE Run(r)
    BY <2>6, <1>11, <1>14 DEF Run
  <2> QED BY <2>1, <2>2, <2>3, <2>4, <2>5, <2>6
<1> QED BY <1>4, <1>15

\* With the gate and the rows counted together, the rows are bounded.
LEMMA QuotaImplied == Typed0 /\ QuotaInv => QuotaOverrunBounded
<1> SUFFICES ASSUME Typed0, QuotaInv, NEW c \in Tenants \ Masters
             PROVE  Cardinality(PostedBy(c)) <= MaxCampaigns - 1 + Parallel
  BY DEF QuotaOverrunBounded, PostedBy
<1>1. IsFiniteSet(PostedBy(c)) /\ IsFiniteSet(PastGate(c))
  BY CountedFinite DEF Callers
<1>2. Cardinality(PostedBy(c)) \in Nat /\ Cardinality(PastGate(c)) \in Nat
  BY <1>1, FS_CardinalityType
<1>3. Cardinality(PostedBy(c)) + Cardinality(PastGate(c)) <= MaxCampaigns - 1 + Parallel
  BY DEF QuotaInv, QuotaOf
<1> QED BY <1>2, <1>3, QuotaAssumption

\* Counting and inserting are two statements: a free account passes its quota
\* of POSTed campaigns by no more than the creations it runs at once.
THEOREM QuotaHolds == Spec => []QuotaOverrunBounded
<1>1. Typed0 /\ QuotaInv /\ [Next]_vars => QuotaInv'
  BY StepPostedOwned, StepQuota DEF QuotaInv
<1> QED BY <1>1, InitTyped, StepTyped, InitQuota, QuotaImplied, PTL DEF Spec

-----------------------------------------------------------------------------
(* The accounts beside the campaigns.  A call holds what its handler read: *)
(* a toggle a mailbox of its caller's, a learner one that has an account   *)
(* and whose log has the event.                                            *)

apiVars == <<vars, accountVars>>

\* Every behaviour of the two together is one of the campaigns: the theorems
\* above hold of it.
THEOREM CampaignsWithin == ApiSpec => Spec
<1>1. ApiInit => Init
  BY DEF ApiInit
<1>2. [ApiNext]_apiVars => [Next]_vars
  BY DEF ApiNext, apiVars
<1> QED BY <1>1, <1>2, PTL DEF ApiSpec, Spec, apiVars

Tables ==
  /\ keys \subseteq Tenants \X KeyNames
  /\ boxes \in [Tenants -> [Addresses -> Box]]
  /\ prefs \in [Tenants -> [PrefKeys -> Int]]
  /\ meter \in [Tenants -> CountRow]
  /\ passed \subseteq [by : Calls, of : Tenants, on : Nat, found : Nat]
  /\ today \in Nat
  /\ stops \subseteq ({Shared} \cup Tenants) \X Values
  /\ log \subseteq Tenants \X Calls
  /\ model \in [Tenants -> [learned : SUBSET Calls, n : Nat]]
  /\ call \in [Calls -> Call]
  /\ actor \in Callers

CallHolds(x) ==
  /\ call[x].pc = "limited" => call[x].caller \in Tenants /\ call[x].limit <= Ceiling
  /\ call[x].pc = "read" => call[x].caller \in Tenants /\ call[x].address \in Addresses
  /\ call[x].pc \in {"logged", "fetched"} =>
       call[x].learner \in Tenants /\ <<call[x].learner, x>> \in log

AccountsTyped == Tables /\ \A x \in Calls : CallHolds(x)

LEMMA NoneTyped ==
  /\ NoModel \in [learned : SUBSET Calls, n : Nat] /\ NoBox \in Box
  /\ NoCall \in Call /\ NoCall.pc = "idle"
  /\ [NoCall EXCEPT !.pc = "done"] \in Call /\ [NoCall EXCEPT !.pc = "done"].pc = "done"
<1>1. NoModel \in [learned : SUBSET Calls, n : Nat]
  BY DEF NoModel
<1>2. Unset \in Int /\ Operator \in Callers
  BY DEF Unset, Callers
<1>3. NoCall \in Call /\ NoCall.pc = "idle"
  BY <1>1, <1>2 DEF NoCall, Call
<1>4. [NoCall EXCEPT !.pc = "done"] \in Call /\ [NoCall EXCEPT !.pc = "done"].pc = "done"
  BY <1>3 DEF Call
<1> QED BY <1>1, <1>3, <1>4 DEF NoBox, Box

LEMMA ClampBounds == ASSUME NEW n \in Int PROVE Clamp(n) \in 1..Cap
  BY LimitsAssumption DEF Clamp, Most, Least

LEMMA CeilingType == Ceiling \in Nat /\ Cap <= Ceiling
  BY LimitsAssumption DEF Ceiling, Most, Unset

\* No limit an account typed lets it past the ceiling.
LEMMA LimitBounds ==
  ASSUME AccountsTyped, NEW t \in Tenants
  PROVE  Limit(t) \in Int /\ Limit(t) <= Ceiling
<1>1. prefs[t]["daily_limit"] \in Int
  BY DEF AccountsTyped, Tables, PrefKeys
<1>2. Clamp(prefs[t]["daily_limit"]) \in 1..Cap
  BY <1>1, ClampBounds
<1> QED BY <1>2, LimitsAssumption DEF Limit, Ceiling, Most, Unset

\* A call that moves on keeps the types of the calls.
LEMMA CallTypes ==
  ASSUME AccountsTyped, NEW x \in Calls, NEW k \in Call, call' = [call EXCEPT ![x] = k],
         log \subseteq log',
         k.pc = "limited" => k.caller \in Tenants /\ k.limit <= Ceiling,
         k.pc = "read" => k.caller \in Tenants /\ k.address \in Addresses,
         k.pc \in {"logged", "fetched"} => k.learner \in Tenants /\ <<k.learner, x>> \in log'
  PROVE  call' \in [Calls -> Call] /\ \A y \in Calls : CallHolds(y)'
<1>1. call' \in [Calls -> Call]
  BY DEF AccountsTyped, Tables
<1>2. call'[x] = k /\ \A y \in Calls \ {x} : call'[y] = call[y]
  BY DEF AccountsTyped, Tables
<1>3. CallHolds(x)'
  BY <1>2 DEF CallHolds
<1>4. ASSUME NEW y \in Calls \ {x} PROVE CallHolds(y)'
  <2>1. CallHolds(y) /\ call'[y] = call[y]
    BY <1>2 DEF AccountsTyped
  <2> QED BY <2>1 DEF CallHolds
<1> QED BY <1>1, <1>3, <1>4

LEMMA AnswerTypes ==
  ASSUME AccountsTyped, NEW x \in Calls, Answer(x), log' = log
  PROVE  call' \in [Calls -> Call] /\ \A y \in Calls : CallHolds(y)'
<1> DEFINE k == [NoCall EXCEPT !.pc = "done"]
<1>1. k \in Call /\ k.pc = "done" /\ call' = [call EXCEPT ![x] = k]
  BY NoneTyped DEF Answer
<1> QED BY <1>1, CallTypes

LEMMA InitAccounts == AccountsInit => AccountsTyped
<1> SUFFICES ASSUME AccountsInit PROVE AccountsTyped
  OBVIOUS
<1>1. boxes \in [Tenants -> [Addresses -> Box]] /\ prefs \in [Tenants -> [PrefKeys -> Int]]
  BY NoneTyped DEF AccountsInit, Unset
<1>2. /\ meter \in [Tenants -> CountRow] /\ today \in Nat
      /\ passed \subseteq [by : Calls, of : Tenants, on : Nat, found : Nat]
  BY DEF AccountsInit, NoCount, CountRow
<1>3. model \in [Tenants -> [learned : SUBSET Calls, n : Nat]]
  BY NoneTyped DEF AccountsInit
<1>4. call \in [Calls -> Call] /\ \A x \in Calls : CallHolds(x)
  BY NoneTyped DEF AccountsInit, CallHolds
<1>5. keys = {} /\ stops = {} /\ log = {} /\ actor \in Callers
  BY DEF AccountsInit, Callers
<1> QED BY <1>1, <1>2, <1>3, <1>4, <1>5 DEF AccountsTyped, Tables

\* The settings an account writes keep their types.
LEMMA SettingsTypes ==
  ASSUME AccountsTyped, NEW x \in Calls, Settings(x)
  PROVE  AccountsTyped'
<1> PICK t \in Tenants :
      \/ SetLimit(x, t) \/ SetPreference(x, t) \/ BeginTest(x, t)
      \/ SaveKey(x, t) \/ DeleteKey(x, t)
      \/ SaveBox(x, t) \/ DeleteBox(x, t) \/ BeginToggle(x, t)
  BY DEF Settings
<1>0. t \in Callers
  BY DEF Callers
<1> USE DEF AccountsTyped, metered
<1>a. ASSUME Once(x, t), log' = log
      PROVE  call' \in [Calls -> Call] /\ (\A y \in Calls : CallHolds(y)') /\ actor' \in Callers
  BY <1>0, <1>a, AnswerTypes DEF Once
<1>1. CASE SetLimit(x, t)
  <2>1. PICK n \in Int : prefs' = [prefs EXCEPT ![t]["daily_limit"] = Clamp(n)]
    BY <1>1, LimitsAssumption DEF SetLimit
  <2>2. Clamp(n) \in Int
    BY ClampBounds
  <2>3. prefs' \in [Tenants -> [PrefKeys -> Int]]
    BY <2>1, <2>2 DEF Tables
  <2> QED BY <1>a, <1>1, <2>3 DEF SetLimit, Tables
<1>2. CASE SetPreference(x, t)
  <2>1. prefs' \in [Tenants -> [PrefKeys -> Int]]
    BY <1>2, LimitsAssumption DEF SetPreference, Tables
  <2> QED BY <1>a, <1>2, <2>1 DEF SetPreference, Tables
<1>3. CASE BeginTest(x, t)
  <2> DEFINE k == [NoCall EXCEPT !.pc = "limited", !.caller = t,
                                 !.limit = Limit(t), !.since = today]
  <2>1. k \in Call /\ k.pc = "limited" /\ k.caller = t /\ k.limit = Limit(t)
    BY <1>0, LimitBounds, NoneTyped DEF NoCall, Call, Tables
  <2>2. call' \in [Calls -> Call] /\ \A y \in Calls : CallHolds(y)'
    <3>1. call' = [call EXCEPT ![x] = k] /\ log' = log
      BY <1>3 DEF BeginTest, settings
    <3> HIDE DEF k
    <3> QED BY <2>1, <3>1, LimitBounds, CallTypes
  <2> QED BY <1>0, <1>3, <2>2 DEF BeginTest, settings, Tables
<1>4. CASE SaveKey(x, t) \/ DeleteKey(x, t)
  <2>1. keys' \subseteq Tenants \X KeyNames
    BY <1>4 DEF SaveKey, DeleteKey, Tables
  <2> QED BY <1>a, <1>4, <2>1 DEF SaveKey, DeleteKey, Tables
<1>5. CASE SaveBox(x, t) \/ DeleteBox(x, t)
  <2>1. boxes' \in [Tenants -> [Addresses -> Box]]
    <3>1. CASE SaveBox(x, t)
      <4>1. PICK a \in Addresses, typed \in BOOLEAN :
              boxes' = [boxes EXCEPT ![t][a] =
                [password |-> typed, on |-> ~@.exists \/ @.on, exists |-> TRUE]]
        BY <3>1 DEF SaveBox
      <4>2. (~boxes[t][a].exists \/ boxes[t][a].on) \in BOOLEAN
        OBVIOUS
      <4>3. [password |-> typed, on |-> ~boxes[t][a].exists \/ boxes[t][a].on, exists |-> TRUE] \in Box
        BY <4>2 DEF Box
      <4> QED BY <4>1, <4>3 DEF Tables
    <3>2. CASE DeleteBox(x, t)
      BY <3>2, NoneTyped DEF DeleteBox, DropBox, Tables
    <3> QED BY <1>5, <3>1, <3>2
  <2> QED BY <1>a, <1>5, <2>1 DEF SaveBox, DeleteBox, Tables
<1>6. CASE BeginToggle(x, t)
  <2>1. PICK a \in Addresses :
          call' = [call EXCEPT ![x] = [NoCall EXCEPT !.pc = "read", !.caller = t,
                                         !.address = a, !.on = ~boxes[t][a].on]]
    BY <1>6 DEF BeginToggle
  <2> DEFINE k == [NoCall EXCEPT !.pc = "read", !.caller = t, !.address = a, !.on = ~boxes[t][a].on]
  <2>2. (~boxes[t][a].on) \in BOOLEAN
    OBVIOUS
  <2>3. k \in Call /\ k.pc = "read" /\ k.caller = t /\ k.address = a
    BY <1>0, <2>2, NoneTyped DEF NoCall, Call
  <2>4. call' \in [Calls -> Call] /\ \A y \in Calls : CallHolds(y)'
    <3>1. call' = [call EXCEPT ![x] = k] /\ log' = log
      BY <1>6, <2>1 DEF BeginToggle, settings
    <3> HIDE DEF k
    <3> QED BY <2>3, <3>1, CallTypes
  <2> QED BY <1>0, <1>6, <2>4 DEF BeginToggle, settings, Tables
<1> QED BY <1>1, <1>2, <1>3, <1>4, <1>5, <1>6

\* The lists, the feedback and the model keep their types.
LEMMA ListsTypes ==
  ASSUME AccountsTyped, NEW x \in Calls, NEW c \in Callers, AddStop(x, c) \/ RemoveStop(x, c)
  PROVE  AccountsTyped'
<1>1. call' \in [Calls -> Call] /\ (\A y \in Calls : CallHolds(y)') /\ actor' \in Callers
  BY AnswerTypes DEF AddStop, RemoveStop, Once
<1>2. stops' \subseteq ({Shared} \cup Tenants) \X Values
  <2>1. Scope(c) \in {Shared} \cup Tenants
    BY DEF Scope, Callers
  <2> QED BY <2>1 DEF AddStop, RemoveStop, Lifted, AccountsTyped, Tables
<1> QED BY <1>1, <1>2 DEF AddStop, RemoveStop, metered, AccountsTyped, Tables

LEMMA OwnerOfType ==
  ASSUME Typed0, NEW i \in Ids
  PROVE  OwnerOf(i) \in Tenants \cup {None}
<1>1. rows[i] \in Row \/ rows[i] = NoRow
  BY DEF Typed0, TypeOK
<1>2. rows[i] \in Row => rows[i].owner \in Tenants \cup {None}
  BY DEF Row
<1> QED BY <1>1, <1>2 DEF OwnerOf, Live, Exists

LEMMA FeedbackTypes ==
  ASSUME Typed0, AccountsTyped, NEW x \in Calls, NEW c \in Callers, NEW i \in Ids,
         BeginFeedback(x, c, i)
  PROVE  AccountsTyped'
<1>1. PICK who \in {Learner(c, i), OwnerOf(i)} \ {None} :
        /\ log' = log \cup {<<who, x>>}
        /\ call' = [call EXCEPT ![x] = [NoCall EXCEPT !.pc = "logged", !.caller = c,
                                          !.learner = who]]
  BY DEF BeginFeedback
<1>2. who \in Tenants
  <2>1. Learner(c, i) \in Tenants \cup {None}
    BY OwnerOfType DEF Learner, Callers
  <2> QED BY <2>1, OwnerOfType
<1> DEFINE k == [NoCall EXCEPT !.pc = "logged", !.caller = c, !.learner = who]
<1>3. k \in Call /\ k.pc = "logged" /\ k.learner = who
  BY <1>2, NoneTyped DEF NoCall, Call
<1>4. call' = [call EXCEPT ![x] = k] /\ log \subseteq log' /\ <<who, x>> \in log'
  BY <1>1
<1>5. call' \in [Calls -> Call] /\ \A y \in Calls : CallHolds(y)'
  <2> HIDE DEF k
  <2> QED BY <1>2, <1>3, <1>4, CallTypes
<1>6. log' \subseteq Tenants \X Calls
  BY <1>1, <1>2 DEF AccountsTyped, Tables
<1> QED BY <1>5, <1>6 DEF BeginFeedback, metered, AccountsTyped, Tables

LEMMA SuppressTypes ==
  ASSUME Typed0, AccountsTyped, NEW x \in Calls, NEW c \in Callers, NEW i \in Ids,
         SuppressLead(x, c, i)
  PROVE  AccountsTyped'
<1>1. call' \in [Calls -> Call] /\ (\A y \in Calls : CallHolds(y)') /\ actor' \in Callers
  BY AnswerTypes DEF SuppressLead, Once
<1>2. stops' \subseteq ({Shared} \cup Tenants) \X Values
  BY OwnerOfType DEF SuppressLead, AccountsTyped, Tables
<1> QED BY <1>1, <1>2 DEF SuppressLead, metered, AccountsTyped, Tables

LEMMA FetchTypes ==
  ASSUME AccountsTyped, NEW x \in Calls, FetchModel(x)
  PROVE  AccountsTyped'
<1> DEFINE k == [call[x] EXCEPT !.pc = "fetched", !.model = model[call[x].learner]]
<1>1. call[x] \in Call /\ call[x].pc = "logged" /\ call[x].learner \in Tenants
      /\ <<call[x].learner, x>> \in log
  BY DEF FetchModel, AccountsTyped, Tables, CallHolds
<1>2. model[call[x].learner] \in [learned : SUBSET Calls, n : Nat]
  BY <1>1 DEF AccountsTyped, Tables
<1>3. k \in Call /\ k.pc = "fetched" /\ k.learner = call[x].learner
  BY <1>1, <1>2 DEF Call
<1>4. call' = [call EXCEPT ![x] = k] /\ log' = log
  BY DEF FetchModel, settings, metered, AccountsTyped, Tables
<1>5. call' \in [Calls -> Call] /\ \A y \in Calls : CallHolds(y)'
  <2> HIDE DEF k
  <2> QED BY <1>1, <1>3, <1>4, CallTypes
<1>6. actor' \in Callers
  BY <1>1 DEF FetchModel, Call
<1> QED BY <1>5, <1>6 DEF FetchModel, settings, metered, AccountsTyped, Tables

LEMMA WriteTypes ==
  ASSUME AccountsTyped, NEW x \in Calls, WriteModel(x) \/ Toggle(x)
  PROVE  AccountsTyped'
<1>1. call' \in [Calls -> Call] /\ \A y \in Calls : CallHolds(y)'
  BY AnswerTypes DEF WriteModel, Toggle
<1>2. call[x] \in Call /\ CallHolds(x)
  BY DEF AccountsTyped, Tables
<1>3. actor' \in Callers
  BY <1>2 DEF WriteModel, Toggle, Call
<1>4. CASE WriteModel(x)
  <2>1. call[x].learner \in Tenants /\ call[x].model \in [learned : SUBSET Calls, n : Nat]
    BY <1>2, <1>4 DEF WriteModel, CallHolds, Call
  <2>2. call[x].model.learned \cup {x} \in SUBSET Calls /\ call[x].model.n + 1 \in Nat
    BY <2>1
  <2>3. Step(x, call[x].model, model[call[x].learner]) \in [learned : SUBSET Calls, n : Nat]
    BY <2>2 DEF Step
  <2>4. model' \in [Tenants -> [learned : SUBSET Calls, n : Nat]]
    BY <1>4, <2>3 DEF WriteModel, AccountsTyped, Tables
  <2> QED BY <1>1, <1>3, <1>4, <2>4 DEF WriteModel, metered, AccountsTyped, Tables
<1>5. CASE Toggle(x)
  <2>1. call[x].caller \in Tenants /\ call[x].address \in Addresses /\ call[x].on \in BOOLEAN
    BY <1>2, <1>5 DEF Toggle, CallHolds, Call
  <2>2. boxes' \in [Tenants -> [Addresses -> Box]]
    <3> DEFINE t == call[x].caller
               a == call[x].address
    <3>1. boxes \in [Tenants -> [Addresses -> Box]]
      BY DEF AccountsTyped, Tables
    <3>2. boxes' = IF boxes[t][a].exists
                   THEN [boxes EXCEPT ![t][a] = [boxes[t][a] EXCEPT !.on = call[x].on]]
                   ELSE boxes
      BY <1>5, <2>1, <3>1 DEF Toggle
    <3>3. [boxes[t][a] EXCEPT !.on = call[x].on] \in Box
      BY <2>1, <3>1 DEF Box
    <3> HIDE DEF t, a
    <3> QED BY <2>1, <3>1, <3>2, <3>3 DEF t, a
  <2> QED BY <1>1, <1>3, <1>5, <2>2 DEF Toggle, metered, AccountsTyped, Tables
<1> QED BY <1>4, <1>5

LEMMA TestTypes ==
  ASSUME AccountsTyped, NEW x \in Calls, Test(x)
  PROVE  AccountsTyped'
<1>1. call' \in [Calls -> Call] /\ \A y \in Calls : CallHolds(y)'
  BY AnswerTypes DEF Test
<1>2. call[x] \in Call /\ call[x].caller \in Tenants /\ call[x].since \in Nat /\ today \in Nat
  BY DEF Test, AccountsTyped, Tables, CallHolds, Call
<1>3. /\ meter' \in [Tenants -> CountRow]
      /\ passed' \subseteq [by : Calls, of : Tenants, on : Nat, found : Nat]
  <2>1. CASE UNCHANGED <<meter, passed>>
    BY <2>1 DEF AccountsTyped, Tables
  <2>2. CASE ~UNCHANGED <<meter, passed>>
    <3>1. PICK t \in Tenants : t = call[x].caller
      BY <1>2
    <3>2. PICK day \in call[x].since..today :
            /\ meter' = [meter EXCEPT ![t] = Added(meter[t], day, 1)]
            /\ passed' = passed \cup {[by |-> x, of |-> t, on |-> day, found |-> meter[t].at]}
      BY <2>2, <3>1 DEF Test, AccountsTyped, Tables
    <3>3. day \in Nat /\ meter[t] \in CountRow
      BY <1>2, <3>1 DEF AccountsTyped, Tables
    <3>4. Added(meter[t], day, 1) \in CountRow /\ meter[t].at \in Nat
      BY <3>3 DEF Added, CountRow
    <3> QED BY <3>2, <3>3, <3>4 DEF AccountsTyped, Tables
  <2> QED BY <2>1, <2>2
<1>4. actor' \in Callers
  BY <1>2 DEF Test, Callers
<1> QED BY <1>1, <1>3, <1>4 DEF Test, AccountsTyped, Tables

LEMMA StepAccounts == Typed0 /\ AccountsTyped /\ [ApiNext]_apiVars => AccountsTyped'
<1> SUFFICES ASSUME Typed0, AccountsTyped, [ApiNext]_apiVars PROVE AccountsTyped'
  OBVIOUS
<1>1. CASE UNCHANGED accountVars
  BY <1>1 DEF accountVars, settings, metered, AccountsTyped, Tables, CallHolds
<1>2. CASE Midnight
  <2>1. \A y \in Calls : CallHolds(y)'
    BY <1>2 DEF Midnight, AccountsTyped, CallHolds
  <2> QED BY <1>2, <2>1 DEF Midnight, AccountsTyped, Tables, Callers
<1>3. CASE AccountsNext
  <2>1. SUFFICES ASSUME NEW x \in Calls,
                        \/ Settings(x) \/ Lists(x) \/ OnLeads(x)
                        \/ Test(x) \/ Toggle(x) \/ FetchModel(x) \/ WriteModel(x)
                 PROVE  AccountsTyped'
    BY <1>2, <1>3 DEF AccountsNext
  <2> QED BY <2>1, SettingsTypes, ListsTypes, FeedbackTypes, SuppressTypes, FetchTypes,
             TestTypes, WriteTypes DEF Lists, OnLeads
<1> QED BY <1>1, <1>3 DEF ApiNext, apiVars

\* The tables of the accounts and what each call holds keep their shape.
THEOREM AccountsCorrect == ApiSpec => []AccountsTyped
<1>1. ApiInit => Typed0 /\ AccountsTyped
  BY InitTyped, InitAccounts DEF ApiInit
<1>2. Typed0 /\ AccountsTyped /\ [ApiNext]_apiVars => (Typed0 /\ AccountsTyped)'
  <2>1. [ApiNext]_apiVars => [Next]_vars
    BY DEF ApiNext, apiVars
  <2> QED BY <2>1, StepTyped, StepAccounts
<1> QED BY <1>1, <1>2, PTL DEF ApiSpec, apiVars

-----------------------------------------------------------------------------
(* Tenants.  What a call writes is its caller's, action by action.         *)

OwnRowsStep ==
  \A u \in Tenants :
    /\ prefs'[u]["tier"] = prefs[u]["tier"]
    /\ u # actor' =>
         /\ boxes'[u] = boxes[u] /\ prefs'[u] = prefs[u]
         /\ \A k \in KeyNames : <<u, k>> \in keys' <=> <<u, k>> \in keys
    /\ actor' # Operator /\ u # actor' =>
         \A v \in Values, s \in {u, Shared} : <<s, v>> \in stops => <<s, v>> \in stops'

\* An action that leaves keys, mailboxes and preferences alone and lifts no
\* stop is within its rows.
LEMMA OthersUntouched ==
  ASSUME keys' = keys, boxes' = boxes, prefs' = prefs, stops \subseteq stops'
  PROVE  OwnRowsStep
  BY DEF OwnRowsStep

LEMMA SettingsOwn ==
  ASSUME AccountsTyped, NEW x \in Calls, Settings(x)
  PROVE  OwnRowsStep
<1> PICK t \in Tenants :
      \/ SetLimit(x, t) \/ SetPreference(x, t) \/ BeginTest(x, t)
      \/ SaveKey(x, t) \/ DeleteKey(x, t)
      \/ SaveBox(x, t) \/ DeleteBox(x, t) \/ BeginToggle(x, t)
  BY DEF Settings
<1>1. prefs \in [Tenants -> [PrefKeys -> Int]] /\ boxes \in [Tenants -> [Addresses -> Box]]
  BY DEF AccountsTyped, Tables
<1>2. CASE SetLimit(x, t)
  BY <1>1, <1>2 DEF SetLimit, Once, OwnRowsStep, PrefKeys
<1>3. CASE SetPreference(x, t)
  <2>1. PICK k \in PrefKeys \ Reserved, n \in Typed : prefs' = [prefs EXCEPT ![t][k] = n]
    BY <1>3 DEF SetPreference
  <2>2. k # "tier" /\ "tier" \in PrefKeys
    BY <2>1 DEF Reserved, PrefKeys
  <2>3. \A u \in Tenants : prefs'[u]["tier"] = prefs[u]["tier"] /\ (u # t => prefs'[u] = prefs[u])
    BY <1>1, <2>1, <2>2
  <2> QED BY <1>3, <2>3 DEF SetPreference, Once, OwnRowsStep
<1>4. CASE BeginTest(x, t) \/ BeginToggle(x, t)
  BY <1>4, OthersUntouched DEF BeginTest, BeginToggle, settings
<1>5. CASE SaveKey(x, t) \/ DeleteKey(x, t)
  BY <1>5 DEF SaveKey, DeleteKey, Once, OwnRowsStep
<1>6. CASE SaveBox(x, t) \/ DeleteBox(x, t)
  <2>1. \A u \in Tenants : u # t => boxes'[u] = boxes[u]
    BY <1>1, <1>6 DEF SaveBox, DeleteBox, DropBox
  <2> QED BY <1>6, <2>1 DEF SaveBox, DeleteBox, Once, OwnRowsStep
<1> QED BY <1>2, <1>3, <1>4, <1>5, <1>6

\* Lifting: an account's own scope is neither another's nor the shared one.
LEMMA ListsOwn ==
  ASSUME NEW x \in Calls, NEW c \in Callers, AddStop(x, c) \/ RemoveStop(x, c)
  PROVE  OwnRowsStep
<1>1. CASE AddStop(x, c)
  BY <1>1, OthersUntouched DEF AddStop
<1>2. CASE RemoveStop(x, c)
  <2>1. actor' = c
    BY <1>2 DEF RemoveStop, Once
  <2>2. ASSUME NEW u \in Tenants, c # Operator, u # c, NEW v \in Values, NEW s \in {u, Shared},
               <<s, v>> \in stops
        PROVE  <<s, v>> \in stops'
    <3>1. PICK w \in Values : stops' = stops \ {<<c, w>>}
      BY <1>2, <2>2 DEF RemoveStop, Lifted
    <3>2. s # c
      BY <2>2, SharedAssumption DEF Callers
    <3> QED BY <2>2, <3>1, <3>2
  <2> QED BY <1>2, <2>1, <2>2 DEF RemoveStop, OwnRowsStep
<1> QED BY <1>1, <1>2

LEMMA StepOwn == AccountsTyped /\ [ApiNext]_apiVars => OwnRowsStep
<1> SUFFICES ASSUME AccountsTyped, [ApiNext]_apiVars PROVE OwnRowsStep
  OBVIOUS
<1>1. CASE UNCHANGED accountVars
  BY <1>1, OthersUntouched DEF accountVars, settings
<1>2. ASSUME NEW x \in Calls, Toggle(x) PROVE OwnRowsStep
  <2>1. boxes \in [Tenants -> [Addresses -> Box]]
    BY DEF AccountsTyped, Tables
  <2>2. actor' = call[x].caller /\ \A u \in Tenants : u # call[x].caller => boxes'[u] = boxes[u]
    BY <1>2, <2>1 DEF Toggle
  <2> QED BY <1>2, <2>2 DEF Toggle, OwnRowsStep
<1>3. ASSUME NEW x \in Calls, Test(x) \/ OnLeads(x) \/ FetchModel(x) \/ WriteModel(x)
      PROVE  OwnRowsStep
  <2>1. keys' = keys /\ boxes' = boxes /\ prefs' = prefs /\ stops \subseteq stops'
    BY <1>3 DEF Test, OnLeads, BeginFeedback, SuppressLead, FetchModel, WriteModel, settings
  <2> QED BY <2>1, OthersUntouched
<1>4. CASE AccountsNext
  BY <1>2, <1>3, <1>4, SettingsOwn, ListsOwn, OthersUntouched DEF AccountsNext, Lists, Midnight
<1> QED BY <1>1, <1>4 DEF ApiNext, apiVars

\* A call reaches the rows of its caller only: no key, mailbox, preference or
\* stop of another account changes, the shared stops are lifted by nobody but
\* the operator, and nobody writes a tier.
THEOREM TenantsApart == ApiSpec => OwnRowsOnly
<1>1. AccountsTyped /\ [ApiNext]_apiVars =>
        [\A u \in Tenants :
           /\ prefs'[u]["tier"] = prefs[u]["tier"]
           /\ u # actor' =>
                /\ boxes'[u] = boxes[u] /\ prefs'[u] = prefs[u]
                /\ \A k \in KeyNames : <<u, k>> \in keys' <=> <<u, k>> \in keys
           /\ actor' # Operator /\ u # actor' =>
                \A v \in Values, s \in {u, Shared} : <<s, v>> \in stops => <<s, v>> \in stops'
        ]_apiVars
  BY StepOwn DEF OwnRowsStep
<1> QED BY <1>1, AccountsCorrect, PTL DEF ApiSpec, OwnRowsOnly, apiVars

-----------------------------------------------------------------------------
(* The models.  A pair of weights and number is sound for an account when  *)
(* it counts the events in the weights, each logged for the account by a   *)
(* call that is over: a call under way is in no weights yet, so writing    *)
(* what it read adds one event and one to the number.                      *)

Sound(m, t) ==
  /\ m.n = Cardinality(m.learned)
  /\ \A y \in m.learned : <<t, y>> \in log /\ call[y].pc = "done"

ModelsInv ==
  /\ \A t \in Tenants : Sound(model[t], t)
  /\ \A x \in Calls : call[x].pc = "fetched" => Sound(call[x].model, call[x].learner)

\* Logs grow and calls that are over stay so: what was sound is sound.
LEMMA SoundLasts ==
  ASSUME log \subseteq log', \A y \in Calls : call[y].pc = "done" => call'[y].pc = "done",
         NEW m \in [learned : SUBSET Calls, n : Nat], NEW t, Sound(m, t)
  PROVE  Sound(m, t)'
<1>1. m.learned \subseteq Calls
  OBVIOUS
<1> QED BY <1>1 DEF Sound

LEMMA InitModels == AccountsInit => ModelsInv
<1> SUFFICES ASSUME AccountsInit PROVE ModelsInv
  OBVIOUS
<1>1. Cardinality({}) = 0
  BY FS_EmptySet
<1>2. ASSUME NEW t \in Tenants PROVE Sound(model[t], t)
  BY <1>1 DEF AccountsInit, NoModel, Sound
<1>3. \A x \in Calls : call[x].pc = "idle"
  BY NoneTyped DEF AccountsInit
<1> QED BY <1>2, <1>3 DEF ModelsInv

\* No step undoes an answer or a log entry.
LEMMA AnswersLast ==
  ASSUME AccountsTyped, [ApiNext]_apiVars
  PROVE  log \subseteq log' /\ \A y \in Calls : call[y].pc = "done" => call'[y].pc = "done"
<1>0. call \in [Calls -> Call]
  BY DEF AccountsTyped, Tables
<1>1. CASE UNCHANGED accountVars
  BY <1>1 DEF accountVars, settings
<1>2. CASE Midnight
  BY <1>2 DEF Midnight
<1>3. ASSUME NEW x \in Calls, Settings(x) \/ Lists(x) \/ OnLeads(x) \/ Toggle(x)
                              \/ Test(x) \/ FetchModel(x) \/ WriteModel(x)
      PROVE  log \subseteq log' /\ \A y \in Calls : call[y].pc = "done" => call'[y].pc = "done"
  <2>1. log \subseteq log' /\ call[x].pc # "done"
    BY <1>3 DEF Settings, SetLimit, SetPreference, BeginTest, Test, SaveKey, DeleteKey, SaveBox,
                DeleteBox, BeginToggle, Lists, AddStop, RemoveStop, OnLeads, BeginFeedback, SuppressLead,
                Toggle, FetchModel, WriteModel, Once, settings
  <2>2. \A y \in Calls \ {x} : call'[y] = call[y]
    BY <1>0, <1>3 DEF Settings, SetLimit, SetPreference, BeginTest, Test, SaveKey, DeleteKey, SaveBox,
                DeleteBox, BeginToggle, Lists, AddStop, RemoveStop, OnLeads, BeginFeedback,
                SuppressLead, Toggle, FetchModel, WriteModel, Once, Answer
  <2> QED BY <2>1, <2>2
<1> QED BY <1>1, <1>2, <1>3 DEF ApiNext, AccountsNext, apiVars

\* A step that neither writes a model nor fetches one.
LEMMA ModelsKept ==
  ASSUME AccountsTyped, ModelsInv, [ApiNext]_apiVars, model' = model,
         \A x \in Calls : call'[x].pc = "fetched" => call'[x] = call[x]
  PROVE  ModelsInv'
<1>1. ASSUME NEW t \in Tenants PROVE Sound(model[t], t)'
  <2>1. model[t] \in [learned : SUBSET Calls, n : Nat] /\ Sound(model[t], t)
    BY DEF AccountsTyped, Tables, ModelsInv
  <2>2. PICK k \in [learned : SUBSET Calls, n : Nat] : k = model[t]
    BY <2>1
  <2>3. Sound(k, t)'
    BY <2>1, <2>2, AnswersLast, SoundLasts
  <2> QED BY <2>2, <2>3
<1>2. ASSUME NEW x \in Calls, call'[x].pc = "fetched"
      PROVE  Sound(call[x].model, call[x].learner)'
  <2>1. call'[x] = call[x] /\ call[x].pc = "fetched"
    BY <1>2
  <2>2. /\ call[x].model \in [learned : SUBSET Calls, n : Nat]
        /\ Sound(call[x].model, call[x].learner)
    BY <2>1 DEF AccountsTyped, Tables, Call, ModelsInv
  <2>3. PICK k \in [learned : SUBSET Calls, n : Nat], t \in {call[x].learner} : k = call[x].model
    BY <2>2
  <2>4. Sound(k, t)'
    BY <2>2, <2>3, AnswersLast, SoundLasts
  <2> QED BY <2>1, <2>3, <2>4
<1> QED BY <1>1, <1>2 DEF ModelsInv

\* What is fetched is the account's model as it stands.
LEMMA ModelFetched ==
  ASSUME AccountsTyped, ModelsInv, NEW x \in Calls, FetchModel(x)
  PROVE  ModelsInv'
<1>0. call \in [Calls -> Call] /\ call[x].learner \in Tenants /\ call[x].pc = "logged"
  BY DEF FetchModel, AccountsTyped, Tables, CallHolds
<1> PICK t \in Tenants : t = call[x].learner
  BY <1>0
<1>1. call \in [Calls -> Call] /\ t = call[x].learner /\ call[x].pc = "logged"
  BY <1>0
<1>2. /\ \A y \in Calls \ {x} : call'[y] = call[y]
      /\ call'[x] = [call[x] EXCEPT !.pc = "fetched", !.model = model[t]]
      /\ log' = log /\ model' = model
  BY <1>1 DEF FetchModel, settings
<1>3. call'[x].model = model[t] /\ call'[x].learner = t /\ call'[x].pc = "fetched"
  BY <1>1, <1>2 DEF Call
<1>4. \A y \in Calls : call[y].pc = "done" => call'[y].pc = "done"
  BY <1>1, <1>2
<1>5. ASSUME NEW m \in [learned : SUBSET Calls, n : Nat], NEW u, Sound(m, u)
      PROVE  Sound(m, u)'
  BY <1>2, <1>4, <1>5, SoundLasts
<1>6. ASSUME NEW u \in Tenants PROVE Sound(model[u], u)'
  <2>1. model[u] \in [learned : SUBSET Calls, n : Nat] /\ Sound(model[u], u)
    BY DEF AccountsTyped, Tables, ModelsInv
  <2>2. PICK k \in [learned : SUBSET Calls, n : Nat] : k = model[u]
    BY <2>1
  <2>3. Sound(k, u)'
    BY <1>5, <2>1, <2>2
  <2> QED BY <1>2, <2>2, <2>3
<1>7. ASSUME NEW y \in Calls, call'[y].pc = "fetched"
      PROVE  Sound(call[y].model, call[y].learner)'
  <2>1. CASE y = x
    <3>1. Sound(model[t], t)'
      BY <1>1, <1>6
    <3> QED BY <1>2, <1>3, <2>1, <3>1
  <2>2. CASE y # x
    <3>1. call'[y] = call[y] /\ call[y].pc = "fetched"
      BY <1>2, <1>7, <2>2
    <3>2. /\ call[y].model \in [learned : SUBSET Calls, n : Nat]
          /\ Sound(call[y].model, call[y].learner)
      BY <1>1, <3>1 DEF Call, ModelsInv
    <3>3. PICK k \in [learned : SUBSET Calls, n : Nat], u \in {call[y].learner} : k = call[y].model
      BY <3>2
    <3>4. Sound(k, u)'
      BY <1>5, <3>2, <3>3
    <3> QED BY <3>1, <3>3, <3>4
  <2> QED BY <2>1, <2>2
<1> QED BY <1>6, <1>7 DEF ModelsInv

\* What is written is what was read with one event more, its own.
LEMMA ModelWritten ==
  ASSUME AccountsTyped, ModelsInv, NEW x \in Calls, WriteModel(x)
  PROVE  ModelsInv'
<1> DEFINE t == call[x].learner
           old == call[x].model
           new == [learned |-> old.learned \cup {x}, n |-> old.n + 1]
<1>1. /\ call \in [Calls -> Call] /\ t \in Tenants /\ call[x].pc = "fetched"
      /\ <<t, x>> \in log /\ old \in [learned : SUBSET Calls, n : Nat]
  BY DEF WriteModel, AccountsTyped, Tables, CallHolds, Call
<1>2. model' = [model EXCEPT ![t] = new] /\ log' = log
  BY DEF WriteModel, Step
<1>3. call'[x].pc = "done" /\ \A y \in Calls \ {x} : call'[y] = call[y]
  BY <1>1, NoneTyped DEF WriteModel, Answer
<1>4. \A y \in Calls : call[y].pc = "done" => call'[y].pc = "done"
  BY <1>3
<1>5. ASSUME NEW m \in [learned : SUBSET Calls, n : Nat], NEW u, Sound(m, u)
      PROVE  Sound(m, u)'
  BY <1>2, <1>4, <1>5, SoundLasts
<1>6. Sound(old, t)
  BY <1>1 DEF ModelsInv
<1>7. x \notin old.learned
  BY <1>1, <1>6 DEF Sound
<1>8. new.n = Cardinality(new.learned)
  <2>1. IsFiniteSet(old.learned)
    <3>1. old.learned \in SUBSET Calls
      BY <1>1
    <3> QED BY <3>1, CallsAssumption, FS_Subset
  <2>2. Cardinality(old.learned \cup {x}) = Cardinality(old.learned) + 1
    BY <1>7, <2>1, FS_AddElement
  <2>3. old.n = Cardinality(old.learned)
    BY <1>6 DEF Sound
  <2> QED BY <2>2, <2>3
<1>9. ASSUME NEW y \in new.learned PROVE <<t, y>> \in log' /\ call'[y].pc = "done"
  <2>1. CASE y = x
    BY <1>1, <1>2, <1>3, <2>1
  <2>2. CASE y \in old.learned
    <3>1. y \in Calls /\ <<t, y>> \in log /\ call[y].pc = "done"
      BY <1>1, <1>6, <2>2 DEF Sound
    <3> QED BY <1>2, <1>4, <3>1
  <2> QED BY <1>9, <2>1, <2>2
<1>10. ASSUME NEW u \in Tenants PROVE Sound(model[u], u)'
  <2>1. model \in [Tenants -> [learned : SUBSET Calls, n : Nat]]
    BY DEF AccountsTyped, Tables
  <2>2. CASE u = t
    <3>1. model'[u] = new
      BY <1>2, <2>1, <2>2
    <3> QED BY <1>8, <1>9, <2>2, <3>1 DEF Sound
  <2>3. CASE u # t
    <3>1. model'[u] = model[u]
      BY <1>2, <2>1, <2>3
    <3>2. PICK k \in [learned : SUBSET Calls, n : Nat] : k = model[u]
      BY <2>1
    <3>3. Sound(k, u)
      BY <3>2 DEF ModelsInv
    <3>4. Sound(k, u)'
      BY <1>5, <3>3
    <3> QED BY <3>1, <3>2, <3>4
  <2> QED BY <2>2, <2>3
<1>11. ASSUME NEW y \in Calls, call'[y].pc = "fetched"
       PROVE  Sound(call[y].model, call[y].learner)'
  <2>1. call'[y] = call[y] /\ call[y].pc = "fetched"
    BY <1>3, <1>11
  <2>2. /\ call[y].model \in [learned : SUBSET Calls, n : Nat]
        /\ Sound(call[y].model, call[y].learner)
    BY <1>1, <2>1 DEF Call, ModelsInv
  <2>3. PICK k \in [learned : SUBSET Calls, n : Nat], u \in {call[y].learner} : k = call[y].model
    BY <2>2
  <2>4. Sound(k, u)'
    BY <1>5, <2>2, <2>3
  <2> QED BY <2>1, <2>3, <2>4
<1> QED BY <1>10, <1>11 DEF ModelsInv

LEMMA StepModels == AccountsTyped /\ ModelsInv /\ [ApiNext]_apiVars => ModelsInv'
<1> SUFFICES ASSUME AccountsTyped, ModelsInv, [ApiNext]_apiVars PROVE ModelsInv'
  OBVIOUS
<1>0. call \in [Calls -> Call]
  BY DEF AccountsTyped, Tables
<1>1. CASE UNCHANGED accountVars
  BY <1>1, ModelsKept DEF accountVars, settings
<1>2. CASE Midnight
  BY <1>2, ModelsKept DEF Midnight
<1>3. ASSUME NEW x \in Calls, Settings(x) \/ Lists(x) \/ OnLeads(x) \/ Toggle(x) \/ Test(x)
      PROVE  ModelsInv'
  <2>1. model' = model
    BY <1>3 DEF Settings, SetLimit, SetPreference, BeginTest, Test, SaveKey, DeleteKey, SaveBox,
                DeleteBox, BeginToggle, Lists, AddStop, RemoveStop, OnLeads, BeginFeedback, SuppressLead,
                Toggle, settings
  <2>2. \A y \in Calls \ {x} : call'[y] = call[y]
    BY <1>0, <1>3 DEF Settings, SetLimit, SetPreference, BeginTest, Test, SaveKey, DeleteKey, SaveBox,
                DeleteBox, BeginToggle, Lists, AddStop, RemoveStop, OnLeads, BeginFeedback,
                SuppressLead, Toggle, Once, Answer
  <2>3. call'[x].pc \in {"done", "limited", "read", "logged"}
    <3>1. CASE Answer(x)
      BY <1>0, <3>1, NoneTyped DEF Answer
    <3>2. ASSUME NEW t \in Tenants, BeginToggle(x, t) PROVE call'[x].pc = "read"
      BY <1>0, <3>2 DEF BeginToggle, NoCall
    <3>3. ASSUME NEW c \in Callers, NEW i \in Ids, BeginFeedback(x, c, i)
          PROVE  call'[x].pc = "logged"
      BY <1>0, <3>3 DEF BeginFeedback, NoCall
    <3>4. ASSUME NEW t \in Tenants, BeginTest(x, t) PROVE call'[x].pc = "limited"
      BY <1>0, <3>4 DEF BeginTest, NoCall
    <3> QED BY <1>3, <3>1, <3>2, <3>3, <3>4 DEF Settings, SetLimit, SetPreference, BeginTest, Test, SaveKey,
               DeleteKey, SaveBox, DeleteBox, Lists, AddStop, RemoveStop, OnLeads,
               SuppressLead, Toggle, Once
  <2> QED BY <2>1, <2>2, <2>3, ModelsKept
<1>4. CASE AccountsNext
  BY <1>2, <1>3, <1>4, ModelFetched, ModelWritten DEF AccountsNext
<1> QED BY <1>1, <1>4 DEF ApiNext, apiVars

-----------------------------------------------------------------------------
(* The meters.  How many tests with one date a row stands for: the ceiling *)
(* at most for every one that landed late and, if the row has the date or  *)
(* a later one, what the row says or the ceiling once more.                *)

Accounted(row, day, total, late) ==
  total <= Ceiling * late
           + (IF row.at = day THEN row.n ELSE IF row.at > day THEN Ceiling ELSE 0)

\* A test with room under a limit within the ceiling.
LEMMA AccountedStep ==
  ASSUME NEW row \in CountRow, row.n <= Ceiling, NEW limit \in Int,
         limit > 0, limit <= Ceiling, NEW on \in Nat, HasRoom(row, on, limit),
         NEW day \in Nat, NEW total \in Nat, NEW late \in Nat,
         Accounted(row, day, total, late)
  PROVE  /\ Added(row, on, 1).n <= Ceiling
         /\ Accounted(Added(row, on, 1), day,
                      IF day = on THEN total + 1 ELSE total,
                      IF on < row.at THEN late + 1 ELSE late)
<1> DEFINE next == Added(row, on, 1)
<1>1. row.at \in Nat /\ row.n \in Nat
  BY DEF CountRow
<1>c. PICK ceiling \in Nat : ceiling = Ceiling
  BY CeilingType
<1> DEFINE product == ceiling * late
<1>2. product \in Nat /\ ceiling * (late + 1) = product + ceiling
  OBVIOUS
<1>3. /\ next.at = on
      /\ next.n = IF row.at = on THEN row.n + 1 ELSE 1
  BY DEF Added
<1>4. total <= product
        + (IF row.at = day THEN row.n ELSE IF row.at > day THEN ceiling ELSE 0)
  BY <1>c DEF Accounted
<1>5. row.at # on \/ row.n < limit
  BY DEF HasRoom
<1>6. row.n <= ceiling /\ limit > 0 /\ limit <= ceiling
  BY <1>c
<1> HIDE DEF product, next
<1>7. next.n <= ceiling
  BY <1>1, <1>3, <1>5, <1>6
<1>8. (IF day = on THEN total + 1 ELSE total)
        <= (IF on < row.at THEN product + ceiling ELSE product)
           + (IF on = day THEN next.n ELSE IF on > day THEN ceiling ELSE 0)
  <2>1. CASE row.at = on
    BY <1>1, <1>2, <1>3, <1>4, <1>6, <2>1
  <2>2. CASE row.at > on
    BY <1>1, <1>2, <1>3, <1>4, <1>6, <2>2
  <2>3. CASE row.at < on
    BY <1>1, <1>2, <1>3, <1>4, <1>6, <2>3
  <2> QED BY <1>1, <2>1, <2>2, <2>3
<1>9. ceiling * (IF on < row.at THEN late + 1 ELSE late)
        = IF on < row.at THEN product + ceiling ELSE product
  BY <1>2 DEF product
<1>10. Accounted(next, day, IF day = on THEN total + 1 ELSE total,
                 IF on < row.at THEN late + 1 ELSE late)
  BY <1>c, <1>3, <1>8, <1>9 DEF Accounted
<1> QED BY <1>c, <1>7, <1>10 DEF next

MeterSound(t) ==
  /\ meter[t].n <= Ceiling
  /\ \A day \in Nat :
       Accounted(meter[t], day, Cardinality(PassedOn(t, day)), Cardinality(Late(t)))

\* Each call was let through once.
MetersInv ==
  /\ IsFiniteSet(passed)
  /\ \A p \in passed : call[p.by].pc = "done"
  /\ \A t \in Tenants : MeterSound(t)

LEMMA MeterParts ==
  ASSUME IsFiniteSet(passed), NEW t, NEW day
  PROVE  IsFiniteSet(PassedOn(t, day)) /\ IsFiniteSet(Late(t))
<1>1. PassedOn(t, day) \subseteq passed /\ Late(t) \subseteq passed
  BY DEF PassedOn, Late
<1> QED BY <1>1, FS_Subset

\* A set with one element more, and one with the same.
LEMMA PlusOne ==
  ASSUME NEW S, NEW T, NEW x, NEW more \in BOOLEAN, IsFiniteSet(S), x \notin S,
         T = IF more THEN S \cup {x} ELSE S
  PROVE  /\ Cardinality(S) \in Nat
         /\ Cardinality(T) = IF more THEN Cardinality(S) + 1 ELSE Cardinality(S)
  BY FS_AddElement, FS_CardinalityType

LEMMA InitMeters == AccountsInit => MetersInv
<1> SUFFICES ASSUME AccountsInit PROVE MetersInv
  OBVIOUS
<1>1. passed = {} /\ Cardinality({}) = 0 /\ IsFiniteSet({})
  BY FS_EmptySet DEF AccountsInit
<1>2. ASSUME NEW t \in Tenants PROVE MeterSound(t)
  <2>1. meter[t] = NoCount
    BY DEF AccountsInit
  <2>2. Cardinality(Late(t)) = 0 /\ \A day : Cardinality(PassedOn(t, day)) = 0
    BY <1>1 DEF Late, PassedOn
  <2>3. Ceiling * 0 = 0 /\ Ceiling \in Nat
    BY CeilingType
  <2> QED BY <2>1, <2>2, <2>3 DEF MeterSound, Accounted, NoCount
<1> QED BY <1>1, <1>2 DEF MetersInv

\* A test that is let through is one more with its date, and late if the row had
\* a later one.
LEMMA TestMetered ==
  ASSUME AccountsTyped, MetersInv, NEW x \in Calls, Test(x), ~UNCHANGED <<meter, passed>>
  PROVE  \A t \in Tenants : MeterSound(t)'
<1>1. /\ call[x] \in Call /\ CallHolds(x) /\ call[x].pc = "limited"
      /\ meter \in [Tenants -> CountRow] /\ today \in Nat
  BY DEF Test, AccountsTyped, Tables
<1>v. PICK v \in Tenants : v = call[x].caller
  BY <1>1 DEF CallHolds
<1>r. PICK row \in CountRow : row = meter[v]
  BY <1>1
<1>l. PICK limit \in Int : limit = call[x].limit
  BY <1>1 DEF Call
<1>2. PICK day \in call[x].since..today :
        /\ limit > 0 /\ HasRoom(row, day, limit)
        /\ meter' = [meter EXCEPT ![v] = Added(row, day, 1)]
        /\ passed' = passed \cup {[by |-> x, of |-> v, on |-> day, found |-> row.at]}
  BY <1>1, <1>v, <1>r, <1>l DEF Test
<1>n. PICK new : new = [by |-> x, of |-> v, on |-> day, found |-> row.at]
  OBVIOUS
<1>3. day \in Nat /\ limit <= Ceiling
  BY <1>1, <1>l DEF Call, CallHolds
<1>4. new \notin passed /\ IsFiniteSet(passed)
  BY <1>1, <1>n DEF MetersInv
<1>5. row.n <= Ceiling
  BY <1>r DEF MetersInv, MeterSound
<1>6. ASSUME NEW d \in Nat
      PROVE  /\ Added(row, day, 1).n <= Ceiling
             /\ Accounted(Added(row, day, 1), d, Cardinality(PassedOn(v, d))',
                          Cardinality(Late(v))')
  <2>1. PassedOn(v, d)' = IF d = day THEN PassedOn(v, d) \cup {new} ELSE PassedOn(v, d)
    BY <1>2, <1>n DEF PassedOn
  <2>2. Late(v)' = IF day < row.at THEN Late(v) \cup {new} ELSE Late(v)
    BY <1>2, <1>n DEF Late
  <2>3. new \notin PassedOn(v, d) /\ new \notin Late(v)
    BY <1>4 DEF PassedOn, Late
  <2>4. /\ Cardinality(PassedOn(v, d)) \in Nat
        /\ Cardinality(PassedOn(v, d))'
             = IF d = day THEN Cardinality(PassedOn(v, d)) + 1 ELSE Cardinality(PassedOn(v, d))
    BY <1>4, <2>1, <2>3, MeterParts, PlusOne
  <2>5. /\ Cardinality(Late(v)) \in Nat
        /\ Cardinality(Late(v))'
             = IF day < row.at THEN Cardinality(Late(v)) + 1 ELSE Cardinality(Late(v))
    BY <1>4, <2>2, <2>3, MeterParts, PlusOne
  <2>6. Accounted(row, d, Cardinality(PassedOn(v, d)), Cardinality(Late(v)))
    BY <1>r DEF MetersInv, MeterSound
  <2> QED BY <1>2, <1>3, <1>5, <2>4, <2>5, <2>6, AccountedStep
<1>7. Added(row, day, 1).n <= Ceiling
  BY <1>3, <1>6
<1>8. meter'[v] = Added(row, day, 1)
  BY <1>1, <1>2
<1>9. MeterSound(v)'
  BY <1>6, <1>7, <1>8 DEF MeterSound
<1>10. ASSUME NEW u \in Tenants \ {v} PROVE MeterSound(u)'
  <2>1. meter'[u] = meter[u]
    BY <1>1, <1>2
  <2>2. Late(u)' = Late(u) /\ \A d : PassedOn(u, d)' = PassedOn(u, d)
    BY <1>2 DEF Late, PassedOn
  <2> QED BY <2>1, <2>2 DEF MetersInv, MeterSound
<1> QED BY <1>9, <1>10

LEMMA StepMeters == AccountsTyped /\ MetersInv /\ [ApiNext]_apiVars => MetersInv'
<1> SUFFICES ASSUME AccountsTyped, MetersInv, [ApiNext]_apiVars PROVE MetersInv'
  OBVIOUS
<1>0. passed \subseteq [by : Calls, of : Tenants, on : Nat, found : Nat]
  BY DEF AccountsTyped, Tables
<1>1. CASE UNCHANGED <<meter, passed>>
  <2>1. ASSUME NEW t \in Tenants PROVE MeterSound(t)'
    <3>1. Late(t)' = Late(t) /\ \A day : PassedOn(t, day)' = PassedOn(t, day)
      BY <1>1 DEF Late, PassedOn
    <3> QED BY <1>1, <3>1 DEF MetersInv, MeterSound
  <2> QED BY <1>0, <1>1, <2>1, AnswersLast DEF MetersInv
<1>2. ASSUME NEW x \in Calls, Test(x), ~UNCHANGED <<meter, passed>> PROVE MetersInv'
  <2>0. PICK t, day : passed' = passed \cup
                        {[by |-> x, of |-> t, on |-> day, found |-> meter[t].at]}
    BY <1>2 DEF Test
  <2>p. PICK p : p = [by |-> x, of |-> t, on |-> day, found |-> meter[t].at]
    OBVIOUS
  <2>1. passed' = passed \cup {p} /\ p.by = x
    BY <2>0, <2>p
  <2>2. IsFiniteSet(passed')
    BY <2>1, FS_AddElement DEF MetersInv
  <2>3. call'[x].pc = "done"
    BY <1>2, NoneTyped DEF Test, Answer, AccountsTyped, Tables
  <2>4. \A q \in passed' : call'[q.by].pc = "done"
    BY <1>0, <2>1, <2>3, AnswersLast DEF MetersInv
  <2> QED BY <1>2, <2>2, <2>4, TestMetered DEF MetersInv
<1>3. ASSUME NEW x \in Calls, Settings(x) \/ Lists(x) \/ OnLeads(x) \/ Toggle(x)
                              \/ FetchModel(x) \/ WriteModel(x)
      PROVE  UNCHANGED <<meter, passed>>
  BY <1>3 DEF Settings, SetLimit, SetPreference, BeginTest, SaveKey, DeleteKey, SaveBox,
              DeleteBox, BeginToggle, Lists, AddStop, RemoveStop, OnLeads, BeginFeedback,
              SuppressLead, Toggle, FetchModel, WriteModel, settings, metered
<1>4. CASE Midnight \/ UNCHANGED accountVars
  BY <1>1, <1>4 DEF Midnight, accountVars, settings, metered
<1> QED BY <1>1, <1>2, <1>3, <1>4 DEF ApiNext, AccountsNext, apiVars

\* Concurrent feedback may lose updates, but weights and number stay a pair:
\* each model counts exactly the events in its weights, each logged for its
\* account.  And for any limits, typed or changed at any time, and any dates the
\* tests bring: no more pass with one date than the ceiling, and the ceiling
\* again for each that landed with a date gone by.
THEOREM ModelsAgree == ApiSpec => []ModelsAndMetersAgree
<1>1. AccountsTyped /\ ModelsInv /\ MetersInv => ModelsAndMetersAgree
  <2> SUFFICES ASSUME AccountsTyped, ModelsInv, MetersInv, NEW t \in Tenants
               PROVE  /\ model[t].n = Cardinality(model[t].learned)
                      /\ \A x \in model[t].learned : <<t, x>> \in log
                      /\ \A p \in passed :
                           Cardinality(PassedOn(t, p.on)) <= Ceiling * (1 + Cardinality(Late(t)))
    BY DEF ModelsAndMetersAgree
  <2>1. ASSUME NEW p \in passed
        PROVE  Cardinality(PassedOn(t, p.on)) <= Ceiling * (1 + Cardinality(Late(t)))
    <3> DEFINE total == Cardinality(PassedOn(t, p.on))
               late == Cardinality(Late(t))
               product == Ceiling * late
    <3>1. /\ p.on \in Nat /\ meter[t].at \in Nat /\ meter[t].n \in Nat
          /\ meter[t].n <= Ceiling /\ Ceiling \in Nat
          /\ Accounted(meter[t], p.on, total, late)
      BY CeilingType DEF AccountsTyped, Tables, CountRow, MetersInv, MeterSound
    <3>2. total \in Nat /\ late \in Nat
      BY MeterParts, FS_CardinalityType DEF MetersInv
    <3> HIDE DEF total, late
    <3>3. product \in Nat /\ Ceiling * (1 + late) = product + Ceiling
      BY <3>1, <3>2
    <3>4. total <= product + Ceiling
      <4>1. total <= product + (IF meter[t].at = p.on THEN meter[t].n
                                ELSE IF meter[t].at > p.on THEN Ceiling ELSE 0)
        BY <3>1 DEF Accounted
      <4> HIDE DEF product
      <4> QED BY <3>1, <3>2, <3>3, <4>1
    <3> QED BY <3>3, <3>4 DEF total, late
  <2> QED BY <2>1 DEF ModelsInv, Sound
<1>2. ApiInit => ModelsInv /\ MetersInv
  BY InitModels, InitMeters DEF ApiInit
<1> QED BY <1>1, <1>2, AccountsCorrect, StepModels, StepMeters, PTL DEF ApiSpec, apiVars

=============================================================================
