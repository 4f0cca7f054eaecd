------------------------------ MODULE Campaigns ------------------------------
(***************************************************************************)
(* The campaigns table and the requests that write it.                     *)
(*                                                                         *)
(* POST /campaigns and POST /campaigns/nl count the caller's campaigns,    *)
(* make an id that is free and insert the row; PUT /campaigns/{id}/yaml    *)
(* looks at the owner and writes; DELETE stamps the row; a crawl run loads *)
(* the configuration and writes it back as its first step; `gtm nl` makes  *)
(* an id of its own.  Each statement commits by itself, so every handler   *)
(* is several actions, and what it read may be old when it writes.         *)
(***************************************************************************)
EXTENDS Integers, FiniteSets

CONSTANTS
  Tenants,       \* signed-in accounts
  Masters,       \* those exempt from the free quotas (UNLIMITED_EMAILS)
  Operator,      \* the caller without an account: CLI, auth disabled
  Names,         \* the slugs of the names campaigns are given
  MaxSuffix,     \* bound: ids made of one slug
  Files,         \* ids of the shipped example campaigns
  Legacy,        \* ids of rows from before accounts: live, without owner
  MaxCampaigns,  \* FREE_MAX_CAMPAIGNS
  NlLimit,       \* the daily limit of the resource "nl"
  Parallel,      \* bound: creations of one caller under way at once
  Requests       \* bound: the requests made

Ids == Names \X (1..MaxSuffix)
Callers == Tenants \cup {Operator}

ASSUME CallersAssumption ==
  /\ Operator \notin Tenants /\ Masters \subseteq Tenants
  /\ "none" \notin Callers
ASSUME IdsAssumption ==
  /\ IsFiniteSet(Names) /\ "none" \notin Names
  /\ MaxSuffix \in Nat \ {0}
  /\ Files \subseteq Ids /\ Legacy \subseteq Ids \ Files
ASSUME QuotaAssumption ==
  MaxCampaigns \in Nat \ {0} /\ NlLimit \in Nat /\ Parallel \in Nat \ {0}
ASSUME RequestsAssumption == IsFiniteSet(Requests)

VARIABLES
  rows,    \* the campaigns table
  hidden,  \* the hidden_campaigns table
  used,    \* how often each caller parsed a text today
  req,     \* the requests
  racers,  \* observation: the requests under way when a row got its owner
  posted   \* observation: the rows whose owner a POST made

vars == <<rows, hidden, used, req, racers, posted>>

-----------------------------------------------------------------------------
(* Rows.  A configuration is known by who wrote it in which request.       *)

None == "none"
Shipped == "shipped"

Config == [author : Callers, from : Requests \cup {Shipped}]
Row == [owner : Tenants \cup {None}, config : Config, deleted : BOOLEAN]
NoConfig == [author |-> None, from |-> Shipped]
NoRow == [owner |-> None, config |-> NoConfig, deleted |-> TRUE]

Owner(c) == IF c = Operator THEN None ELSE c

Exists(i) == rows[i] # NoRow
Live(i) == Exists(i) /\ ~rows[i].deleted

\* campaign_owner: of a live row.
OwnerOf(i) == IF Live(i) THEN rows[i].owner ELSE None

\* list_campaigns, all_campaign_ids.
Listed(c) == {i \in Ids : Live(i) /\ (c = Operator \/ rows[i].owner \in {c, None})}

\* gtm nl looks at the live ones only.
LiveIds == {i \in Ids : Live(i)}
AllIds == {i \in Ids : Exists(i)}

\* Faulty variant: a rewritten row is live again.
UpsertRevives(i, config, owner) ==
  [rows EXCEPT ![i] = [owner |-> IF rows[i].owner # None THEN rows[i].owner ELSE owner,
                       config |-> config, deleted |-> FALSE]]

\* upsert_campaign: the first owner is kept, and so is the deletion.
Upsert(i, config, owner) ==
  [rows EXCEPT ![i] = [owner |-> IF rows[i].owner # None THEN rows[i].owner ELSE owner,
                       config |-> config, deleted |-> Exists(i) /\ rows[i].deleted]]

-----------------------------------------------------------------------------
(* Requests.                                                               *)

Kinds == {"create", "nl", "put", "delete", "run", "cli"}
Creations == {"create", "nl"}
NoId == <<None, 0>>

Request == [pc : {"idle", "begun", "counted", "named", "allowed", "loaded",
                  "done", "refused"},
            kind : Kinds \cup {None}, caller : Callers, name : Names \cup {None},
            id : Ids \cup {NoId}, config : Config \cup {NoConfig}]

Idle == [pc |-> "idle", kind |-> None, caller |-> Operator, name |-> None,
         id |-> NoId, config |-> NoConfig]

UnderWay(r) == req[r].pc \notin {"idle", "done", "refused"}
Limited(c) == c \in Tenants \ Masters

\* The creations of a caller that may still insert a row.
Creating(c) == {r \in Requests : UnderWay(r) /\ req[r].caller = c
                                  /\ req[r].kind \in Creations}
PastGate(c) == {r \in Creating(c) : req[r].pc \in {"counted", "named"}}

\* slugify_campaign_id: the slug, or the slug with the first free number.
Free(name, taken) == {n \in 1..MaxSuffix : <<name, n>> \notin taken}
IsSlug(i, name, taken) ==
  i[1] = name /\ i[2] \in Free(name, taken) /\ \A n \in Free(name, taken) : i[2] <= n

Go(r, pc) == req' = [req EXCEPT ![r].pc = pc]

\* The answer is given; what the handler had read is forgotten.
End(r, pc) == req' = [req EXCEPT ![r] = [Idle EXCEPT !.pc = pc]]

\* Writing a row: who was under way when it got its owner is noted down.
Save(r, config, owner) ==
  LET i == req[r].id IN
    /\ rows' = Upsert(i, config, owner)
    /\ racers' = IF rows[i].owner = None /\ owner # None
                 THEN [racers EXCEPT ![i] = {q \in Requests : UnderWay(q)}]
                 ELSE racers

Init ==
  /\ rows = [i \in Ids |-> IF i \in Legacy
                           THEN [owner |-> None, deleted |-> FALSE,
                                 config |-> [author |-> Operator, from |-> Shipped]]
                           ELSE NoRow]
  /\ hidden = {}
  /\ used = [c \in Tenants |-> 0]
  /\ req = [r \in Requests |-> Idle]
  /\ racers = [i \in Ids |-> {}]
  /\ posted = {}

-----------------------------------------------------------------------------
(* POST /campaigns and POST /campaigns/nl.                                 *)

BeginCreate(r, kind, c, name) ==
  /\ req[r].pc = "idle"
  /\ Cardinality(Creating(c)) < Parallel
  /\ req' = [req EXCEPT ![r] = [Idle EXCEPT !.pc = "begun", !.kind = kind,
                                            !.caller = c, !.name = name]]
  /\ UNCHANGED <<rows, hidden, used, racers, posted>>

\* Faulty variant: one campaign too many.
WithinQuotaOrAt(c) == Limited(c) => Cardinality(Listed(c)) <= MaxCampaigns

\* _own_campaign_count against FREE_MAX_CAMPAIGNS.
WithinQuota(c) == Limited(c) => Cardinality(Listed(c)) < MaxCampaigns

\* The quota, and for a text the daily limit of parses (check_usage).
Count(r) ==
  /\ req[r].pc = "begun"
  /\ LET c == req[r].caller
         metered == req[r].kind = "nl" /\ Limited(c)
     IN IF ~WithinQuota(c) \/ (metered /\ used[c] >= NlLimit)
        THEN End(r, "refused") /\ UNCHANGED used
        ELSE /\ Go(r, "counted")
             /\ used' = IF metered THEN [used EXCEPT ![c] = @ + 1] ELSE used
  /\ UNCHANGED <<rows, hidden, racers, posted>>

MakeId(r) ==
  /\ req[r].pc = "counted"
  /\ \E i \in Ids : /\ IsSlug(i, req[r].name, AllIds \cup Files)
                   /\ req' = [req EXCEPT ![r].pc = "named", ![r].id = i]
  /\ UNCHANGED <<rows, hidden, used, racers, posted>>

\* The configuration does not validate, or the text cannot be parsed.
RejectConfig(r) ==
  /\ req[r].pc = "named" /\ req[r].kind \in Creations
  /\ End(r, "refused")
  /\ UNCHANGED <<rows, hidden, used, racers, posted>>

Insert(r) ==
  /\ req[r].pc = "named" /\ req[r].kind \in Creations
  /\ Save(r, [author |-> req[r].caller, from |-> r], Owner(req[r].caller))
  /\ posted' = IF rows[req[r].id].owner = None /\ req[r].caller \in Tenants
               THEN posted \cup {req[r].id} ELSE posted
  /\ End(r, "done")
  /\ UNCHANGED <<hidden, used>>

-----------------------------------------------------------------------------
(* `gtm nl`: it knows the ids of the live rows only.                       *)

BeginCli(r, name) ==
  /\ req[r].pc = "idle"
  /\ \E i \in Ids :
       /\ IsSlug(i, name, LiveIds)
       /\ req' = [req EXCEPT ![r] = [Idle EXCEPT !.pc = "named", !.kind = "cli", !.id = i]]
  /\ UNCHANGED <<rows, hidden, used, racers, posted>>

CliInsert(r) ==
  /\ req[r].pc = "named" /\ req[r].kind = "cli"
  /\ Save(r, [author |-> Operator, from |-> r], None)
  /\ End(r, "done")
  /\ UNCHANGED <<hidden, used, posted>>

-----------------------------------------------------------------------------
(* PUT /campaigns/{id}/yaml.  The hosted app refuses the shipped examples. *)

\* Faulty variant: nobody is refused.
MayWriteAny(c, i) == TRUE
MayWrite(c, i) == OwnerOf(i) \in {None, Owner(c)}

CheckPut(r, c, i) ==
  /\ req[r].pc = "idle"
  /\ IF i \notin Files /\ MayWrite(c, i)
     THEN req' = [req EXCEPT ![r] = [Idle EXCEPT !.pc = "allowed", !.kind = "put",
                                                 !.caller = c, !.id = i]]
     ELSE End(r, "refused")
  /\ UNCHANGED <<rows, hidden, used, racers, posted>>

Put(r) ==
  /\ req[r].pc = "allowed" /\ req[r].kind = "put"
  /\ Save(r, [author |-> req[r].caller, from |-> r], Owner(req[r].caller))
  /\ End(r, "done")
  /\ UNCHANGED <<hidden, used, posted>>

-----------------------------------------------------------------------------
(* DELETE /campaigns/{id}.                                                 *)

\* _require_access: the operator and everyone on a shared row pass.
MayReach(c, i) ==
  c = Operator \/ i \in Files \/ (Live(i) /\ rows[i].owner \in {None, c})

CheckDelete(r, c, i) ==
  /\ req[r].pc = "idle"
  /\ MayReach(c, i)
  /\ req' = [req EXCEPT ![r] = [Idle EXCEPT !.pc = "allowed", !.kind = "delete",
                                            !.caller = c, !.id = i]]
  /\ UNCHANGED <<rows, hidden, used, racers, posted>>

\* A file is hidden; a live row is stamped, any other is "not found".
Delete(r) ==
  /\ req[r].pc = "allowed" /\ req[r].kind = "delete"
  /\ LET i == req[r].id IN
       \/ /\ i \in Files
          /\ hidden' = hidden \cup {i} /\ UNCHANGED rows /\ End(r, "done")
       \/ /\ i \notin Files /\ Live(i)
          /\ rows' = [rows EXCEPT ![i].deleted = TRUE]
          /\ UNCHANGED hidden /\ End(r, "done")
       \/ /\ i \notin Files /\ ~Live(i)
          /\ UNCHANGED <<rows, hidden>> /\ End(r, "refused")
  /\ UNCHANGED <<used, racers, posted>>

-----------------------------------------------------------------------------
(* A crawl run: resolve_campaign in the runner, then Pipeline.run's upsert *)
(* of what it loaded.  A run of a shipped example inserts a shared row.    *)

Load(r, i) ==
  /\ req[r].pc = "idle"
  /\ i \in Files \/ Live(i)
  /\ req' = [req EXCEPT ![r] = [Idle EXCEPT !.pc = "loaded", !.kind = "run", !.id = i,
               !.config = IF i \in Files THEN [author |-> Operator, from |-> Shipped]
                                         ELSE rows[i].config]]
  /\ UNCHANGED <<rows, hidden, used, racers, posted>>

StartRun(r) ==
  /\ req[r].pc = "loaded"
  /\ Save(r, req[r].config, None)
  /\ End(r, "done")
  /\ UNCHANGED <<hidden, used, posted>>

-----------------------------------------------------------------------------

Create(r) ==
  \/ \E kind \in Creations, c \in Callers, name \in Names : BeginCreate(r, kind, c, name)
  \/ Count(r) \/ MakeId(r) \/ RejectConfig(r) \/ Insert(r)
Cli(r) == (\E name \in Names : BeginCli(r, name)) \/ CliInsert(r)
Edit(r) == (\E c \in Callers, i \in Ids : CheckPut(r, c, i)) \/ Put(r)
Remove(r) == (\E c \in Callers, i \in Ids : CheckDelete(r, c, i)) \/ Delete(r)
Run(r) == (\E i \in Ids : Load(r, i)) \/ StartRun(r)

Next == \E r \in Requests : Create(r) \/ Cli(r) \/ Edit(r) \/ Remove(r) \/ Run(r)

Spec == Init /\ [][Next]_vars

-----------------------------------------------------------------------------
(* Properties.                                                             *)

\* Every variable has the shape the tables and the handlers give it.
TypeOK ==
  /\ rows \in [Ids -> Row \cup {NoRow}]
  /\ hidden \subseteq Files
  /\ used \in [Tenants -> 0..NlLimit]
  /\ req \in [Requests -> Request]
  /\ racers \in [Ids -> SUBSET Requests]
  /\ posted \subseteq Ids

\* The configuration of a live campaign is its owner's or the operator's, or
\* was written by a request that was already under way when the campaign got
\* its owner: creations that chose the same id, a PUT that found none.
StrangersNeedARace ==
  \A i \in Ids : Live(i) /\ rows[i].owner # None =>
    \/ rows[i].config.author \in {rows[i].owner, Operator}
    \/ rows[i].config.from \in racers[i]

\* Counting and inserting are two statements: a free account may pass its
\* quota of POSTed campaigns, but only by the creations it runs at once.
QuotaOverrunBounded ==
  \A c \in Tenants \ Masters :
    Cardinality({i \in posted : Live(i) /\ rows[i].owner = c})
      <= MaxCampaigns - 1 + Parallel

\* A run's upsert, an edit or a racing creation never changes the owner of a
\* row, and no write brings a deleted campaign back: its row stays as deleted.
OwnersAndDeletionsLast ==
  [][\A i \in Ids :
       /\ rows[i].owner # None => rows'[i].owner = rows[i].owner
       /\ Exists(i) /\ rows[i].deleted => Exists(i)' /\ rows'[i].deleted]_vars

=============================================================================
