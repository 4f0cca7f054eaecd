----------------------------- MODULE Connection -----------------------------
(***************************************************************************)
(* The database connection layer (storage/database.py, class Database):    *)
(* what a process sees of Postgres when connections break.                 *)
(*                                                                         *)
(* Every process opens a connection, ensures the schema under an advisory  *)
(* lock, and then calls methods one at a time (the pipeline's workers      *)
(* through _db_call's lock).  A method that writes runs one statement with *)
(* _execute, which reconnects and runs it again when the connection is     *)
(* found broken, and ends with _commit.  A dry run never commits.          *)
(*                                                                         *)
(* The server ends a connection at any moment: what it had not committed   *)
(* is gone, and so are its locks; the process finds out at its next use.   *)
(***************************************************************************)
EXTENDS Integers, FiniteSets

CONSTANTS
  Processes,
  DryRuns,   \* processes with a dry_run Database
  Writes,    \* 1..n: the writes of a process, in order
  MaxDrops   \* bound: connections that break

ASSUME ConnectionAssumption ==
  /\ DryRuns \subseteq Processes
  /\ Writes \subseteq Nat
  /\ MaxDrops \in Nat

VARIABLES
  pc,        \* where each process is
  next,      \* its next write
  up,        \* processes whose connection is alive
  retried,   \* processes whose _execute is running its statement again
  pending,   \* writes of each connection's open transaction
  lock,      \* processes whose transaction has the advisory lock
  tables,    \* [Processes \X Writes -> how often a write has been committed]
  result,    \* what the method of each write told its caller
  unguarded, \* observation: processes that lost the lock before their DDL
  drops      \* connections that broke

dbVars == <<pc, next, up, retried, pending, lock, tables, result, unguarded, drops>>

AllWrites == Processes \X Writes

DbInit ==
  /\ pc = [p \in Processes |-> "start"]
  /\ next = [p \in Processes |-> 1]
  /\ up = {} /\ retried = {}
  /\ pending = [p \in Processes |-> {}]
  /\ lock = {}
  /\ tables = [w \in AllWrites |-> 0]
  /\ result = [w \in AllWrites |-> "none"]
  /\ unguarded = {} /\ drops = 0

Reach(p, place) == pc' = [pc EXCEPT ![p] = place]
At(p, place) == pc[p] = place

-----------------------------------------------------------------------------
(* Statements.                                                             *)

Statements == {"lock", "schema", "write"}

\* The statement succeeds on a connection that is alive.
Execute(p, statement) ==
  /\ At(p, statement) /\ p \in up
  /\ retried' = retried \ {p}

\* _execute finds the connection broken and gets a new one; a dry run does not.
Reconnect(p) ==
  /\ pc[p] \in Statements /\ p \notin up
  /\ p \notin retried /\ p \notin DryRuns
  /\ up' = up \cup {p} /\ retried' = retried \cup {p}
  /\ unguarded' = IF At(p, "schema") THEN unguarded \cup {p} ELSE unguarded
  /\ UNCHANGED <<pc, next, pending, lock, tables, result, drops>>

\* The method raises.  Its caller goes on with the next one; a constructor that
\* raises leaves no Database.
Raise(p) ==
  /\ retried' = retried \ {p}
  /\ IF pc[p] \in {"write", "commit"}
     THEN /\ Reach(p, "idle")
          /\ result' = [result EXCEPT ![<<p, next[p]>>] = "raised"]
          /\ next' = [next EXCEPT ![p] = @ + 1]
     ELSE Reach(p, "end") /\ UNCHANGED <<result, next>>

\* The statement raises: in a dry run, after three attempts to reconnect, or
\* when the new connection breaks as well.
StatementRaises(p) ==
  /\ pc[p] \in Statements /\ p \notin up
  /\ Raise(p)
  /\ UNCHANGED <<up, pending, lock, tables, unguarded, drops>>

-----------------------------------------------------------------------------
(* Database.__init__                                                       *)

Connect(p) ==
  /\ At(p, "start")
  /\ Reach(p, "lock") /\ up' = up \cup {p}
  /\ UNCHANGED <<next, retried, pending, lock, tables, result, unguarded, drops>>

\* Faulty variant: the lock is not waited for.
TakeLockAnyway(p) ==
  /\ Execute(p, "lock")
  /\ lock' = lock \cup {p} /\ Reach(p, "schema")
  /\ UNCHANGED <<next, up, pending, tables, result, unguarded, drops>>

\* pg_advisory_xact_lock waits for the transaction that has the lock.
TakeLock(p) ==
  /\ Execute(p, "lock") /\ lock = {}
  /\ lock' = {p} /\ Reach(p, "schema")
  /\ UNCHANGED <<next, up, pending, tables, result, unguarded, drops>>

\* The DDL takes a while.
RunSchema(p) ==
  /\ Execute(p, "schema")
  /\ Reach(p, "ddl")
  /\ UNCHANGED <<next, up, pending, lock, tables, result, unguarded, drops>>

\* Faulty variant: the lock is the session's, and outlives the transaction.
EndSchemaKeepsLock(p) ==
  /\ At(p, "ddl")
  /\ lock' = lock /\ Reach(p, IF p \in up THEN "idle" ELSE "end")
  /\ UNCHANGED <<next, up, retried, pending, tables, result, unguarded, drops>>

\* conn.commit; when the connection is broken, during the DDL or now, the
\* constructor raises.
EndSchema(p) ==
  /\ At(p, "ddl")
  /\ IF p \in up THEN lock' = lock \ {p} /\ Reach(p, "idle")
     ELSE lock' = lock /\ Reach(p, "end")
  /\ UNCHANGED <<next, up, retried, pending, tables, result, unguarded, drops>>

-----------------------------------------------------------------------------
(* The methods that write.                                                 *)

CallMethod(p) ==
  /\ At(p, "idle") /\ next[p] \in Writes
  /\ Reach(p, "write")
  /\ UNCHANGED <<next, up, retried, pending, lock, tables, result, unguarded, drops>>

Write(p) ==
  /\ Execute(p, "write")
  /\ pending' = [pending EXCEPT ![p] = @ \cup {<<p, next[p]>>}]
  /\ Reach(p, "commit")
  /\ UNCHANGED <<next, up, lock, tables, result, unguarded, drops>>

Land(writes) == tables' = [w \in AllWrites |-> tables[w] + IF w \in writes THEN 1 ELSE 0]

\* The method returns to its caller.
MethodReturns(p) ==
  /\ Reach(p, "idle")
  /\ result' = [result EXCEPT ![<<p, next[p]>>] = "ok"]
  /\ next' = [next EXCEPT ![p] = @ + 1]
  /\ retried' = retried

\* Faulty variant: _commit gets a new connection and says nothing.
CommitQuietly(p) ==
  /\ At(p, "commit") /\ p \notin up \cup DryRuns
  /\ up' \in {up, up \cup {p}}
  /\ MethodReturns(p)
  /\ UNCHANGED <<pending, lock, tables, unguarded, drops>>

\* _commit on a broken connection reconnects and raises, as it does when it
\* cannot reconnect.
CommitRaises(p) ==
  /\ At(p, "commit") /\ p \notin up \cup DryRuns
  /\ up' \in {up, up \cup {p}}
  /\ Raise(p)
  /\ UNCHANGED <<pending, lock, tables, unguarded, drops>>

\* A dry run's _commit does nothing, its close rolls everything back.
CommitNothing(p) ==
  /\ At(p, "commit") /\ p \in DryRuns
  /\ MethodReturns(p)
  /\ UNCHANGED <<up, pending, lock, tables, unguarded, drops>>

Commit(p) ==
  /\ At(p, "commit") /\ p \in up \ DryRuns
  /\ Land(pending[p])
  /\ pending' = [pending EXCEPT ![p] = {}]
  /\ MethodReturns(p)
  /\ UNCHANGED <<up, lock, unguarded, drops>>

\* The server commits and the connection breaks before it can say so.
CommitUnheard(p) ==
  /\ At(p, "commit") /\ p \in up \ DryRuns /\ drops < MaxDrops
  /\ drops' = drops + 1
  /\ Land(pending[p])
  /\ pending' = [pending EXCEPT ![p] = {}]
  /\ up' = up \ {p}
  /\ UNCHANGED <<pc, next, retried, lock, result, unguarded>>

-----------------------------------------------------------------------------
\* The server ends a connection: a pooler's recycle, a restart, a deadlock.
Drop(p) ==
  /\ p \in up /\ drops < MaxDrops
  /\ drops' = drops + 1
  /\ up' = up \ {p}
  /\ pending' = [pending EXCEPT ![p] = {}]
  /\ lock' = lock \ {p}
  /\ UNCHANGED <<pc, next, retried, tables, result, unguarded>>

Step(p) ==
  \/ Connect(p) \/ TakeLock(p) \/ RunSchema(p) \/ EndSchema(p)
  \/ Reconnect(p) \/ StatementRaises(p)
  \/ CallMethod(p) \/ Write(p)
  \/ Commit(p) \/ CommitNothing(p) \/ CommitRaises(p)

DbNext == \E p \in Processes : Step(p) \/ CommitUnheard(p) \/ Drop(p)

\* Every process goes on: a statement, a commit and an attempt to reconnect end.
Fairness == \A p \in Processes : WF_dbVars(Step(p))

DbSpec == DbInit /\ [][DbNext]_dbVars /\ Fairness

-----------------------------------------------------------------------------
(* Properties.                                                             *)

DbTypeOK ==
  /\ pc \in [Processes -> Statements \cup {"start", "ddl", "idle", "commit", "end"}]
  /\ next \in [Processes -> Nat \ {0}]
  /\ up \subseteq Processes /\ retried \subseteq Processes /\ lock \subseteq Processes
  /\ pending \in [Processes -> SUBSET AllWrites]
  /\ tables \in [AllWrites -> Nat]
  /\ result \in [AllWrites -> {"none", "ok", "raised"}]
  /\ unguarded \subseteq Processes /\ drops \in 0..MaxDrops

\* A method that returned has its write in the tables, and no write is there
\* twice, however often its statement was run again; a dry run leaves none.
\* ("A silent return here would make every writer report success for data that
\* never landed.")
WritesLandOnce ==
  \A p \in Processes, i \in Writes :
    /\ tables[<<p, i>>] <= IF p \in DryRuns THEN 0 ELSE 1
    /\ result[<<p, i>>] = "ok" /\ p \notin DryRuns => tables[<<p, i>>] = 1

Promise == INSTANCE Storage

\* The layer keeps its promise step by step: writes land and methods answer in
\* the way of Storage, and an answer is never taken back.
KeepsPromise == Promise!Spec

\* Two processes create the schema at the same time only if one of them lost
\* its connection, and with it the lock, before the DDL was run again.
SchemaIsSerialised ==
  \A p, q \in Processes :
    p # q /\ p \in up /\ q \in up /\ At(p, "ddl") /\ At(q, "ddl")
      => p \in unguarded \/ q \in unguarded

\* Every process gets through: nobody waits for the lock of a dead connection,
\* and no method hangs.
EveryoneEnds ==
  \A p \in Processes : <>(At(p, "end") \/ (At(p, "idle") /\ next[p] \notin Writes))

=============================================================================
