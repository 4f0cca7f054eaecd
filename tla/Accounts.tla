------------------------------ MODULE Accounts -------------------------------
(***************************************************************************)
(* What the API keeps for each account beside its campaigns: API keys,     *)
(* mailboxes, preferences and usage limits, its do-not-contact list and    *)
(* the model that learns how it ranks leads.  Composed with Campaigns: a   *)
(* lead's campaign decides who may act on it, whose list a suppression     *)
(* goes to and whose model learns.                                         *)
(*                                                                         *)
(* Most handlers are one statement.  A toggle reads the mailbox and writes *)
(* the opposite; feedback logs the event, reads the model and writes back  *)
(* the updated one; a metered test reads the account's limit, takes the    *)
(* date and counts.                                                        *)
(***************************************************************************)
EXTENDS Campaigns, UsageCounts

CONSTANTS
  KeyNames,   \* ALLOWED_KEYS
  Addresses,  \* of mailboxes
  Values,     \* addresses and domains not to contact
  Typed,      \* the numbers accounts type as a limit
  Default,    \* DEFAULT_LIMITS of a metered test
  Cap,        \* MAX_LIMITS of it
  Override,   \* GTM_DAILY_LIMIT_* of it, or Unset
  LastDay,    \* bound: the day that does not end
  Calls,      \* bound: the calls made
  Budget      \* bound: calls and campaign requests made together

Unset == -1

ASSUME LimitsAssumption ==
  /\ Default \in Nat \ {0} /\ Cap \in Nat /\ Default <= Cap
  /\ Override \in Nat \cup {Unset} /\ LastDay \in Nat
  /\ Typed \subseteq Int
ASSUME CallsAssumption == IsFiniteSet(Calls) /\ Budget \in Nat

VARIABLES
  keys,    \* user_api_keys: who has which
  boxes,   \* user_mailboxes
  prefs,   \* user_preferences: tier, daily limit, any other
  meter,   \* usage_counts: the tests of a key or a mailbox of each account
  stops,   \* suppressions: scope and value
  log,     \* lead_feedback: the events of each account
  model,   \* user_pref_model: the events in the weights, and n_updates
  call,    \* the calls
  today,   \* the date
  passed,  \* observation: the tests let through, whose, with which date and on
           \* which date's row
  actor    \* observation: the caller of the last step

metered == <<meter, passed, today>>
settings == <<keys, boxes, prefs, metered, stops, log, model>>
accountVars == <<settings, call, actor>>

-----------------------------------------------------------------------------

Box == [password : BOOLEAN, on : BOOLEAN, exists : BOOLEAN]
NoBox == [password |-> FALSE, on |-> FALSE, exists |-> FALSE]

\* The scope '' of the stops that hold for everyone: no account's id.
Shared == "shared"
ASSUME SharedAssumption == Shared \notin Tenants

Scope(c) == IF c = Operator THEN Shared ELSE c

PrefKeys == {"tier", "daily_limit", "other"}
NoModel == [learned |-> {}, n |-> 0]

Call == [pc : {"idle", "limited", "read", "logged", "fetched", "done"},
         caller : Callers, limit : Int, since : Nat,
         address : Addresses \cup {None}, on : BOOLEAN,
         learner : Tenants \cup {None}, model : [learned : SUBSET Calls, n : Nat]]
NoCall == [pc |-> "idle", caller |-> Operator, limit |-> Unset, since |-> 0,
           address |-> None, on |-> FALSE, learner |-> None, model |-> NoModel]

AccountsInit ==
  /\ keys = {} /\ stops = {} /\ log = {}
  /\ boxes = [t \in Tenants |-> [a \in Addresses |-> NoBox]]
  /\ prefs = [t \in Tenants |-> [k \in PrefKeys |-> Unset]]
  /\ meter = [t \in Tenants |-> NoCount] /\ passed = {} /\ today = 0
  /\ model = [t \in Tenants |-> NoModel]
  /\ call = [x \in Calls |-> NoCall]
  /\ actor = Operator

Answer(x) == call' = [call EXCEPT ![x] = [NoCall EXCEPT !.pc = "done"]]

\* A handler that is one statement; a signed-in account is required (401).
Once(x, c) ==
  /\ call[x].pc = "idle"
  /\ Answer(x)
  /\ actor' = c

-----------------------------------------------------------------------------
(* Usage limits and metered tests.                                         *)

Least(a, b) == IF a < b THEN a ELSE b
Most(a, b) == IF a > b THEN a ELSE b
Clamp(n) == Most(1, Least(n, Cap))

\* _limit: the account's own setting, clamped again when it is read; else the
\* override, as it is; else the default.
Limit(t) ==
  IF prefs[t]["daily_limit"] >= 0 THEN Clamp(prefs[t]["daily_limit"])
  ELSE IF Override # Unset THEN Override ELSE Default

SetLimit(x, t) ==
  /\ Once(x, t)
  /\ \E n \in Typed : prefs' = [prefs EXCEPT ![t]["daily_limit"] = Clamp(n)]
  /\ UNCHANGED <<keys, boxes, metered, stops, log, model>>

\* The keys the preferences endpoint does not write.
Reserved == {"tier", "daily_limit"}

SetPreference(x, t) ==
  /\ Once(x, t)
  /\ \E k \in PrefKeys \ Reserved, n \in Typed : prefs' = [prefs EXCEPT ![t][k] = n]
  /\ UNCHANGED <<keys, boxes, metered, stops, log, model>>

\* check_usage before a key or a mailbox is tried out: get_preferences, and
\* then the conditional upsert with the date taken in between.
BeginTest(x, t) ==
  /\ call[x].pc = "idle"
  /\ call' = [call EXCEPT ![x] = [NoCall EXCEPT !.pc = "limited", !.caller = t,
                                    !.limit = Limit(t), !.since = today]]
  /\ actor' = t
  /\ UNCHANGED settings

Test(x) ==
  LET t == call[x].caller
      room(day) == call[x].limit > 0 /\ HasRoom(meter[t], day, call[x].limit)
  IN /\ call[x].pc = "limited"
     /\ \E day \in call[x].since..today :
          \/ /\ room(day)
             /\ meter' = [meter EXCEPT ![t] = Added(@, day, 1)]
             /\ passed' = passed \cup
                  {[by |-> x, of |-> t, on |-> day, found |-> meter[t].at]}
          \/ ~room(day) /\ UNCHANGED <<meter, passed>>
     /\ Answer(x)
     /\ actor' = t
     /\ UNCHANGED <<keys, boxes, prefs, today, stops, log, model>>

\* Midnight changes no row.
Midnight ==
  /\ today < LastDay
  /\ today' = today + 1
  /\ actor' = Operator
  /\ UNCHANGED <<keys, boxes, prefs, meter, passed, stops, log, model, call>>

-----------------------------------------------------------------------------
(* API keys and mailboxes.                                                 *)

SaveKey(x, t) ==
  /\ Once(x, t)
  /\ \E k \in KeyNames : keys' = keys \cup {<<t, k>>}
  /\ UNCHANGED <<boxes, prefs, metered, stops, log, model>>

DeleteKey(x, t) ==
  /\ Once(x, t)
  /\ \E k \in KeyNames : keys' = keys \ {<<t, k>>}
  /\ UNCHANGED <<boxes, prefs, metered, stops, log, model>>

\* A new mailbox is switched on, a saved one keeps its switch; a blank
\* password overwrites the stored one.
SaveBox(x, t) ==
  /\ Once(x, t)
  /\ \E a \in Addresses, typed \in BOOLEAN :
       boxes' = [boxes EXCEPT ![t][a] =
         [password |-> typed, on |-> ~@.exists \/ @.on, exists |-> TRUE]]
  /\ UNCHANGED <<keys, prefs, metered, stops, log, model>>

DropBox(t, a) == [boxes EXCEPT ![t][a] = NoBox]

DeleteBox(x, t) ==
  /\ Once(x, t)
  /\ \E a \in Addresses : boxes' = DropBox(t, a)
  /\ UNCHANGED <<keys, prefs, metered, stops, log, model>>

\* toggle_user_mailbox: read the switch, write the opposite of what was read.
BeginToggle(x, t) ==
  /\ call[x].pc = "idle"
  /\ \E a \in Addresses :
       /\ boxes[t][a].exists
       /\ call' = [call EXCEPT ![x] = [NoCall EXCEPT !.pc = "read", !.caller = t,
                                         !.address = a, !.on = ~boxes[t][a].on]]
  /\ actor' = t
  /\ UNCHANGED settings

Toggle(x) ==
  /\ call[x].pc = "read"
  /\ LET t == call[x].caller  a == call[x].address IN
       /\ boxes' = IF boxes[t][a].exists THEN [boxes EXCEPT ![t][a].on = call[x].on]
                   ELSE boxes
       /\ actor' = t
  /\ Answer(x)
  /\ UNCHANGED <<keys, prefs, metered, stops, log, model>>

-----------------------------------------------------------------------------
(* The do-not-contact lists.                                               *)

AddStop(x, c) ==
  /\ Once(x, c)
  /\ \E v \in Values : stops' = stops \cup {<<Scope(c), v>>}
  /\ UNCHANGED <<keys, boxes, prefs, metered, log, model>>

\* Faulty variant: the value alone picks the rows.
LiftedByValue(c, v) == stops \ ({Shared} \cup Tenants) \X {v}

\* remove_suppression: an account lifts its own, the operator any.
Lifted(c, v) ==
  stops \ (IF c = Operator THEN ({Shared} \cup Tenants) \X {v} ELSE {<<c, v>>})

RemoveStop(x, c) ==
  /\ Once(x, c)
  /\ \E v \in Values : stops' = Lifted(c, v)
  /\ UNCHANGED <<keys, boxes, prefs, metered, log, model>>

-----------------------------------------------------------------------------
(* Feedback on a lead of campaign i.  The feedback endpoint learns for the *)
(* caller, a review or a suppression for the campaign's owner; without an  *)
(* account to learn for there is nothing to do.                            *)

Learner(c, i) == IF c = Operator THEN OwnerOf(i) ELSE c

BeginFeedback(x, c, i) ==
  /\ call[x].pc = "idle" /\ MayReach(c, i)
  /\ \E who \in {Learner(c, i), OwnerOf(i)} \ {None} :
       /\ log' = log \cup {<<who, x>>}
       /\ call' = [call EXCEPT ![x] = [NoCall EXCEPT !.pc = "logged", !.caller = c,
                                         !.learner = who]]
  /\ actor' = c
  /\ UNCHANGED <<keys, boxes, prefs, metered, stops, model>>

\* suppress: the lead's value goes to the owner's list before it learns.
SuppressLead(x, c, i) ==
  /\ Once(x, c) /\ MayReach(c, i)
  /\ \E v \in Values :
       stops' = stops \cup {<<IF OwnerOf(i) = None THEN Shared ELSE OwnerOf(i), v>>}
  /\ UNCHANGED <<keys, boxes, prefs, metered, log, model>>

FetchModel(x) ==
  /\ call[x].pc = "logged"
  /\ call' = [call EXCEPT ![x].pc = "fetched", ![x].model = model[call[x].learner]]
  /\ actor' = call[x].caller
  /\ UNCHANGED settings

\* Faulty variant: n_updates is incremented in the table, the weights are not.
StepInPlace(x, old, now) == [learned |-> old.learned \cup {x}, n |-> now.n + 1]

\* bandit update of the weights that were read, and their number plus one.
Step(x, old, now) == [learned |-> old.learned \cup {x}, n |-> old.n + 1]

WriteModel(x) ==
  /\ call[x].pc = "fetched"
  /\ LET t == call[x].learner IN
       model' = [model EXCEPT ![t] = Step(x, call[x].model, model[t])]
  /\ Answer(x)
  /\ actor' = call[x].caller
  /\ UNCHANGED <<keys, boxes, prefs, metered, stops, log>>

-----------------------------------------------------------------------------
Settings(x) ==
  \E t \in Tenants :
    \/ SetLimit(x, t) \/ SetPreference(x, t) \/ BeginTest(x, t)
    \/ SaveKey(x, t) \/ DeleteKey(x, t)
    \/ SaveBox(x, t) \/ DeleteBox(x, t) \/ BeginToggle(x, t)

Lists(x) == \E c \in Callers : AddStop(x, c) \/ RemoveStop(x, c)

OnLeads(x) ==
  \E c \in Callers, i \in Ids : BeginFeedback(x, c, i) \/ SuppressLead(x, c, i)

AccountsNext ==
  \/ \E x \in Calls : \/ Settings(x) \/ Lists(x) \/ OnLeads(x)
                      \/ Test(x) \/ Toggle(x) \/ FetchModel(x) \/ WriteModel(x)
  \/ Midnight

\* Both share the budget of requests.
Begun == Cardinality({r \in Requests : req[r].pc # "idle"})
         + Cardinality({x \in Calls : call[x].pc # "idle"})

ApiInit == Init /\ AccountsInit
ApiNext ==
  /\ \/ Next /\ UNCHANGED accountVars
     \/ AccountsNext /\ UNCHANGED vars
  /\ Begun' <= Budget

ApiSpec == ApiInit /\ [][ApiNext]_<<vars, accountVars>>

-----------------------------------------------------------------------------
(* Properties.                                                             *)

\* A call reaches the rows of its caller only: no key, mailbox, preference or
\* stop of another account changes, the shared stops are lifted by nobody but
\* the operator, and nobody writes a tier.  Suppressing or judging a lead of a
\* shared campaign may add a stop to the owner's list and teach its model.
OwnRowsOnly ==
  [][\A u \in Tenants :
       /\ prefs'[u]["tier"] = prefs[u]["tier"]
       /\ u # actor' =>
            /\ boxes'[u] = boxes[u] /\ prefs'[u] = prefs[u]
            /\ \A k \in KeyNames : <<u, k>> \in keys' <=> <<u, k>> \in keys
       /\ actor' # Operator /\ u # actor' =>
            \A v \in Values, s \in {u, Shared} : <<s, v>> \in stops => <<s, v>> \in stops'
    ]_<<vars, accountVars>>

\* The highest limit a test is ever given.
Ceiling == Most(Cap, Override)

\* The tests of an account let through with a date, and those whose statement
\* landed with an older date than another one had left on the row.
PassedOn(t, day) == {p \in passed : p.of = t /\ p.on = day}
Late(t) == {p \in passed : p.of = t /\ p.on < p.found}

\* Concurrent feedback may lose updates, but the weights and n_updates stay a
\* pair: the model counts exactly the events in its weights, each of them
\* logged for this account.  And whatever limit was typed, or changed while a
\* test was under way, no more tests get through with one date than the ceiling,
\* and the ceiling once more for every one that landed with a date gone by.
ModelsAndMetersAgree ==
  \A t \in Tenants :
    /\ model[t].n = Cardinality(model[t].learned)
    /\ \A x \in model[t].learned : <<t, x>> \in log
    /\ \A p \in passed :
         Cardinality(PassedOn(t, p.on)) <= Ceiling * (1 + Cardinality(Late(t)))

=============================================================================
