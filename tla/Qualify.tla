------------------------------ MODULE Qualify ------------------------------
(***************************************************************************)
(* What a worker makes of one company: Pipeline.process_company            *)
(* (pipeline.py) from the crawl of its site to the row in the leads table. *)
(*                                                                         *)
(* The worker crawls the site, which may answer from another domain,       *)
(* classifies the company, picks a contact, perhaps guesses an address and *)
(* has it confirmed, scores the company, looks the contact up in the       *)
(* suppressions, reads the row of an earlier run and saves the lead.  It   *)
(* awaits the network or the database between these steps, and operators   *)
(* change the suppressions and the sequencer the rows meanwhile.  What     *)
(* several workers of one run do to each other is module LeadRun's.        *)
(*                                                                         *)
(* The company's own answers (its pages' texts, what they publish, the     *)
(* reviews, the mail servers' replies) are arbitrary and may be different  *)
(* in the next run.                                                        *)
(***************************************************************************)
EXTENDS Evidence

CONSTANTS
  None,
  Companies, Hosts,
  Record,    \* what discovery knows of a company
  Finds,     \* [Companies -> SUBSET Hosts \cup {None}], the website finder's results
  Answers,   \* [Hosts -> pages]: where a site's home page is found, and what it is
  Own,       \* [Companies -> SUBSET Hosts], the hosts named like the company
  Markets,   \* _NOT_OWN_SITE
  CatchAll,  \* hosts whose mail server takes any address
  People,    \* pairs of a company and a host that has the guessed mailbox
  Texts, Totals, \* the bundles and scores considered
  Bannable,  \* what operators suppress: hosts and addresses
  MaxRuns, MaxActs \* bounds: runs, and acts of the operators and the sequencer

ASSUME QualifyAssumption ==
  /\ Record \in [Companies -> [site : Hosts \cup {None}, mail : BOOLEAN, rep : BOOLEAN,
                               tender : BOOLEAN, phone : BOOLEAN]]
  /\ \A c \in Companies : Own[c] \subseteq Hosts /\ Finds[c] \subseteq Hosts \cup {None}
  /\ Markets \subseteq Hosts /\ CatchAll \subseteq Hosts
  /\ \A h \in Hosts : \A p \in Answers[h] :
       p.at \in Hosts /\ p.page \in {"site", "rejected", "down"}
  /\ Totals \subseteq 0..100 /\ {MaxRuns, MaxActs} \subseteq Nat

VARIABLES
  runs,     \* runs started
  todo,     \* companies of the run not yet processed
  seen,     \* seen_keys
  job,      \* the worker's local variables, or Idle
  probed,   \* the verifier's _catch_all cache
  rows,     \* the leads table
  banned,   \* the suppressions table
  standing, \* observation: what has been suppressed ever since the job began
  dropped,  \* observation: keys for which a company was dropped as a duplicate
  acts      \* acts of the operators and the sequencer

worker == <<todo, seen, job, dropped>>
outside == <<banned, standing, acts>>
vars == <<runs, worker, probed, rows, outside>>

-----------------------------------------------------------------------------
Idle == [stage |-> "idle"]
At(stage) == job.stage = stage

\* company_key: the domain, or the company's own name and city.
KeyOf(c, domain) == IF domain = None THEN <<"name", c>> ELSE <<"domain", domain>>

\* An address published on a host, one of the discovery record, one made up for
\* a person at a host.
Published(h) == <<"site", h>>
Recorded(c) == <<"record", c>>
Guessed(h) == <<"guess", h>>

\* Operators may have suppressed anything before the first run.
Init ==
  /\ runs = 0 /\ todo = {} /\ seen = {} /\ job = Idle
  /\ probed = [h \in Hosts |-> "unknown"]
  /\ rows = {} /\ dropped = {} /\ acts = 0
  /\ banned \in SUBSET Bannable /\ standing = {}

\* A run starts in a process of its own.
StartRun ==
  /\ At("idle") /\ todo = {} /\ runs < MaxRuns
  /\ runs' = runs + 1 /\ todo' = Companies
  /\ seen' = {} /\ dropped' = {} /\ probed' = [h \in Hosts |-> "unknown"]
  /\ UNCHANGED <<job, rows, outside>>

\* A key another company of this run has makes the company a duplicate.
Begin(c) ==
  /\ At("idle") /\ c \in todo
  /\ todo' = todo \ {c}
  /\ standing' = banned
  /\ \E site \in IF Record[c].site = None THEN Finds[c] ELSE {Record[c].site} :
       LET key == KeyOf(c, site)
       IN \/ /\ key \in seen
             /\ dropped' = dropped \cup {key}
             /\ UNCHANGED <<seen, job>>
          \/ /\ key \notin seen
             /\ seen' = seen \cup {key}
             /\ job' = [stage |-> "crawl", company |-> c, domain |-> site, key |-> key]
             /\ dropped' = dropped
  /\ UNCHANGED <<runs, probed, rows, banned, acts>>

-----------------------------------------------------------------------------
(* The crawl.                                                              *)

\* SiteCrawler.crawl and integrity.check: a page on a marketplace is no site of
\* the company, and whatever is wrong with a page, a redirect is reported.
Snapshots(site) ==
  IF site = None THEN {[reachable |-> FALSE, moved |-> FALSE, domain |-> None]}
  ELSE {[reachable |-> p.page = "site" /\ (p.at = site \/ p.at \notin Markets),
         moved |-> p.page # "down" /\ p.at # site,
         domain |-> IF p.page = "down" THEN site ELSE p.at] : p \in Answers[site]}

\* The lead belongs to the domain that answers, and so does its key.
Crawl ==
  /\ At("crawl")
  /\ \E s \in Snapshots(job.domain) :
       LET key == IF s.moved THEN KeyOf(job.company, s.domain) ELSE job.key
       IN \/ /\ key # job.key /\ key \in seen
             /\ job' = Idle /\ seen' = seen
             /\ dropped' = dropped \cup {key}
          \/ /\ key = job.key \/ key \notin seen
             /\ seen' = (seen \ {job.key}) \cup {key}
             /\ job' = [stage |-> "assess", company |-> job.company, domain |-> s.domain,
                        key |-> key, old |-> job.key, reachable |-> s.reachable,
                        mismatch |-> s.reachable /\ s.domain \notin Own[job.company]]
             /\ dropped' = dropped
  /\ UNCHANGED <<runs, todo, probed, rows, outside>>

-----------------------------------------------------------------------------
(* Classification and contact.                                             *)

\* A mismatched site's addresses are somebody else's.
TrustsSite(j) == j.reachable /\ ~j.mismatch

\* choose_contact, then the record's address where the site has none.
Contacts(j) ==
  LET ofRecord == IF Record[j.company].mail THEN Recorded(j.company) ELSE None
  IN (IF TrustsSite(j) THEN {Published(j.domain)} ELSE {}) \cup {ofRecord}

\* Somebody named on the site, else the representative of the record.
Names(j) ==
  {Record[j.company].rep} \cup (IF TrustsSite(j) THEN {TRUE} ELSE {})

\* classify_email; a vendor's address is not looked at.
MailStatuses(type, mail) ==
  CASE mail = None -> {"none"}
    [] mail # None /\ type = "VENDOR" -> {"unverified"}
    [] mail # None /\ type # "VENDOR" -> {"invalid", "generic", "mx_valid"}

Types(j) ==
  {Classify([text EXCEPT !.reachable = j.reachable, !.tender = Record[j.company].tender]) :
     text \in Texts}

Assess ==
  /\ At("assess")
  /\ \E type \in Types(job), mail \in Contacts(job), named \in Names(job) :
       \E status \in MailStatuses(type, mail) :
         job' = [stage |-> "guess", company |-> job.company, domain |-> job.domain,
                 key |-> job.key, old |-> job.old, reachable |-> job.reachable,
                 mismatch |-> job.mismatch, type |-> type, mail |-> mail,
                 named |-> named, status |-> status]
  /\ UNCHANGED <<runs, todo, seen, dropped, probed, rows, outside>>

-----------------------------------------------------------------------------
(* An address for a named person, guessed and confirmed by the mail server. *)

WantsGuess(j) ==
  /\ j.type = "BUYER" /\ j.named /\ j.domain # None
  /\ j.status \in {"generic", "none", "invalid"}

\* is_catch_all: a server that does not answer, or refuses for the moment, says
\* nothing of the host; what it said first is kept for the run.
Probes(h) ==
  IF probed[h] # "unknown" THEN {probed[h]}
  ELSE {"no", "none"} \cup (IF h \in CatchAll THEN {"yes"} ELSE {})

\* Whether the server takes the guessed address when it answers.
Accepts(c, h) == h \in CatchAll \/ <<c, h>> \in People

\* Faulty variant: a catch-all server's word is taken.
ConfirmedAnywhere(c, h, probe) == Accepts(c, h)

Confirmed(c, h, probe) == probe # "yes" /\ Accepts(c, h)

\* discover: the server may not confirm any candidate, and where no server can be
\* asked (port 25 is blocked) none does.
Guess ==
  LET h == job.domain
  IN /\ At("guess")
     /\ \/ /\ ~WantsGuess(job)
           /\ job' = [job EXCEPT !.stage = "judge"]
           /\ probed' = probed
        \/ /\ WantsGuess(job)
           /\ \E probe \in Probes(h) :
                /\ probed' = [probed EXCEPT ![h] = probe]
                /\ \/ job' = [job EXCEPT !.stage = "judge"]
                   \/ /\ Confirmed(job.company, h, probe)
                      /\ job' = [job EXCEPT !.stage = "judge", !.mail = Guessed(h),
                                            !.status = "deliverable"]
     /\ UNCHANGED <<runs, todo, seen, dropped, rows, outside>>

-----------------------------------------------------------------------------
(* The verdict and the row.                                                *)

\* judge_intent may change the type; the total stands for the rest of the score.
Judge ==
  /\ At("judge")
  /\ \E total \in Totals, buyer, strong \in BOOLEAN :
       LET type == IF job.type = "VENDOR" THEN job.type
                   ELSE ApplyVerdict(job.type, buyer, strong)
           skip == SkipReason(type, total, Priority(total, type, job.mismatch),
                              job.mail # None /\ job.status \in UsableStatus,
                              Record[job.company].phone)
       IN job' = [stage |-> "check", company |-> job.company, domain |-> job.domain,
                  key |-> job.key, old |-> job.old, reachable |-> job.reachable,
                  mail |-> job.mail, skip |-> skip]
  /\ UNCHANGED <<runs, todo, seen, dropped, probed, rows, outside>>

\* Faulty variant: the address discovery knew is looked up.
AddressesOfRecord(j) == {j.domain, Recorded(j.company)}

Addresses(j) == {j.domain, j.mail}

\* is_suppressed
Check ==
  /\ At("check")
  /\ job' = [job EXCEPT !.stage = "load",
                        !.skip = IF Addresses(job) \cap banned # {} THEN "suppressed" ELSE @]
  /\ UNCHANGED <<runs, todo, seen, dropped, probed, rows, outside>>

\* Faulty variant: looked up under the key the company began with.
PreviousOfOld(j) == {r \in rows : r.key = j.old}

Previous(j) == {r \in rows : r.key = j.key}

\* lead_for_company
Load ==
  /\ At("load")
  /\ job' = [stage |-> "save", company |-> job.company, domain |-> job.domain,
             key |-> job.key, reachable |-> job.reachable, mail |-> job.mail,
             skip |-> job.skip, previous |-> Previous(job)]
  /\ UNCHANGED <<runs, todo, seen, dropped, probed, rows, outside>>

\* A status other than not_queued stays.
Status(skip, previous) ==
  IF \E r \in previous : r.status # "not_queued"
  THEN (CHOOSE r \in previous : TRUE).status
  ELSE CASE skip = "no_usable_contact" -> "needs_contact"
         [] skip = "suppressed" -> "suppressed"
         [] skip \notin {"no_usable_contact", "suppressed"} -> "not_queued"

\* save_lead overwrites the row with the identity of the one read, or adds one.
Save ==
  LET id == IF job.previous = {} THEN Cardinality(rows) + 1
            ELSE (CHOOSE r \in job.previous : TRUE).id
      lead == [id |-> id, key |-> job.key, company |-> job.company,
               domain |-> job.domain, mail |-> job.mail, ready |-> job.skip = "none",
               status |-> Status(job.skip, job.previous), reachable |-> job.reachable]
  IN /\ At("save")
     /\ rows' = {r \in rows : r.id # id} \cup {lead}
     /\ job' = Idle
     /\ UNCHANGED <<runs, todo, seen, dropped, probed, outside>>

-----------------------------------------------------------------------------
(* The operators and the sequencer, in other processes.                    *)

Ban(v) ==
  /\ acts < MaxActs /\ v \notin banned
  /\ acts' = acts + 1 /\ banned' = banned \cup {v}
  /\ UNCHANGED <<runs, worker, probed, rows, standing>>

Lift(v) ==
  /\ acts < MaxActs /\ v \in banned
  /\ acts' = acts + 1 /\ banned' = banned \ {v} /\ standing' = standing \ {v}
  /\ UNCHANGED <<runs, worker, probed, rows>>

\* SequenceManager.enqueue
Enqueue(r) ==
  /\ acts < MaxActs
  /\ r.ready /\ r.mail # None /\ r.status = "not_queued"
  /\ {r.domain, r.mail} \cap banned = {}
  /\ acts' = acts + 1
  /\ rows' = (rows \ {r}) \cup {[r EXCEPT !.status = "queued"]}
  /\ UNCHANGED <<runs, worker, probed, banned, standing>>

Next ==
  \/ StartRun \/ \E c \in Companies : Begin(c)
  \/ Crawl \/ Assess \/ Guess \/ Judge \/ Check \/ Load \/ Save
  \/ \E v \in Bannable : Ban(v) \/ Lift(v)
  \/ \E r \in rows : Enqueue(r)

Spec == Init /\ [][Next]_vars

-----------------------------------------------------------------------------
(* Properties.                                                             *)

\* The leads table has one row for a company key, whatever sites redirect where
\* and in whatever order the runs meet them.
OneRowPerKey == \A r, s \in rows : r.key = s.key => r = s

\* A value suppressed since before the company's turn keeps its lead out of
\* outreach, also when the address or the domain only turned up on the way.
StandingBansHold ==
  [][At("save") /\ job' = Idle =>
       \A r \in rows' : r.key = job.key /\ r.ready
                          => r.domain \notin standing /\ r.mail \notin standing]_vars

\* A lead ready for outreach is written to at an address of the company: of its
\* discovery record or of a host named like it.  (Where no site could be read
\* nothing compares its host with the name.)
ReadyContactIsTheirs ==
  \A r \in rows :
    r.ready /\ r.reachable /\ r.mail \notin {None, Recorded(r.company)}
      => r.mail[2] \in Own[r.company]

\* A guessed address a lead carries is somebody's mailbox, or the mail server
\* takes anything and the probe that should have found out had no answer.
GuessesAreConfirmed ==
  At("judge") /\ job.status = "deliverable" =>
    \/ <<job.company, job.domain>> \in People
    \/ job.domain \in CatchAll /\ probed[job.domain] # "yes"

\* "Hosts that are never a company's own site": no company is taken for another
\* because both of their sites ended on one of those.
DroppedOnlyForOwnSite == \A key \in dropped : key[2] \notin Markets

=============================================================================
