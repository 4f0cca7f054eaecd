--------------------------- MODULE QualifyProofs ---------------------------
(***************************************************************************)
(* What TLAPS proves of module Qualify for any companies, hosts, answers   *)
(* and redirects, any number of runs and of acts of the operators: the     *)
(* leads table keeps one row for a key and never loses one, a lead that is *)
(* ready is written to at an address of its company, a guessed address was *)
(* confirmed, and a value suppressed since before the company's turn keeps *)
(* its lead out of outreach.                                               *)
(***************************************************************************)
EXTENDS Qualify, FiniteSetTheorems, TLAPS

-----------------------------------------------------------------------------
(* What the variables hold.                                                *)

Domains == Hosts \cup {None}
Keys == ({"name"} \X Companies) \cup ({"domain"} \X Hosts)
Mails == {None} \cup ({"site", "guess"} \X Domains) \cup ({"record"} \X Companies)
Verdicts == {"VENDOR", "BUYER", "UNKNOWN"}
MailVerdicts == {"none", "unverified", "invalid", "generic", "mx_valid", "deliverable"}
Skips == {"not_a_buyer", "score_below_min", "priority_below_qualified",
          "no_usable_contact", "suppressed", "none"}

Row == [id : Nat, key : Keys, company : Companies, domain : Domains, mail : Mails,
        ready : BOOLEAN, status : {"needs_contact", "suppressed", "not_queued", "queued"},
        reachable : BOOLEAN]

\* The worker's local variables at each of its stages.
CrawlJobs == [stage : {"crawl"}, company : Companies, domain : Domains, key : Keys]
AssessJobs == [stage : {"assess"}, company : Companies, domain : Domains, key : Keys,
               old : Keys, reachable : BOOLEAN, mismatch : BOOLEAN]
GuessJobs == [stage : {"guess", "judge"}, company : Companies, domain : Domains,
              key : Keys, old : Keys, reachable : BOOLEAN, mismatch : BOOLEAN,
              type : Verdicts, mail : Mails, named : BOOLEAN, status : MailVerdicts]
CheckJobs == [stage : {"check", "load"}, company : Companies, domain : Domains,
              key : Keys, old : Keys, reachable : BOOLEAN, mail : Mails, skip : Skips]
SaveJobs == [stage : {"save"}, company : Companies, domain : Domains, key : Keys,
             reachable : BOOLEAN, mail : Mails, skip : Skips, previous : SUBSET Row]

Jobs == {Idle} \cup CrawlJobs \cup AssessJobs \cup GuessJobs \cup CheckJobs \cup SaveJobs

ProbeStates == {"unknown", "no", "none", "yes"}

Typed ==
  /\ todo \subseteq Companies /\ seen \subseteq Keys
  /\ job \in Jobs
  /\ probed \in [Hosts -> ProbeStates]
  /\ rows \subseteq Row
  /\ standing \subseteq banned

-----------------------------------------------------------------------------
(* What holds of the table and of the job between two steps.               *)

\* The addresses that a company's lead with this domain may carry.
AddressesOf(c, domain) == {None, Recorded(c), Published(domain), Guessed(domain)}

\* What makes a lead presentable: its address is one of those, and if it is ready
\* and its site was read, the site is its own.
Presentable(company, domain, mail, ready, reachable) ==
  /\ mail \in AddressesOf(company, domain)
  /\ ready /\ reachable => domain \in Own[company]

RowsPresentable ==
  \A r \in rows : Presentable(r.company, r.domain, r.mail, r.ready, r.reachable)

\* The rows are numbered from 1, in the order in which they were added.
RowsNumbered ==
  /\ IsFiniteSet(rows)
  /\ \A r, s \in rows : r.id = s.id => r = s
  /\ \A r \in rows : 1 <= r.id /\ r.id <= Cardinality(rows)

\* What the worker read of its company's row is still that row, but for a status
\* that the sequencer changed.
ReadOwnRow ==
  At("save") =>
    /\ \A p, q \in job.previous : p = q
    /\ \A p \in job.previous : \E r \in rows : r.id = p.id /\ r.key = job.key
    /\ \A r \in rows : r.key = job.key => \E p \in job.previous : p.id = r.id

\* What a stage of the job relies on from the stages before.
JobSound ==
  /\ At("assess") => job.mismatch = (job.reachable /\ job.domain \notin Own[job.company])
  /\ At("guess") \/ At("judge") =>
       /\ job.mail \in AddressesOf(job.company, job.domain)
       /\ job.mismatch = (job.reachable /\ job.domain \notin Own[job.company])
  /\ At("guess") => job.status # "deliverable"
  /\ At("check") \/ At("load") \/ At("save") =>
       Presentable(job.company, job.domain, job.mail, job.skip = "none", job.reachable)
  /\ At("load") \/ At("save") =>
       (job.skip = "none" => {job.domain, job.mail} \cap standing = {})

RowsInv == RowsPresentable /\ RowsNumbered /\ OneRowPerKey /\ ReadOwnRow

Inv == Typed /\ RowsInv /\ JobSound /\ GuessesAreConfirmed

-----------------------------------------------------------------------------
(* The operators the steps are built from.                                 *)

LEMMA KeyTyped ==
  ASSUME NEW c \in Companies, NEW domain \in Domains
  PROVE  KeyOf(c, domain) \in Keys
  BY DEF KeyOf, Keys, Domains

LEMMA AddressesTyped ==
  ASSUME NEW c \in Companies, NEW domain \in Domains
  PROVE  AddressesOf(c, domain) \subseteq Mails
  BY DEF AddressesOf, Mails, Published, Recorded, Guessed

LEMMA ClassifyTyped ==
  ASSUME NEW b
  PROVE  Classify(b) \in Verdicts
  BY DEF Classify, Verdicts

LEMMA VerdictTyped ==
  ASSUME NEW type \in Verdicts, NEW buyer, NEW strong
  PROVE  ApplyVerdict(type, buyer, strong) \in Verdicts
  BY DEF ApplyVerdict, Verdicts

\* Only a company whose site is its own is skipped for no reason at all.
LEMMA ReadyMeansOwn ==
  ASSUME NEW type, NEW total, NEW mismatch \in BOOLEAN, NEW usable, NEW phone
  PROVE  LET skip == SkipReason(type, total, Priority(total, type, mismatch), usable, phone)
         IN skip \in Skips /\ (skip = "none" => ~mismatch)
<1>1. Priority(total, type, mismatch) \in Promising => ~mismatch
  BY DEF Priority, Promising
<1> QED BY <1>1 DEF SkipReason, Skips

\* What a site answers with: a page of a host, or nothing.
LEMMA SnapshotTyped ==
  ASSUME NEW site \in Domains, NEW s \in Snapshots(site)
  PROVE  s.reachable \in BOOLEAN /\ s.domain \in Domains
<1>1. CASE site = None
  <2>1. Snapshots(site) = {[reachable |-> FALSE, moved |-> FALSE, domain |-> None]}
    BY <1>1 DEF Snapshots
  <2>2. s = [reachable |-> FALSE, moved |-> FALSE, domain |-> None]
    BY <2>1
  <2> QED BY <2>2 DEF Domains
<1>2. CASE site # None
  <2>1. site \in Hosts
    BY <1>2 DEF Domains
  <2>2. PICK p \in Answers[site] :
          s = [reachable |-> p.page = "site" /\ (p.at = site \/ p.at \notin Markets),
               moved |-> p.page # "down" /\ p.at # site,
               domain |-> IF p.page = "down" THEN site ELSE p.at]
    BY <1>2 DEF Snapshots
  <2>3. p.at \in Hosts
    BY <2>1, QualifyAssumption
  <2> QED BY <2>1, <2>2, <2>3 DEF Domains
<1> QED BY <1>1, <1>2

\* The stage says which variables the worker has.
LEMMA JobAt ==
  ASSUME Typed
  PROVE  /\ At("idle") => job = Idle
         /\ At("crawl") => job \in CrawlJobs
         /\ At("assess") => job \in AssessJobs
         /\ At("guess") \/ At("judge") => job \in GuessJobs
         /\ At("check") \/ At("load") => job \in CheckJobs
         /\ At("save") => job \in SaveJobs
<1>1. job \in CrawlJobs => job.stage = "crawl"
  BY DEF CrawlJobs
<1>2. job \in AssessJobs => job.stage = "assess"
  BY DEF AssessJobs
<1>3. job \in GuessJobs => job.stage \in {"guess", "judge"}
  BY DEF GuessJobs
<1>4. job \in CheckJobs => job.stage \in {"check", "load"}
  BY DEF CheckJobs
<1>5. job \in SaveJobs => job.stage = "save"
  BY DEF SaveJobs
<1>6. job = Idle => job.stage = "idle"
  BY DEF Idle
<1> QED BY <1>1, <1>2, <1>3, <1>4, <1>5, <1>6 DEF Typed, Jobs, At

-----------------------------------------------------------------------------
(* The steps that leave the table alone.                                   *)

\* A worker that is not about to save has no row in its hands.
LEMMA TableKept ==
  ASSUME Inv, rows' = rows, ~At("save")'
  PROVE  RowsInv'
  BY DEF Inv, RowsInv, RowsPresentable, RowsNumbered, OneRowPerKey, ReadOwnRow

LEMMA StartRunKeeps ==
  ASSUME Inv, StartRun
  PROVE  Inv'
<1>1. /\ job = Idle /\ job' = job /\ todo' = Companies /\ seen' = {}
      /\ probed' = [h \in Hosts |-> "unknown"] /\ UNCHANGED <<rows, banned, standing>>
  BY JobAt DEF StartRun, Inv, outside
<1>2. ~At("save")' /\ job'.stage = "idle"
  BY <1>1 DEF At, Idle
<1>3. Typed'
  BY <1>1 DEF Inv, Typed, ProbeStates
<1>4. RowsInv'
  BY <1>1, <1>2, TableKept
<1>5. JobSound' /\ GuessesAreConfirmed'
  BY <1>2 DEF JobSound, GuessesAreConfirmed, At
<1> QED BY <1>3, <1>4, <1>5 DEF Inv

LEMMA BeginKeeps ==
  ASSUME Inv, NEW c \in Companies, Begin(c)
  PROVE  Inv'
<1>1. PICK site \in IF Record[c].site = None THEN Finds[c] ELSE {Record[c].site} :
        LET key == KeyOf(c, site)
        IN \/ UNCHANGED <<seen, job>>
           \/ /\ seen' = seen \cup {key}
              /\ job' = [stage |-> "crawl", company |-> c, domain |-> site, key |-> key]
  BY DEF Begin
<1>2. /\ job = Idle /\ todo' \subseteq todo /\ standing' = banned
      /\ UNCHANGED <<rows, probed, banned>>
  BY JobAt DEF Begin, Inv
<1>3. site \in Domains /\ KeyOf(c, site) \in Keys
  <2>1. Record[c] \in [site : Hosts \cup {None}, mail : BOOLEAN, rep : BOOLEAN,
                       tender : BOOLEAN, phone : BOOLEAN]
        /\ Finds[c] \subseteq Hosts \cup {None}
    BY QualifyAssumption
  <2>2. site \in Domains
    BY <1>1, <2>1 DEF Domains
  <2> QED BY <2>2, KeyTyped
<1>4. job' \in CrawlJobs \/ job' = Idle
  BY <1>1, <1>2, <1>3 DEF CrawlJobs
<1>5. job'.stage \in {"crawl", "idle"}
  BY <1>4 DEF CrawlJobs, Idle
<1>6. Typed'
  BY <1>1, <1>2, <1>3, <1>4 DEF Inv, Typed, Jobs
<1>7. RowsInv'
  BY <1>2, <1>5, TableKept DEF At
<1>8. JobSound' /\ GuessesAreConfirmed'
  BY <1>5 DEF JobSound, GuessesAreConfirmed, At
<1> QED BY <1>6, <1>7, <1>8 DEF Inv

LEMMA CrawlKeeps ==
  ASSUME Inv, Crawl
  PROVE  Inv'
<1>1. job \in CrawlJobs
  BY JobAt DEF Crawl, Inv
<1>2. PICK s \in Snapshots(job.domain) :
        LET key == IF s.moved THEN KeyOf(job.company, s.domain) ELSE job.key
        IN \/ job' = Idle /\ seen' = seen
           \/ /\ seen' = (seen \ {job.key}) \cup {key}
              /\ job' = [stage |-> "assess", company |-> job.company, domain |-> s.domain,
                         key |-> key, old |-> job.key, reachable |-> s.reachable,
                         mismatch |-> s.reachable /\ s.domain \notin Own[job.company]]
  BY DEF Crawl
<1> DEFINE key == IF s.moved THEN KeyOf(job.company, s.domain) ELSE job.key
           mismatch == s.reachable /\ s.domain \notin Own[job.company]
<1>3. UNCHANGED <<todo, probed, rows, banned, standing>>
  BY DEF Crawl, outside
<1>4. /\ s.reachable \in BOOLEAN /\ s.domain \in Domains /\ mismatch \in BOOLEAN
      /\ job.company \in Companies /\ job.domain \in Domains /\ job.key \in Keys
  BY <1>1, SnapshotTyped DEF CrawlJobs
<1>5. key \in Keys
  BY <1>4, KeyTyped
<1>6. \/ job' = Idle /\ seen' = seen
      \/ /\ seen' = (seen \ {job.key}) \cup {key}
         /\ job' = [stage |-> "assess", company |-> job.company, domain |-> s.domain,
                    key |-> key, old |-> job.key, reachable |-> s.reachable,
                    mismatch |-> mismatch]
  BY <1>2
<1> HIDE DEF key
<1>7. CASE job' = Idle /\ seen' = seen
  <2>1. job'.stage = "idle"
    BY <1>7 DEF Idle
  <2>2. Typed'
    BY <1>3, <1>7 DEF Inv, Typed, Jobs
  <2>3. RowsInv'
    BY <1>3, <2>1, TableKept DEF At
  <2>4. JobSound' /\ GuessesAreConfirmed'
    BY <2>1 DEF JobSound, GuessesAreConfirmed, At
  <2> QED BY <2>2, <2>3, <2>4 DEF Inv
<1>8. CASE /\ seen' = (seen \ {job.key}) \cup {key}
           /\ job' = [stage |-> "assess", company |-> job.company, domain |-> s.domain,
                      key |-> key, old |-> job.key, reachable |-> s.reachable,
                      mismatch |-> mismatch]
  <2>1. job' \in AssessJobs /\ job'.stage = "assess"
    BY <1>4, <1>5, <1>8 DEF AssessJobs
  <2>2. job'.mismatch = (job'.reachable /\ job'.domain \notin Own[job'.company])
    BY <1>8
  <2>3. Typed'
    BY <1>3, <1>5, <1>8, <2>1 DEF Inv, Typed, Jobs
  <2>4. RowsInv'
    BY <1>3, <2>1, TableKept DEF At
  <2>5. JobSound' /\ GuessesAreConfirmed'
    BY <2>1, <2>2 DEF JobSound, GuessesAreConfirmed, At
  <2> QED BY <2>3, <2>4, <2>5 DEF Inv
<1> QED BY <1>6, <1>7, <1>8

LEMMA AssessKeeps ==
  ASSUME Inv, Assess
  PROVE  Inv'
<1>1. job \in AssessJobs
  BY JobAt DEF Assess, Inv
<1>2. PICK type \in Types(job), mail \in Contacts(job), named \in Names(job) :
        \E status \in MailStatuses(type, mail) :
          job' = [stage |-> "guess", company |-> job.company, domain |-> job.domain,
                  key |-> job.key, old |-> job.old, reachable |-> job.reachable,
                  mismatch |-> job.mismatch, type |-> type, mail |-> mail,
                  named |-> named, status |-> status]
  BY DEF Assess
<1>3. PICK status \in MailStatuses(type, mail) :
        job' = [stage |-> "guess", company |-> job.company, domain |-> job.domain,
                key |-> job.key, old |-> job.old, reachable |-> job.reachable,
                mismatch |-> job.mismatch, type |-> type, mail |-> mail,
                named |-> named, status |-> status]
  BY <1>2
<1>4. UNCHANGED <<todo, seen, probed, rows, banned, standing>>
  BY DEF Assess, outside
<1>5. /\ job.company \in Companies /\ job.domain \in Domains /\ job.key \in Keys
      /\ job.old \in Keys /\ job.reachable \in BOOLEAN /\ job.mismatch \in BOOLEAN
  BY <1>1 DEF AssessJobs
<1>6. type \in Verdicts
  BY ClassifyTyped DEF Types
<1>7. mail \in AddressesOf(job.company, job.domain)
  BY DEF Contacts, AddressesOf
<1>8. mail \in Mails
  BY <1>5, <1>7, AddressesTyped
<1>9. named \in BOOLEAN
  <2>1. Record[job.company].rep \in BOOLEAN
    BY <1>5, QualifyAssumption
  <2> QED BY <2>1 DEF Names
<1>10. status \in MailVerdicts /\ status # "deliverable"
  <2>1. MailStatuses(type, mail) \in {{"none"}, {"unverified"}, {"invalid", "generic", "mx_valid"}}
    BY DEF MailStatuses
  <2> QED BY <2>1 DEF MailVerdicts
<1>11. job' \in GuessJobs
  BY <1>3, <1>5, <1>6, <1>8, <1>9, <1>10 DEF GuessJobs
<1>12. /\ job'.stage = "guess" /\ job'.company = job.company /\ job'.domain = job.domain
       /\ job'.mail = mail /\ job'.status = status
       /\ job'.mismatch = job.mismatch /\ job'.reachable = job.reachable
  BY <1>3
<1>13. Typed'
  BY <1>4, <1>11 DEF Inv, Typed, Jobs
<1>14. RowsInv'
  BY <1>4, <1>12, TableKept DEF At
<1>15. JobSound' /\ GuessesAreConfirmed'
  <2>1. job.mismatch = (job.reachable /\ job.domain \notin Own[job.company])
    BY DEF Inv, JobSound, Assess
  <2> QED BY <1>7, <1>10, <1>12, <2>1 DEF JobSound, GuessesAreConfirmed, At
<1> QED BY <1>13, <1>14, <1>15 DEF Inv

LEMMA GuessKeeps ==
  ASSUME Inv, Guess
  PROVE  Inv'
<1> DEFINE h == job.domain
<1>1. job \in GuessJobs /\ job.stage = "guess" /\ job.status # "deliverable"
      /\ job.mail \in AddressesOf(job.company, job.domain)
      /\ job.mismatch = (job.reachable /\ job.domain \notin Own[job.company])
  BY JobAt DEF Guess, Inv, JobSound, At
<1>2. UNCHANGED <<todo, seen, rows, banned, standing>>
  BY DEF Guess, outside
<1>3. /\ job.company \in Companies /\ job.domain \in Domains
      /\ probed \in [Hosts -> ProbeStates]
  BY <1>1 DEF GuessJobs, Inv, Typed
<1>4. /\ \/ job' = [job EXCEPT !.stage = "judge"]
         \/ /\ job' = [job EXCEPT !.stage = "judge", !.mail = Guessed(h),
                                  !.status = "deliverable"]
            /\ \/ <<job.company, h>> \in People
               \/ h \in CatchAll /\ probed'[h] # "yes"
      /\ probed' \in [Hosts -> ProbeStates]
  <2>1. CASE ~WantsGuess(job)
    BY <1>3, <2>1 DEF Guess
  <2>2. CASE WantsGuess(job)
    <3>1. h \in Hosts
      BY <1>3, <2>2 DEF WantsGuess, Domains
    <3>2. PICK probe \in Probes(h) :
            /\ probed' = [probed EXCEPT ![h] = probe]
            /\ \/ job' = [job EXCEPT !.stage = "judge"]
               \/ /\ Confirmed(job.company, h, probe)
                  /\ job' = [job EXCEPT !.stage = "judge", !.mail = Guessed(h),
                                        !.status = "deliverable"]
      BY <2>2 DEF Guess
    <3>3. probe \in ProbeStates
      BY <1>3, <3>1, <3>2 DEF Probes, ProbeStates
    <3>4. probed' \in [Hosts -> ProbeStates] /\ probed'[h] = probe
      BY <1>3, <3>1, <3>2, <3>3
    <3>5. Confirmed(job.company, h, probe) =>
            \/ <<job.company, h>> \in People
            \/ h \in CatchAll /\ probed'[h] # "yes"
      BY <3>4 DEF Confirmed, Accepts
    <3> QED BY <3>2, <3>4, <3>5
  <2> QED BY <2>1, <2>2
<1>5. Guessed(h) \in AddressesOf(job.company, h) /\ Guessed(h) \in Mails
  <2>1. Guessed(h) \in AddressesOf(job.company, h)
    BY DEF AddressesOf
  <2> QED BY <1>3, <2>1, AddressesTyped
<1>6. CASE job' = [job EXCEPT !.stage = "judge"]
  <2>1. /\ job' \in GuessJobs /\ job'.stage = "judge" /\ job'.status = job.status
        /\ job'.company = job.company /\ job'.domain = job.domain /\ job'.mail = job.mail
        /\ job'.mismatch = job.mismatch /\ job'.reachable = job.reachable
    BY <1>1, <1>6 DEF GuessJobs
  <2>2. Typed'
    BY <1>2, <1>4, <2>1 DEF Inv, Typed, Jobs
  <2>3. RowsInv'
    BY <1>2, <2>1, TableKept DEF At
  <2>4. JobSound' /\ GuessesAreConfirmed'
    BY <1>1, <2>1 DEF JobSound, GuessesAreConfirmed, At
  <2> QED BY <2>2, <2>3, <2>4 DEF Inv
<1>7. CASE /\ job' = [job EXCEPT !.stage = "judge", !.mail = Guessed(h),
                                 !.status = "deliverable"]
           /\ \/ <<job.company, h>> \in People
              \/ h \in CatchAll /\ probed'[h] # "yes"
  <2>1. /\ job' \in GuessJobs /\ job'.stage = "judge" /\ job'.mail = Guessed(h)
        /\ job'.company = job.company /\ job'.domain = job.domain
        /\ job'.mismatch = job.mismatch /\ job'.reachable = job.reachable
    BY <1>1, <1>5, <1>7 DEF GuessJobs, MailVerdicts
  <2>2. Typed'
    BY <1>2, <1>4, <2>1 DEF Inv, Typed, Jobs
  <2>3. RowsInv'
    BY <1>2, <2>1, TableKept DEF At
  <2>4. JobSound'
    BY <1>1, <1>5, <2>1 DEF JobSound, At
  <2>5. GuessesAreConfirmed'
    BY <1>7, <2>1 DEF GuessesAreConfirmed, At
  <2> QED BY <2>2, <2>3, <2>4, <2>5 DEF Inv
<1> QED BY <1>4, <1>6, <1>7

LEMMA JudgeKeeps ==
  ASSUME Inv, Judge
  PROVE  Inv'
<1>1. job \in GuessJobs
      /\ job.mail \in AddressesOf(job.company, job.domain)
      /\ job.mismatch = (job.reachable /\ job.domain \notin Own[job.company])
  BY JobAt DEF Judge, Inv, JobSound
<1>2. UNCHANGED <<todo, seen, probed, rows, banned, standing>>
  BY DEF Judge, outside
<1>3. PICK skip : /\ skip \in Skips /\ (skip = "none" => ~job.mismatch)
                  /\ job' = [stage |-> "check", company |-> job.company,
                             domain |-> job.domain, key |-> job.key, old |-> job.old,
                             reachable |-> job.reachable, mail |-> job.mail, skip |-> skip]
  <2>1. job.mismatch \in BOOLEAN
    BY <1>1 DEF GuessJobs
  <2>2. PICK total \in Totals, buyer \in BOOLEAN, strong \in BOOLEAN :
          LET type == IF job.type = "VENDOR" THEN job.type
                      ELSE ApplyVerdict(job.type, buyer, strong)
              skip == SkipReason(type, total, Priority(total, type, job.mismatch),
                                 job.mail # None /\ job.status \in UsableStatus,
                                 Record[job.company].phone)
          IN job' = [stage |-> "check", company |-> job.company, domain |-> job.domain,
                     key |-> job.key, old |-> job.old, reachable |-> job.reachable,
                     mail |-> job.mail, skip |-> skip]
    BY DEF Judge
  <2> DEFINE type == IF job.type = "VENDOR" THEN job.type
                     ELSE ApplyVerdict(job.type, buyer, strong)
             skip == SkipReason(type, total, Priority(total, type, job.mismatch),
                                job.mail # None /\ job.status \in UsableStatus,
                                Record[job.company].phone)
  <2>3. job' = [stage |-> "check", company |-> job.company, domain |-> job.domain,
                key |-> job.key, old |-> job.old, reachable |-> job.reachable,
                mail |-> job.mail, skip |-> skip]
    BY <2>2
  <2> HIDE DEF type
  <2>4. skip \in Skips /\ (skip = "none" => ~job.mismatch)
    BY <2>1, ReadyMeansOwn
  <2> HIDE DEF skip
  <2> QED BY <2>3, <2>4
<1>4. job' \in CheckJobs /\ job'.stage = "check"
  BY <1>1, <1>3 DEF CheckJobs, GuessJobs
<1>5. Typed'
  BY <1>2, <1>4 DEF Inv, Typed, Jobs
<1>6. RowsInv'
  BY <1>2, <1>4, TableKept DEF At
<1>7. Presentable(job'.company, job'.domain, job'.mail, job'.skip = "none", job'.reachable)
  BY <1>1, <1>3 DEF Presentable
<1>8. JobSound' /\ GuessesAreConfirmed'
  BY <1>4, <1>7 DEF JobSound, GuessesAreConfirmed, At
<1> QED BY <1>5, <1>6, <1>8 DEF Inv

LEMMA CheckKeeps ==
  ASSUME Inv, Check
  PROVE  Inv'
<1>1. job \in CheckJobs /\ standing \subseteq banned
      /\ Presentable(job.company, job.domain, job.mail, job.skip = "none", job.reachable)
  BY JobAt DEF Check, Inv, Typed, JobSound
<1>2. UNCHANGED <<todo, seen, probed, rows, banned, standing>>
  BY DEF Check, outside
<1> DEFINE skip == IF Addresses(job) \cap banned # {} THEN "suppressed" ELSE job.skip
<1>3. job' = [job EXCEPT !.stage = "load", !.skip = skip]
  BY <1>1 DEF Check, CheckJobs
<1>4. skip \in Skips /\ (skip = "none" =>
                           /\ job.skip = "none"
                           /\ {job.domain, job.mail} \cap standing = {})
  BY <1>1 DEF Addresses, Skips, CheckJobs
<1> HIDE DEF skip
<1>5. /\ job' \in CheckJobs /\ job'.stage = "load" /\ job'.company = job.company
      /\ job'.domain = job.domain /\ job'.mail = job.mail /\ job'.reachable = job.reachable
      /\ job'.skip = skip
  BY <1>1, <1>3, <1>4 DEF CheckJobs
<1>6. Typed'
  BY <1>2, <1>5 DEF Inv, Typed, Jobs
<1>7. RowsInv'
  BY <1>2, <1>5, TableKept DEF At
<1>8. Presentable(job'.company, job'.domain, job'.mail, job'.skip = "none", job'.reachable)
  BY <1>1, <1>4, <1>5 DEF Presentable
<1>9. JobSound' /\ GuessesAreConfirmed'
  BY <1>2, <1>4, <1>5, <1>8 DEF JobSound, GuessesAreConfirmed, At
<1> QED BY <1>6, <1>7, <1>9 DEF Inv

LEMMA LoadKeeps ==
  ASSUME Inv, Load
  PROVE  Inv'
<1>1. job \in CheckJobs /\ At("load") /\ rows \subseteq Row
  BY JobAt DEF Load, Inv, Typed
<1>2. UNCHANGED <<todo, seen, probed, rows, banned, standing>>
  BY DEF Load, outside
<1>3. job' = [stage |-> "save", company |-> job.company, domain |-> job.domain,
              key |-> job.key, reachable |-> job.reachable, mail |-> job.mail,
              skip |-> job.skip, previous |-> Previous(job)]
  BY DEF Load
<1>4. Previous(job) \subseteq Row
  BY <1>1 DEF Previous
<1>5. job' \in SaveJobs /\ job'.stage = "save"
  BY <1>1, <1>3, <1>4 DEF SaveJobs, CheckJobs
<1>6. Typed'
  BY <1>2, <1>5 DEF Inv, Typed, Jobs
<1>7. ReadOwnRow'
  <2>1. job'.previous = {r \in rows : r.key = job.key} /\ job'.key = job.key
    BY <1>3 DEF Previous
  <2>2. OneRowPerKey
    BY DEF Inv, RowsInv
  <2> QED BY <1>2, <2>1, <2>2 DEF ReadOwnRow, OneRowPerKey
<1>8. RowsInv'
  BY <1>2, <1>7 DEF Inv, RowsInv, RowsPresentable, RowsNumbered, OneRowPerKey
<1>9. /\ Presentable(job.company, job.domain, job.mail, job.skip = "none", job.reachable)
      /\ job.skip = "none" => {job.domain, job.mail} \cap standing = {}
  BY <1>1 DEF Inv, JobSound
<1>10. JobSound' /\ GuessesAreConfirmed'
  BY <1>2, <1>3, <1>9 DEF JobSound, GuessesAreConfirmed, At
<1> QED BY <1>6, <1>8, <1>10 DEF Inv

-----------------------------------------------------------------------------
(* Saving the lead.                                                        *)

\* A row takes the place of the one with its number.
LEMMA RowReplaced ==
  ASSUME RowsNumbered, NEW old \in rows, NEW new, new.id = old.id,
         rows' = (rows \ {old}) \cup {new}
  PROVE  RowsNumbered'
<1>1. IsFiniteSet(rows \ {old}) /\ Cardinality(rows \ {old}) = Cardinality(rows) - 1
  BY FS_RemoveElement DEF RowsNumbered
<1>2. new \notin rows \ {old}
  BY DEF RowsNumbered
<1>3. IsFiniteSet(rows') /\ Cardinality(rows') = Cardinality(rows \ {old}) + 1
  BY <1>1, <1>2, FS_AddElement
<1>4. Cardinality(rows) \in Nat
  BY FS_CardinalityType DEF RowsNumbered
<1>5. Cardinality(rows') = Cardinality(rows)
  BY <1>1, <1>3, <1>4
<1> QED BY <1>3, <1>5 DEF RowsNumbered

\* A row gets the next number.
LEMMA RowAdded ==
  ASSUME RowsNumbered, rows \subseteq Row, NEW new, new.id = Cardinality(rows) + 1,
         rows' = rows \cup {new}
  PROVE  RowsNumbered'
<1>1. Cardinality(rows) \in Nat
  BY FS_CardinalityType DEF RowsNumbered
<1>2. \A r \in rows : r.id \in Nat /\ r.id # new.id
  BY <1>1 DEF RowsNumbered, Row
<1>3. IsFiniteSet(rows') /\ Cardinality(rows') = Cardinality(rows) + 1
  <2>1. new \notin rows
    BY <1>2
  <2> QED BY <2>1, FS_AddElement DEF RowsNumbered
<1>4. \A r \in rows' : 1 <= r.id /\ r.id <= Cardinality(rows')
  BY <1>1, <1>2, <1>3 DEF RowsNumbered
<1>5. \A r, s \in rows' : r.id = s.id => r = s
  BY <1>2 DEF RowsNumbered
<1> QED BY <1>3, <1>4, <1>5 DEF RowsNumbered

\* The lead takes the row of its key, or a new one where there was none.
LEMMA SaveEffect ==
  ASSUME Inv, Save
  PROVE  \E lead \in Row :
           /\ \/ \E old \in rows : /\ old.key = lead.key /\ old.id = lead.id
                                   /\ rows' = (rows \ {old}) \cup {lead}
              \/ /\ \A r \in rows : r.key # lead.key
                 /\ lead.id = Cardinality(rows) + 1 /\ rows' = rows \cup {lead}
           /\ lead.key = job.key /\ lead.domain = job.domain /\ lead.mail = job.mail
           /\ lead.company = job.company /\ lead.reachable = job.reachable
           /\ lead.ready = (job.skip = "none")
<1>1. job \in SaveJobs /\ At("save") /\ rows \subseteq Row
  BY JobAt DEF Save, Inv, Typed
<1> DEFINE id == IF job.previous = {} THEN Cardinality(rows) + 1
                 ELSE (CHOOSE r \in job.previous : TRUE).id
           lead == [id |-> id, key |-> job.key, company |-> job.company,
                    domain |-> job.domain, mail |-> job.mail, ready |-> job.skip = "none",
                    status |-> Status(job.skip, job.previous), reachable |-> job.reachable]
<1>2. rows' = {r \in rows : r.id # id} \cup {lead}
  BY DEF Save
<1>3. Status(job.skip, job.previous) \in {"needs_contact", "suppressed", "not_queued", "queued"}
  <2>1. job.previous \subseteq Row
    BY <1>1 DEF SaveJobs
  <2>2. CASE \E r \in job.previous : r.status # "not_queued"
    <3>1. (CHOOSE r \in job.previous : TRUE) \in job.previous
      BY <2>2
    <3>2. (CHOOSE r \in job.previous : TRUE).status
            \in {"needs_contact", "suppressed", "not_queued", "queued"}
      BY <2>1, <3>1 DEF Row
    <3> QED BY <2>2, <3>2 DEF Status
  <2>3. CASE ~\E r \in job.previous : r.status # "not_queued"
    <3>1. job.skip \in Skips
      BY <1>1 DEF SaveJobs
    <3> QED BY <2>3, <3>1 DEF Status, Skips
  <2> QED BY <2>2, <2>3
<1>4. Cardinality(rows) \in Nat
  BY FS_CardinalityType DEF Inv, RowsInv, RowsNumbered
<1>5. CASE job.previous = {}
  <2>1. id = Cardinality(rows) + 1
    BY <1>5
  <2> HIDE DEF id
  <2>2. \A r \in rows : r.key # job.key
    BY <1>1, <1>5 DEF Inv, RowsInv, ReadOwnRow
  <2>3. \A r \in rows : r.id # id
    BY <1>1, <1>4, <2>1 DEF Inv, RowsInv, RowsNumbered, Row
  <2>4. rows' = rows \cup {lead}
    BY <1>2, <2>3
  <2>5. lead \in Row
    BY <1>1, <1>3, <1>4, <2>1 DEF SaveJobs, Row
  <2> QED BY <2>1, <2>2, <2>4, <2>5
<1>6. CASE job.previous # {}
  <2> DEFINE p == CHOOSE r \in job.previous : TRUE
  <2>1. p \in job.previous /\ id = p.id
    BY <1>6
  <2> HIDE DEF p, id
  <2>2. PICK old \in rows : old.id = id /\ old.key = job.key
    BY <1>1, <2>1 DEF Inv, RowsInv, ReadOwnRow
  <2>3. {r \in rows : r.id # id} = rows \ {old}
    BY <2>2 DEF Inv, RowsInv, RowsNumbered
  <2>4. rows' = (rows \ {old}) \cup {lead}
    BY <1>2, <2>3
  <2>5. id \in Nat
    BY <1>1, <2>2 DEF Row
  <2>6. lead \in Row
    BY <1>1, <1>3, <2>5 DEF SaveJobs, Row
  <2> QED BY <2>2, <2>4, <2>6
<1> QED BY <1>5, <1>6

LEMMA SaveKeeps ==
  ASSUME Inv, Save
  PROVE  Inv'
<1>1. PICK lead \in Row :
           /\ \/ \E old \in rows : /\ old.key = lead.key /\ old.id = lead.id
                                   /\ rows' = (rows \ {old}) \cup {lead}
              \/ /\ \A r \in rows : r.key # lead.key
                 /\ lead.id = Cardinality(rows) + 1 /\ rows' = rows \cup {lead}
           /\ lead.key = job.key /\ lead.domain = job.domain /\ lead.mail = job.mail
           /\ lead.company = job.company /\ lead.reachable = job.reachable
           /\ lead.ready = (job.skip = "none")
  BY SaveEffect
<1>2. /\ job' = Idle /\ At("save") /\ rows \subseteq Row
      /\ UNCHANGED <<todo, seen, probed, banned, standing>>
  BY DEF Save, outside, Inv, Typed
<1>3. job'.stage = "idle"
  BY <1>2 DEF Idle
<1>4. rows' \subseteq rows \cup {lead}
  BY <1>1
<1>5. Typed'
  BY <1>2, <1>4 DEF Inv, Typed, Jobs
<1>6. RowsPresentable'
  <2>1. Presentable(lead.company, lead.domain, lead.mail, lead.ready, lead.reachable)
    BY <1>1, <1>2 DEF Inv, JobSound
  <2> QED BY <1>4, <2>1 DEF Inv, RowsInv, RowsPresentable
<1>7. RowsNumbered'
  BY <1>1, <1>2, RowReplaced, RowAdded DEF Inv, RowsInv
<1>8. OneRowPerKey'
  <2>1. \A r \in rows' : r # lead => r \in rows /\ r.key # lead.key
    <3>1. CASE \E old \in rows : /\ old.key = lead.key /\ old.id = lead.id
                                 /\ rows' = (rows \ {old}) \cup {lead}
      BY <3>1 DEF Inv, RowsInv, OneRowPerKey
    <3>2. CASE (\A r \in rows : r.key # lead.key) /\ rows' = rows \cup {lead}
      BY <3>2
    <3> QED BY <1>1, <3>1, <3>2
  <2> QED BY <2>1 DEF Inv, RowsInv, OneRowPerKey
<1>9. ReadOwnRow' /\ JobSound' /\ GuessesAreConfirmed'
  BY <1>3 DEF ReadOwnRow, JobSound, GuessesAreConfirmed, At
<1> QED BY <1>5, <1>6, <1>7, <1>8, <1>9 DEF Inv, RowsInv

-----------------------------------------------------------------------------
(* The operators and the sequencer.                                        *)

LEMMA OutsideKeeps ==
  ASSUME Inv, UNCHANGED <<worker, probed, rows>>,
         standing' \subseteq standing, standing' \subseteq banned'
  PROVE  Inv'
<1>1. UNCHANGED <<todo, seen, job, probed, rows>>
  BY DEF worker
<1>2. Typed'
  BY <1>1 DEF Inv, Typed
<1>3. RowsInv'
  BY <1>1 DEF Inv, RowsInv, RowsPresentable, RowsNumbered, OneRowPerKey, ReadOwnRow, At
<1>4. JobSound'
  BY <1>1 DEF Inv, JobSound, At
<1>5. GuessesAreConfirmed'
  BY <1>1 DEF Inv, GuessesAreConfirmed, At
<1> QED BY <1>2, <1>3, <1>4, <1>5 DEF Inv

LEMMA EnqueueKeeps ==
  ASSUME Inv, NEW r \in rows, Enqueue(r)
  PROVE  Inv'
<1> DEFINE new == [r EXCEPT !.status = "queued"]
<1>1. rows' = (rows \ {r}) \cup {new} /\ UNCHANGED <<todo, seen, job, probed, banned, standing>>
  BY DEF Enqueue, worker
<1>2. r \in Row /\ rows \subseteq Row
  BY DEF Inv, Typed
<1>3. /\ new \in Row /\ new.id = r.id /\ new.key = r.key /\ new.company = r.company
      /\ new.domain = r.domain /\ new.mail = r.mail /\ new.ready = r.ready
      /\ new.reachable = r.reachable
  BY <1>2 DEF Row
<1> HIDE DEF new
<1>4. Typed'
  BY <1>1, <1>2, <1>3 DEF Inv, Typed
<1>5. RowsPresentable'
  BY <1>1, <1>3 DEF Inv, RowsInv, RowsPresentable
<1>6. RowsNumbered'
  BY <1>1, <1>3, RowReplaced DEF Inv, RowsInv
<1>7. OneRowPerKey'
  BY <1>1, <1>3 DEF Inv, RowsInv, OneRowPerKey
<1>8. ReadOwnRow'
  BY <1>1, <1>3 DEF Inv, RowsInv, ReadOwnRow, At
<1>9. JobSound' /\ GuessesAreConfirmed'
  BY <1>1 DEF Inv, JobSound, GuessesAreConfirmed, At
<1> QED BY <1>4, <1>5, <1>6, <1>7, <1>8, <1>9 DEF Inv, RowsInv

LEMMA InvInit == Init => Inv
<1> SUFFICES ASSUME Init PROVE Inv
  OBVIOUS
<1>1. Typed
  BY DEF Init, Typed, Jobs, ProbeStates
<1>2. RowsNumbered
  BY FS_EmptySet DEF Init, RowsNumbered
<1>3. job.stage = "idle"
  BY DEF Init, Idle
<1> QED BY <1>1, <1>2, <1>3 DEF Init, Inv, RowsInv, RowsPresentable, OneRowPerKey,
                              ReadOwnRow, JobSound, GuessesAreConfirmed, At

LEMMA InvNext == Inv /\ [Next]_vars => Inv'
<1> SUFFICES ASSUME Inv, [Next]_vars PROVE Inv'
  OBVIOUS
<1>0. standing \subseteq banned
  BY DEF Inv, Typed
<1>1. ASSUME NEW c \in Companies, Begin(c) PROVE Inv'
  BY <1>1, BeginKeeps
<1>2. ASSUME NEW v \in Bannable, Ban(v) PROVE Inv'
  BY <1>0, <1>2, OutsideKeeps DEF Ban
<1>3. ASSUME NEW v \in Bannable, Lift(v) PROVE Inv'
  BY <1>0, <1>3, OutsideKeeps DEF Lift
<1>4. ASSUME NEW r \in rows, Enqueue(r) PROVE Inv'
  BY <1>4, EnqueueKeeps
<1>5. CASE UNCHANGED vars
  BY <1>0, <1>5, OutsideKeeps DEF vars, outside
<1> QED BY <1>1, <1>2, <1>3, <1>4, <1>5, StartRunKeeps, CrawlKeeps, AssessKeeps, GuessKeeps,
           JudgeKeeps, CheckKeeps, LoadKeeps, SaveKeeps DEF Next

LEMMA Inductive == Spec => []Inv
  BY InvInit, InvNext, PTL DEF Spec

-----------------------------------------------------------------------------
(* What follows.                                                           *)

\* The leads table has one row for a company key, for any companies and any
\* redirects, in any number of runs: a worker adds a row only when it read none
\* for the key its lead ended under, and overwrites the one it read.
THEOREM RowsKeepTheirKey == Spec => []OneRowPerKey
<1>1. Inv => OneRowPerKey
  BY DEF Inv, RowsInv
<1> QED BY <1>1, Inductive, PTL

\* No lead is lost: a step leaves every row in place, or puts another of the same
\* number and key there.  The next number is that of no row, because the rows are
\* numbered from 1 without a gap.
LeadsStay ==
  [][\A r \in rows : \E s \in rows' : s.id = r.id /\ s.key = r.key]_vars

\* No worker, operator or sequencer step loses a lead's row.
THEOREM NoLeadIsLost == Spec => LeadsStay
<1>1. Inv /\ [Next]_vars => [\A r \in rows : \E s \in rows' : s.id = r.id /\ s.key = r.key]_vars
  <2> SUFFICES ASSUME Inv, [Next]_vars, NEW r \in rows
               PROVE  \E s \in rows' : s.id = r.id /\ s.key = r.key
    OBVIOUS
  <2>1. CASE Save
    <3>1. PICK lead \in Row :
            \/ \E old \in rows : /\ old.key = lead.key /\ old.id = lead.id
                                 /\ rows' = (rows \ {old}) \cup {lead}
            \/ rows' = rows \cup {lead}
      BY <2>1, SaveEffect
    <3> QED BY <3>1
  <2>2. ASSUME NEW q \in rows, Enqueue(q)
        PROVE  \E s \in rows' : s.id = r.id /\ s.key = r.key
    <3> DEFINE new == [q EXCEPT !.status = "queued"]
    <3>1. new.id = q.id /\ new.key = q.key
      BY DEF Inv, Typed, Row
    <3>2. rows' = (rows \ {q}) \cup {new}
      BY <2>2 DEF Enqueue
    <3> HIDE DEF new
    <3> QED BY <3>1, <3>2
  <2>3. CASE rows' = rows
    BY <2>3
  <2> QED BY <2>1, <2>2, <2>3 DEF Next, StartRun, Begin, Crawl, Assess, Guess, Judge, Check,
                                  Load, Ban, Lift, vars
<1> QED BY <1>1, Inductive, PTL DEF Spec, LeadsStay

\* A lead ready for outreach is written to at an address of the company, whatever
\* sites redirect where: a site that is not the company's own takes the lead out
\* of the priorities that are ready, and an address is the record's, or published
\* on the lead's host, or made up for it.
THEOREM ContactsAreTheirs == Spec => []ReadyContactIsTheirs
<1>1. Inv => ReadyContactIsTheirs
  <2> SUFFICES ASSUME Inv, NEW r \in rows, r.ready, r.reachable,
                      r.mail \notin {None, Recorded(r.company)}
               PROVE  r.mail[2] \in Own[r.company]
    BY DEF ReadyContactIsTheirs
  <2>1. r.domain \in Own[r.company] /\ r.mail \in AddressesOf(r.company, r.domain)
    BY DEF Inv, RowsInv, RowsPresentable, Presentable
  <2>2. r.mail = Published(r.domain) \/ r.mail = Guessed(r.domain)
    BY <2>1 DEF AddressesOf
  <2> QED BY <2>1, <2>2 DEF Published, Guessed
<1> QED BY <1>1, Inductive, PTL

\* A guessed address that a lead carries was confirmed by its host's mail server,
\* and not by one that was known to take any address.
THEOREM GuessesConfirmed == Spec => []GuessesAreConfirmed
<1>1. Inv => GuessesAreConfirmed
  BY DEF Inv
<1> QED BY <1>1, Inductive, PTL

\* A value suppressed since before the company's turn keeps its lead out of
\* outreach, for any redirects and any acts of the operators meanwhile: the lookup
\* comes after the domain and the address are settled, and finds what was listed
\* at the beginning and not lifted since.
THEOREM BansOutlastJobs == Spec => StandingBansHold
<1>1. Inv /\ [Next]_vars
        => [At("save") /\ job' = Idle =>
              \A r \in rows' : r.key = job.key /\ r.ready
                                 => r.domain \notin standing /\ r.mail \notin standing]_vars
  <2> SUFFICES ASSUME Inv, [Next]_vars, At("save"), job' = Idle,
                      NEW r \in rows', r.key = job.key, r.ready
               PROVE  r.domain \notin standing /\ r.mail \notin standing
    OBVIOUS
  <2>1. job'.stage # job.stage
    BY DEF At, Idle
  <2>2. Save
    <3>1. job # job'
      BY <2>1
    <3> QED BY <3>1 DEF Next, StartRun, Begin, Crawl, Assess, Guess, Judge, Check, Load,
                        Ban, Lift, Enqueue, vars, worker, At
  <2>3. PICK lead \in Row :
           /\ lead \in rows'
           /\ lead.key = job.key /\ lead.domain = job.domain /\ lead.mail = job.mail
           /\ lead.ready = (job.skip = "none")
    BY <2>2, SaveEffect
  <2>4. r = lead
    BY <2>2, <2>3, SaveKeeps DEF Inv, RowsInv, OneRowPerKey
  <2> QED BY <2>3, <2>4 DEF Inv, JobSound
<1> QED BY <1>1, Inductive, PTL DEF Spec, StandingBansHold

=============================================================================
