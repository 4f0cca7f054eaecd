------------------------------ MODULE Posting ------------------------------
(***************************************************************************)
(* What the mailboxes promise the people who lend them and those who get   *)
(* the mail: a lead's messages leave one after the other, none of them     *)
(* twice from one machine, all from the mailbox of their thread, and each  *)
(* only while that mailbox has sent fewer for the campaign than its        *)
(* warm-up allows, as far as the machine's own history goes.  A lead may   *)
(* be forgotten: then a machine without its history picks any mailbox.     *)
(* There is nothing here of batches, budgets, rows or ledgers.  Mailboxes  *)
(* implements this.                                                        *)
(***************************************************************************)
EXTENDS Warmup

CONSTANTS CampaignOf, LastStep

VARIABLES day, sends, forgotten

Init == day = 1 /\ sends = {} /\ forgotten = {}

ThreadOf(l) == {s \in sends : s.lead = l}
OpenersOf(l) == {s \in ThreadOf(l) : s.step = 1}
SendsOf(m, c) == {s \in sends : s.machine = m /\ CampaignOf[s.lead] = c}

\* m may leave now.
MayLeave(m) ==
  LET beside == SendsOf(m.machine, CampaignOf[m.lead])
      openers == OpenersOf(m.lead)
  IN /\ m.step \in 1..LastStep /\ 1..(m.step - 1) \subseteq {s.step : s \in ThreadOf(m.lead)}
     /\ \A s \in beside : s.lead # m.lead \/ s.step # m.step
     /\ m.step > 1 =>
          \/ m.box \in {s.box : s \in openers}
          \/ m.lead \in forgotten /\ m.machine \notin {s.machine : s \in openers}
     /\ m.day <= day
     /\ Cardinality(SentBy(beside, m.box, m.day)) < CapOnDay(m.box, DaysActive(beside, m.box, m.day))

\* A new thread is known again.
Post ==
  \E m \in sends' \ sends :
    /\ MayLeave(m) /\ sends' = sends \cup {m}
    /\ forgotten' = IF m.step = 1 THEN forgotten \ {m.lead} ELSE forgotten
    /\ day' = day

Forget ==
  /\ \E l \in DOMAIN CampaignOf : forgotten' = forgotten \cup {l}
  /\ UNCHANGED <<day, sends>>

Midnight == day' = day + 1 /\ UNCHANGED <<sends, forgotten>>

Next == Post \/ Forget \/ Midnight

Spec == Init /\ [][Next]_<<day, sends, forgotten>>

=============================================================================
