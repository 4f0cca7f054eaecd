------------------------------- MODULE Warmup -------------------------------
(***************************************************************************)
(* How many messages a mailbox may send in a day, and how many of some     *)
(* records of sends it did send (outreach/config.py, outreach/ledger.py).  *)
(***************************************************************************)
EXTENDS Integers, FiniteSets

CONSTANTS
  Limit,       \* [Boxes -> Nat], daily_limit of the box; 0 when it has none
  DailyLimit, WarmupStart, WarmupStep

Smaller(a, b) == IF a < b THEN a ELSE b

\* effective_daily_cap, and the mailbox's own limit.
CapOnDay(box, active) ==
  LET cap == Smaller(DailyLimit, WarmupStart + WarmupStep * (active - 1))
  IN IF Limit[box] = 0 THEN cap ELSE Smaller(cap, Limit[box])

SentBy(records, box, d) == {r \in records : r.box = box /\ r.day = d}

\* days_active: counted from the first day in the records, 1 before any send.
DaysActive(records, box, d) ==
  LET days == {r.day : r \in {s \in records : s.box = box}}
  IN IF days = {} THEN 1 ELSE d - (CHOOSE f \in days : \A e \in days : f <= e) + 1

=============================================================================
