---------------------------- MODULE UsageCounts ----------------------------
(***************************************************************************)
(* A count of usage_counts for a day or a month (storage/database.py,      *)
(* check_and_increment_usage, consume_credits, get_usage).                 *)
(*                                                                         *)
(* A row keeps a number and the date it belongs to.  Nothing clears it     *)
(* when a day ends: every statement brings the date its process read off   *)
(* the clock before sending it, and counts on from a row of the same date, *)
(* anew from a row of any other, earlier or later.                         *)
(***************************************************************************)
EXTENDS Integers

CountRow == [at : Nat, n : Nat]

NoCount == [at |-> 0, n |-> 0]

Added(row, period, n) ==
  [at |-> period, n |-> IF row.at = period THEN row.n + n ELSE n]

\* The WHERE clause of the conditional upsert.
HasRoom(row, period, limit) == row.at # period \/ row.n < limit

Reading(row, period) == IF row.at = period THEN row.n ELSE 0

=============================================================================
