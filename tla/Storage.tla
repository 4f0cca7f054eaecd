------------------------------ MODULE Storage ------------------------------
(***************************************************************************)
(* What the database layer promises its callers, whatever happens to the   *)
(* connections: a write lands at most once and by itself, a method that    *)
(* returned has written, a method that raised may or may not have, and a   *)
(* dry run never writes.  Connection implements this.                      *)
(***************************************************************************)
EXTENDS Naturals

CONSTANTS Processes, DryRuns, Writes

VARIABLES tables, result

AllWrites == Processes \X Writes

Init ==
  /\ tables = [w \in AllWrites |-> 0]
  /\ result = [w \in AllWrites |-> "none"]

Real(w) == w[1] \notin DryRuns

\* The write lands, and its method may have no more to say.
Land(w) ==
  /\ Real(w) /\ tables[w] = 0 /\ result[w] = "none"
  /\ tables' = [tables EXCEPT ![w] = 1]
  /\ \/ result' = result
     \/ result' = [result EXCEPT ![w] = "ok"]

\* The method raises, or a dry run's method returns.
Answer(w) ==
  /\ result[w] = "none"
  /\ \/ result' = [result EXCEPT ![w] = "raised"]
     \/ ~Real(w) /\ result' = [result EXCEPT ![w] = "ok"]
  /\ tables' = tables

Next == \E w \in AllWrites : Land(w) \/ Answer(w)

Spec == Init /\ [][Next]_<<tables, result>>

=============================================================================
