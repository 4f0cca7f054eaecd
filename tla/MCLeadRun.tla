----------------------------- MODULE MCLeadRun -----------------------------
(***************************************************************************)
(* Instances of LeadRun for TLC.  Companies 1 to 3 carry the websites 11   *)
(* to 13, companies 4 to 6 carry none and are known as 14 to 16.           *)
(***************************************************************************)
EXTENDS LeadRun

Six == 1..6
Three == 1..3
Sites == 11..13
AllKeys == 11..16
Own == [c \in Six |-> c + 10]

\* The sites 11 and 12 moved to 13.
MovedTo13 == [k \in AllKeys |-> IF k \in {11, 12} THEN 13 ELSE k]

=============================================================================
