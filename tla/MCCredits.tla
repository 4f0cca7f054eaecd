----------------------------- MODULE MCCredits -----------------------------
(***************************************************************************)
(* Instances of Credits for TLC.  One metered user with two campaigns; in  *)
(* some runs a master account and a shared campaign.                       *)
(***************************************************************************)
EXTENDS Credits, TLC

CONSTANTS u1, u2, c1, c2

\* c1 belongs to u1, c2 to nobody.
OneShared == c1 :> u1 @@ c2 :> NoOne

\* Both campaigns belong to u1.
AllOwned == c1 :> u1 @@ c2 :> u1

OneCampaign == c1 :> u1

DispatchSymmetry == Permutations(Dispatches \ Earlier)

=============================================================================
