---------------------------- MODULE MCMailboxes ----------------------------
(***************************************************************************)
(* Two leads of a campaign, two mailboxes, the second of which has a limit *)
(* of its own, and two machines that batches run on.  (Campaigns have      *)
(* ledgers and leads of their own, so one is enough.)                      *)
(***************************************************************************)
EXTENDS Mailboxes, TLC

CONSTANTS spring, l1, l2

MCCampaignOf == l1 :> spring @@ l2 :> spring
MCLimit == 1 :> 0 @@ 2 :> 1
MCBoxes == 1..2

Symmetry == Permutations({l1, l2}) \cup Permutations(Machines)

=============================================================================
