---------------------------- MODULE MCCampaigns -----------------------------
(***************************************************************************)
(* Instances of Accounts, which is Campaigns with the account settings.    *)
(***************************************************************************)
EXTENDS Accounts, TLC

Examples == {<<"x", 1>>}
Symmetric == Permutations(Requests) \cup Permutations(Calls) \cup Permutations(Tenants)

\* A limit below, within and above what is allowed.
Numbers == {-1, 1, 9}
=============================================================================
