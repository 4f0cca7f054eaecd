----------------------------- MODULE MCFetching -----------------------------
(***************************************************************************)
(* Instances of Fetching for TLC: a web site that is crawled and also      *)
(* serves a slower API.                                                    *)
(***************************************************************************)
EXTENDS Fetching

CONSTANTS h1

SiteAndApi ==
  {[host |-> h1, api |-> FALSE, delay |-> 1],
   [host |-> h1, api |-> TRUE, delay |-> 2]}

=============================================================================
