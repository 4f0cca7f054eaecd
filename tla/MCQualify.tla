----------------------------- MODULE MCQualify -----------------------------
(***************************************************************************)
(* Two companies.  Acme is in a member directory, with a representative, a *)
(* tender and an address of record; its domain answers itself or from      *)
(* bolt's.  Bolt is found by the website finder or not at all; its domain  *)
(* has a site, a parked page, or redirects to a marketplace.  Bolt's mail  *)
(* server takes any address.                                               *)
(***************************************************************************)
EXTENDS Qualify, TLC

CONSTANTS acme, bolt, acmeSite, boltSite, mart

MCWeights == [review_band |-> 25, rating |-> 15, proximity_tier |-> 15,
              online_gap |-> 25, pain_evidence |-> 20]
MCRouting == [high_priority |-> 75, qualified |-> 55, review |-> 35]

MCRecord ==
  acme :> [site |-> acmeSite, mail |-> TRUE, rep |-> TRUE, tender |-> TRUE, phone |-> FALSE]
  @@ bolt :> [site |-> None, mail |-> FALSE, rep |-> FALSE, tender |-> FALSE, phone |-> FALSE]
MCFinds == acme :> {None} @@ bolt :> {boltSite, None}
MCAnswers ==
  acmeSite :> {[at |-> acmeSite, page |-> "site"], [at |-> boltSite, page |-> "site"]}
  @@ boltSite :> {[at |-> boltSite, page |-> "site"], [at |-> boltSite, page |-> "down"],
                  [at |-> mart, page |-> "rejected"]}
  @@ mart :> {}
\* Both companies' domains are gone.
MCAnswersDead ==
  [h \in {acmeSite, boltSite} |->
     {[at |-> h, page |-> "site"], [at |-> mart, page |-> "rejected"]}] @@ mart :> {}
MCOwn == acme :> {acmeSite} @@ bolt :> {boltSite}
MCPeople == {<<acme, acmeSite>>}

Text == [category |-> "other", tender |-> FALSE, vendor_name |-> FALSE, vendor_id |-> 0,
         vendor_body |-> 0, phrases |-> 0, buyer_id |-> 0, buyer_body |-> 0,
         reachable |-> FALSE]
MCTexts == {[Text EXCEPT !.buyer_body = 3], [Text EXCEPT !.category = "vendor"]}
MCTotals == {60}
MCBannable == {boltSite, Guessed(acmeSite)}

=============================================================================
