------------------------------ MODULE Evidence ------------------------------
(***************************************************************************)
(* What the engine concludes about one company from what it read: the      *)
(* classification (qualification/buyer_classifier.py), the score and the   *)
(* priority (scoring/scoring.py), whether the lead is ready for outreach   *)
(* and whether the campaign's hard filters keep it.                        *)
(*                                                                         *)
(* Texts are known by how many of the campaign's terms they contain and    *)
(* where, the site by what its audit and Google say of it in numbers.      *)
(***************************************************************************)
EXTENDS Integers, FiniteSets

CONSTANTS
  Weights,   \* ScoringWeights
  Routing,   \* RoutingThresholds
  MinScore   \* min_score

ASSUME WeightsAssumption ==
  /\ Weights \in [{"review_band", "rating", "proximity_tier", "online_gap",
                   "pain_evidence"} -> Nat]
  /\ Weights.review_band + Weights.rating + Weights.proximity_tier
       + Weights.online_gap + Weights.pain_evidence = 100
ASSUME RoutingAssumption ==
  /\ Routing \in [{"high_priority", "qualified", "review"} -> Nat]
  /\ Routing.review <= Routing.qualified /\ Routing.qualified <= Routing.high_priority
  /\ MinScore \in Nat

Smaller(a, b) == IF a < b THEN a ELSE b

-----------------------------------------------------------------------------
(* Classification.                                                         *)

\* A bundle of texts: whether its discovery category is a vendor's, a target
\* of the campaign or neither; whether it tenders for the offer; whether its
\* name has a vendor term; how many vendor and buyer terms its identity has,
\* how many more its pages, and how many phrases of somebody who sells.
Bundle == [category : {"vendor", "target", "other"}, tender : BOOLEAN,
           vendor_name : BOOLEAN, vendor_id : Nat, vendor_body : Nat,
           phrases : Nat, buyer_id : Nat, buyer_body : Nat, reachable : BOOLEAN]

\* The name is part of the identity.
Consistent(b) == b.vendor_name => b.vendor_id > 0

W_IDENTITY == 3
W_BODY == 1

\* Faulty variant: every buyer term of the pages counts.
BuyerScoreUncapped(b) ==
  2 * (W_IDENTITY * b.buyer_id + W_BODY * b.buyer_body
       + IF b.category = "target" THEN W_IDENTITY ELSE 0)

\* Both scores are doubled: a phrase counts half.
BuyerScore(b) ==
  2 * (W_IDENTITY * b.buyer_id + W_BODY * Smaller(b.buyer_body, 4)
       + IF b.category = "target" THEN W_IDENTITY ELSE 0)
VendorScore(b) ==
  2 * (W_IDENTITY * b.vendor_id + W_BODY * b.vendor_body) + b.phrases

\* The name says what the company is, unless it has a live tender.
ByIdentity(b) ==
  b.vendor_name \/ (b.vendor_id > 0 /\ VendorScore(b) >= BuyerScore(b))
ByPages(b) ==
  /\ b.buyer_id = 0 /\ b.category # "target"
  /\ b.vendor_body >= 3 \/ (b.vendor_body > 0 /\ b.phrases >= 3)
BuyerEvidence(b) ==
  b.buyer_id > 0 \/ b.category = "target" \/ b.buyer_body >= 2

Classify(b) ==
  IF b.category = "vendor" THEN "VENDOR"
  ELSE IF b.tender /\ ~b.vendor_name THEN "BUYER"
  ELSE IF ByIdentity(b) \/ ByPages(b) THEN "VENDOR"
  ELSE IF b.reachable /\ BuyerEvidence(b) THEN "BUYER"
  ELSE "UNKNOWN"

\* A bundle with a little more of a vendor's evidence, or of a buyer's.  A term
\* that moves from the pages into the identity is more evidence.
MoreVendor(b) ==
  {[b EXCEPT !.vendor_id = @ + 1], [b EXCEPT !.vendor_body = @ + 1],
   [b EXCEPT !.phrases = @ + 1],
   [b EXCEPT !.vendor_name = TRUE, !.vendor_id = @ + 1],
   [b EXCEPT !.category = IF @ = "other" THEN "vendor" ELSE @]}
  \cup (IF b.vendor_body = 0 THEN {}
        ELSE {[b EXCEPT !.vendor_id = @ + 1, !.vendor_body = @ - 1]})
MoreBuyer(b) ==
  {[b EXCEPT !.buyer_id = @ + 1], [b EXCEPT !.buyer_body = @ + 1],
   [b EXCEPT !.tender = TRUE],
   [b EXCEPT !.category = IF @ = "other" THEN "target" ELSE @],
   [b EXCEPT !.reachable = TRUE]}
  \cup (IF b.buyer_body = 0 THEN {}
        ELSE {[b EXCEPT !.buyer_id = @ + 1, !.buyer_body = @ - 1]})

\* What the verdicts are worth: VENDOR ends outreach, BUYER allows it.
Worth(type) == CASE type = "VENDOR" -> 0 [] type = "UNKNOWN" -> 1 [] type = "BUYER" -> 2

-----------------------------------------------------------------------------
(* The language model's verdict.                                           *)

\* A confident verdict moves a company between BUYER and UNKNOWN only.
ApplyVerdict(type, buyer, strong) ==
  IF strong /\ buyer /\ type = "UNKNOWN" THEN "BUYER"
  ELSE IF strong /\ ~buyer /\ type = "BUYER" THEN "UNKNOWN"
  ELSE type

-----------------------------------------------------------------------------
(* Scores.  None is -1.                                                    *)

NotKnown == -1

\* round(n / d): ties go to the even neighbour.
Rounded(n, d) ==
  LET q == n \div d  rest == 2 * (n % d)
  IN IF rest > d \/ (rest = d /\ q % 2 = 1) THEN q + 1 ELSE q

ReviewBand(count, points) ==
  LET tenths == CASE count >= 200 -> 10 [] count >= 100 /\ count < 200 -> 8
                  [] count >= 50 /\ count < 100 -> 6 [] count >= 10 /\ count < 50 -> 4
                  [] count >= 1 /\ count < 10 -> 2 [] count < 1 -> 0
  IN (points * tenths) \div 10

\* The rating comes in tenths of a star.
RatingScore(rating, points) ==
  IF rating = NotKnown THEN 0
  ELSE LET clamped == Smaller(50, IF rating < 10 THEN 10 ELSE rating)
       IN Rounded((clamped - 10) * points, 40)

\* The tier of a company without coordinates is 1.
TierPoints == <<15, 12, 8>>
ProximityScore(tier, points) == Rounded(TierPoints[tier] * points, 15)

PainScore(reviews, signals, intent, points) ==
  Smaller(points, Rounded(6 * Smaller(reviews, 5) + 3 * Smaller(signals, 3)
                          + (IF intent THEN 4 ELSE 0), 2))

Audit == [reviews : Int, rating : Nat \cup {NotKnown}, tier : 1..3, gap : Nat, pains : Nat,
          signals : Nat, intent : BOOLEAN]

Total(a) ==
  ReviewBand(a.reviews, Weights.review_band) + RatingScore(a.rating, Weights.rating)
  + ProximityScore(a.tier, Weights.proximity_tier) + Smaller(a.gap, Weights.online_gap)
  + PainScore(a.pains, a.signals, a.intent, Weights.pain_evidence)

Route(total) ==
  CASE total >= Routing.high_priority -> "high_priority"
    [] total < Routing.high_priority /\ total >= Routing.qualified -> "qualified"
    [] total < Routing.qualified /\ total >= Routing.review -> "review"
    [] total < Routing.review -> "reject"

Promising == {"high_priority", "qualified"}

\* Faulty variant: a website of somebody else does not matter.
PriorityOfAnySite(total, type, mismatch) ==
  IF type = "VENDOR" THEN "reject"
  ELSE IF Route(total) \in Promising /\ type = "UNKNOWN" THEN "review"
  ELSE Route(total)

Priority(total, type, mismatch) ==
  IF type = "VENDOR" THEN "reject"
  ELSE IF Route(total) \in Promising /\ (type = "UNKNOWN" \/ mismatch) THEN "review"
  ELSE Route(total)

-----------------------------------------------------------------------------
(* Outreach.                                                               *)

UsableStatus == {"mx_valid", "generic", "deliverable"}

\* is_outreach_ready: the reason why not, or none.
SkipReason(type, total, priority, reachableByMail, phone) ==
  IF type # "BUYER" THEN "not_a_buyer"
  ELSE IF total < MinScore THEN "score_below_min"
  ELSE IF priority \notin Promising THEN "priority_below_qualified"
  ELSE IF ~(reachableByMail \/ phone) THEN "no_usable_contact"
  ELSE "none"

\* _apply_hard_filters: 0 reviews and the last tier stand for "no such filter".
\* The tier is read off the points, as if the weight were 15.
TierOfPoints(points) == CASE points = 15 -> 1 [] points = 12 -> 2 [] points \notin {15, 12} -> 3

PassesFilters(a, min_reviews, max_tier) ==
  /\ a.reviews >= min_reviews \/ min_reviews = 0
  /\ TierOfPoints(ProximityScore(a.tier, Weights.proximity_tier)) <= max_tier

=============================================================================
