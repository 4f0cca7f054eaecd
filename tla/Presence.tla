------------------------------ MODULE Presence ------------------------------
(***************************************************************************)
(* The audit of a company's online presence (enrichment/online_presence.py)*)
(* whose gap is the largest part of the score.  A site is known by what    *)
(* the audit's patterns find in it.                                        *)
(***************************************************************************)
EXTENDS Integers, FiniteSets, Sequences

CONSTANTS
  None,
  Global,  \* the delivery platforms of every country
  Local,   \* those of each country
  Home     \* pakistan, for a company without a country

PresenceAssumption ==
  /\ Home \in DOMAIN Local
  /\ IsFiniteSet(Global \cup UNION {Local[c] : c \in DOMAIN Local})

Platforms == Global \cup UNION {Local[c] : c \in DOMAIN Local}

\* What the audit's patterns find in a site.
Site ==
  [reachable : BOOLEAN, cart : BOOLEAN, platform : BOOLEAN, technology : BOOLEAN,
   whatsapp : BOOLEAN, facebook : BOOLEAN, instagram : BOOLEAN, delivers : BOOLEAN,
   phone : BOOLEAN, country : STRING \cup {None}, mentions : SUBSET Platforms]

\* An unreachable site has no pages, so nothing is found in it.
Nothing(s) ==
  ~(s.cart \/ s.platform \/ s.technology \/ s.whatsapp \/ s.facebook \/ s.instagram
    \/ s.delivers \/ s.phone) /\ s.mentions = {}
Auditable(s) == s.reachable \/ Nothing(s)

HasCart(s) == s.reachable /\ s.cart
\* A platform in the pages or, only when they name none, among the technologies.
HasEcommerce(s) == HasCart(s) \/ (s.reachable /\ s.platform) \/ s.technology

\* Countries without platforms of their own have the global ones.
DeliveryPlatforms(s) ==
  LET country == IF s.country = None THEN Home ELSE s.country
      known == Global \cup IF country \in DOMAIN Local THEN Local[country] ELSE {}
  IN IF s.reachable THEN s.mentions \cap known ELSE {}

\* _infer_delivery_model: the first that applies.
DeliveryModel(s) ==
  LET shop == HasEcommerce(s)  listed == DeliveryPlatforms(s) # {}
  IN IF ~s.reachable THEN "unknown"
     ELSE IF shop /\ s.delivers THEN "own"
     ELSE IF listed THEN IF shop THEN "hybrid" ELSE "third_party"
     ELSE IF (s.whatsapp /\ ~shop) \/ s.phone THEN "phone_only"
     ELSE "none"

\* _compute_online_gap.  No audit finds an app, and Google's reviews come after
\* it, so the terms for those two never count.
OnlineGap(s) ==
  LET listed == Cardinality(DeliveryPlatforms(s))
      gap == 22 - (IF HasCart(s) THEN 12 ELSE IF HasEcommerce(s) THEN 8 ELSE 0)
                - (IF listed > 3 THEN 6 ELSE 2 * listed)
                - (IF s.whatsapp THEN 2 ELSE 0)
                - (IF s.facebook \/ s.instagram THEN 1 ELSE 0)
  IN IF gap < 0 THEN 0 ELSE gap

\* online_gap_labels, in its order, of the audit alone.
Lacks(s, label) ==
  CASE label = "no_ecommerce" -> ~HasEcommerce(s)
    [] label = "no_cart" -> HasEcommerce(s) /\ ~HasCart(s)
    [] label = "no_whatsapp_ordering" -> ~s.whatsapp
    [] label = "no_delivery_platform" -> DeliveryPlatforms(s) = {}
    [] label = "no_mobile_app" -> TRUE
    [] label = "no_social" -> ~(s.facebook \/ s.instagram)

GapLabels(s) ==
  LET If(label) == IF Lacks(s, label) THEN <<label>> ELSE <<>>
  IN If("no_ecommerce") \o If("no_cart") \o If("no_whatsapp_ordering")
     \o If("no_delivery_platform") \o If("no_mobile_app") \o If("no_social")

\* generate_pitch_angle without a model: two parts at most, of the gaps, the
\* first pain and, when there is neither, the first buying signal.
Pitch(labels, pains, buying) ==
  LET First(signals, n) == SubSeq(signals, 1, IF Len(signals) < n THEN Len(signals) ELSE n)
      parts == First(labels, 2) \o First(pains, 1)
  IN First(IF parts = <<>> THEN First(buying, 1) ELSE parts, 2)

\* audit_online_presence
AuditPresence(s) ==
  [gap |-> OnlineGap(s), model |-> DeliveryModel(s), labels |-> GapLabels(s)]

\* A site with one channel more.
MoreChannels(s) ==
  {[s EXCEPT !.cart = TRUE], [s EXCEPT !.platform = TRUE], [s EXCEPT !.technology = TRUE],
   [s EXCEPT !.whatsapp = TRUE], [s EXCEPT !.facebook = TRUE], [s EXCEPT !.instagram = TRUE]}
  \cup {[s EXCEPT !.mentions = @ \cup {p}] : p \in Platforms}

=============================================================================
