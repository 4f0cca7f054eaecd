----------------------------- MODULE Discovery -----------------------------
(***************************************************************************)
(* From the discovery sources to a run's batch: Pipeline.discover and the  *)
(* filters of Pipeline.run (pipeline.py), the merging of the records that  *)
(* are one company (validation/dedupe.py, validation/entity_resolution.py) *)
(* and the screening of dead sites (validation/liveness.py).               *)
(*                                                                         *)
(* A record's name stands for what normalize_name makes of it.  What the   *)
(* filters read in a record (its category, the sectors its address names,  *)
(* where it lies, whether a keyword occurs) is a field of it.              *)
(***************************************************************************)
EXTENDS Integers, SequencesExt

CONSTANTS
  None,            \* an empty field
  Social,          \* a website on a social host
  LegalName,       \* normalize_legal_name of every name, None when nothing is left
  FirstWord,       \* the first word of every legal name
  Similar,         \* the pairs of legal names at or above FUZZY_NAME_THRESHOLD
  SparseThreshold, \* sparse_discovery_threshold
  Batch,           \* _RELEVANCE_BATCH
  MaxJudged,       \* _RELEVANCE_MAX_JUDGED
  Window           \* the 50 sites that are resolved at least at a time

ASSUME NamesAssumption ==
  /\ \A p \in Similar : p \in Range(LegalName) \X Range(LegalName)
  /\ Range(LegalName) \ {None} \subseteq DOMAIN FirstWord
  /\ {Window, Batch} \subseteq Nat \ {0} /\ MaxJudged \in Nat /\ SparseThreshold \in Nat

-----------------------------------------------------------------------------
(* Sequences made in the order of their elements.                          *)

\* The members of a finite set, where upto[p] is p and those in front of it.
Ordered(T, upto) == [n \in 1..Cardinality(T) |-> CHOOSE p \in T : Cardinality(upto[p]) = n]

\* What a filter leaves of cs: the elements at the positions in I.
At(cs, I) ==
  LET order == Ordered(I, [i \in I |-> {j \in I : j <= i}])
  IN [n \in DOMAIN order |-> cs[order[n]]]

-----------------------------------------------------------------------------
(* discover: the sources and their order.                                  *)

\* _round_robin: one of each list in turn, the lists that ran out skipped.
RoundRobin(lists) ==
  LET turns == UNION {{<<i, l>> : i \in DOMAIN lists[l]} : l \in DOMAIN lists}
      Upto(p) == {q \in turns : q[1] < p[1] \/ (q[1] = p[1] /\ q[2] <= p[2])}
      order == Ordered(turns, [p \in turns |-> Upto(p)])
  IN [n \in DOMAIN order |-> lists[order[n][2]][order[n][1]]]

\* The map sources come first.  When they found too little, the web search
\* looks for their categories too.
SourcesOf(req, geo, other, web) ==
  LET sparse == /\ req.fallback /\ geo # <<>>
                /\ Len(FlattenSeq(geo)) < SparseThreshold
      renamed == [i \in DOMAIN web |-> [web[i] EXCEPT !.source = "websearch_sparse"]]
  IN geo \o other \o (IF sparse THEN <<renamed>> ELSE <<>>)

-----------------------------------------------------------------------------
(* The filters.                                                            *)

\* The sources' names.
Sources == {"overture", "osm", "websearch", "websearch_sparse", "kcci", "ppra", "csv_seed", "gleif",
            "gleif_golden_copy", "wikidata", "edgar", "companies_house"}

\* A record as a source reports it.
Found == [source : Sources, brand : BOOLEAN, category : {None, "own", "other"}, hit : BOOLEAN,
          sectors : SUBSET STRING, coords : {None, "inside", "outside", "unreadable"},
          located : {None, "inside", "outside"}, of : SUBSET Nat]

\* Sources whose records are not held to the offer.  No source is called
\* seed_csv: the user's own seeds come from csv_seed.
Targeted == {"websearch", "ppra", "kcci", "seed_csv"}

\* A sector in the name or address decides, else the coordinates do, else the
\* place the geocoder finds.  What cannot be located stays.
InArea(req, c) ==
  IF req.sectors # {} /\ c.sectors # {} THEN c.sectors \cap req.sectors # {}
  ELSE IF c.coords # None THEN c.coords \in {"inside", "unreadable"} \/ ~req.fences
  ELSE c.located # "outside" \/ ~req.fences

\* _area_proximity_filter: never leaves an empty list.
AreaFilter(req, cs) ==
  LET inside == {i \in DOMAIN cs : InArea(req, cs[i])}
      kept == At(cs, inside)
  IN IF ~req.areas \/ (~req.fences /\ req.sectors = {}) \/ inside = {}
     THEN [kept |-> cs, dropped |-> 0]
     ELSE [kept |-> kept, dropped |-> Len(cs) - Len(kept)]

\* _trusted_relevance_categories: one of the campaign's own categories, unless
\* it is a wildcard or they were derived from nothing but the broad fallback.
Trusts(req, category) == category = "own" /\ (req.configured \/ ~req.broad)

\* _discovery_relevance_filter
Relevant(req, c) ==
  \/ ~req.keywords
  \/ c.source \in Targeted
  \/ c.category = None \/ Trusts(req, c.category)
  \/ c.hit

\* What _parse_keyword_list makes of a reply: the items of its JSON array, or
\* whatever stands between its commas and line breaks.  "true" is also 1 and yes,
\* "false" any item that says no, and "prose" a piece of something else: an
\* excuse, or "[true" where the reply was cut off.
Fragments == {"true", "false", "prose"}

\* Faulty variant: a reply that is too short is taken as it is.
RelevanceUnpadded(cs, reply) ==
  [i \in 1..(IF reply = None THEN Len(cs) ELSE Min({Len(reply), Len(cs)})) |->
     reply = None \/ reply[i] = "true"]

\* _relevance_batch: a record passes when the call failed, when the reply has
\* nothing in its place, or a yes.
RelevanceBatch(cs, reply) ==
  [i \in DOMAIN cs |-> reply = None \/ i > Len(reply) \/ reply[i] = "true"]

\* check_discovery_relevance, in chunks, up to MaxJudged records.
CheckRelevance(cs, replies) ==
  LET judged == Min({Len(cs), MaxJudged})
      Chunk(k) == SubSeq(cs, (k - 1) * Batch + 1, Min({k * Batch, judged}))
      chunks == (judged + Batch - 1) \div Batch
      heard[k \in 0..chunks] ==
        IF k = 0 THEN <<>> ELSE heard[k - 1] \o RelevanceBatch(Chunk(k), replies[k])
      verdicts == heard[chunks]
  IN [i \in DOMAIN cs |-> i > Len(verdicts) \/ verdicts[i]]

\* run asks about the other sources' records only, when there is a model to ask.
Asked(req, cs) == At(cs, {i \in DOMAIN cs : req.typed /\ cs[i].source \notin Targeted})

OnType(req, cs) ==
  LET asked == Asked(req, cs)
      verdicts == CheckRelevance(asked, req.replies)
      rejected == {asked[i].of : i \in {j \in DOMAIN asked : ~verdicts[j]}}
  IN At(cs, {i \in DOMAIN cs : cs[i].of \notin rejected})

\* run: what discovery found is filtered, and each filter counts what it drops.
Funnel(req, lists) ==
  LET found == RoundRobin(lists)
      chained == At(found, {i \in DOMAIN found : ~req.exclude_chains \/ ~found[i].brand})
      area == AreaFilter(req, chained)
      relevant == At(area.kept, {i \in DOMAIN area.kept : Relevant(req, area.kept[i])})
      typed == OnType(req, relevant)
  IN [discovered |-> Len(found), kept |-> typed, asked |-> Asked(req, relevant),
      chains_excluded |-> Len(found) - Len(chained),
      area_dropped |-> area.dropped,
      relevance_dropped |-> Len(area.kept) - Len(relevant),
      demoted |-> Len(relevant) - Len(typed)]

-----------------------------------------------------------------------------
(* Records that are one company.                                           *)

\* What a source says of a company, None where it is silent.  of: the records
\* that were merged into this one.
Record ==
  LET Said == {None, Social} \cup STRING
  IN [name : Said, city : Said, country : Said, site : Said, domain : Said, lei : Said, reg : Said,
      of : SUBSET Nat]

\* A site on a social host is not the company's.
Cleaned(c) ==
  IF c.site = Social THEN [c EXCEPT !.site = None, !.domain = None]
  ELSE [c EXCEPT !.domain = IF @ = None THEN c.site ELSE @]

\* _merge, of the companies at I into the one at k, one after the other: what
\* k is silent about is taken from the first of them that is not.  of: the
\* records that were merged.
Merge(cs, k, I) ==
  LET Having(f) == {i \in I : cs[i][f] # None}
  IN [f \in DOMAIN cs[k] |->
        IF f = "of" THEN UNION {cs[i].of : i \in I}
        ELSE IF cs[k][f] # None \/ Having(f) = {} THEN cs[k][f] ELSE cs[Min(Having(f))][f]]

\* What is left, in order, when every company i is merged into the one at home[i].
Merged(cs, home) ==
  At([k \in DOMAIN cs |-> Merge(cs, k, {i \in DOMAIN cs : home[i] = k})],
     {k \in DOMAIN cs : home[k] = k})

\* company_key
KeyOf(c) == IF c.domain # None THEN <<c.domain>> ELSE <<c.name, c.city>>

\* dedupe_companies, its first loop: the first record with a key takes the others.
ByKey(cs) ==
  LET named == At(cs, {i \in DOMAIN cs : cs[i].name # None})
      clean == [i \in DOMAIN named |-> Cleaned(named[i])]
      SameKey(i) == {j \in DOMAIN clean : KeyOf(clean[j]) = KeyOf(clean[i])}
  IN Merged(clean, [i \in DOMAIN clean |-> Min(SameKey(i))])

\* Its second one: a company without a domain joins the last one with a domain
\* that name_index has for its name and city.
Dedupe(cs) ==
  LET keyed == ByKey(cs)
      Twins(i) == {j \in DOMAIN keyed : keyed[j].domain # None
                     /\ keyed[j].name = keyed[i].name /\ keyed[j].city = keyed[i].city}
  IN Merged(keyed, [i \in DOMAIN keyed |->
                      IF keyed[i].domain # None \/ Twins(i) = {} THEN i ELSE Max(Twins(i))])

\* The companies in front of i with its LEI, its registration number or its domain.
SameLei(cs, i) == {j \in 1..i-1 : cs[i].lei # None /\ cs[j].lei = cs[i].lei}
SameNumber(cs, i) ==
  {j \in 1..i-1 : cs[i].reg # None /\ <<cs[j].country, cs[j].reg>> = <<cs[i].country, cs[i].reg>>}
SameDomain(cs, i) == {j \in 1..i-1 : cs[i].domain # None /\ cs[j].domain = cs[i].domain}

\* The first company of the strongest tier that has any, i itself if none has.
FirstOf(tiers, i) ==
  LET found == {t \in DOMAIN tiers : tiers[t] # {}}
  IN IF found = {} THEN i ELSE Min(tiers[Min(found)])

\* Faulty variant: the registration number is looked up before the LEI.
RegistrationFirst(cs, i) == FirstOf(<<SameNumber(cs, i), SameLei(cs, i), SameDomain(cs, i)>>, i)

\* The company that the indices have for the first identifier of i they know.
IdentifiedBy(cs, i) == FirstOf(<<SameLei(cs, i), SameNumber(cs, i), SameDomain(cs, i)>>, i)

\* resolve_entities' loop: i goes where the company that first had its
\* identifier went.
Identified(cs) ==
  LET home[i \in DOMAIN cs] == LET j == IdentifiedBy(cs, i) IN IF j = i THEN i ELSE home[j]
  IN Merged(cs, home)

\* Names are compared within one country and one first word.
Alike(d, c) ==
  /\ d.country = c.country
  /\ LegalName[d.name] # None /\ LegalName[c.name] # None
  /\ FirstWord[LegalName[d.name]] = FirstWord[LegalName[c.name]]
  /\ <<LegalName[c.name], LegalName[d.name]>> \in Similar

\* _fuzzy_merge_by_name
FuzzyMerge(cs) ==
  LET home[i \in DOMAIN cs] ==
        LET alike == {j \in 1..i-1 : home[j] = j /\ Alike(cs[j], cs[i])}
        IN IF alike = {} THEN i ELSE Min(alike)
  IN Merged(cs, home)

\* resolve_entities
ResolveEntities(cs) ==
  LET base == Dedupe(cs)
  IN IF Len(base) <= 1 THEN base ELSE FuzzyMerge(Identified(base))

-----------------------------------------------------------------------------
(* The batch.                                                              *)

Sited(cs) == At(cs, {i \in DOMAIN cs : cs[i].site # None})
Bare(cs) == At(cs, {i \in DOMAIN cs : cs[i].site = None})

\* run sorts the companies with a website first.
SitesFirst(cs) == Sited(cs) \o Bare(cs)

\* _lookup, of two attempts: an attempt that fails is tried again, and what
\* fails twice counts as alive.
Verdict(attempt) ==
  IF attempt.a = "no_record" /\ attempt.aaaa # "address"
  THEN IF attempt.aaaa = "failure" THEN "unsure" ELSE "dead"
  ELSE CASE attempt.a = "no_name" -> "dead"
         [] attempt.a = "failure" -> "unsure"
         [] attempt.a \in {"address", "no_record"} -> "alive"

Resolves(attempts) ==
  /\ Verdict(attempts[1]) # "dead"
  /\ Verdict(attempts[1]) = "unsure" => Verdict(attempts[2]) # "dead"

\* Faulty variant: live sites beyond the limit are thrown away.
LeftoverUnseen(found, unseen, bare) == unseen \o bare

\* What is left for a later round: the live sites beyond the limit, the sites
\* not looked at and the companies without one.
Leftover(found, unseen, bare) == found \o unseen \o bare

\* _take_live: sites are resolved window by window until limit are alive.
TakeLive(cs, limit) ==
  LET sited == Sited(cs)
      bare == Bare(cs)
      window == Max({limit, Window})
      LiveIn(n) == At(sited, {i \in 1..n : Resolves(sited[i].dns)})
      cursor == Min({n \in {Min({k * window, Len(sited)}) : k \in 1..Len(sited)} :
                       Len(LiveIn(n)) >= limit \/ n = Len(sited)})
      found == LiveIn(cursor)
      taken == Min({limit, Len(found)})
      spare == Min({limit - taken, Len(bare)})
  IN IF Len(sited) <= limit
     THEN [batch |-> SubSeq(cs, 1, Min({limit, Len(cs)})), dead |-> 0,
           pool |-> SubSeq(cs, limit + 1, Len(cs))]
     ELSE [batch |-> SubSeq(found, 1, taken) \o SubSeq(bare, 1, spare),
           dead |-> cursor - Len(found),
           pool |-> Leftover(SubSeq(found, taken + 1, Len(found)),
                             SubSeq(sited, cursor + 1, Len(sited)),
                             SubSeq(bare, spare + 1, Len(bare)))]

=============================================================================
