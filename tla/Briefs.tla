------------------------------- MODULE Briefs -------------------------------
(***************************************************************************)
(* From what a user writes to what a run searches for: the natural-language*)
(* campaign parser (campaign/nl_parser.py) and the derivation of the       *)
(* discovery targets (discovery/targeting.py).                             *)
(*                                                                         *)
(* A text is known by what the parser's patterns find in it and by the     *)
(* taxonomy's sectors whose terms occur in it; the language model's reply  *)
(* is whatever it says.                                                    *)
(***************************************************************************)
EXTENDS Integers, Sequences

CONSTANTS
  None,         \* a field nobody filled
  Taxonomy,     \* the sectors
  General,      \* general_retail, the broad one
  Industries,   \* names of industries
  Hits,         \* the sectors whose terms occur in an industry's name
  CityWords,    \* the areas whose name is a word of a city's name
  MostCompanies \* 5000

TaxonomyAssumption ==
  /\ General \in Taxonomy
  /\ Hits \in [Industries -> SUBSET Taxonomy]
  /\ MostCompanies \in Nat /\ MostCompanies >= 30

-----------------------------------------------------------------------------
(* discovery/targeting.py                                                  *)

\* match_sectors, of all the sectors whose terms occur.
MatchSectors(hits) == IF hits \subseteq {General} THEN hits ELSE hits \ {General}

HitsOf(industries) == UNION {Hits[i] : i \in industries}

\* resolve_sectors
ResolveSectors(offer, industries) ==
  LET named == MatchSectors(HitsOf(industries))
  IN IF named \subseteq {General} THEN MatchSectors(offer \cup HitsOf(industries)) ELSE named

\* Faulty variant: the language model is always asked.
GuessesAlways(industries, guesses) == guesses \cap Taxonomy

\* _llm_sectors is asked only for a campaign that names no industry.
GuessedSectors(industries, guesses) ==
  IF industries = {} THEN guesses \cap Taxonomy ELSE {}

\* derive_discovery_targets: the sectors searched.  Without a specific sector
\* the named industries themselves are looked up, and that always gives
\* something to search.
Niche == "_niche"

DeriveTargets(offer, industries, guesses) ==
  LET sectors == ResolveSectors(offer, industries) \cup GuessedSectors(industries, guesses)
      specific == ResolveSectors(offer, industries) \ {General}
  IN IF specific = {} /\ industries # {} THEN {Niche}
     ELSE IF sectors = {} THEN {General}
     ELSE sectors

-----------------------------------------------------------------------------
(* campaign/nl_parser.py                                                   *)

\* A text is what the patterns find in it: the offer after a verb of selling
\* (pattern) and the sentences about the user (about); cities of the curated list
\* or else in front of a country's name (abroad); for each pattern of a subject
\* the fragments it finds; hits are the sectors whose terms occur in it.

Sentence == [firstPerson : BOOLEAN, search : BOOLEAN, terms : SUBSET Taxonomy]

Text ==
  [pattern : {None} \cup SUBSET Taxonomy, about : SUBSET Sentence, hits : SUBSET Taxonomy,
   countries : SUBSET STRING, cities : SUBSET STRING, abroad : SUBSET STRING,
   areas : SUBSET STRING, subjects : Seq(SUBSET [name : STRING, noun : BOOLEAN]),
   chains : BOOLEAN, number : Int \cup {None}]

\* What a model replies, or None.
Reply ==
  {None} \cup
  [name : STRING \cup {None}, offer : {None} \cup SUBSET Taxonomy, sectors : SUBSET STRING,
   countries : SUBSET STRING, cities : SUBSET STRING, areas : SUBSET STRING,
   industries : SUBSET STRING, chains : BOOLEAN, max : Int \cup {None}]

\* _extract_offer: without the verb, all that the user says of themselves that is
\* not the search itself.
OfferIn(text) ==
  LET own == {s \in text.about : s.firstPerson /\ ~s.search}
  IN IF text.pattern # None THEN text.pattern
     ELSE IF own = {} THEN None ELSE UNION {s.terms : s \in own}

\* _extract_cities, else _extract_cities_generic
CitiesIn(text) == IF text.cities # {} THEN text.cities ELSE text.abroad

\* _extract_areas: a word of a city's name is no area.
AreasIn(text) == text.areas \ UNION {CityWords[c] : c \in CitiesIn(text)}

\* _extract_subject: the first pattern that leaves a noun gives the industries;
\* clauses and generic words are dropped.
IndustriesIn(text) ==
  LET Nouns(fragments) == {f.name : f \in {g \in fragments : g.noun}}
      found == {i \in DOMAIN text.subjects : Nouns(text.subjects[i]) # {}}
      first == CHOOSE i \in found : \A j \in found : i <= j
  IN IF found = {} THEN {} ELSE Nouns(text.subjects[first])

\* _extract_max_companies
MaxIn(text) == IF text.number \in 1..MostCompanies THEN text.number ELSE None

\* parse_intent
ParseIntent(text) ==
  [name |-> None, offer |-> OfferIn(text), countries |-> text.countries,
   cities |-> CitiesIn(text), areas |-> AreasIn(text), industries |-> IndustriesIn(text),
   chains |-> text.chains, max |-> MaxIn(text),
   sectors |-> ResolveSectors(text.hits, IndustriesIn(text))]

\* parse_campaign_nl keeps the sectors of the taxonomy.
ReadReply(reply) ==
  IF reply = None THEN None ELSE [reply EXCEPT !.sectors = @ \cap Taxonomy]

Or(a, b) == IF a = None THEN b ELSE a
OrSet(a, b) == IF a = {} THEN b ELSE a

\* The model's number of companies, clamped.
Clamped(n) == IF n = None THEN None
              ELSE IF n < 1 THEN 1 ELSE IF n > MostCompanies THEN MostCompanies ELSE n

\* _merge_llm: single fields and places are filled, the other lists extended.
MergeLLM(draft, reply) ==
  IF reply = None THEN draft
  ELSE [name |-> Or(draft.name, reply.name), offer |-> Or(draft.offer, reply.offer),
        countries |-> OrSet(draft.countries, reply.countries),
        cities |-> OrSet(draft.cities, reply.cities),
        areas |-> draft.areas \cup reply.areas,
        industries |-> draft.industries \cup reply.industries,
        chains |-> draft.chains \/ reply.chains,
        max |-> IF draft.max = None /\ reply.max # 0 THEN Clamped(reply.max) ELSE draft.max,
        sectors |-> draft.sectors \cup reply.sectors]

\* build_campaign_config: a campaign without an offer gets one made of its
\* industries, its sectors or the text.
BuildConfig(draft, text) ==
  [name |-> draft.name, countries |-> OrSet(draft.countries, {"Pakistan"}),
   cities |-> draft.cities, areas |-> draft.areas, industries |-> draft.industries,
   offer |-> IF draft.offer # None THEN draft.offer
             ELSE IF draft.industries # {} THEN HitsOf(draft.industries)
             ELSE IF draft.sectors # {} THEN draft.sectors
             ELSE text.hits,
   exclude_chains |-> draft.chains, max_companies |-> Or(draft.max, 30)]

\* build_campaign_from_nl
Campaign(text, reply) == BuildConfig(MergeLLM(ParseIntent(text), ReadReply(reply)), text)

-----------------------------------------------------------------------------
(* What must hold of every text, reply and guess.                          *)

\* What the user wrote stands whatever the language model replies, and the
\* campaign asks for 1 to 5000 companies (nl_parser._merge_llm).
WordsStand(text, cfg) ==
  /\ text.countries # {} => cfg.countries = text.countries
  /\ text.cities # {} => cfg.cities = text.cities
  /\ text.pattern # None => cfg.offer = text.pattern
  /\ text.pattern = None =>
       \A s \in text.about : s.firstPerson /\ ~s.search => s.terms \subseteq cfg.offer
  /\ IndustriesIn(text) \subseteq cfg.industries
  /\ text.chains => cfg.exclude_chains
  /\ cfg.max_companies \in 1..MostCompanies
  /\ text.number \in 1..MostCompanies => cfg.max_companies = text.number

\* The user's words decide: what the text says stands; a campaign that names its
\* industries searches their sectors, or when they have none of their own those
\* that its offer and they mention, never a sector only the language model
\* thought of (targeting.py, derive_discovery_targets); and every campaign
\* searches something.
BriefStands(text, cfg, searched) ==
  LET named == HitsOf(cfg.industries) \ {General}
  IN /\ WordsStand(text, cfg)
     /\ searched # {}
     /\ named # {} => searched = named
     /\ cfg.industries # {} => searched \subseteq cfg.offer \cup named \cup {Niche}

=============================================================================
