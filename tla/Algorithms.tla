----------------------------- MODULE Algorithms -----------------------------
(***************************************************************************)
(* The engine's pure computations, each applied to every question of a     *)
(* small set: classification and score (module Evidence), the audit of a   *)
(* site (Presence), the filters, merging and screening of discovered       *)
(* records (Discovery), the campaign made of a user's text (Briefs), the   *)
(* label of a reply and the model's tasks (Wording) and the pacing of what *)
(* the engine asks of limited services (Services).  A behaviour asks one   *)
(* question; the invariants say what every answer to it promises.          *)
(***************************************************************************)
EXTENDS Evidence, Discovery

CONSTANTS
  Bundles, Audits,          \* questions to Classify and Total
  Records, MostRecords,     \* the records that ResolveEntities gets lists of
  Requests, Finds,          \* the filters' requests and the records they get
  Answers, Sites, Bares,    \* the name servers' answers, companies with and without a site
  Limits,                   \* max_companies
  Texts, Replies, Guesses,  \* users' texts, the language model's replies
  Taxonomy, General, Industries, Hits, CityWords, MostCompanies,
  Audited, Global, Local, Home,                \* sites for the presence audit
  Headings, Lines, MostLines, Opinions, DomainOf, \* replies to the engine's mail
  Words, Offers, Lists, Tenders, Verdicts, MaxKeywords, MaxPains, \* the model's tasks
  Calls, Articles, Pages, MostCalls,           \* requests to limited services
  Setups, Capacity, Tries, Models, Interval, Shell

VARIABLES question, answer
vars == <<question, answer>>

B == INSTANCE Briefs
P == INSTANCE Presence
W == INSTANCE Wording
S == INSTANCE Services

ASSUME InstancesAssumption ==
  B!TaxonomyAssumption /\ P!PresenceAssumption /\ W!WordingAssumption /\ S!ServicesAssumption

\* What the questions are asked about.
ASSUME QuestionsAssumption ==
  /\ None \notin Int \cup {"us", "them", "own"} /\ \A sectors \in SUBSET Taxonomy : sectors # None
  /\ Bundles \subseteq Bundle /\ Audits \subseteq Audit /\ Audited \subseteq P!Site
  /\ Records \subseteq Record /\ Finds \subseteq Found
  /\ \A req \in Requests : req.web \in Found /\ req.replies \in Seq({None} \cup Seq(Fragments))
  /\ {Sites, Bares} \subseteq Nat /\ Limits \subseteq Nat
  /\ Texts \subseteq B!Text /\ Replies \subseteq B!Reply /\ Headings \cup Lines \subseteq W!Line
  /\ Offers \subseteq Seq(STRING) /\ Lists \subseteq Seq(STRING) \cup {None}
  /\ Verdicts \subseteq {None} \cup W!Opinion
  /\ Calls \subseteq S!Call /\ Articles \subseteq S!Article
  /\ \A p \in Pages : S!Page(p)

\* _take_live as module LeadRun abstracts it: batches, whatever the order.
Run == INSTANCE LeadRun
  WITH Companies <- 1..(Sites + Bares), WithSite <- 1..Sites, Domains <- {}, Keys <- {},
       OwnKey <- <<>>, AnswersAt <- <<>>, Requested <- 1, Floor <- None, Unset <- None,
       CrawlBudget <- 0, Concurrency <- 1, FinderBudget <- 0, HardFilters <- FALSE,
       phase <- "round", at <- <<>>, key <- <<>>, seen <- {}, budget <- 0, processed <- 0,
       ready <- 0, good <- {}, filed <- {}, returned <- {}

Init == question = [kind |-> "none"] /\ answer = "none"

Unasked == question.kind = "none"

Ask(kind, input, result) ==
  /\ question' = [kind |-> kind, input |-> input]
  /\ answer' = result

\* The records of a list are numbered: of says which one it is.
Numbered(cs) == [i \in DOMAIN cs |-> [cs[i] EXCEPT !.of = {i}]]

\* The companies 1 to Sites have a site each, in that order, with the answers
\* the name servers give for it.
Listed(n, bare, dns) ==
  [i \in 1..(n + bare) |->
     IF i <= n THEN [id |-> i, site |-> "own", dns |-> dns[i]]
     ELSE [id |-> Sites + i - n, site |-> None]]

AskClassify ==
  /\ Unasked
  /\ \E b \in Bundles : Consistent(b) /\ Ask("classify", b, Classify(b))

AskScore == Unasked /\ \E a \in Audits : Ask("score", a, Total(a))

AskResolve ==
  /\ Unasked
  /\ \E n \in 0..MostRecords : \E cs \in [1..n -> Records] :
       Ask("resolve", Numbered(cs), ResolveEntities(Numbered(cs)))

\* Two sources of at most two records each and what a web search adds.
AskFunnel ==
  /\ Unasked
  /\ \E req \in Requests, n \in 0..2, m \in 0..2 :
       \E geo \in [1..n -> Finds], other \in [1..m -> Finds] :
         LET numbered == Numbered(geo \o other)
             lists == SourcesOf(req, <<SubSeq(numbered, 1, n)>>, <<SubSeq(numbered, n + 1, n + m)>>,
                                <<[req.web EXCEPT !.of = {n + m + 1}]>>)
         IN Ask("funnel", [req |-> req, lists |-> lists], Funnel(req, lists))

AskScreen ==
  /\ Unasked
  /\ \E n \in 0..Sites, bare \in 0..Bares, limit \in Limits :
       \E dns \in [1..n -> Answers] :
         Ask("screen", [cs |-> Listed(n, bare, dns), limit |-> limit],
             TakeLive(SitesFirst(Listed(n, bare, dns)), limit))

AskBrief ==
  /\ Unasked
  /\ \E text \in Texts, reply \in Replies, guesses \in Guesses :
       LET cfg == B!Campaign(text, reply)
       IN Ask("brief", [text |-> text, reply |-> reply],
              [cfg |-> cfg, searched |-> B!DeriveTargets(cfg.offer, cfg.industries, guesses)])

AskPresence ==
  /\ Unasked
  /\ \E s \in Audited, pains \in {<<>>, <<"complaint">>} :
       /\ P!Auditable(s)
       /\ Ask("presence", s,
              [audit |-> P!AuditPresence(s),
               pitch |-> P!Pitch(P!GapLabels(s), pains, <<"hiring">>)])

AskReply ==
  /\ Unasked
  /\ \E n \in 0..MostLines, subject \in Headings, opinion \in Opinions :
       \E lines \in [1..n -> Lines] :
         LET m == [subject |-> subject, lines |-> lines, own |-> "us", sender |-> "them"]
         IN Ask("reply", [m |-> m, opinion |-> opinion], W!LabelOf(m, opinion))

\* A vendor is not judged; INTENT_THRESHOLD is 60 %.
Judged(type, verdict) ==
  IF type = "VENDOR" \/ verdict = None THEN type
  ELSE ApplyVerdict(type, verdict.buyer, verdict.confidence >= 60)

AskTasks ==
  /\ Unasked
  /\ \E offer \in Offers, list \in Lists, tender \in Tenders, verdict \in Verdicts,
        type \in {"BUYER", "UNKNOWN", "VENDOR"} :
       Ask("tasks", [offer |-> offer, list |-> list, tender |-> tender, verdict |-> verdict,
                     type |-> type],
           [type |-> Judged(type, W!JudgeIntent(verdict)),
            keywords |-> W!RelevanceKeywords(<<"own">>, offer, list),
            pains |-> W!ReviewPain(offer, list),
            requirement |-> W!Requirement(tender.text, tender.reply)])

\* Requests are served in the order of their arrival.
InOrder(rs) == \A i \in DOMAIN rs, j \in DOMAIN rs : i <= j => rs[i].at <= rs[j].at

AskCalls ==
  /\ Unasked
  /\ \E n \in 0..MostCalls : \E rs \in [1..n -> Calls] :
       InOrder(rs) /\ Ask("calls", rs, S!Granted(rs))

AskNews ==
  /\ Unasked
  /\ \E n \in 0..MostCalls : \E rs \in [1..n -> Articles] :
       InOrder(rs) /\ Ask("news", rs, S!News(rs))

AskPages ==
  /\ Unasked
  /\ \E n \in 0..MostCalls : \E rs \in [1..n -> Pages] : Ask("pages", rs, S!Rendered(rs))

\* A setup without a provider asks nothing.
AskModel ==
  /\ Unasked
  /\ \E s \in Setups :
       LET chain == S!Providers(s.provider, s.up, s.groq, s.gemini)
       IN \E answers \in [DOMAIN chain -> [1..S!AtLeast(Tries, Models) -> S!Outcomes]] :
            Ask("model", [chain |-> chain, answers |-> answers], S!Complete(chain, answers))

Next ==
  \/ AskClassify \/ AskScore \/ AskResolve \/ AskFunnel \/ AskScreen \/ AskBrief
  \/ AskPresence \/ AskReply \/ AskTasks \/ AskCalls \/ AskNews \/ AskPages \/ AskModel

Spec == Init /\ [][Next]_vars

-----------------------------------------------------------------------------
(* Properties.                                                             *)

\* A company that is better in one respect and equal in the others.
Better(a) ==
  {[a EXCEPT !.reviews = @ + 1], [a EXCEPT !.rating = IF @ = NotKnown THEN 10 ELSE @ + 1],
   [a EXCEPT !.tier = IF @ = 1 THEN 1 ELSE @ - 1], [a EXCEPT !.gap = @ + 1],
   [a EXCEPT !.pains = @ + 1], [a EXCEPT !.signals = @ + 1], [a EXCEPT !.intent = TRUE]}

\* The site has what the label of a gap says it lacks.
Has(s, label) ==
  \/ label = "no_ecommerce" /\ (s.cart \/ s.platform \/ s.technology)
  \/ label = "no_cart" /\ s.cart
  \/ label = "no_whatsapp_ordering" /\ s.whatsapp
  \/ label = "no_delivery_platform" /\ s.mentions \cap Global # {}
  \/ label = "no_social" /\ (s.facebook \/ s.instagram)

\* More evidence of a vendor never turns a company into a better prospect and
\* more evidence of a buyer never into a worse one (BuyerClassifier.classify):
\* the rules in front of the score compare and those behind it agree, also
\* when a term moves from the pages into the company's own name.  Nor does any
\* improvement lower the score (scoring.py: bands, clamping, rounding), which
\* stays within the 0 to 100 the thresholds are set on.  And a company that has
\* one channel more never has a wider gap online nor more gaps to its name, and
\* no pitch says it lacks what it has (online_presence.py, _fallback_pitch).
MoreEvidenceNeverReverses ==
  /\ question.kind = "classify" =>
       /\ \A b \in MoreVendor(question.input) : Worth(Classify(b)) <= Worth(answer)
       /\ \A b \in MoreBuyer(question.input) : Worth(Classify(b)) >= Worth(answer)
  /\ question.kind = "score" =>
       /\ answer \in 0..100
       /\ \A a \in Better(question.input) : Total(a) >= answer
  /\ question.kind = "presence" =>
       /\ answer.audit.gap \in 0..25
       /\ \A s \in P!MoreChannels(question.input) : P!Auditable(s) =>
            /\ P!OnlineGap(s) <= answer.audit.gap
            /\ Len(P!GapLabels(s)) <= Len(answer.audit.labels)
       /\ \A channel \in Range(answer.pitch) : ~Has(question.input, channel)

\* Two records have one site or one name, as dedupe_companies compares them.
SameKey(a, b) == (a.domain # None /\ a.domain = b.domain) \/ a.name = b.name

\* Two companies share an identifier, or similar legal names and no two countries.
SameEntity(a, b) ==
  \/ a.lei # None /\ a.lei = b.lei
  \/ a.reg # None /\ a.reg = b.reg /\ a.country = b.country
  \/ a.domain # None /\ a.domain = b.domain
  \/ /\ {<<LegalName[a.name], LegalName[b.name]>>, <<LegalName[b.name], LegalName[a.name]>>}
          \cap Similar # {}
     /\ a.country = b.country \/ None \in {a.country, b.country}

\* Company g is made of some of cs, and a chain of links connects all of them.
MadeOf(g, cs, links) ==
  LET parts == {c \in cs : c.of \subseteq g.of}
  IN /\ g.of = UNION {c.of : c \in parts}
     /\ \A T \in SUBSET parts : T \notin {{}, parts} =>
          \E a \in T, b \in parts \ T : <<a, b>> \in links

\* Entity resolution puts every named record into exactly one company, merges
\* only records that a chain of shared sites and names connects
\* (dedupe_companies), and of these companies only those that a chain of shared
\* identifiers or similar names connects (resolve_entities); it leaves no two
\* companies with one domain or one LEI, in whatever order the sources report.
ResolvedOnce ==
  question.kind = "resolve" =>
    LET input == {Cleaned(c) : c \in Range(question.input)}
        base == Range(Dedupe(question.input))
        sameKey == {p \in input \X input : SameKey(p[1], p[2])}
        sameEntity == {p \in base \X base : SameEntity(p[1], p[2])}
    IN /\ \A c \in input : Cardinality({j \in DOMAIN answer : c.of \subseteq answer[j].of})
                             = IF c.name = None THEN 0 ELSE 1
       /\ \A g \in base : MadeOf(g, input, sameKey)
       /\ \A g \in Range(answer) : MadeOf(g, base, sameEntity)
       /\ \A j, k \in DOMAIN answer : j # k =>
            /\ answer[j].domain = None \/ answer[j].domain # answer[k].domain
            /\ answer[j].lei = None \/ answer[j].lei # answer[k].lei

\* Every source that still has records is as far in the round-robin as every
\* other one, so a cap on the companies samples all of them.
SharesTheCap(lists) ==
  LET Taken(l, n) == Cardinality(Range(SubSeq(RoundRobin(lists), 1, n)) \cap Range(lists[l]))
  IN \A n \in 0..Len(RoundRobin(lists)) : \A l, k \in DOMAIN lists :
       Taken(l, n) < Len(lists[l]) => Taken(k, n) <= Taken(l, n) + 1

\* The n-th record asked about, the q-th of its chunk, is past what is judged, or
\* the reply to its chunk has nothing in its place, or a yes.
Spared(replies, n) ==
  \/ n > MaxJudged
  \/ \E k, q \in 1..n :
       /\ q <= Batch /\ n = (k - 1) * Batch + q
       /\ replies[k] = None \/ q > Len(replies[k]) \/ replies[k][q] = "true"

\* The run's statistics account for every record discovery found, and an area
\* filter that would drop everything drops nothing.  For being off type those
\* and only those are dropped in whose own place some reply has something other
\* than a yes: a call that failed, a reply that is short or long and the limit
\* on what is judged shift no verdict to another record (Pipeline.run,
\* check_discovery_relevance; that prose in a record's place counts as a no is
\* what the code does).  The sources share what is kept (_round_robin).
FunnelAccounts ==
  question.kind = "funnel" =>
    /\ answer.discovered = Len(answer.kept) + answer.chains_excluded + answer.area_dropped
                             + answer.relevance_dropped + answer.demoted
    /\ \A l \in DOMAIN question.input.lists : \A i \in DOMAIN question.input.lists[l] :
         LET c == question.input.lists[l][i]  req == question.input.req
         IN ~c.brand /\ InArea(req, c) /\ Relevant(req, c) =>
              \/ c \in Range(answer.kept)
              \/ \E n \in DOMAIN answer.asked : answer.asked[n] = c /\ ~Spared(req.replies, n)
    /\ \A n \in DOMAIN answer.asked :
         Spared(question.input.req.replies, n) \/ answer.asked[n] \notin Range(answer.kept)
    /\ SharesTheCap(question.input.lists)

\* Screening loses nobody: a company is in the batch, in the pool for a later
\* round or counted dead, a dead one's name server said so, and the batch is one
\* that module LeadRun lets the run take (Pipeline._take_live).
ScreeningLosesNobody ==
  question.kind = "screen" =>
    LET cs == Range(question.input.cs)
        gone == cs \ (Range(answer.batch) \cup Range(answer.pool))
        Ids(R) == {c.id : c \in R}
    IN /\ Len(answer.batch) + Len(answer.pool) + answer.dead = Len(question.input.cs)
       /\ Range(answer.batch) \cap Range(answer.pool) = {}
       /\ \A c \in gone : \E i \in 1..2 : Verdict(c.dns[i]) = "dead"
       /\ [batch |-> Ids(Range(answer.batch)), dead |-> Ids(gone)]
            \in Run!TakeLive(Ids(cs), question.input.limit)

\* The label of a reply follows from its subject and its fresh words alone; who
\* asks to stop in the rules' words is heard whatever else the reply says, and so
\* is the word stop where nothing else is written at all; under a subject, and
\* that is what the code does, it is not, unless a model labels the reply; the
\* model is only heard where the rules are silent; and a referral is to somebody
\* else (classify, apply_inbound).
ReplyStands(m, opinion, read) ==
  LET quoted == {i \in DOMAIN m.lines : m.lines[i].quote}
      fresh == {i \in DOMAIN m.lines : \A j \in quoted : i < j}
      Part(i) == IF i = 0 THEN m.subject ELSE m.lines[i]
      says == UNION {Part(i).says : i \in {0} \cup fresh}
      written == {i \in {0} \cup fresh : Part(i).text # "blank"}
      bare == \E i \in written : written = {i} /\ Part(i).text = "stop"
  IN /\ read = W!LabelOf([m EXCEPT !.lines = SubSeq(@, 1, Cardinality(fresh))], opinion)
     /\ bare \/ "unsubscribe" \in says => read.label = "unsubscribe"
     /\ says # {} => read.label \in says
     /\ says = {} /\ ~bare /\ opinion = None => read.label \in {"wrong_person", "reply"}
     /\ read.referred \notin {"us", "them"}

\* What people wrote decides, whatever the language model replies: a user's text
\* about the campaign, a prospect's answer about its label, the offer's own words
\* about relevance, a tender about what is quoted from it (nl_parser, targeting,
\* reply_classifier, tasks).
WordsDecide ==
  /\ question.kind = "brief" =>
       B!BriefStands(question.input.text, answer.cfg, answer.searched)
  /\ question.kind = "reply" => ReplyStands(question.input.m, question.input.opinion, answer)
  /\ question.kind = "tasks" =>
       LET input == question.input
       IN /\ IsPrefix(W!RelevanceKeywords(<<"own">>, input.offer, None), answer.keywords)
          /\ input.list = None => answer.pains = input.offer
          /\ answer.type # input.type =>
               /\ {answer.type, input.type} = {"BUYER", "UNKNOWN"}
               /\ input.verdict # None /\ input.verdict.buyer = (answer.type = "BUYER")
          /\ answer.requirement # None =>
               Range(answer.requirement) \subseteq input.tender.text

\* No window of time grants more tokens than a full bucket and what flows into
\* it meanwhile, and a call waits no longer than the calls up to it need.
Paced(calls, granted) ==
  LET need == S!Sums([i \in DOMAIN calls |-> S!Clipped(calls[i].amount)])
      time == S!Sums([i \in DOMAIN calls |-> S!Clipped(calls[i].amount) + calls[i].late])
  IN \A j \in DOMAIN calls :
       /\ \A i \in 1..j : need[j] - need[i - 1] <= Capacity + granted[j] - granted[i]
       /\ granted[j] <= calls[j].at + time[j]

\* Two searches for news are as far apart as the service demands, and nobody
\* stands in line for one.
Throttled(news, asked) ==
  \A j \in DOMAIN news : asked[j] # S!Skipped =>
    /\ asked[j] <= news[j].at + Interval
    /\ \A i \in 1..j-1 : asked[i] # S!Skipped => asked[j] >= asked[i] + news[i].took + Interval

\* The browser is started for one failing page of a host at most, and a page
\* that could be read is only replaced by one with more text.
RenderedOnce(pages, got) ==
  /\ \A host \in {p.host : p \in Range(pages)} :
       Cardinality({i \in DOMAIN pages :
                      pages[i].host = host /\ got[i].rendered /\ S!Failed(pages[i])}) <= 1
  /\ \A i \in DOMAIN pages : ~S!Failed(pages[i]) => got[i].chars >= pages[i].chars

\* A call is lost only when each of its providers failed in its turn: one that
\* is busy or down is asked again, or its next model is, for as long as the
\* budget lasts, and no text that arrived is thrown away.
LostOnlyWhenAllFail(chain, answers, got) ==
  LET PassedOver(i) ==
        /\ "text" \notin Range(got.asked[i])
        /\ \/ chain[i] = "ollama"
           \/ chain[i] = "groq" /\ Len(got.asked[i]) = Tries
           \/ chain[i] = "gemini" /\ Len(got.asked[i]) = Models
           \/ chain[i] = "groq" /\ Last(got.asked[i]) \in {"gone", "refused"}
           \/ chain[i] = "gemini" /\ Last(got.asked[i]) \in {"down", "refused", "broken"}
  IN \A i \in DOMAIN chain : got.by = 0 \/ i < got.by => PassedOver(i)

\* Services that limit the engine are asked within their limits, and no earlier
\* given up than their answers make it necessary (TokenBucket, NewsChecker,
\* FallbackFetcher, FallbackLLM).
AskedSparingly ==
  /\ question.kind = "calls" => Paced(question.input, answer)
  /\ question.kind = "news" => Throttled(question.input, answer)
  /\ question.kind = "pages" => RenderedOnce(question.input, answer)
  /\ question.kind = "model" =>
       LostOnlyWhenAllFail(question.input.chain, question.input.answers, answer)

=============================================================================
