---------------------------- MODULE MCAlgorithms ----------------------------
(***************************************************************************)
(* Questions for Algorithms, with the default weights and thresholds.      *)
(***************************************************************************)
EXTENDS Algorithms

DefaultWeights == [review_band |-> 30, rating |-> 10, proximity_tier |-> 15,
                   online_gap |-> 25, pain_evidence |-> 20]
DefaultRouting == [high_priority |-> 55, qualified |-> 40, review |-> 20]

SomeBundles ==
  [category : {"vendor", "target", "other"}, tender : BOOLEAN, vendor_name : BOOLEAN,
   vendor_id : 0..2, vendor_body : 0..3, phrases : {0, 1, 3, 4}, buyer_id : 0..2,
   buyer_body : {0, 1, 2, 4, 5}, reachable : BOOLEAN]

SomeAudits ==
  [reviews : {0, 1, 9, 10, 49, 50, 99, 100, 199, 200}, rating : {-1, 0, 10, 12, 38, 50},
   tier : 1..3, gap : {0, 18, 25, 30}, pains : {0, 1, 4, 5, 6}, signals : 0..4,
   intent : BOOLEAN]

\* Names: "acme" and "acme trading" are similar, "acme bank" is not, "pvt" is
\* nothing but a legal suffix.
Names == {"acme", "acme trading", "acme bank", "pvt"}
Legal == [n \in Names |-> IF n = "pvt" THEN None ELSE n]
First == [n \in {"acme", "acme trading", "acme bank"} |-> "acme"]
Alikes == {<<a, a>> : a \in {"acme", "acme trading", "acme bank"}}
            \cup {<<"acme", "acme trading">>, <<"acme trading", "acme">>}

Rec(name, city, country, site, lei, reg) ==
  [name |-> name, city |-> city, country |-> country, site |-> site, domain |-> None,
   lei |-> lei, reg |-> reg, of |-> {}]
SomeRecords ==
  {Rec("acme", "Lahore", "pk", None, None, None),
   Rec("acme", "Lahore", "pk", "acme.pk", None, None),
   Rec("acme trading", None, "pk", "acme.pk", "L1", None),
   Rec("acme bank", None, "pk", Social, "L1", "7"),
   Rec("acme bank", "Lahore", "us", None, None, "7"),
   Rec("acme bank", "Karachi", "pk", None, None, "7"),
   Rec("acme trading", "Lahore", None, "acme.pk", None, "7"),
   Rec("pvt", None, "us", "pvt.us", None, "7"),
   Rec(None, "Lahore", "pk", "acme.pk", None, None)}

Find(source, category, sectors, coords, located) ==
  [source |-> source, brand |-> FALSE, category |-> category, hit |-> FALSE,
   sectors |-> sectors, coords |-> coords, located |-> located, of |-> {}]
SomeFinds ==
  {[Find("overture", "own", {}, "inside", None) EXCEPT !.brand = TRUE],
   Find("csv_seed", "own", {"G-11"}, "outside", None),
   Find("osm", "other", {"F-11"}, "inside", None),
   [Find("osm", "other", {}, "unreadable", None) EXCEPT !.hit = TRUE],
   Find("osm", None, {}, None, "outside"),
   Find("websearch", "other", {}, None, None)}

Request(areas, sectors, fences, keywords, typed, replies) ==
  [areas |-> areas, sectors |-> sectors, fences |-> fences, keywords |-> keywords,
   typed |-> typed, replies |-> replies, exclude_chains |-> keywords,
   configured |-> ~keywords, broad |-> fences, fallback |-> typed,
   web |-> Find("websearch", "other", {}, None, None)]
SomeRequests ==
  {Request(FALSE, {}, FALSE, TRUE, FALSE, <<>>),
   Request(TRUE, {"G-11"}, FALSE, FALSE, TRUE, <<<<"true">>, <<"false", "true">>>>),
   Request(TRUE, {"G-11"}, TRUE, TRUE, TRUE, <<<<"true", "true">>, None>>),
   Request(TRUE, {}, TRUE, FALSE, TRUE, <<None, <<"true", "false">>>>),
   Request(TRUE, {}, FALSE, FALSE, TRUE, <<<<"prose", "prose", "false">>, <<>>>>),
   Request(TRUE, {}, FALSE, FALSE, FALSE, <<>>)}

Reply(a, aaaa) == [a |-> a, aaaa |-> aaaa]
SomeAnswers ==
  {<<Reply("address", None), Reply("failure", None)>>,
   <<Reply("no_name", None), Reply("no_name", None)>>,
   <<Reply("failure", None), Reply("failure", None)>>,
   <<Reply("no_record", "failure"), Reply("no_record", "no_record")>>,
   <<Reply("no_record", "address"), Reply("no_name", None)>>}

\* Two sectors, the broad one, and the industries' names.
TheTaxonomy == {"food", "electronics", "general"}
TheIndustries == {"restaurants", "shops", "agencies"}
TheHits == [i \in TheIndustries |-> CASE i = "restaurants" -> {"food"}
                                      [] i = "shops" -> {"general"} [] i = "agencies" -> {}]
TheCityWords == [c \in {"Wah Cantt", "Lahore"} |-> IF c = "Lahore" THEN {} ELSE {"Cantt"}]

About(firstPerson, terms) == [firstPerson |-> firstPerson, search |-> ~firstPerson, terms |-> terms]
SomeOfferings ==
  {<<None, {}>>, <<{}, {}>>, <<{"general"}, {About(TRUE, {"food"})}>>,
   <<None, {About(TRUE, {"electronics"}), About(FALSE, {"food"}),
            [About(TRUE, {"general"}) EXCEPT !.search = TRUE]}>>}
Subject(name) ==
  IF name = None THEN <<>>
  ELSE <<{[name |-> "that need", noun |-> FALSE]},
         {[name |-> name, noun |-> TRUE], [name |-> "companies", noun |-> FALSE]},
         {[name |-> "agencies", noun |-> TRUE]}>>
SomeTexts ==
  {[pattern |-> o[1], about |-> o[2], countries |-> cs, cities |-> ts, abroad |-> {"Lahore"} \ ts,
    areas |-> {"Cantt"}, subjects |-> Subject(i), chains |-> ts = {}, number |-> n, hits |-> h] :
      o \in SomeOfferings, cs \in {{}, {"Spain"}}, ts \in {{}, {"Wah Cantt"}, {"Lahore"}},
      i \in {None, "restaurants", "shops", "agencies"},
      n \in {7, 9000}, h \in {{}, {"electronics", "general"}}}
SomeReplies ==
  {None} \cup
  {[name |-> "n", offer |-> o, countries |-> {"Italy"}, cities |-> {"Lahore"},
    areas |-> {"Cantt"}, industries |-> is, chains |-> TRUE, max |-> n, sectors |-> s] :
      o \in {None, {"food"}}, is \in {{}, {"agencies"}, {"restaurants"}},
      n \in {None, -3, 40, 999999}, s \in {{}, {"food", "nonsense"}}}
SomeGuesses == {{}, {"food"}, {"general", "nonsense"}}

\* Sites, with one platform for every country and one for each of two.
TheGlobal == {"eats"}
TheLocal == [c \in {"pakistan", "spain"} |-> IF c = "spain" THEN {"glovo"} ELSE {"panda", "daraz"}]
SomeSites ==
  [reachable : BOOLEAN, cart : BOOLEAN, platform : BOOLEAN, technology : BOOLEAN,
   whatsapp : BOOLEAN, facebook : BOOLEAN, instagram : {FALSE}, delivers : BOOLEAN,
   phone : BOOLEAN, country : {None, "spain", "italy"},
   mentions : SUBSET {"eats", "glovo", "panda", "daraz"}]

\* Lines of replies to "us" from "them"; the quoted one is of our own mail.
Line(says, addresses, quote) ==
  [says |-> says, addresses |-> addresses, quote |-> quote, long |-> FALSE, text |-> "words"]
BareLine(text) == [Line({}, <<>>, FALSE) EXCEPT !.text = text]
SomeHeadings ==
  {BareLine("blank"), BareLine("stop"), Line({}, <<>>, FALSE), Line({"interested"}, <<>>, FALSE)}
SomeLines ==
  {BareLine("blank"), BareLine("stop"),
   Line({}, <<>>, FALSE), Line({"unsubscribe"}, <<"us">>, TRUE), Line({"unsubscribe"}, <<>>, FALSE),
   Line({"not_interested", "interested"}, <<>>, FALSE),
   Line({"wrong_person"}, <<"them", "us", "colleague">>, FALSE),
   [Line({}, <<"them", "stranger">>, FALSE) EXCEPT !.long = TRUE],
   Line({}, <<"colleague">>, FALSE), Line({"out_of_office", "auto_reply"}, <<>>, FALSE)}
SomeOpinions == {None, "interested", "not_interested", "unsubscribe", "auto_reply", "reply"}
TheDomains == [a \in {"us", "them", "colleague", "stranger"} |->
                 CASE a = "us" -> "ours" [] a \in {"them", "colleague"} -> "theirs"
                   [] a = "stranger" -> "other"]

\* The offer's words, the model's lists and a tender of two phrases.
TheWords == {"own", "stock", "erp", "till"}
SomeOffers == {<<>>, <<"stock">>, <<"stock", "own", "stock", "erp">>}
SomeLists == {None, <<>>, <<"till", "stock">>, <<"a rather long marketing sentence", "own">>}
SomeVerdicts == {None} \cup [buyer : BOOLEAN, confidence : {-20, 59, 60, 250}]
SomeTenders ==
  {[text |-> {"40 scanners", "by May"}, reply |-> r] :
     r \in {None} \cup [{"need", "deadline"} -> {None, "40 scanners", "by May", "by June"}]}

SomeCalls == [at : {0, 1, 3, 4, 6}, amount : {-1, 0, 1, 2, 3, 7}, late : {0, 1}]
SomeArticles == [at : 0..7, took : {0, 1, 3}]
SomePages ==
  {[host |-> h, api |-> FALSE, static |-> s, chars |-> c, browser |-> b] :
     h \in {"h", "g"}, s \in {"dead", "html"}, c \in {0, 1, 5}, b \in {-1, 1, 3}}
  \cup {[host |-> "h", api |-> s = "dead", static |-> s, chars |-> 0, browser |-> 3] :
          s \in {"dead", "robots", "missing", "other"}}

\* What the environment has, and the settings object that two callers pass as
\* the provider.
SomeSetups ==
  [provider : {"auto", "groq", "settings"}, up : {FALSE}, groq : BOOLEAN, gemini : BOOLEAN]
  \cup [provider : {"auto", "ollama", "gemini"}, up : {TRUE}, groq : {TRUE}, gemini : {TRUE}]

=============================================================================
