SPECIFICATION Spec
CONSTANTS
  None = None
  Social = Social
  Weights <- DefaultWeights
  Routing <- DefaultRouting
  MinScore = 40
  LegalName <- Legal
  FirstWord <- First
  Similar <- Alikes
  SparseThreshold = 2
  Batch = 2
  MaxJudged = 4
  Window = 2
  Bundles <- SomeBundles
  Audits <- SomeAudits
  Records <- SomeRecords
  MostRecords = 4
  Requests <- SomeRequests
  Finds <- SomeFinds
  Answers <- SomeAnswers
  Sites = 4
  Bares = 2
  Limits = {1, 2, 3}
  Texts <- SomeTexts
  Replies <- SomeReplies
  Guesses <- SomeGuesses
  Taxonomy <- TheTaxonomy
  General = "general"
  Industries <- TheIndustries
  Hits <- TheHits
  CityWords <- TheCityWords
  MostCompanies = 5000
  Audited <- SomeSites
  Global <- TheGlobal
  Local <- TheLocal
  Home = "pakistan"
  Headings <- SomeHeadings
  Lines <- SomeLines
  MostLines = 3
  Opinions <- SomeOpinions
  DomainOf <- TheDomains
  Words <- TheWords
  Offers <- SomeOffers
  Lists <- SomeLists
  Tenders <- SomeTenders
  Verdicts <- SomeVerdicts
  MaxKeywords = 3
  MaxPains = 1
  Calls <- SomeCalls
  Articles <- SomeArticles
  Pages <- SomePages
  MostCalls = 3
  Setups <- SomeSetups
  Capacity = 3
  Tries = 2
  Models = 2
  Interval = 2
  Shell = 2
CHECK_DEADLOCK FALSE
INVARIANTS
  MoreEvidenceNeverReverses
  ResolvedOnce
  FunnelAccounts
  ScreeningLosesNobody
  WordsDecide
  AskedSparingly

