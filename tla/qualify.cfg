SPECIFICATION Spec
CONSTANTS
  None = None
  acme = acme
  bolt = bolt
  acmeSite = acmeSite
  boltSite = boltSite
  mart = mart
  Companies = {acme, bolt}
  Hosts = {acmeSite, boltSite, mart}
  Record <- MCRecord
  Finds <- MCFinds
  Answers <- MCAnswers
  Own <- MCOwn
  Markets = {mart}
  CatchAll = {boltSite}
  People <- MCPeople
  Texts <- MCTexts
  Totals <- MCTotals
  Weights <- MCWeights
  Routing <- MCRouting
  MinScore = 50
  Bannable <- MCBannable
  MaxRuns = 2
  MaxActs = 1
CHECK_DEADLOCK FALSE
INVARIANTS
  OneRowPerKey
  ReadyContactIsTheirs
  GuessesAreConfirmed
PROPERTIES
  StandingBansHold
