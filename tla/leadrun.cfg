SPECIFICATION FairSpec
CONSTANTS
  Companies <- Six
  WithSite <- Three
  Domains <- Sites
  Keys <- AllKeys
  OwnKey <- Own
  AnswersAt <- MovedTo13
  Requested = 2
  Floor = Unset
  Unset = Unset
  CrawlBudget = 4
  Concurrency = 2
  FinderBudget = 1
  HardFilters = TRUE
CHECK_DEADLOCK FALSE
INVARIANTS OneLeadPerKey DuplicatesAreCovered CrawlWithinCeiling DeliveryBounded BilledLeadsAreReturned
PROPERTIES SearchNeverSteals RunEnds
