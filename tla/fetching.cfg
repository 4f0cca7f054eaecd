SPECIFICATION FairSpec
CONSTANTS
  h1 = h1
  Workers = {w1, w2, w3}
  Hosts = {h1}
  Calls <- SiteAndApi
  Gets = 4
  Nothing = Nothing
  Concurrency = 2
  MaxRetries = 1
  FailureLimit = 1
  LongestDelay = 2
INVARIANTS FailuresBounded
PROPERTIES AbandonedForGood HitsAreSpaced GetsEnd
