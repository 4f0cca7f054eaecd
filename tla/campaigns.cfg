SPECIFICATION ApiSpec
CONSTANTS
  Tenants = {t1, t2}
  Masters = {}
  Operator = op
  Names = {"x"}
  MaxSuffix = 4
  Files <- Examples
  Legacy = {}
  MaxCampaigns = 1
  NlLimit = 1
  Parallel = 2
  Requests = {r1, r2, r3}
  KeyNames = {"x"}
  Addresses = {"a"}
  Values = {"v"}
  Typed <- Numbers
  Default = 1
  Cap = 1
  Override = 2
  LastDay = 1
  Calls = {c1, c2}
  Budget = 3
SYMMETRY Symmetric
CHECK_DEADLOCK FALSE
INVARIANTS StrangersNeedARace QuotaOverrunBounded ModelsAndMetersAgree
PROPERTIES OwnersAndDeletionsLast OwnRowsOnly
