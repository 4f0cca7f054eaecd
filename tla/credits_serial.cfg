SPECIFICATION SerialSpec
CONSTANTS
  u1 = u1
  u2 = u2
  c1 = c1
  c2 = c2
  Users = {u1}
  Masters = {}
  NoOne = NoOne
  Campaigns = {c1}
  Owner <- OneCampaign
  Deletable = {}
  Dispatches = {d1, d2}
  Earlier = {}
  Sizes = {1, 2}
  AllowedSizes = {1}
  MonthlyCredits = 2
  DailyThrottle = 2
  RunsPerDay = 2
  StaleAfter = 1
  HoldTTL = 1
  DayTicks = 1
  MonthDays = 1
  LastDay = 0
INVARIANT HeldWithinTier
PROPERTY NothingStaysBlocked
