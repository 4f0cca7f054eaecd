SPECIFICATION Spec
CONSTANTS
  u1 = u1
  u2 = u2
  c1 = c1
  c2 = c2
  Users = {u1}
  Masters = {}
  NoOne = NoOne
  Campaigns = {c1, c2}
  Owner <- AllOwned
  Deletable = {}
  Dispatches = {d1, d2}
  Earlier = {}
  Sizes = {2}
  AllowedSizes = {2}
  MonthlyCredits = 3
  DailyThrottle = 3
  RunsPerDay = 2
  StaleAfter = 1
  HoldTTL = 2
  DayTicks = 1
  MonthDays = 2
  LastDay = 1
INVARIANT HeldWithinTier
