SPECIFICATION Spec
CONSTANTS
  u1 = u1
  u2 = u2
  c1 = c1
  c2 = c2
  Users = {u1}
  Masters = {}
  NoOne = NoOne
  Campaigns = {c1, c2}
  Owner <- AllOwned
  Deletable = {c1}
  Dispatches = {d1, d2, d3}
  Earlier = {d3}
  Sizes = {1, 2}
  AllowedSizes = {1}
  MonthlyCredits = 1
  DailyThrottle = 1
  RunsPerDay = 1
  StaleAfter = 1
  HoldTTL = 1
  DayTicks = 1
  MonthDays = 1
  LastDay = 1
SYMMETRY DispatchSymmetry
INVARIANTS RunCapRespected EndedRunHoldsNothing HoldDroppedOnlyBySibling DoneMeansCharged
