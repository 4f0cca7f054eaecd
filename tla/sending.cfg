SPECIFICATION Spec
CONSTANTS
  None = None
  spring = spring
  l1 = l1
  l2 = l2
  Campaigns = {spring}
  Machines = {m1, m2}
  Leads = {l1, l2}
  CampaignOf <- MCCampaignOf
  Boxes <- MCBoxes
  Limit <- MCLimit
  DailyLimit = 2
  WarmupStart = 1
  WarmupStep = 1
  MinSends = 1
  MaxBouncePercent = 10
  LastStep = 2
  Wait = 1
  MaxDay = 2
SYMMETRY Symmetry
CHECK_DEADLOCK FALSE
INVARIANTS
  CapsHold
PROPERTY PostsAsPromised
