SPECIFICATION Spec
CONSTANTS
  Leads = {l1}
  LastStep = 2
  RequireApproval = TRUE
  Handlers = {h1}
  Mails <- MostMails
  MaxRuns = 2
  MaxActs = 4
CHECK_DEADLOCK FALSE
INVARIANTS NeverTwiceUnexcused SuppressionHolds AnswersAreHeard
