SPECIFICATION Spec
CONSTANTS
  basic = basic  ndovu = ndovu
  Requests = {r1, r2}
  Offered = {"trial", "activate", "cancel", "create"}
  Plans <- TwoPlans
  NoPlan = NoPlan
  Limit <- ProductLimit
  TrialDays = 1
  GraceDays = 1
  PaidDays = {1}
  GraceSteps = {1}
  LastDay = 1
  MaxRows = 2
SYMMETRY Symmetric
INVARIANT TypeOK
PROPERTY CreatedWithinPlan
