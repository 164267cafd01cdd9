SPECIFICATION Spec
CONSTANTS
  basic = basic  ndovu = ndovu
  Requests = {r1, r2}
  Offered = {"trial", "activate", "extend", "cancel", "snapshot"}
  Plans <- OnePlan
  NoPlan = NoPlan
  Limit <- RoomOfOne
  TrialDays = 1
  GraceDays = 1
  PaidDays = {2}
  GraceSteps = {1}
  LastDay = 2
  MaxRows = 2
SYMMETRY Symmetric
INVARIANTS OneTrial CacheIsCurrent
PROPERTIES InactiveIsFinal GraceNeverShrinks
