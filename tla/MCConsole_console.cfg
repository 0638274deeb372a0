SPECIFICATION Spec
CONSTANTS
  Reports <- SmallReports
  Nil = Nil
  Limit = 3
  ApprovalTTL = 1
  MaxIncidents = 2
  MaxTime = 1
  MaxSeeds = 1
  MaxAttempts = 2
  MaxRank = 2
INVARIANTS TypeOK PagesAddUp PagesHoldTogether AuditTellsTruth
PROPERTY HistoryIsKept
CHECK_DEADLOCK FALSE
