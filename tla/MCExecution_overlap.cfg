SPECIFICATION Spec
CONSTANTS
  Proc = {p1, p2, p3}
  NoProc = NoProc
  NItems = 3
  ActionOf <- FlagshipActions
  FieldsOf <- NoFields
  MaxAttempts = 3
  MaxTime = 1
  DateOf <- Days
  ApprovalTTL = 1
  MaxCrashes = 1
  MaxActive = 2
SYMMETRY Symmetry
INVARIANTS TypeOK ClaimsAreHeld EffectsAccountedFor CommittedRowsAreSettled CompletedRunsAreSettled StatusIsAccountedFor
PROPERTIES EffectsWereAuthorised LedgerSafety ClosedRunsStayClosed
CHECK_DEADLOCK FALSE
