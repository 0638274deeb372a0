SPECIFICATION Spec
CONSTANTS
  Proc = {p1, p2}
  NoProc = NoProc
  NItems = 2
  ActionOf <- DatedActions
  FieldsOf <- NoFields
  MaxAttempts = 3
  MaxTime = 1
  DateOf <- Days
  ApprovalTTL = 1
  MaxCrashes = 0
  MaxActive = 1
INVARIANT OneKeyPerEffect
CHECK_DEADLOCK FALSE
