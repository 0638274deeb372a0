SPECIFICATION Spec
CONSTANTS
  Proc = {p1, p2}
  NoProc = NoProc
  NItems = 2
  ActionOf <- UndatedActions
  FieldsOf <- NoFields
  MaxAttempts = 3
  MaxTime = 0
  DateOf <- Days
  ApprovalTTL = 1
  MaxCrashes = 1
  MaxActive = 1
INVARIANT CrashNeverRepeats
CHECK_DEADLOCK FALSE
