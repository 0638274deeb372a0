SPECIFICATION FairSpec
CONSTANTS
  Proc = {p1, p2, p3}
  NoProc = NoProc
  NItems = 2
  ActionOf <- DatedActions
  FieldsOf <- NoFields
  MaxAttempts = 1
  MaxTime = 1
  DateOf <- Days
  ApprovalTTL = 2
  MaxCrashes = 0
  MaxActive = 2
PROPERTY CommandsEnd
CHECK_DEADLOCK FALSE
