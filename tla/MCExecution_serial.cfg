SPECIFICATION Spec
CONSTANTS
  Proc = {p1, p2, p3}
  NoProc = NoProc
  NItems = 2
  ActionOf <- DriftActions
  FieldsOf <- DriftFields
  MaxAttempts = 3
  MaxTime = 1
  DateOf <- Days
  ApprovalTTL = 1
  MaxCrashes = 2
  MaxActive = 1
SYMMETRY Symmetry
INVARIANTS TrailIsOnePath IncidentMirrorsRun
CHECK_DEADLOCK FALSE
