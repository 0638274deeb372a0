SPECIFICATION Spec
CONSTANTS
  acc = acc
  opp = opp
  Opportunity = opp
  ActivityLimit = 2
  Nil = Nil
  Mirrors <- SmallMirrors
  Selections <- TwoSelections
  Scripts <- SomeScripts
  NItems = 4
  ActionOf <- DraftingActions
  MaxAttempts = 3
  MaxCommands = 3
  MaxCrashes = 1
  MaxAudit = 1
INVARIANTS TypeOK LedgersAgree EvidenceMatchesControl GateAgreesWithGrant EffectsComeFromGrants
PROPERTY LedgerSafety
CHECK_DEADLOCK FALSE
