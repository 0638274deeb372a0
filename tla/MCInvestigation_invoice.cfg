SPECIFICATION Spec
CONSTANTS
  r1 = r1
  r2 = r2
  r3 = r3
  i1 = i1
  i2 = i2
  Run = {r1, r2, r3}
  NoRun = NoRun
  Incident = {i1}
  IncidentOf <- OneIncident
  Reserve <- Reserves
  CostsOf <- LowCosts
  Excess = 0
  EvidenceCalls = {1}
  GlobalLimit = 3
  IncidentLimit = 2
  MaxModelCalls = 12
  MaxToolCalls = 30
  MaxActive = 1
  MaxFaults = 0
INVARIANT InvoiceWithinBudget
CHECK_DEADLOCK FALSE
