SPECIFICATION FairSpec
CONSTANTS
  r1 = r1
  r2 = r2
  r3 = r3
  i1 = i1
  i2 = i2
  Run = {r1, r2, r3}
  NoRun = NoRun
  Incident = {i1, i2}
  IncidentOf <- TwoIncidents
  Reserve <- Reserves
  CostsOf <- Costs
  Excess = 1
  EvidenceCalls = {1, 3}
  GlobalLimit = 8
  IncidentLimit = 2
  MaxModelCalls = 12
  MaxToolCalls = 3
  MaxActive = 3
  MaxFaults = 1
INVARIANTS TypeOK LedgerReconciles GlobalBudgetHolds 
PROPERTY RunsEnd
CHECK_DEADLOCK FALSE
