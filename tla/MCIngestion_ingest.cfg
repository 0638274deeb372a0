SPECIFICATION FairSpec
CONSTANTS
  p1 = p1
  p2 = p2
  Proc = {p1, p2}
  NumOpp = 2
  Stalled = {1, 2}
  TouchAge = 0
  MaxDay = 2
  MaxSeeds = 3
  MaxFaults = 1
  MaxEvents = 3
INVARIANTS TypeOK EventsNormalizedOnce SignalsAreOpened RefsAreUnique
PROPERTY CyclesEnd
