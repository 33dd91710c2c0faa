CONSTANTS
  Count = 4
  Jobs = 2
  MaxInterrupts = 2
SPECIFICATION FairSpec
INVARIANTS
  InFlight
  WaitsForActive
PROPERTIES
  BatchEnds
