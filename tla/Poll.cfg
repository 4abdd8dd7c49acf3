SPECIFICATION FairSpec
CONSTANTS
  Live = 1
  Others = {0, 2}
  MaxStops = 2
  HandlersFail = TRUE
INVARIANTS
  OneChain
  OwnReport
PROPERTIES
  Progress
