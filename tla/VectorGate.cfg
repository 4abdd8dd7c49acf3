SPECIFICATION FairSpec
CONSTANTS
  Sections <- MCSections
  Rows <- MCRows
  FLOORS <- MCFloors
  Contains <- MCContains
  Fixtures <- MCFixtures
  Worlds <- MCWorlds
CHECK_DEADLOCK FALSE
INVARIANTS
  GateHonest
  PassEarned
PROPERTIES
  AlwaysJudged
