SPECIFICATION Spec
CONSTANTS
  Radix = 4
  RawType = 3
  Keys = {1, 2}
  PeerLists <- MCPeerLists
  Statuses <- MCStatuses
  StatusCap = 11
  Junk = {3}
  MemSize = 32
INVARIANTS
  WritesInside
  Answers
