CONSTANTS
  Streams <- MCStreams
  Shares <- MCShares
  Edits <- MCEdits
  Requests <- MCRequests
  ForeignWires <- MCForeignWires
  Magic = 7
  Seal = 9
  Radix = 3
  Chunk = 2
  MaxTotal = 4
  MaxRequest = 3
  NoFile = NoFile

CHECK_DEADLOCK FALSE

SPECIFICATION Spec

INVARIANTS
  BooksKept
  Delivered
  FailsForAReason

PROPERTIES
  Progress
