SPECIFICATION Spec
CONSTANTS
  KNames = {"kA"}
  Vocabulary = {"tab"}
  HexNames = {"tHash", "'token'"}
  EqualNames = {"tTarget"}
  HexArrays = {"sHashes"}
  HexCalls = {"toHex"}
  Literals = {"'14'", "'ab'", "'h-'", "'token'"}
  FirstText = {"'ab'", "'h-'", "'token'"}
  AnyText = {"'h-'", "'token'"}
  Digits = {"1", "8"}
  Atoms <- MCAtoms
  Partners <- MCPartners
  Pieces <- MCPieces
  Frames <- MCFrames
  Operators <- MCOperators
  Depth = 2
  Consts = {"cMade"}
CHECK_DEADLOCK FALSE
INVARIANTS
  WalkExact
  Verdicts
