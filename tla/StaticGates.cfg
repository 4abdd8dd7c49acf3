SPECIFICATION GatesSpec
CONSTANTS
  Topics <- MCTopics
  Lines <- MCLines
  Heads <- MCHeads
  MaxLines <- MCMaxLines
  Builder = {"builder", "builder text"}
  Texts = {"script text", "builder text"}
  KNames = {"kA", "kB"}
  Vocabulary = {"tab", "id"}
  Numbers = {"1", "2"}
  Registries = {"FT_", "F_", "A_"}
  Enumerators <- MCEnumerators
  LcbName <- MCLcbName
  Declarations <- MCDeclarations
  FirstFiles <- MCFirstFiles
  MaxItems = 10
CHECK_DEADLOCK FALSE
INVARIANTS
  ScannerExact
  BlocksAgree
  HandlersAgree
  NamesAgree
  RegistryAgrees
