SPECIFICATION Spec
CONSTANTS
  Platforms = {"x86_64-linux", "arm64-linux"}
  Suffix <- MCSuffix
  Dirs = {"top"}
  PathLen <- MCPathLen
  Calls <- MCCalls
  Hosts <- MCHosts
  MaxBuilds = 2
  NoFile = NoFile
  Search = Search
  NoHost = NoHost
INVARIANTS
  Committed
  Reports
  BareBuildWins
PROPERTIES
  OwnBusiness
