SPECIFICATION FairSpec
CONSTANTS
  MaxAlerts = 4
  AlertQueueSize = 3
  EntrySizes = {1, 3}
  DrainCap = 4
  Torrents = {t1}
INVARIANTS
  Answers
PROPERTIES
  ImplementsQueue
  Progress
