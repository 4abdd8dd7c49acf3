SPECIFICATION Spec
CONSTANTS
  MaxAlerts = 2
  AlertQueueSize = 3
  EntrySizes = {1, 3}
  DrainCap = 4
  Torrents = {t1}
PROPERTY
  NeverDropsARecord
