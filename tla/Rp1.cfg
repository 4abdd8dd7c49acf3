SPECIFICATION FairSpec
CONSTANTS
  MaxPeers = 2
  MaxOffered = 4
  MaxSends = 2
  RemoteIds <- MCRemoteIds
  TokenSizes = {2}
  kRp1MaxPayload = 1
  kRp1MaxQueueEvents = 2
  kRp1MaxQueueBytes = 3
  Slab = 1
  EntryHead = 1
  DrainCap = 4
INVARIANTS
  Bounded
  BytesExact
  NoSilentLoss
  PeerLifecycle
  GoneIsGone
  RetrySucceeds
  SentInOrder
PROPERTIES
  ImplementsQueue
  Progress
