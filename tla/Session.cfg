SPECIFICATION Spec
CONSTANTS
  Capacity = 2
  GenMax = 2
  None = None
  MaxTorrents = 2
  MaxAdds = 3
  MaxPosted = 1
  MaxSessions = 2
  Hashes = {a, b}
  Duplicates = TRUE
  SelfRemoval = TRUE
SYMMETRY HashSymmetry
INVARIANTS
  SessionsSound
  IdsNameTheirTorrent
  Reclaimed
