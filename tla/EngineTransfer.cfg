INIT Init
NEXT Next
CONSTANTS
  Workers = {w1, w2}
  NoWorker = NoWorker
  FileSize = 3
  ChunkSize = 3
  MinChunk = 1
  BufferSize = 2
  MaxRetries = 1
  MaxFaults = 1
  MaxCancels = 0
  MaxHedges = 1
  MaxSessions = 1
SYMMETRY Symmetry
INVARIANTS
  NoByteForgotten
  DoneMeansWhole
  PauseKeepsMissing
CHECK_DEADLOCK FALSE
