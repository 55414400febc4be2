SPECIFICATION Spec
CONSTANTS
  Workers = {w1, w2}
  NoWorker = NoWorker
  FileSize = 2
  ChunkSize = 1
  MinChunk = 2
  BufferSize = 1
  MaxRetries = 1
  MaxFaults = 1
  MaxCancels = 1
  MaxHedges = 0
  MaxSessions = 2
INVARIANTS
  RestartCovers

  
CHECK_DEADLOCK FALSE
