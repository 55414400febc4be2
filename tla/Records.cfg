SPECIFICATION RecordsSpec
CONSTANTS
  Total = 3
  ChunkSizes = {1, 2}
  Fetchers = {f1, f2}
  URLs = {u1, u2}
  FirstURL = u1
  Late = FALSE
  MaxRead = 2
  MaxFetchFails = 1
  MaxTime = 1
  MaxSessions = 2
  MaxKills = 1
  MaxUpdates = 1
  MaxSyncFails = 1
  Processes = {p1, p2}
  NoProcess = none
  Ports = {1, 2}
  Tokens = {t1, t2}
  NoToken = none
  Attended = TRUE
  MaxStarts = 3
  MaxSpawns = 1
  MaxStops = 1
  MaxAsks = 1
CHECK_DEADLOCK FALSE
INVARIANTS
  
  
  ElapsedIsWorked
  FilesNameTheOwner
