INIT Init
NEXT Next
CONSTANTS
  Workers = {w1}
  Downloads = {d1, d2}
  RangeDownloads = {d1}
  Callers = {c1}
  Closer = NoCaller
  NoDownload = NoDownload
  Capacity = 1
  MaxResumes = 2
  MaxErrors = 1
INVARIANTS
  QueuedIsComing
  DoneIsWhole
  PausedIsResumable
CHECK_DEADLOCK FALSE
