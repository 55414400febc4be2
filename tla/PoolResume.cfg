SPECIFICATION Spec
CONSTANTS
  Workers = {w1, w2}
  Downloads = {d1}
  RangeDownloads = {d1}
  Callers = {c1, shutdown}
  Closer = shutdown
  NoDownload = NoDownload
  Capacity = 1
  MaxResumes = 1
  MaxErrors = 0
INVARIANTS
  OneRunPerDownload
PROPERTY
  ShutdownEnds
CHECK_DEADLOCK FALSE
