SPECIFICATION LiveSpec
CONSTANTS
  Workers = {w1, w2, w3}
  Segments = 4
  Absent = 1
  MaxRetries = 2
  Answers = {"ok", "bad", "error"}
  FFmpeg = {TRUE, FALSE}
INVARIANTS
  
  InvalidIsRefused
  
PROPERTIES
  Ends
CHECK_DEADLOCK FALSE
