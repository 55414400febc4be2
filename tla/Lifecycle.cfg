SPECIFICATION Spec
CONSTANTS
  Downloads = {d1, d2}
  Workers = {w1, w2}
  Callers = {c1, c2}
  Nobody = Nobody
  MaxName = 2
  Wanted <- WantedSame
  Races = {}
  Integrity = TRUE
  MaxEvents = 3
  MaxCalls = 3
  MaxErrors = 1
  MaxRejects = 0
  MaxStops = 0
INVARIANTS
  
  OneWriter
  CompletedIsThere

  
CHECK_DEADLOCK FALSE
