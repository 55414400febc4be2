SPECIFICATION LiveSpec
CONSTANTS
  Downloads = {d1, d2}
  Workers = {w1}
  Callers = {c1}
  Nobody = Nobody
  MaxName = 2
  Wanted <- WantedFirst
  Races = {}
  Integrity = TRUE
  MaxEvents = 2
  MaxCalls = 1
  MaxErrors = 1
  MaxRejects = 1
  MaxStops = 2
INVARIANTS
  
  AcceptedSurvives
  

  
CHECK_DEADLOCK FALSE
