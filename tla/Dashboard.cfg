SPECIFICATION Spec
CONSTANTS
  Downloads = {d1, d2}
  Stored = {d2}
  Slips = {}
  MaxStream = 1
  MaxTurns = 1
INVARIANTS
  
  RequestsKept
PROPERTY
  CursorStays
