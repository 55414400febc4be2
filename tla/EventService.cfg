SPECIFICATION Spec
CONSTANTS
  Listeners = {l1, l2}
  Workers = {w1}
  Streams = {s1}
  Reporter = Reporter
  Service = Service
  Nobody = Nobody
  MaxEvents = 1
  MaxBatches = 1
  InputCap = 1
  Buffer = 1
INVARIANTS
  OnlyPublishPanics
PROPERTIES
  ImplementsEventLog
  ShutdownReturns
CHECK_DEADLOCK FALSE
