SPECIFICATION PartsSpec
CONSTANTS
  Users = {u1, u2}
  Keys = {k1, k2}
  Transports = {t1, t2, t3}
  NoTransport = NoTransport
  MaxGen = 3
  Named = {n1, n2}
  Stored = {s1}
  Asked = {a1}
  MaxPauses = 1
  Downloads = {d1}
  ChannelCap = 1
  ListenerCap = 2
  MaxChanges = 3
  MaxBreaks = 1
  MaxCalls = 1
CHECK_DEADLOCK FALSE

  
PROPERTIES
  IdleGoes
  ImplementsTransportCache
  NothingIsCutOff 
  LeavingEnds
