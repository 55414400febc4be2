SPECIFICATION Spec
CONSTANTS
  Workers = {w1, w2, w3}
  Tasks = {t1, t2}
  NoTask = NoTask
  MaxPushes = 3
INVARIANTS
  NoLostWakeup
PROPERTY ImplementsWorkQueue
