SPECIFICATION Spec
CONSTANTS
  Jobs = {j1, j2, j3}
  PoolSize = 2
  Week = 2
  Hours = 3
  MaxMinutes = 3
  MaxDay = 9
  Tries = 2
  MaxIssued = 2
  Saves = {s1, s2}
  Texts = {x}
  MaxRev = 3
  Nil = Nil
INVARIANTS TypesOK TransactionsAddUp DeadlineCounts ScriptIsTidy
PROPERTIES  WorkEnds
CHECK_DEADLOCK FALSE
