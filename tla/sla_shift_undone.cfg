SPECIFICATION Spec
CONSTANTS
  Workers = {w1}
  Engines = {w1}
  Tickets = {t1}
  Policies = {1}
  Terms <- Fixed
  ResponseRisk = 1
  ResolutionRisk = 1
  Handlers = {"pause", "resume"}
  Asked = {}
  MaxTime = 4
  LastOpening = 0
  MaxPaused = 1
  Crashes = FALSE
  Nil = Nil
INVARIANTS PauseExtendsDeadline
CHECK_DEADLOCK FALSE
