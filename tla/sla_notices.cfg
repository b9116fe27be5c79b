SPECIFICATION Spec
CONSTANTS
  Workers = {w1, w2}
  Engines = {w1}
  Tickets = {t1}
  Policies = {1}
  Terms <- OnOff
  ResponseRisk = 1
  ResolutionRisk = 1
  Handlers = {"answer", "policy", "pause", "resume"}
  Asked = {"RESOLVED"}
  MaxTime = 4
  LastOpening = 0
  MaxPaused = 1
  Crashes = FALSE
  Nil = Nil
VIEW WithChanges
INVARIANTS ChangesTold
PROPERTIES ChangesChained BreachTimeKept
CHECK_DEADLOCK FALSE
