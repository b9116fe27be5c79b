SPECIFICATION Spec
CONSTANTS
  Workers = {w1, w2}
  Engines = {w1, w2}
  Tickets = {t1}
  Policies = {1}
  Terms <- Fixed
  ResponseRisk = 1
  ResolutionRisk = 1
  Handlers = {"answer", "patch", "delete"}
  Asked = {"RESOLVED"}
  MaxTime = 4
  LastOpening = 0
  MaxPaused = 1
  Crashes = TRUE
  Nil = Nil
SYMMETRY Symmetry
VIEW WithoutRecords
INVARIANTS TrackingHasTicket 
CHECK_DEADLOCK FALSE
