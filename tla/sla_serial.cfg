SPECIFICATION FairSpec
CONSTANTS
  Workers = {w1}
  Engines = {w1}
  Tickets = {t1}
  Policies = {1}
  Terms <- OnOff
  ResponseRisk = 1
  ResolutionRisk = 1
  Handlers = {"patch", "decide", "delete", "pause", "resume"}
  Asked = {"RESOLVED", "CLOSED"}
  MaxTime = 4
  LastOpening = 0
  MaxPaused = 1
  Crashes = FALSE
  Nil = Nil
INVARIANTS TypeOK
PROPERTIES PausesHold OverdueReported
CHECK_DEADLOCK FALSE
