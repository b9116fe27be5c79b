SPECIFICATION FairSpec
CONSTANTS
  Workers = {w1, w2}
  Tickets = {t1}
  Approvals = {a1}
  Staff = {u1}
  Admins = {u1}
  Asked = {}
  Handlers = {"create", "update", "approve", "decide", "remove"}
  Crashes = FALSE
  Nil = Nil
INVARIANTS LogIsTrue
PROPERTIES EveryRequestEnds
CHECK_DEADLOCK FALSE
