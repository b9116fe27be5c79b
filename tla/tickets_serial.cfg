SPECIFICATION Spec
CONSTANTS
  Workers = {w1}
  Tickets = {t1}
  Approvals = {a1, a2}
  Staff = {u1, u2}
  Admins = {u1}
  Asked = {"OPEN", "RESOLVED", "PENDING"}
  Handlers = {"create", "update", "macro", "approve", "decide", "remove"}
  Crashes = FALSE
  Nil = Nil
SYMMETRY Symmetry
VIEW WithoutLog
PROPERTIES HistoryFollowsStatus ApprovalsGate 
CHECK_DEADLOCK FALSE
