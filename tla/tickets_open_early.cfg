SPECIFICATION Spec
CONSTANTS
  Workers = {w1, w2}
  Tickets = {t1}
  Approvals = {a1, a2}
  Staff = {u1}
  Admins = {u1}
  Asked = {"OPEN"}
  Handlers = {"create", "approve", "decide"}
  Crashes = FALSE
  Nil = Nil
SYMMETRY Symmetry
PROPERTIES OpenedMeansCompleted
CHECK_DEADLOCK FALSE
