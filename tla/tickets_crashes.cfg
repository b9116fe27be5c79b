SPECIFICATION Spec
CONSTANTS
  Workers = {w1, w2}
  Tickets = {t1}
  Approvals = {a1}
  Staff = {u1}
  Admins = {u1}
  Asked = {"CLOSED"}
  Handlers = {"create", "update", "approve", "decide", "remove"}
  Crashes = TRUE
  Nil = Nil
SYMMETRY Symmetry
INVARIANTS TypeOK DecisionsAudited StampedStatus NoOrphanApproval DecisionFindsTicket
PROPERTIES NoResurrection
CHECK_DEADLOCK FALSE
