SPECIFICATION MCSpec
CONSTANTS
  Workers = {w1, w2}
  Emails = {e1, e2}
  Passwords = {p1, p2}
  Asked = {"ADMIN", "REQUESTER"}
  Nil = Nil
SYMMETRY Symmetry
VIEW WithoutRecords
INVARIANTS TypeOK OnlyOwnersHold AuthorityTraced
PROPERTIES LogoutHolds LockoutIsFinal
CHECK_DEADLOCK FALSE
