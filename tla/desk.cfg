SPECIFICATION Spec
CONSTANTS
  Workers = {w1, w2}
  Users = {u1, u2}
  Nil = Nil
  Articles = {a1, a2}
  Titles = {t1}
  Suffixes = {x1}
  Admins = {d1}
  Agents = {g1}
  Requesters = {r1}
  Notes = {n1, n2, n3}
  Readers = {i1}
  Services = {s1, s2}
  Assets = {c1, c2}
  Impacted = s1
  MaxRows = 3
  Everyone = Everyone
  PageSize = 2
  Posts = {p1, p2, p3}
  Priorities = {low, high}
  Fellows = {f1}
  MaxRules = 2
  MaxIssued = 3
  Names = {b1, b2, b3}
INVARIANTS
  TypesOK ArticlesHold LogAgrees  WalkIsExact TimelineIsWhole
  StoredIsValid RulesHold OneDefault 
CHECK_DEADLOCK FALSE
