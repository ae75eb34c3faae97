SPECIFICATION Spec
CONSTANTS
  u1 = u1
  name1 = name1
  stranger = stranger
  Users = {u1}
  Identifiers = {name1, stranger}
  Account <- OneAccount
  Requests = {q1, q2}
  Managers = {m1, m2}
  Clients = {c1, c2}
  Temps = {t1, t2}
  Chosen = {p1}
ACTION_CONSTRAINT OneSession
SYMMETRY Symmetry
INVARIANTS TypeOK ApprovedAwaitsChange TempForcesChange UnrestrictedAfterChange
PROPERTY DecidedOnce
