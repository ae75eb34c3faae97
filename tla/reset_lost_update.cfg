SPECIFICATION Spec
CONSTANTS
  u1 = u1
  name1 = name1
  stranger = stranger
  Users = {u1}
  Identifiers = {name1, stranger}
  Account <- OneAccount
  Requests = {q1}
  Managers = {m1}
  Clients = {c1}
  Temps = {t1, t2}
  Chosen = {p1}
SYMMETRY Symmetry
PROPERTY FlagNeedsCurrentPassword
