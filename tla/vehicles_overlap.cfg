SPECIFICATION MCSpec
CONSTANTS
  n1 = n1
  n2 = n2
  k1 = k1
  Users = {u1, u2}
  Vehicles = {v1}
  Names = {n1, n2}
  Numbers = {k1}
  Rows <- FourRows
  Editors = {e1, e2}
  Supporters = {p1}
  MaxRecords = 2
SYMMETRY Symmetry
INVARIANTS TypeOK SharedOnlyIfContested
