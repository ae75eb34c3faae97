SPECIFICATION MCSpec
CONSTANTS
  v1 = v1
  Drivers = {d1, d2}
  Vehicles = {v1, v2}
  Phones = {p1}
  Items = {i1, i2}
  Required = {i1}
  Shown = {i1, i2}
  Photographed = {i2}
  MaxDay = 1
  Staff = TRUE
  Offline = TRUE
SYMMETRY Symmetry
INVARIANTS TypeOK AckedIsStored
PROPERTY KeepsPromise
