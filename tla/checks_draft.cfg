SPECIFICATION MCSpec
CONSTANTS
  v1 = v1
  Drivers = {d1}
  Vehicles = {v1}
  Phones = {p1}
  Items = {i1, i2}
  Required = {i1}
  Shown = {i1, i2}
  Photographed = {}
  MaxDay = 0
  Staff = FALSE
  Offline = TRUE
PROPERTY AnswersKept
