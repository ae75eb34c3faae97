SPECIFICATION MCSpec
CONSTANTS
  Users = {u1}
  Sites = {s1, s2}
  Imported = {s1, s2}
  Editors = {e1, e2}
  Supporters = {p1}
  Payloads <- SitesOnly
SYMMETRY Symmetry
INVARIANTS TypeOK RemovedSitesGo SomeAdministratorWins NotLeftWithout
