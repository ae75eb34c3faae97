SPECIFICATION Spec
CONSTANTS
  Users = {u1}
  Sites = {s1, s2}
  Imported = {}
  Editors = {e1}
  Supporters = {}
  Payloads <- FormWithSite
SYMMETRY Symmetry
INVARIANTS SupervisorHasSite
