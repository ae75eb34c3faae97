SPECIFICATION Spec
CONSTANTS
  c1 = c1
  c2 = c2
  Records = {c1, c2}
  Keys <- OneKey
  Recipients = {p1}
  Phones = {p1}
  MaxNamed = 1
  Requests = {d1, d2}
  MaxAttempts = 2
  Backoff <- OneDelay
  BatchLimit = 1
  MaxLate = 1
  MaxFaults = 0
  Deployments <- MetaDeployment
  Policies <- AlwaysOn
INVARIANT NoDuplicateSends
