SPECIFICATION MCSpec
CONSTANTS
  c1 = c1
  c2 = c2
  Records = {c1, c2}
  Keys <- TwoKeys
  Recipients = {p1}
  Phones = {p1}
  MaxNamed = 1
  Requests = {d1, d2}
  MaxAttempts = 2
  Backoff <- OneDelay
  BatchLimit = 1
  MaxLate = 1
  MaxFaults = 1
  Deployments <- MetaDeployment
  Policies <- OnOff
INVARIANTS TypeOK RetryBudget LogBacksOutbox
PROPERTIES BornOnce EveryRowSettles
ACTION_CONSTRAINT QuietChange
