SPECIFICATION MCSpec
CONSTANTS
  c1 = c1
  c2 = c2
  Records = {c1, c2}
  Keys <- TwoKeys
  Recipients = {p1, p2, m1}
  Phones = {p1, p2}
  MaxNamed = 2
  Requests = {d1}
  MaxAttempts = 2
  Backoff <- OneDelay
  BatchLimit = 2
  MaxLate = 1
  MaxFaults = 1
  Deployments <- MixedDeployments
  Policies <- AllPolicies
SYMMETRY RecipientSymmetry
INVARIANTS StageOK DisableStopsBatch OneListPerFault AcceptedIsLogged
PROPERTY KeepsPromise
