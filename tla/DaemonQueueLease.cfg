CONSTANTS
  a = a
  b = b
  c = c
  d1 = d1
  d2 = d2
  NoOp = NoOp
  Ops <- ThreeOps
  Deployments <- TwoKeys
  DeploymentOf <- ThirdApart
  KindOf <- ApplyDownApply
  Ttl = 3
  BeatEvery = 1
  MaxHeavy = 1
  Retention = 2
  Timely = TRUE
  StoreFaults = FALSE
  MayStop = FALSE
  MaxCrashes = 0
  MaxRestarts = 0
  MaxTime = 5
SPECIFICATION Spec
INVARIANT MutationsSerialized
CHECK_DEADLOCK FALSE
