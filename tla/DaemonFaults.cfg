CONSTANTS
  a = a
  b = b
  c = c
  d1 = d1
  d2 = d2
  NoOp = NoOp
  Ops <- TwoOps
  Deployments <- OneKey
  DeploymentOf <- BothOnOne
  KindOf <- ApplyBind
  Ttl = 2
  BeatEvery = 1
  MaxHeavy = 1
  Retention = 1
  Timely = FALSE
  StoreFaults = TRUE
  MayStop = TRUE
  MaxCrashes = 1
  MaxRestarts = 1
  MaxTime = 2
SPECIFICATION Spec
PROPERTIES
  OldOwnerNeverDisturbs
  LeaseSpec
CHECK_DEADLOCK FALSE
