CONSTANTS
  a = a
  b = b
  c = c
  d1 = d1
  d2 = d2
  NoOp = NoOp
  Ops <- TwoOps
  Deployments <- TwoKeys
  DeploymentOf <- Apart
  KindOf <- ApplyClone
  Ttl = 3
  BeatEvery = 1
  MaxHeavy = 1
  Retention = 1
  Timely = FALSE
  StoreFaults = FALSE
  MayStop = TRUE
  MaxCrashes = 1
  MaxRestarts = 1
  MaxTime = 1
SPECIFICATION FairSpec
INVARIANTS
  AnnouncedIsStable
  ExitIsClean
PROPERTIES
  CancelEnds
  DrainEnds
CHECK_DEADLOCK FALSE
