CONSTANTS
  a = a
  b = b
  c = c
  d1 = d1
  d2 = d2
  NoOp = NoOp
  Ops <- ThreeOps
  Deployments <- TwoKeys
  DeploymentOf <- ThirdApart
  KindOf <- ApplyBindApply
  Ttl = 3
  BeatEvery = 1
  MaxHeavy = 1
  Retention = 2
  Timely = TRUE
  StoreFaults = FALSE
  MayStop = FALSE
  MaxCrashes = 0
  MaxRestarts = 0
  MaxTime = 3
  dev = dev
  n1 = n1
  n2 = n2
  None = None
  Devices = {dev}
  Plans <- Lan3
  Ports = {p1, p2}
  Gateways = {g1, g2}
  Names = {n1, n2}
  Binaries = {b1, b2}
  MaxFaults = 2
SPECIFICATION TimelySpec
SYMMETRY Alike
INVARIANTS
  LeaseCoversWork
  HealthyIsWhole
  StoppedMeansStopped
  NothingIsLost
PROPERTY
  ForeignUntouched
CHECK_DEADLOCK FALSE
