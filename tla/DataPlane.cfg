SPECIFICATION MCSpec
CONSTANTS
  b1 = b1
  b2 = b2
  c1 = c1
  c2 = c2
  r1 = r1
  r2 = r2
  f1 = f1
  a1 = a1
  a2 = a2
  NoAdmin = NoAdmin
  Bindings <- MCBindings
  Conns <- MCConns
  BindingOf <- MCBindingOf
  Own = "own"
  Hosts <- MCHosts
  Flows = {f1}
  MaxChanges = 1
  Reqs = {r1, r2}
  Kinds <- MCKinds
  Admins = {a1, a2}
  Updates <- MCUpdates
  FirstConfig = "first"
  Documents <- MCDocuments
  MaxKills = 2
  MaxIgnored = 2
  MaxStarts = 3
  Outputs = {"stdout", "stderr"}
  Streams = {s1}
  Capacity = 3
  MaxLines = 1
  MaxDrops = 1
INVARIANTS
  StreamsAreComplete
  OlderConnectionsAreTold
  AcknowledgedIsServed
  RequestsPinTheirSnapshot
  FirstListenerServes
  RulesAreInOrder
CHECK_DEADLOCK FALSE
PROPERTIES
  StreamEnds
  ToldConnectionsEnd
  ShutdownEnds
