CONSTANTS
  own = own
  peer = peer
  gate = gate
  Host = gate
  Routers <- TwoRouters
  Rank <- TwoRanks
  TableOf <- TwoTables
  Groups <- ThreeGroups
  Tables <- AllTables
  Health <- AllUp
  Faults = {"timeout"}
  MaxMoves = 1
  MaxFaults = 1
SPECIFICATION Spec
INVARIANTS
  NoPartialGroup
CHECK_DEADLOCK FALSE
