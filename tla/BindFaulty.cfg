CONSTANTS
  own = own
  peer = peer
  gate = gate
  Host = gate
  Routers <- TwoRouters
  Rank <- TwoRanks
  TableOf <- TwoTables
  Groups <- ThreeGroups
  Tables <- AllTables
  Health <- AllFlaky
  Faults = {"cancel", "unreachable", "timeout", "disk", "store", "crash", "quiet restart"}
  MaxMoves = 2
  MaxFaults = 2
SPECIFICATION FairSpec
INVARIANTS
  SettledInv
  SucceededMoveStays
PROPERTIES
  RowNotAhead
  MoveEnds
CHECK_DEADLOCK FALSE
