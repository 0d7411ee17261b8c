CONSTANTS
  own = own
  peer = peer
  gate = gate
  Host = gate
  Routers <- ThreeRouters
  Rank <- ByName
  TableOf <- PlannedTables
  Groups <- FourGroups
  Tables <- AllTables
  Health <- SomeDown
  Faults = {"cancel"}
  MaxMoves = 4
  MaxFaults = 2
SPECIFICATION Spec
PROPERTIES
  AllOrNothing
CHECK_DEADLOCK FALSE
