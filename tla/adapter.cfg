SPECIFICATION Spec
CONSTANTS
  MaxConns = 2
  Kinds <- MCKinds
  PoolSize = 2
  MaxInFlight = 2
  MaxRequests = 3
  MaxFaults = 1
INVARIANTS
  TypeOK
  InFlightBound
  ReadsFresh
  LostOnlyIfCut
PROPERTIES
  Served
  Releases
