SPECIFICATION Spec
CONSTANTS
  Devices = {d1, d2}
  Requests = {r1, r2}
  MaxHubs = 1
  OutCap = 1
  PairMax = 1
  Skew = 1
  MaxTime = 1
  MaxConns = 2
  MaxFaults = 1
SYMMETRY Symmetric
INVARIANTS
    LastRegisteredServed
    RequestsAccounted
    NeverLockedOut
CHECK_DEADLOCK FALSE
