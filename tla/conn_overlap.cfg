SPECIFICATION Spec
CONSTANTS
  Conns = {c1, c2, c3}
  NoConn = NoConn
  Transports = {"tcp", "authenticatedUSB"}
  MaxForces = 2
  MaxFaults = 1
INVARIANT UsableOnlyAfterAccept
CHECK_DEADLOCK FALSE
