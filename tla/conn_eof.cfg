SPECIFICATION FairSpec
CONSTANTS
  Conns = {c1, c2, c3}
  NoConn = NoConn
  Transports = {"tcp", "authenticatedUSB"}
  MaxForces = 0
  MaxFaults = 1
PROPERTY GoneEndsSession
CHECK_DEADLOCK FALSE
