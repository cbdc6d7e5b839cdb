SPECIFICATION FairSpec
CONSTANTS
  Conns = {c1, c2, c3}
  NoConn = NoConn
  Transports = {"tcp", "usb", "authenticatedUSB"}
  MaxForces = 2
  MaxFaults = 1
INVARIANTS
  UsableUnlessOverlapped
  SingleChain
  ArmedUnlessStranded
  GraceStartsWithOutage
  StopIsFinal
PROPERTIES
  LateCallbacksIgnored
  ImplementsContract
  GoneEndsUnlessStranded
  RecoversOrEnds
CHECK_DEADLOCK FALSE
