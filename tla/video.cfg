SPECIFICATION MCSpec
CONSTANTS
  MaxPendingSends = 2
  EncodeDepth = 2
  MaxReplays = 1
  Geometries = {"portrait", "landscape"}
  MaxHellos = 4
  MaxFaults = 3
INVARIANTS
  SendsCountedUnlessReplaced EncodesNotOvercounted BacklogBounded
  FirstFrameIsKeyframe KeyframeDemandKept
  RecordsIntoItsEncoder StopLeavesNothing LatestBuiltUnlessMissed
PROPERTIES GateReopens RecoveryPersistsUnlessOffline
CHECK_DEADLOCK FALSE
