SPECIFICATION CaptureSpec
CONSTANTS
  Geometries = {"portrait", "landscape"}
  MaxHellos = 4
  MaxFaults = 3
PROPERTY RecoveryPersists
CHECK_DEADLOCK FALSE
