SPECIFICATION FairSpec
CONSTANTS
  Devices = {d1}
  MaxObjects = 2
  MaxRestarts = 1
PROPERTY RestartRebuilds
CHECK_DEADLOCK FALSE
