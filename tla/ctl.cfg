SPECIFICATION FairSpec
CONSTANTS
  Devices = {d1}
  MaxObjects = 2
  MaxRestarts = 2
PROPERTIES
  NoTwins
  TakeoverHonoured
  OptOutKept
  RestartRebuildsUnlessRefused
CHECK_DEADLOCK FALSE
