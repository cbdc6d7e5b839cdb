SPECIFICATION SealedSpec
CONSTANTS
  Roots = {macRoot, iosRoot}
  Modes = {"test-only", "production"}
  MaxSealedRuns = 1
  MaxDisturbances = 1
PROPERTY CleanRunIsSealed
CHECK_DEADLOCK FALSE
