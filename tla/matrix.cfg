SPECIFICATION MCSpec
CONSTANTS
  MacCases = {m1, m2}
  IosCases = {i1}
  Roots = {macRoot, iosRoot}
  Modes = {"test-only", "production"}
  MaxRuns = 2
  MaxEdits = 2
  MaxFaults = 1
  MaxSealedRuns = 2
  MaxDisturbances = 2
  Validators = {"fresh", "rollback", "generation"}
  MaxWrites = 4
  MaxValidations = 1
INVARIANTS
  PassedMeansAll PassedIsOfTheTuple ReportsUnlessSuiteFailed
  AcceptedWasUndisturbed OneRunPerDirectory
  FreshIsOneBuild RollbackIsObserved GenerationIsDurable
PROPERTY CleanTestRunIsSealed
CHECK_DEADLOCK FALSE
