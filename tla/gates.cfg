SPECIFICATION MCSpec
CONSTANTS
  Roots = {"macRoot", "iosRoot"}
  Gates = {"g004.automated"}
  Issuers = {"agent", "ci"}
  MaxChanges = 3
  MaxReports = 1
  Versions = {1, 2}
  MaxBuilds = 2
  MaxEdits = 5
  MaxJobs = 2
INVARIANTS
  EligibleIsBacked EligibleKeepsUnlessMoved FeedSignsItsDmg FeedIsTheReleaseToServe
CHECK_DEADLOCK FALSE
