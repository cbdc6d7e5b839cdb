SPECIFICATION ReceiptSpec
CONSTANTS
  Roots = {"macRoot", "iosRoot"}
  Gates = {"g004.automated"}
  Issuers = {"agent", "ci"}
  MaxChanges = 3
  MaxReports = 1
INVARIANT EligibleIsCurrent
CHECK_DEADLOCK FALSE
