\* A symbol without a row.
SPECIFICATION Spec
CONSTANTS
  MaxOps = 2
  MaxCasRetries = 0
  MaxSchema = 1
  MaxDeletes = 0
  MaxCrashes = 0
  CacheFaults = {}
  Merges = TRUE
  RowExists = FALSE
CHECK_DEADLOCK FALSE
INVARIANT ReadYourWrites
