SPECIFICATION Spec
CONSTANTS
  Keys = {1, 2, 3}
  kNumLevels = 3
  kMaxMemCompactLevel = 1
  kL0_CompactionTrigger = 2
  DeletedKeys = {1}
  SplitKeys = {2}
  Manual = TRUE
  MaxWrites = 3
  MaxSnapshots = 0
  MaxIterators = 2
INVARIANT HeldFilesExist
CHECK_DEADLOCK FALSE
