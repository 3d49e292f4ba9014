SPECIFICATION Spec
CONSTANTS
  Keys = {1, 2}
  kNumLevels = 3
  kMaxMemCompactLevel = 1
  kL0_CompactionTrigger = 2
  DeletedKeys = {2}
  SplitKeys = {2}
  Manual = FALSE
  MaxWrites = 4
  MaxSnapshots = 1
  MaxIterators = 0
PROPERTY KeepsSnapshots
CHECK_DEADLOCK FALSE
