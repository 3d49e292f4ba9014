SPECIFICATION Spec
CONSTANTS
  Keys = {1, 2, 3}
  kNumLevels = 4
  kMaxMemCompactLevel = 2
  kL0_CompactionTrigger = 2
  DeletedKeys = {1, 3}
  SplitKeys = {2}
  Manual = FALSE
  MaxWrites = 3
  MaxSnapshots = 1
  MaxIterators = 0
INVARIANTS TypeOK NoOverlap NewerAbove
PROPERTIES KeepsSnapshots
CHECK_DEADLOCK FALSE
