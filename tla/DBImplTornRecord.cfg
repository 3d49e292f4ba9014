SPECIFICATION Spec
CONSTANTS
  Writers = {w1, w2, w3}
  NullWriters = {}
  SyncWriters = {w3}
  Compactors = {}
  NoOne = NoOne
  write_buffer_size = 1
  kL0_CompactionTrigger = 2
  kL0_StopWritesTrigger = 2
  MaxOutputs = 1
  Faults = {"torn"}
  MaxFaults = 1
  MaxEnds = 0
INVARIANT NothingLost
CHECK_DEADLOCK FALSE
