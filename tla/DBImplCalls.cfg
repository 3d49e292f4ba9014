SPECIFICATION Spec
CONSTANTS
  Writers = {w1, w2, w3}
  NullWriters = {w2}
  SyncWriters = {w3}
  Compactors = {c1}
  NoOne = NoOne
  write_buffer_size = 1
  kL0_CompactionTrigger = 2
  kL0_StopWritesTrigger = 2
  MaxOutputs = 1
  Faults = {"torn", "tornEdit", "sync", "table"}
  MaxFaults = 1
  MaxEnds = 1
INVARIANTS TypeOK NobodyForgotten
PROPERTIES EveryWriterAnswered EveryRangeReturns
CHECK_DEADLOCK FALSE
