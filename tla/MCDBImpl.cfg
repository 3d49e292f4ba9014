SPECIFICATION Spec
CONSTANTS
  Writers = {w1, w2, w3}
  NullWriters = {}
  SyncWriters = {w3}
  Compactors = {c1}
  NoOne = NoOne
  write_buffer_size = 1
  kL0_CompactionTrigger = 2
  kL0_StopWritesTrigger = 2
  MaxOutputs = 3
  Faults = {"create", "append", "sync", "table", "manifest"}
  MaxFaults = 1
  MaxEnds = 2
INVARIANTS SequenceAhead NoFileMissing NothingLost
PROPERTIES KeepsPromises FilesNotReused
CHECK_DEADLOCK FALSE
SYMMETRY Interchangeable
