SPECIFICATION Spec
CONSTANTS
  c1 = c1
  NoCall = NoCall
  Calls = {c1}
  Batches = {c1}
  GroupSize <- MCGroupSize
  Rotators = {}
  QueueCap = 1
  MaxBatch = 2
  IOFaults = {}
  Tears = {}
  DiskOver = {FALSE}
  MaxFaults = 0
  MaxCrashes = 0
  MaxParts = 1
INVARIANTS NoPanic
CHECK_DEADLOCK FALSE
