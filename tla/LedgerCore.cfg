SPECIFICATION Spec
CONSTANTS
  c1 = c1
  c2 = c2
  r1 = r1
  NoCall = NoCall
  Calls = {c1, c2}
  Batches = {c2}
  GroupSize <- MCGroupSize
  Rotators = {r1}
  QueueCap = 1
  MaxBatch = 2
  IOFaults = {"open", "write", "short", "fsync", "head", "scan", "skip", "heal"}
  Tears = {"frag", "bare"}
  DiskOver = {FALSE}
  MaxFaults = 1
  MaxCrashes = 2
  MaxParts = 2
INVARIANTS TypeOK AckedReadable SeqsAscend TailClosed RefusalsAccounted
PROPERTIES CoreImplementsDurableLog AppendsNeverPanic
CHECK_DEADLOCK FALSE
CONSTRAINT Budget
