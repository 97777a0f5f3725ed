CONSTANTS
  f1 = f1
  f2 = f2
  Multi = {m}
  Single = {s1}
  Names = {f1, f2}
  ParWorkers = {w1, w2}
  Pool = Pool
  QueueSize = 3
  MaxTasks = 2
SPECIFICATION MCSpec
INVARIANTS
  IInv
  FileOwner
  FileOrder
  NormalReturnIsComplete
  MonitorCountsAll
PROPERTIES
  NoWriteAfterRun
  ImplementsJob
  Termination
