CONSTANTS
  Multi = {m}
  Single = {s1, s2}
  Names = {f1}
  ParWorkers = {w1}
  Pool = Pool
  QueueSize = 1
  MaxTasks = 1
SPECIFICATION Spec
INVARIANT
  FailureIsRaised
