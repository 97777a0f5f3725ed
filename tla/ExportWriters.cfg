CONSTANTS
  Others = {o1, o2}
  Master = master
  Eps = 2
  Skew = 0
  MaxStamp = 5
  MaxReads = 3
  Formats = {"json", "yaml", "csv"}
  MaxRuns = 3
  MaxRecords = 3
SPECIFICATION MCSpec
SYMMETRY Symmetry
INVARIANTS
  NoMasterLost
  PicksNearest
  DropsJustified
  BoundedWindow
  WholeBetweenCalls
  OneRun
  RecordsKept
  ReturnedComplete
