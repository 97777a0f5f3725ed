CONSTANTS
  Formats = {"json"}
  MaxRuns = 1
  MaxRecords = 2
SPECIFICATION OutputSpec
INVARIANT InterruptedLoadable
