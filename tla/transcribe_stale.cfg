SPECIFICATION FairSpec
CONSTANTS
  Capture = {2, 3}
  Chunks <- MCChunks
  Missing <- MCMissing
  Mismatched = {}
  StaleError = {2}
  Pass = {"p1"}
  Limit = 2
  MaxFaults = 0
PROPERTIES
  StaleErrorRetried
