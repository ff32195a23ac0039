SPECIFICATION FairSpec
CONSTANTS
  Capture = {1, 2, 3, 4}
  Chunks <- MCChunks
  Missing <- MCMissing
  Mismatched = {1}
  StaleError = {2}
  Pass = {"p1"}
  Limit = 2
  MaxFaults = 1
INVARIANTS
  PaidJobsAccounted
  SettlementIsEvidence
PROPERTIES
  ReceiptOnlyGrows
  EveryManifestSettles
