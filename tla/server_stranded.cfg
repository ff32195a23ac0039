SPECIFICATION HostsSpec
CONSTANTS
  Parts = {"ingest"}
  Segments = 2
  Event = {1}
  SpoolScenes <- MCSpoolScenes
  ServiceScenes <- MCServiceScenes
  MaxSegments = 3
  PolicyScenes <- MCPolicyScenes
  LastEdition = 3
  Upload <- MCUpload
  IngestScenes <- MCStrand
  IngestLimit = 2
  MediaScenes <- MCMediaScenes
  Attempts = 3
  Version <- MCVersion
  StoreScenes <- MCStoreScenes
  SampleSize = 1
PROPERTY RecordingsNeverStranded
CHECK_DEADLOCK FALSE
