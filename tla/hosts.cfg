SPECIFICATION HostsSpec
CONSTANTS
  Parts = {"spool", "service", "policy", "ingest", "media", "store"}
  Segments = 2
  Event = {1}
  SpoolScenes <- MCSpoolScenes
  ServiceScenes <- MCServiceScenes
  MaxSegments = 3
  PolicyScenes <- MCPolicyScenes
  LastEdition = 3
  Upload <- MCUpload
  IngestScenes <- MCIngestScenes
  IngestLimit = 2
  MediaScenes <- MCMediaScenes
  Attempts = 3
  Version <- MCVersion
  StoreScenes <- MCStoreScenes
  SampleSize = 1
INVARIANTS
  HostsTypeOK
  NoAudioLost UploadsAreSound
  IngestIsSound
  MediaIsSound
  StoreIsSound
PROPERTIES
  PhoneFinishes
  RecordingIsHeld
  RevocationHolds
  BatchStands
  ServerFinishes
CHECK_DEADLOCK FALSE
