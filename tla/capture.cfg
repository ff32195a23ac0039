SPECIFICATION MCSpec
CONSTANTS
  Audio = {"a1", "a2", "b1"}
  Partial = {"s1"}
  Final = {"f1", "f2"}
  Event = {"e1", "e2", "e3"}
  Unparsable = {"f2"}
  Rejected = {}
  Oversized = {"b1"}
  Grandfathered = {}
  Capture = {"c1"}
  CaptureOf <- MCCaptureOf
  NoSegment = NoSegment
  SegmentOf <- MCSegmentOf
  Device = {"d1"}
  DeviceOf <- MCDeviceOf
  Fixes = {"e1", "e2", "e3"}
  FixAt <- MCFixAt
  FixSeq <- MCFixSeq
  Pass = {"p1"}
  PerSourceLimit = 1
  MaxUploads = 4
  MaxFaults = 1
  NoItem = NoItem
  NoDoc = NoDoc
  Phones = {{"a1", "s1", "f1"}, {"a1", "a2", "f1"}, {"a1", "a2", "s1"}, {"a1", "b1", "f2", "e1"}, {"e1", "e2", "e3"}}
INVARIANTS
  TypeOK
  ShadowAgrees
  SightingsKept
  IndexIsStore
PROPERTIES
  NoTranscriptLost
  FirstLooksStand
  PositionsAreNewest
  BacklogDrains
