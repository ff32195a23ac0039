SPECIFICATION MCSpec
CONSTANTS
  Audio = {"a1", "g1"}
  Partial = {"s1", "s2"}
  Final = {}
  Event = {}
  Unparsable = {}
  Rejected = {"s2"}
  Oversized = {}
  Grandfathered = {"g1"}
  Capture = {"c1"}
  CaptureOf <- MCCaptureOf
  NoSegment = NoSegment
  SegmentOf <- MCSegmentOf
  Device = {}
  DeviceOf <- MCDeviceOf
  Fixes = {}
  FixAt <- MCFixAt
  FixSeq <- MCFixSeq
  Pass = {p1, p2}
  PerSourceLimit = 1
  MaxUploads = 3
  MaxFaults = 0
  NoItem = NoItem
  NoDoc = NoDoc
  Phones = {{"a1", "g1", "s1", "s2"}}
SYMMETRY Passes
PROPERTIES
  ReceiptsKeepPromise
