SPECIFICATION MCSpec
CONSTANTS
  Audio = {"a1", "a2"}
  Partial = {"s1"}
  Final = {"f1"}
  Event = {}
  Unparsable = {}
  Rejected = {}
  Oversized = {}
  Grandfathered = {}
  Capture = {"c1"}
  CaptureOf <- MCCaptureOf
  NoSegment = NoSegment
  SegmentOf <- MCSegmentOf
  Device = {}
  DeviceOf <- MCDeviceOf
  Fixes = {}
  FixAt <- MCFixAt
  FixSeq <- MCFixSeq
  Pass = {"p1"}
  PerSourceLimit = 1
  MaxUploads = 4
  MaxFaults = 1
  NoItem = NoItem
  NoDoc = NoDoc
  Phones = {{"a1", "a2", "s1", "f1"}}
INVARIANT
  ReceiptedIsListed
