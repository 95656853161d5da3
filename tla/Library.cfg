CONSTANTS
  b1 = b1
  b2 = b2
  Nodes = {m1, m2, m3}
  Absent = Absent
  Short = Short
  Editors = {m1, m2, m3}
  Trustable = {d1, d2}
  FileBlocks <- TwoBlocks
  Sources <- SmallFiles
  MaxChunk = 3
  Keys = {k1, k2}
  MaxFrame = 48
  MaxName = 3
  MaxMime = 2
  Streams <- AllStreams

SPECIFICATION Spec
INVARIANT TypeOK
INVARIANT DeviceIdKept
INVARIANT TrustAsDecided
INVARIANT RecordsCarryTheFile
INVARIANT NothingMisread
INVARIANT WholeFramesAreTaken
INVARIANT NameStaysItself
CHECK_DEADLOCK FALSE
