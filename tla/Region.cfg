SPECIFICATION RegionSpec
VIEW MCView
SYMMETRY Alike
CONSTANTS
  Chunks = {0, 1}
  Payloads <- MCPayloads
  Size <- MCSize
  Schemes = {zlib, gzip}
  MaxSectors = 2
  DiskEnd = 5
  MaxFailures = 1
  None = None
  Garbage = Garbage
INVARIANTS
  OpensClean
  NoSectorLeaks
  RightlyAbsent
PROPERTIES
  OldOrNew
