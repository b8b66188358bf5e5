SPECIFICATION RegionSpec
VIEW MCView
CONSTANTS
  Chunks = {0, 1}
  Payloads <- MCPayloads
  Size <- MCSize
  Schemes = {zlib}
  MaxSectors = 2
  DiskEnd = 5
  MaxFailures = 1
  None = None
  Garbage = Garbage
INVARIANTS
  RemovedIsGone
