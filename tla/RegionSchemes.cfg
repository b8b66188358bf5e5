SPECIFICATION RegionSpec
VIEW MCView
CONSTANTS
  Chunks = {0, 1}
  Payloads <- MCPayloads
  Size <- MCSize
  Schemes = {zlib, gzip}
  MaxSectors = 2
  DiskEnd = 5
  MaxFailures = 0
  None = None
  Garbage = Garbage
INVARIANTS
  CrashLeavesAPayload
