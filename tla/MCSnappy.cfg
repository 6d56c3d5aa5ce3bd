SPECIFICATION Spec
CONSTANTS
  Bytes <- MCBytes
  Inputs <- MCInputs
  kblock_size = 260
  Hash <- hash_bytes
  Chunks = {1, 3, 19, 1000}
  Cuts = {0, 1, 3, 8}
  DamagedAt = {1, 3, 4}
  DamagedBytes = {0, 2, 120}
INVARIANTS
  ElementsFaithful OutputFits CompressAsserts
  TagBuffered WritesInside RoundTrip TruncationRefused
