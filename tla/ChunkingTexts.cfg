\* Every text of up to eight characters, chunks of five, every overlap and two that are refused.
SPECIFICATION ChunkingSpec
CONSTANTS
  ChunkSize = 5
  MinChunkSize = 5
  Overlaps <- MCOverlaps
  MaxLength = 8
INVARIANTS
  ChunkingTypeOK
  NothingIsSkipped
PROPERTIES
  WindowsAdvance
CHECK_DEADLOCK FALSE
