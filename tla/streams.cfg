SPECIFICATION BothSpec
CONSTANTS
  Codes = {"2", "5"}
  Streams <- PieceStreams
  MaxPieces = 4
  MAX_REPLY_LINE_LEN = 3
  MAX_REPLY_LINES = 3
  RX_BUF_COMPACT_THRESHOLD = 4
  READ_CHUNK = 4
  BodyBytes = {".", "CR", "LF", "x"}
  MaxBody = 6
  Bodies <- AllBodies
  Chunk = 3
INVARIANTS BufferBounded ChunkingIrrelevant Transparent StreamIsOneShot
