SPECIFICATION Spec
CHECK_DEADLOCK FALSE
CONSTANTS
  None = None
  ChunkSize = 7
  Overlap = 5
  MinChunk = 4
  Documents <- MCDocuments
  Corpora <- MCCorpora
  MaxIngests = 1
  Similarity <- MCSimilarity
  Blocklisted <- HoldsMark
  Queries <- MCQueries
  MaxStarts = 1
INVARIANTS
  NearFixedLength
