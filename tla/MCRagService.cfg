SPECIFICATION Spec
CHECK_DEADLOCK FALSE
CONSTANTS
  None = None
  ChunkSize = 5
  Overlap = 3
  MinChunk = 3
  Documents <- MCDocuments
  Corpora <- MCCorpora
  MaxIngests = 2
  Similarity <- MCSimilarity
  Blocklisted <- HoldsMark
  Queries <- MCQueries
  MaxStarts = 1
INVARIANTS
  TypeOK
  NothingLost
  ServesAWholeIndex
  RetrievalIsSound
PROPERTIES
  IngestionEnds
