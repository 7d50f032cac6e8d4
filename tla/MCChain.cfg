SPECIFICATION Spec
CONSTANTS
  None = None
  Naive = Naive
  Blank = Blank
  Beyond = Beyond
  Requests <- MCRequests
  KeywordIn <- MCKeywordIn
  LLMPlans <- MCLLMPlans
  Indexes <- MCIndexes
  Similarity <- MCSimilarity
  Blocklisted <- MCBlocklisted
INVARIANTS
  TypeOK
  FailedToolsAreTold
  IncidentIsGrounded
  CitationsAreSound
  AnswerMatchesTheEnvelope
