SPECIFICATION FairSpec
CONSTANTS
  MaxTurns = 3
  MaxAttempts = 2
  MaxRestarts = 1
  None = None
INVARIANTS
  TypeOK
  TurnsArePaired
  AnsweredIsRecorded
  PromptHoldsDialogue
PROPERTIES
  ConversationGrows
  SessionKeepsThread
  EveryTurnEnds
