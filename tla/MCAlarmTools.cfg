SPECIFICATION Spec
CONSTANTS
  c1 = c1
  c2 = c2
  None = None
  Naive = Naive
  Blank = Blank
  Calls <- MCCalls
  ArgumentsOf <- MCArgumentsOf
  Divided <- MCDivided
  Bodies <- MCBodies
  MaxAttempts = 3
  MaxStarts = 1
CHECK_DEADLOCK FALSE
INVARIANTS
  TypeOK
  ClientOutlivesCalls
  OnlyPassingFailuresAreRetried
  ReportsAgree
PROPERTIES
  EveryCallEnds
  ImplementsToolCall
