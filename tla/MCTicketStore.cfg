SPECIFICATION SearchSpec
CONSTANTS
  r1 = r1
  r2 = r2
  r3 = r3
  i1 = i1
  i2 = i2
  Requests <- MCRequests
  Incidents <- MCIncidents
  SeedIds <- MCSeedIds
  FirstOffset = 2
  NoThread = NoThread
  MaxRestarts = 1
  MaxLimit = 2
  None = None
  Profile <- MCProfile
  SeedTicket <- MCSeedTicket
  SeedOrder <- MCSeedOrder
INVARIANTS
  TypeOK
  AuditIntegrity
  NoOrphanTicket
  AnswerIsBacked
  FiledIsFound
PROPERTIES
  NeverOverwritten
  AuditPagesGrow
  EveryRequestEnds
  ImplementsLedger
