SPECIFICATION Spec
CONSTANTS
  i1 = i1
  i2 = i2
  Incidents <- MCIncidents
  None = None
  Edited = Edited
  Empty = Empty
  Unprojected = Unprojected
  MaxStagings = 2
SYMMETRY Perms
INVARIANTS
  TypeOK
  WhatWasShownIsSent
  FailedTurnShowsBanner
  
