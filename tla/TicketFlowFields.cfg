SPECIFICATION Spec
CONSTANTS
  i1 = i1
  i2 = i2
  alice = alice
  Incidents <- MCIncidents
  Assignees <- MCAssignees
  None = None
  MaxCalls = 2
  MaxRestarts = 1
INVARIANTS
  FieldsAboveAreFiled
