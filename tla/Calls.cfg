SPECIFICATION CallSpec
CONSTANTS
  CallScenarios <- AllScenarios
  MaxTries = 2
  MaxLost = 3
INVARIANTS
  
  
  RowsBounded
  ErrorsKept
  ContactsArrive
CHECK_DEADLOCK FALSE
