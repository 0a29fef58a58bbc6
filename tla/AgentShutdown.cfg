SPECIFICATION MCSpec
CONSTANTS
  MaxStarts = 3
  Contacts = TRUE
INVARIANTS
  TypeOK
  AdapterStoppedOnce
  StartsAreJoined
  StopTellsTheTruth
  OwnersAgree
PROPERTIES
  ImplementsLifecycle
  OwnersImplementLifecycle
  SupersededStartsAreInert
  StopsSettle
CHECK_DEADLOCK FALSE
