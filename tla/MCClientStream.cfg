SPECIFICATION FairSpec

CONSTANTS
  Length <- MCLength
  Room = 3

INVARIANTS
  TypeOK
  BrokenOnlyWhenCut

PROPERTIES
  ImplementsChannel
  SendsReturn

CHECK_DEADLOCK FALSE
