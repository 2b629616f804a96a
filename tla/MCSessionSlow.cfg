SPECIFICATION FairSpec
CONSTANTS
  Messages <- MCSlowMessages
  ScreenSizes <- MCScreenSizes
  MaxBacklog = 1
  SlowNetwork = TRUE
  ConnectionEnds <- MCBothEnds
  SendsMayFail = FALSE
  MaxWire = 3
  MaxFences = 1
PROPERTIES
  HandlersReturn
CHECK_DEADLOCK FALSE
