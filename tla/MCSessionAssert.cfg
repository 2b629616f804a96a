SPECIFICATION Spec
CONSTANTS
  Messages <- MCSlowMessages
  ScreenSizes <- MCScreenSizes
  MaxBacklog = 1
  SlowNetwork = TRUE
  ConnectionEnds = {}
  SendsMayFail = FALSE
  MaxWire = 3
  MaxFences = 1
INVARIANTS
  NoUnhandledMessageType
CHECK_DEADLOCK FALSE
