SPECIFICATION Spec
CONSTANTS
  Messages <- MCMessages
  ScreenSizes <- MCScreenSizes
  MaxBacklog = 1
  SlowNetwork = FALSE
  ConnectionEnds <- MCBothEnds
  SendsMayFail = TRUE
  MaxWire = 3
  MaxFences = 2
INVARIANTS
  TypeOK
  AtMessageBoundary
  FencesAnsweredInOrder
  UpdatesCoverDesktop
  UpdatesEnabled
  EnabledMeansUpdates
CHECK_DEADLOCK FALSE
