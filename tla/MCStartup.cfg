SPECIFICATION FairSpec

CONSTANTS
  Versions <- MCVersions
  Offers <- MCOffers
  Statuses <- MCStatuses
  DesktopSizes <- MCDesktopSizes
  ScreenSize = "like the screen"
  NameLengths <- MCNameLengths
  SendsMayFail = TRUE
  Lines <- MCLines
  BufferLen = 4
  KeyLen = 2
  ConnectorLists <- MCConnectorLists

INVARIANTS
  BestTypeChosen
  MisreadOnlyAfter
  RunningTogether
  EchoRestored
  KeyIsTyped
  FirstModeTaken

PROPERTIES
  StartEnds
  ExitIsTaken

CHECK_DEADLOCK FALSE
