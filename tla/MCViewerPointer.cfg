SPECIFICATION Spec
CONSTANTS
  NoKey = NoKey
  Keys = {}
  RepeatingKeys = {}
  Modifiers = {}
  Deltas <- MCDeltas
  Buttons <- MCButtons
  WheelValues <- MCWheelValues
  DesktopSizes <- MCDesktopSizes
  MaxKeyEvents = 1
  MaxWheelScrolls = 2
  NewSizes <- MCDesktopSizes
  Signals = {}
  MaxHidQueue = 1
  SendsMayFail = TRUE
INVARIANTS
  ViewerTypeOK
  PointerOnDesktop
  PointerInSync
  WheelStepsClick
PROPERTIES
  ImplementsMailbox
CHECK_DEADLOCK FALSE
