SPECIFICATION FairSpec
CONSTANTS
  a = a
  shift = shift
  NoKey = NoKey
  Keys <- MCKeys
  RepeatingKeys <- MCRepeatingKeys
  Modifiers <- MCModifiers
  Deltas = {}
  Buttons = {}
  WheelValues = {}
  DesktopSizes = {1}
  MaxKeyEvents = 2
  MaxWheelScrolls = 0
  NewSizes = {1}
  Signals <- MCSignals
  MaxHidQueue = 1
  SendsMayFail = FALSE
INVARIANTS
  ServerHoldsTheSameKeys
PROPERTIES
  ExitOrStuck
CHECK_DEADLOCK FALSE
