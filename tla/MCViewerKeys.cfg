SPECIFICATION Spec
CONSTANTS
  a = a
  b = b
  NoKey = NoKey
  Keys <- MCKeys
  RepeatingKeys <- MCKeys
  Modifiers = {}
  Deltas = {}
  Buttons = {}
  WheelValues = {}
  DesktopSizes = {1}
  MaxKeyEvents = 2
  MaxWheelScrolls = 0
  NewSizes = {}
  Signals = {}
  MaxHidQueue = 2
  SendsMayFail = TRUE
INVARIANTS
  RepeatingKeyHasTimer
  RepeatingKeyIsHeld
  ServerHoldsTheSameKeys
CHECK_DEADLOCK FALSE
