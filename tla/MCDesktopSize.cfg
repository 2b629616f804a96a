SPECIFICATION FairSpec
CONSTANTS
  Widths <- MCWidths
  Heights <- MCHeights
INVARIANTS
  TypeOK
  Locking
  AtRestInAgreement
PROPERTIES
  ImplementsMailbox
  LastSizeArrives
