SPECIFICATION FairSpec

CONSTANTS
  U16 = 5
  U32 = 80
  PixelBytes = 2
  Framebuffers <- MCFramebuffers
  ServerPixelBytes <- MCServerPixelBytes

INVARIANTS
  TypeOK
  RowsStayInBuffer
  VisibleRectIsDrawn
  DrawnWhereItBelongs

PROPERTY RowsEnd

CHECK_DEADLOCK FALSE
