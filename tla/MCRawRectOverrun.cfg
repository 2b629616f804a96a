SPECIFICATION Spec

CONSTANTS
  U16 = 5
  U32 = 80
  PixelBytes = 2
  Framebuffers <- MCFramebuffers
  ServerPixelBytes = {1}

INVARIANT DrawnInBuffer

CHECK_DEADLOCK FALSE
