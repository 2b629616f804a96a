-------------------------------- MODULE RawRect --------------------------------
(***************************************************************************)
(* A raw rectangle of a framebuffer update (handle_rect in                 *)
(* src/src/session.c, vnc_rfb_recv_rect_raw in src/src/rfb.c): the check   *)
(* that its last pixel is in the framebuffer, then one read per row.       *)
(* Integers keep the width they have in the source: 16 bits for the row    *)
(* counter, 32 for byte offsets.  The main thread does not wait for the    *)
(* session thread when it ends: vnc_drm_deinit clears the framebuffer, a   *)
(* field at a time and in any order, while the rectangle is drawn.         *)
(***************************************************************************)
EXTENDS Integers

CONSTANTS
  U16, U32,         \* numbers of values of a u16 and of a u32
  Framebuffers,     \* what the driver may have set up, PixelBytes per pixel
  PixelBytes,       \* bytes of a pixel of the framebuffer, 4 in the source
  ServerPixelBytes  \* bpp / 8 of a pixel format the server may have announced,
                    \* whose bpp is at most the framebuffer's or a multiple of 8

ASSUME SizesAssumption ==
  /\ U16 \in Nat \ {0} /\ U32 \in Nat \ {0}
  /\ PixelBytes \in Nat \ {0}
  /\ ServerPixelBytes \subseteq Nat

(* A row has place for the pixels, the buffer has place for the rows, and    *)
(* both hold whole pixels (external: what DRM_IOCTL_MODE_CREATE_DUMB         *)
(* returns).  A row of the buffer is short enough for the offset of any      *)
(* pixel that 16 bits can name to fit into 32 bits (up to 8191 pixels), and  *)
(* the buffer has fewer rows than 16 bits can count.                         *)
ASSUME FramebuffersAssumption ==
  \A fb \in Framebuffers :
    /\ fb \in [width : Nat \ {0}, height : Nat \ {0}, pitch : Nat \ {0}, size : Nat]
    /\ fb.width * PixelBytes <= fb.pitch
    /\ fb.pitch * fb.height <= fb.size
    /\ \E n \in 0 .. fb.pitch : fb.pitch = n * PixelBytes
    /\ \E n \in 0 .. fb.size : fb.size = n * PixelBytes
    /\ (fb.pitch + PixelBytes) * (2 * U16) <= U32
    /\ fb.size + PixelBytes <= fb.pitch * (U16 - 1)

\* Whatever the server sends: nothing compares it with the desktop.
Rects == [x : 0 .. U16 - 1, y : 0 .. U16 - 1, width : 0 .. U16 - 1, height : 0 .. U16 - 1]

Fields == {"pitch", "bpp", "size", "buffer"}

VARIABLES
  framebuffer,      \* the framebuffer of fb_mngr, as it was set up
  cleared,          \* fields of it that vnc_drm_deinit has set to 0
  serverBytes,      \* server_settings.pixel_format.bpp / 8
  rect,             \* the rectangle
  place,            \* where the handler is
  args,             \* pitch, bytes of a pixel and buffer the rows are read with
  y,                \* the row counter of vnc_rfb_recv_rect_raw
  drawn             \* bytes of the framebuffer that were written

inputVars == <<framebuffer, serverBytes, rect>>
vars == <<framebuffer, cleared, serverBytes, rect, place, args, y, drawn>>

NoArgs == [pitch |-> 0, bytes |-> 0, mapped |-> FALSE]

-----------------------------------------------------------------------------
\* What a read of the framebuffer returns.
Pitch == IF "pitch" \in cleared THEN 0 ELSE framebuffer.pitch
Bytes == IF "bpp" \in cleared THEN 0 ELSE PixelBytes
Size  == IF "size" \in cleared THEN 0 ELSE framebuffer.size

\* (mutant) The row after the last one is looked at.
BottomRightPixelIndexOfNextRow ==
  ((rect.y + rect.height) * Pitch + (rect.x + rect.width - 1) * serverBytes) % U32

\* An empty rectangle may make it negative, hence very large.
BottomRightPixelIndex ==
  ((rect.y + rect.height - 1) * Pitch + (rect.x + rect.width - 1) * serverBytes) % U32

\* (mutant) Only the top left pixel is looked at.
FitsByTopLeft ==
  /\ Bytes >= serverBytes
  /\ rect.y * Pitch + rect.x * serverBytes < Size

Fits ==
  /\ Bytes >= serverBytes
  /\ BottomRightPixelIndex < Size

CheckRect ==
  /\ place = "check"
  /\ place' = IF Fits THEN "arguments" ELSE "exited"
  /\ UNCHANGED <<inputVars, cleared, args, y, drawn>>

\* The fields are read again for the call.
CallRecvRect ==
  /\ place = "arguments"
  /\ args' = [pitch |-> Pitch, bytes |-> Bytes, mapped |-> "buffer" \notin cleared]
  /\ y' = rect.y
  /\ place' = "rows"
  /\ UNCHANGED <<inputVars, cleared, drawn>>

RowStart(row) == (args.pitch * row + rect.x * args.bytes) % U32

RowBytes(row) == RowStart(row) .. RowStart(row) + rect.width * args.bytes - 1

\* Without a byte to read recv is not called.
IsWritable == args.mapped \/ rect.width * args.bytes = 0

\* (mutant) The row after the last one is received too.
ReceiveRowOnceMore ==
  /\ place = "rows"
  /\ y <= rect.y + rect.height
  /\ IsWritable
  /\ drawn' = drawn \cup RowBytes(y)
  /\ y' = (y + 1) % U16
  /\ UNCHANGED <<inputVars, cleared, place, args>>

\* (mutant) Every row is written to the first one.
ReceiveRowOverFirst ==
  /\ place = "rows"
  /\ y < rect.y + rect.height
  /\ IsWritable
  /\ drawn' = drawn \cup RowBytes(rect.y)
  /\ y' = (y + 1) % U16
  /\ UNCHANGED <<inputVars, cleared, place, args>>

\* (mutant) The row counter does not move.
ReceiveRowAgain ==
  /\ place = "rows"
  /\ y < rect.y + rect.height
  /\ IsWritable
  /\ drawn' = drawn \cup RowBytes(y)
  /\ UNCHANGED <<inputVars, cleared, place, args, y>>

ReceiveRow ==
  /\ place = "rows"
  /\ y < rect.y + rect.height
  /\ IsWritable
  /\ drawn' = drawn \cup RowBytes(y)
  /\ y' = (y + 1) % U16
  /\ UNCHANGED <<inputVars, cleared, place, args>>

\* recv reports an address that is not mapped (EFAULT).
RowFails ==
  /\ place = "rows"
  /\ y < rect.y + rect.height
  /\ ~IsWritable
  /\ place' = "lost"
  /\ UNCHANGED <<inputVars, cleared, args, y, drawn>>

RowsDone ==
  /\ place = "rows"
  /\ y >= rect.y + rect.height
  /\ place' = "done"
  /\ UNCHANGED <<inputVars, cleared, args, y, drawn>>

\* The main thread: vnc_drm_deinit, and the end of the process after it, as
\* far as they come before the end of the handler.
Handling == place \in {"check", "arguments", "rows"}

ClearField(field) ==
  /\ Handling
  /\ cleared' = cleared \cup {field}
  /\ UNCHANGED <<inputVars, place, args, y, drawn>>

Return ==
  /\ Handling
  /\ cleared = Fields
  /\ place' = "gone"
  /\ UNCHANGED <<inputVars, cleared, args, y, drawn>>

Init ==
  /\ framebuffer \in Framebuffers
  /\ cleared = {}
  /\ serverBytes \in ServerPixelBytes
  /\ rect \in Rects
  /\ place = "check"
  /\ args = NoArgs
  /\ y = 0
  /\ drawn = {}

ThreadGoesOn == CheckRect \/ CallRecvRect \/ ReceiveRow \/ RowFails \/ RowsDone

Next == ThreadGoesOn \/ Return \/ \E field \in Fields : ClearField(field)

Spec == Init /\ [][Next]_vars

\* Once it has begun to clear, the main thread goes on to the end.
DeinitGoesOn == cleared # {} /\ (Return \/ \E field \in Fields : ClearField(field))

(* Both threads are scheduled; the rows arrive (module SessionThread has the *)
(* timeouts).                                                                *)
FairSpec == Spec /\ WF_vars(ThreadGoesOn) /\ WF_vars(DeinitGoesOn)

-----------------------------------------------------------------------------
TypeOK ==
  /\ framebuffer \in Framebuffers
  /\ cleared \subseteq Fields
  /\ serverBytes \in ServerPixelBytes
  /\ rect \in Rects
  /\ place \in {"check", "arguments", "rows", "done", "lost", "exited", "gone"}
  /\ args \in [pitch : {0, framebuffer.pitch}, bytes : {0, PixelBytes}, mapped : BOOLEAN]
  /\ y \in 0 .. U16 - 1
  /\ args.pitch # 0 => y \in {0} \cup (rect.y .. rect.y + rect.height)
  /\ drawn \subseteq Nat

SamePixels == serverBytes = PixelBytes
OnScreen ==
  /\ rect.x + rect.width <= framebuffer.width
  /\ rect.y + rect.height <= framebuffer.height

\* The bytes the check does not look at: it takes the server's bytes per pixel
\* for the last row, which is read with the framebuffer's.
MissedByCheck ==
  IF SamePixels THEN 0
  ELSE (rect.x + rect.width - 1) * (PixelBytes - serverBytes) + PixelBytes - 1

(* A rectangle that is drawn is drawn inside the buffer when the server has  *)
(* the framebuffer's bytes per pixel, and passes its end by no more than the *)
(* check has missed when it has fewer: whatever sixteen bit numbers the      *)
(* rectangle is made of, one look at its last pixel answers for every byte   *)
(* of every row, even when the main thread clears the framebuffer between    *)
(* the look and the reads (handle_rect, vnc_rfb_recv_rect_raw).              *)
RowsStayInBuffer == \A byte \in drawn : byte < framebuffer.size + MissedByCheck

(* A rectangle that is drawn is drawn inside the buffer: one whose data      *)
(* "does not fit in DRM buffer" ends the viewer instead (session.c:438).     *)
DrawnInBuffer == \A byte \in drawn : byte < framebuffer.size

\* Not one of the empty rectangles whose last pixel would be before the first
\* of the buffer: there the offset wraps and the viewer exits.
HasLastPixel ==
  /\ rect.y + rect.height > 0
  /\ rect.y + rect.height > 1 \/ rect.x + rect.width > 0

(* A rectangle of the part of the desktop that is on the screen, empty or    *)
(* not, never ends the viewer while it runs, in a buffer without a byte to   *)
(* spare either; but for the empty ones before the first pixel.              *)
VisibleRectIsDrawn ==
  serverBytes <= PixelBytes /\ OnScreen /\ HasLastPixel /\ cleared = {} => place # "exited"

(* When the rows of a rectangle on the screen are done, exactly the bytes of *)
(* the pixels of the rectangle have been written, whatever the padding of    *)
(* the rows.  On a desktop that is larger than the screen the ends of rows   *)
(* may be written to the next ones.                                          *)
PixelBytesOf(r) ==
  {byte \in 0 .. framebuffer.size - 1 :
     /\ byte \div framebuffer.pitch \in r.y .. r.y + r.height - 1
     /\ (byte % framebuffer.pitch) \div PixelBytes \in r.x .. r.x + r.width - 1}

DrawnWhereItBelongs ==
  OnScreen /\ place = "done" /\ cleared = {} => drawn = PixelBytesOf(rect)

(* The loop over the rows ends: the 16 bit row counter does not wrap before  *)
(* it reaches the end of a rectangle that passed the check, and when it does *)
(* because the pitch was cleared before the check, the process ends.  A      *)
(* buffer that is gone is not waited for.                                    *)
RowsEnd == (place = "rows") ~> (place \in {"done", "lost", "gone"})
=============================================================================
