----------------------------- MODULE RawRectProofs ----------------------------
(***************************************************************************)
(* The check of a raw rectangle, for every rectangle, framebuffer, pixel   *)
(* format and width of the words the assumptions of RawRect allow, and     *)
(* whatever vnc_drm_deinit clears in the meantime.                         *)
(***************************************************************************)
EXTENDS RawRect, TLAPS

-----------------------------------------------------------------------------
(* Arithmetic: products are monotonic, and multiples of the same number are  *)
(* at least that number apart.                                               *)
LEMMA ProductMonotonic ==
  ASSUME NEW a \in Nat, NEW b \in Nat, NEW c \in Nat, a <= b
  PROVE  a * c <= b * c /\ c * a <= c * b
<1>1. PICK d \in Nat : b = a + d
  <2>1. b - a \in Nat /\ b = a + (b - a)
    OBVIOUS
  <2> QED
    BY <2>1
<1>2. b * c = a * c + d * c
  BY <1>1
<1>3. d * c \in Nat /\ a * c \in Nat
  OBVIOUS
<1> QED
  BY <1>2, <1>3

LEMMA MultiplesApart ==
  ASSUME NEW a \in Nat, NEW b \in Nat, NEW p \in Nat \ {0}, a * p < b * p
  PROVE  a * p + p <= b * p
<1>1. ~(b <= a)
  BY ProductMonotonic
<1>2. a + 1 <= b
  BY <1>1
<1>3. (a + 1) * p <= b * p
  BY <1>2, ProductMonotonic
<1>4. (a + 1) * p = a * p + p
  OBVIOUS
<1> QED
  BY <1>3, <1>4

LEMMA SumBelow ==
  ASSUME NEW a \in Nat, NEW b \in Nat, NEW c \in Nat, NEW d \in Nat, NEW u \in Nat,
         NEW p \in Nat \ {0}, a <= c, b + p <= d, c + d <= u
  PROVE  a + b \in Nat /\ a + b < u
OBVIOUS

LEMMA SmallRemainder ==
  ASSUME NEW a \in Nat, NEW m \in Nat, a < m
  PROVE  a % m = a
OBVIOUS

-----------------------------------------------------------------------------
(* The geometry, with the rows counted from the top.                         *)
LEMMA RectFields ==
  ASSUME NEW r \in Rects
  PROVE  /\ r.x \in Nat /\ r.y \in Nat /\ r.width \in Nat /\ r.height \in Nat
         /\ r.x < U16 /\ r.y < U16
         /\ r.x + r.width < 2 * U16 /\ r.y + r.height < 2 * U16
<1>1. U16 \in Nat \ {0}
  BY SizesAssumption
<1>2. /\ r.x \in 0 .. U16 - 1 /\ r.y \in 0 .. U16 - 1
      /\ r.width \in 0 .. U16 - 1 /\ r.height \in 0 .. U16 - 1
  BY DEF Rects
<1> QED
  BY <1>1, <1>2

LEMMA FramebufferFields ==
  ASSUME NEW fb \in Framebuffers
  PROVE  /\ fb.width \in Nat \ {0} /\ fb.height \in Nat \ {0}
         /\ fb.pitch \in Nat \ {0} /\ fb.size \in Nat
         /\ fb.width * PixelBytes <= fb.pitch
         /\ fb.pitch * fb.height <= fb.size
         /\ \E n \in Nat : fb.pitch = n * PixelBytes
         /\ \E n \in Nat : fb.size = n * PixelBytes
         /\ (fb.pitch + PixelBytes) * (2 * U16) <= U32
         /\ fb.size + PixelBytes <= fb.pitch * (U16 - 1)
<1>1. fb \in [width : Nat \ {0}, height : Nat \ {0}, pitch : Nat \ {0}, size : Nat]
  BY FramebuffersAssumption
<1>2. \E n \in 0 .. fb.pitch : fb.pitch = n * PixelBytes
  BY FramebuffersAssumption
<1>3. \E n \in 0 .. fb.size : fb.size = n * PixelBytes
  BY FramebuffersAssumption
<1>4. \A m : m \in Nat => 0 .. m \subseteq Nat
  OBVIOUS
<1>5. /\ fb.width * PixelBytes <= fb.pitch
      /\ fb.pitch * fb.height <= fb.size
      /\ (fb.pitch + PixelBytes) * (2 * U16) <= U32
      /\ fb.size + PixelBytes <= fb.pitch * (U16 - 1)
  BY FramebuffersAssumption
<1>6. fb.pitch \in Nat /\ fb.size \in Nat
  BY <1>1
<1>7. \E n \in Nat : fb.pitch = n * PixelBytes
  BY <1>2, <1>4, <1>6
<1>8. \E n \in Nat : fb.size = n * PixelBytes
  BY <1>3, <1>4, <1>6
<1> QED
  BY <1>1, <1>5, <1>7, <1>8

(* A row has place for a pixel, and there is a second row.                   *)
LEMMA RoomForAPixel ==
  ASSUME NEW fb \in Framebuffers
  PROVE  PixelBytes <= fb.pitch /\ 2 <= U16
<1>1. /\ fb.width \in Nat /\ 1 <= fb.width /\ fb.pitch \in Nat \ {0} /\ fb.size \in Nat
      /\ fb.width * PixelBytes <= fb.pitch /\ PixelBytes \in Nat \ {0}
      /\ fb.size + PixelBytes <= fb.pitch * (U16 - 1) /\ U16 \in Nat \ {0}
  BY FramebufferFields, SizesAssumption
<1>2. 1 * PixelBytes <= fb.width * PixelBytes /\ fb.width * PixelBytes \in Nat
  BY <1>1, ProductMonotonic
<1>3. U16 # 1
  <2> SUFFICES ASSUME U16 = 1 PROVE FALSE
    OBVIOUS
  <2>1. fb.pitch * (U16 - 1) = 0
    BY <1>1
  <2> QED
    BY <1>1, <2>1
<1> QED
  BY <1>1, <1>2, <1>3

(* A pitch that is read is the one that was set up or 0; both are multiples  *)
(* of the bytes of a pixel.                                                  *)
LEMMA PitchRead ==
  ASSUME framebuffer \in Framebuffers, NEW p \in {0, framebuffer.pitch}
  PROVE  p \in Nat /\ p <= framebuffer.pitch /\ \E n \in Nat : p = n * PixelBytes
<1>1. framebuffer.pitch \in Nat /\ \E n \in Nat : framebuffer.pitch = n * PixelBytes
  BY FramebufferFields
<1>2. 0 = 0 * PixelBytes
  BY SizesAssumption
<1> QED
  BY <1>1, <1>2

(* No offset of a pixel that 16 bits can name wraps, with the bytes per      *)
(* pixel of the framebuffer or fewer.                                        *)
LEMMA OffsetFits ==
  ASSUME framebuffer \in Framebuffers, NEW p \in {0, framebuffer.pitch},
         NEW row \in Nat, NEW column \in Nat, row < 2 * U16, column < 2 * U16,
         NEW bytes \in Nat, bytes <= PixelBytes
  PROVE  /\ row * p + column * bytes \in Nat
         /\ row * p + column * bytes < U32
<1> DEFINE m == 2 * U16
           f == framebuffer.pitch
<1>1. /\ f \in Nat /\ p \in Nat /\ p <= f
      /\ PixelBytes \in Nat \ {0} /\ m \in Nat /\ U32 \in Nat
      /\ (f + PixelBytes) * m <= U32
  BY FramebufferFields, PitchRead, SizesAssumption
<1>2. row \in Nat /\ row <= m /\ column \in Nat /\ column + 1 <= m
  BY SizesAssumption
<1> HIDE DEF m, f
<1>3. row * p <= m * f
  <2>1. row * p <= m * p /\ m * p <= m * f
    BY <1>1, <1>2, ProductMonotonic
  <2>2. row * p \in Nat /\ m * p \in Nat /\ m * f \in Nat
    BY <1>1
  <2> QED
    BY <2>1, <2>2
<1>4. column * bytes + PixelBytes <= m * PixelBytes
  <2>1. (column + 1) * PixelBytes <= m * PixelBytes
    BY <1>1, <1>2, ProductMonotonic
  <2>2. (column + 1) * PixelBytes = column * PixelBytes + PixelBytes
    BY <1>1
  <2>3. column * bytes <= column * PixelBytes
    BY <1>1, ProductMonotonic
  <2>4. column * bytes \in Nat /\ column * PixelBytes \in Nat /\ m * PixelBytes \in Nat
    BY <1>1
  <2> QED
    BY <1>1, <2>1, <2>2, <2>3, <2>4
<1>5. m * f + m * PixelBytes <= U32
  <2>1. (f + PixelBytes) * m = m * f + m * PixelBytes
    BY <1>1
  <2> QED
    BY <1>1, <2>1
<1>6. row * p \in Nat /\ column * bytes \in Nat /\ m * f \in Nat /\ m * PixelBytes \in Nat
  BY <1>1
<1> QED
  BY <1>1, <1>3, <1>4, <1>5, <1>6, SumBelow

NotEmpty == rect.width > 0 /\ rect.height > 0

(* The row behind the last one.                                              *)
End == rect.y + rect.height

(* The last pixel, as the server counts it, is in the buffer, for rows that  *)
(* are p bytes apart.                                                        *)
FitsWith(p) ==
  (rect.y + rect.height - 1) * p + (rect.x + rect.width - 1) * serverBytes < framebuffer.size

(* The check computes the offset of the last pixel without wrapping, unless  *)
(* that is before the first one.                                             *)
LEMMA LastPixelOffset ==
  ASSUME framebuffer \in Framebuffers, rect \in Rects, serverBytes \in Nat,
         serverBytes <= PixelBytes, HasLastPixel,
         rect.x + rect.width > 0 \/ Pitch # 0
  PROVE  /\ BottomRightPixelIndex =
              (rect.y + rect.height - 1) * Pitch + (rect.x + rect.width - 1) * serverBytes
         /\ BottomRightPixelIndex \in Nat
         /\ (rect.y + rect.height - 1) * Pitch <= BottomRightPixelIndex + PixelBytes
<1> DEFINE row == rect.y + rect.height - 1
           column == rect.x + rect.width - 1
           s == serverBytes
           index == row * Pitch + column * s
<1>1. /\ row \in Nat /\ row < 2 * U16 /\ column + 1 \in Nat /\ column < 2 * U16
      /\ rect.x + rect.width = column + 1 /\ PixelBytes \in Nat \ {0} /\ U32 \in Nat \ {0}
      /\ s \in Nat /\ s <= PixelBytes /\ column \in Int /\ 2 * U16 \in Nat
  BY RectFields, SizesAssumption DEF HasLastPixel
<1>2. column + 1 > 0 \/ row >= 1
  BY RectFields DEF HasLastPixel
<1>3. Pitch \in {0, framebuffer.pitch} /\ Pitch \in Nat
  BY FramebufferFields DEF Pitch
<1>4. BottomRightPixelIndex = index % U32
  BY DEF BottomRightPixelIndex, row, column, s
<1> HIDE DEF row, column, s
<1>5. index \in Nat /\ index < U32 /\ row * Pitch <= index + PixelBytes
  <2>1. CASE column + 1 > 0
    <3>1. column \in Nat
      BY <1>1, <2>1
    <3>2. row * Pitch + column * s \in Nat /\ row * Pitch + column * s < U32
      BY <1>1, <1>3, <3>1, OffsetFits
    <3>3. column * s \in Nat /\ row * Pitch \in Nat
      BY <1>1, <1>3, <3>1
    <3> QED
      BY <1>1, <3>2, <3>3
  <2>2. CASE ~(column + 1 > 0)
    <3>1. column = -1 /\ row >= 1 /\ Pitch = framebuffer.pitch
      BY <1>1, <1>2, <1>3, <2>2
    <3>2. s <= Pitch
      <4>1. PixelBytes <= framebuffer.pitch
        BY RoomForAPixel
      <4> QED
        BY <1>1, <1>3, <3>1, <4>1
    <3>3. 1 * Pitch <= row * Pitch /\ row * Pitch \in Nat
      BY <1>1, <1>3, <3>1, ProductMonotonic
    <3>4. column * s = -s
      BY <1>1, <3>1
    <3>5. row * Pitch + 0 * 0 \in Nat /\ row * Pitch + 0 * 0 < U32
      <4>1. 0 < 2 * U16 /\ 0 <= PixelBytes
        BY <1>1
      <4> QED
        BY <1>1, <1>3, <4>1, OffsetFits
    <3>6. row * Pitch < U32
      BY <3>3, <3>5
    <3>7. index = row * Pitch - s
      BY <1>1, <3>3, <3>4
    <3>8. 1 * Pitch = Pitch
      BY <1>3
    <3> HIDE DEF index
    <3> QED
      BY <1>1, <1>3, <3>2, <3>3, <3>6, <3>7, <3>8
  <2> QED
    BY <2>1, <2>2
<1>6. index % U32 = index
  BY <1>1, <1>5, SmallRemainder
<1> QED
  BY <1>4, <1>5, <1>6 DEF row, column, s

(* What the check has accepted fits, with the pitch it was made with, and    *)
(* ends where the row counter still counts.                                  *)
LEMMA CheckedFits ==
  ASSUME framebuffer \in Framebuffers, rect \in Rects, serverBytes \in Nat, Fits
  PROVE  /\ serverBytes <= PixelBytes
         /\ NotEmpty => FitsWith(Pitch)
         /\ Pitch # 0 => End <= U16 - 1
<1>1. serverBytes <= PixelBytes /\ BottomRightPixelIndex < Size
  BY SizesAssumption DEF Fits, Bytes
<1>2. Size \in {0, framebuffer.size}
  BY DEF Size
<1>3. ASSUME BottomRightPixelIndex \in Nat
      PROVE  Size = framebuffer.size /\ BottomRightPixelIndex < framebuffer.size
  BY <1>1, <1>2, <1>3
<1>4. ASSUME NotEmpty
      PROVE  FitsWith(Pitch)
  <2>1. HasLastPixel /\ rect.x + rect.width > 0
    BY <1>4, RectFields DEF NotEmpty, HasLastPixel
  <2> QED
    BY <1>1, <1>3, <2>1, LastPixelOffset DEF FitsWith
<1>5. ASSUME Pitch # 0
      PROVE  End <= U16 - 1
  <2>1. /\ End \in Nat /\ rect.x + rect.width \in Nat /\ U16 \in Nat /\ 2 <= U16
    BY RectFields, RoomForAPixel, SizesAssumption DEF End
  <2>2. CASE End <= 1
    BY <2>1, <2>2
  <2>3. CASE End > 1
    <3> DEFINE last == rect.y + rect.height - 1
               p == framebuffer.pitch
    <3>1. last \in Nat /\ End = last + 1 /\ HasLastPixel
      BY <2>1, <2>3, RectFields DEF End, HasLastPixel
    <3>2. Pitch = p
      BY <1>5 DEF Pitch
    <3>3. /\ p \in Nat \ {0} /\ framebuffer.size \in Nat /\ PixelBytes \in Nat
          /\ framebuffer.size + PixelBytes <= p * (U16 - 1)
      BY FramebufferFields, SizesAssumption
    <3>4. BottomRightPixelIndex \in Nat /\ last * p <= BottomRightPixelIndex + PixelBytes
      BY <1>1, <1>5, <3>1, <3>2, LastPixelOffset
    <3>5. BottomRightPixelIndex < framebuffer.size
      BY <1>3, <3>4
    <3> HIDE DEF last, p
    <3>6. last * p < p * (U16 - 1) /\ U16 - 1 \in Nat
      <4>1. last * p \in Nat /\ p * (U16 - 1) \in Nat
        BY <2>1, <3>1, <3>3
      <4> QED
        BY <2>1, <3>3, <3>4, <3>5, <4>1
    <3>7. ~(U16 - 1 <= last)
      <4>1. U16 - 1 <= last => p * (U16 - 1) <= p * last
        BY <3>1, <3>3, <3>6, ProductMonotonic
      <4>2. p * last = last * p /\ last * p \in Nat /\ p * (U16 - 1) \in Nat
        BY <3>1, <3>3, <3>6
      <4> QED
        BY <3>6, <4>1, <4>2
    <3> QED
      BY <2>1, <3>1, <3>7
  <2> QED
    BY <2>1, <2>2, <2>3
<1> QED
  BY <1>1, <1>4, <1>5

(* Rows that all begin at the same place need less.                          *)
LEMMA FitsWithoutPitch ==
  ASSUME framebuffer \in Framebuffers, rect \in Rects, serverBytes \in Nat, NotEmpty,
         FitsWith(framebuffer.pitch)
  PROVE  FitsWith(0)
<1> DEFINE row == rect.y + rect.height - 1
           column == rect.x + rect.width - 1
           s == serverBytes
<1>1. /\ row \in Nat /\ column \in Nat /\ framebuffer.pitch \in Nat
      /\ framebuffer.size \in Nat /\ s \in Nat
  BY RectFields, FramebufferFields DEF NotEmpty
<1>2. row * framebuffer.pitch + column * s < framebuffer.size
  BY DEF FitsWith
<1> HIDE DEF row, column, s
<1>3. row * framebuffer.pitch \in Nat /\ column * s \in Nat /\ row * 0 = 0
  BY <1>1
<1>4. row * 0 + column * s < framebuffer.size
  BY <1>1, <1>2, <1>3
<1> QED
  BY <1>4 DEF FitsWith, row, column, s

(* The bytes of a row of a rectangle that fits are in the buffer, or the     *)
(* check has missed them.                                                    *)
LEMMA RowFits ==
  ASSUME framebuffer \in Framebuffers, rect \in Rects, NotEmpty,
         serverBytes \in Nat, serverBytes <= PixelBytes,
         args.pitch \in {0, framebuffer.pitch}, args.bytes \in {0, PixelBytes},
         FitsWith(args.pitch),
         NEW row \in rect.y .. rect.y + rect.height - 1,
         NEW byte \in RowBytes(row)
  PROVE  byte < framebuffer.size + MissedByCheck
<1> DEFINE last == rect.y + rect.height - 1
           right == rect.x + rect.width - 1
           p == args.pitch
           s == serverBytes
<1>1. /\ row \in Nat /\ row <= last /\ last \in Nat /\ last < 2 * U16
      /\ rect.x \in Nat /\ rect.x < 2 * U16 /\ right \in Nat /\ row < 2 * U16
      /\ rect.width \in Nat \ {0} /\ right = rect.x + rect.width - 1
      /\ s \in Nat /\ s <= PixelBytes
  BY RectFields, SizesAssumption DEF NotEmpty
<1>2. /\ p \in Nat /\ p \in {0, framebuffer.pitch} /\ framebuffer.size \in Nat
      /\ PixelBytes \in Nat \ {0}
  BY FramebufferFields, PitchRead, SizesAssumption
<1>3. last * p + right * s < framebuffer.size
  BY DEF FitsWith
<1>4. args.bytes = PixelBytes
  <2> SUFFICES ASSUME args.bytes = 0 PROVE FALSE
    OBVIOUS
  <2>1. rect.x * args.bytes = 0 /\ rect.width * args.bytes = 0
    BY <1>1
  <2>2. args.pitch * row + rect.x * args.bytes \in Nat
    BY <1>1, <1>2, <2>1
  <2>3. RowStart(row) \in Nat
    <3>1. \A a \in Nat : \A m \in Nat \ {0} : a % m \in Nat
      OBVIOUS
    <3> QED
      BY <2>2, <3>1, SizesAssumption DEF RowStart
  <2> QED
    BY <2>1, <2>3 DEF RowBytes
<1>5. MissedByCheck = IF s = PixelBytes THEN 0 ELSE right * (PixelBytes - s) + PixelBytes - 1
  BY DEF MissedByCheck, SamePixels
<1> HIDE DEF last, right, p, s
<1>6. RowStart(row) = row * p + rect.x * PixelBytes
  <2>1. row * p + rect.x * PixelBytes \in Nat /\ row * p + rect.x * PixelBytes < U32
    BY <1>1, <1>2, OffsetFits
  <2>2. (row * p + rect.x * PixelBytes) % U32 = row * p + rect.x * PixelBytes
    BY <2>1, SmallRemainder, SizesAssumption
  <2>3. p * row = row * p
    BY <1>1, <1>2
  <2> QED
    BY <1>4, <2>2, <2>3 DEF RowStart, p
<1>7. byte <= row * p + rect.x * PixelBytes + rect.width * PixelBytes - 1 /\ byte \in Int
  BY <1>1, <1>2, <1>4, <1>6 DEF RowBytes
<1>8. row * p <= last * p /\ row * p \in Nat /\ last * p \in Nat
  BY <1>1, <1>2, ProductMonotonic
<1>9. rect.x * PixelBytes + rect.width * PixelBytes = right * PixelBytes + PixelBytes
      /\ rect.x * PixelBytes \in Nat /\ rect.width * PixelBytes \in Nat
      /\ right * PixelBytes \in Nat
  <2>1. rect.x + rect.width = right + 1
    BY <1>1
  <2>2. (rect.x + rect.width) * PixelBytes = (right + 1) * PixelBytes
    BY <2>1
  <2> QED
    BY <1>1, <1>2, <2>2
<1>10. byte <= last * p + right * PixelBytes + PixelBytes - 1
  BY <1>2, <1>7, <1>8, <1>9
<1>11. CASE s = PixelBytes
  <2>1. (last * p + right * PixelBytes) + PixelBytes <= framebuffer.size
    <3>1. PICK n \in Nat : p = n * PixelBytes
      BY <1>2, PitchRead
    <3>2. PICK m \in Nat : framebuffer.size = m * PixelBytes
      BY FramebufferFields
    <3>3. last * n + right \in Nat
      BY <1>1
    <3>4. last * p + right * PixelBytes = (last * n + right) * PixelBytes
      <4>1. last * (n * PixelBytes) = (last * n) * PixelBytes
        BY <1>1, <1>2
      <4> QED
        BY <1>1, <1>2, <3>1, <4>1
    <3> QED
      BY <1>2, <1>3, <1>11, <3>2, <3>3, <3>4, MultiplesApart
  <2> QED
    BY <1>2, <1>5, <1>7, <1>8, <1>9, <1>10, <1>11, <2>1
<1>12. CASE s # PixelBytes
  <2>1. /\ right * (PixelBytes - s) = right * PixelBytes - right * s
        /\ right * s \in Nat
    BY <1>1, <1>2
  <2>2. MissedByCheck = right * PixelBytes - right * s + PixelBytes - 1
    BY <1>5, <1>12, <2>1
  <2> QED
    BY <1>2, <1>3, <1>7, <1>8, <1>9, <1>10, <2>1, <2>2
<1> QED
  BY <1>11, <1>12

(* The last pixel of a rectangle on the screen is in the buffer.             *)
LEMMA VisibleFits ==
  ASSUME framebuffer \in Framebuffers, rect \in Rects, serverBytes \in Nat,
         serverBytes <= PixelBytes, HasLastPixel, OnScreen, cleared = {}
  PROVE  Fits
<1> DEFINE last == rect.y + rect.height - 1
           right == rect.x + rect.width - 1
           p == framebuffer.pitch
           rows == framebuffer.height
           columns == framebuffer.width
           s == serverBytes
<1>1. /\ last \in Nat /\ last + 1 <= rows /\ right + 1 \in Nat /\ right \in Int
      /\ right + 1 <= columns
      /\ p \in Nat \ {0} /\ framebuffer.size \in Nat /\ rows \in Nat /\ columns \in Nat
      /\ PixelBytes \in Nat \ {0} /\ s \in Nat /\ s <= PixelBytes
  BY RectFields, FramebufferFields, SizesAssumption DEF HasLastPixel, OnScreen
<1>2. columns * PixelBytes <= p /\ p * rows <= framebuffer.size
  BY FramebufferFields
<1>3. Pitch = p /\ Size = framebuffer.size /\ Bytes = PixelBytes
  BY DEF Pitch, Size, Bytes
<1>4. BottomRightPixelIndex = last * p + right * s
  BY <1>1, <1>3, LastPixelOffset
<1> HIDE DEF last, right, p, rows, columns, s
<1>5. (right + 1) * PixelBytes <= columns * PixelBytes
  BY <1>1, ProductMonotonic
<1>6. (last + 1) * p <= rows * p /\ rows * p = p * rows
  <2>1. last + 1 \in Nat
    BY <1>1
  <2> QED
    BY <1>1, <2>1, ProductMonotonic
<1>7. /\ (last + 1) * p = last * p + p /\ last * p \in Nat
      /\ columns * PixelBytes \in Nat /\ rows * p \in Nat
  BY <1>1
<1>8. right * s < p
  <2>1. (right + 1) * s <= (right + 1) * PixelBytes
    BY <1>1, ProductMonotonic
  <2>2. (right + 1) * s = right * s + s /\ (right + 1) * PixelBytes \in Nat
        /\ right * s \in Int
    BY <1>1
  <2>3. CASE s = 0
    <3>1. right * s = 0
      BY <1>1, <2>3
    <3> QED
      BY <1>1, <3>1
  <2>4. CASE s # 0
    BY <1>1, <1>2, <1>5, <1>7, <2>1, <2>2, <2>4
  <2> QED
    BY <2>3, <2>4
<1>9. last * p + right * s < framebuffer.size
  <2>1. right * s \in Int
    BY <1>1
  <2> QED
    BY <1>1, <1>2, <1>6, <1>7, <1>8, <2>1
<1>10. Bytes >= serverBytes
  BY <1>1, <1>3 DEF s
<1> QED
  BY <1>3, <1>4, <1>9, <1>10 DEF Fits

-----------------------------------------------------------------------------
(* What holds all along: the rows are read with a pitch the rectangle fits   *)
(* with, cleared or not, and what is drawn belongs to rows of the rectangle. *)
(* With a pitch of 0 the row counter may wrap, but all rows are the same.    *)
RowsDrawn ==
  /\ place = "arguments" =>
       /\ serverBytes <= PixelBytes
       /\ NotEmpty => FitsWith(Pitch)
       /\ Pitch # 0 => End <= U16 - 1
  /\ place = "rows" \/ drawn # {} =>
       /\ serverBytes <= PixelBytes
       /\ NotEmpty => FitsWith(args.pitch)
  /\ place = "rows" =>
       /\ args.pitch # 0 => End <= U16 - 1 /\ y \in rect.y .. End
       /\ rect.height = 0 => y = rect.y
  /\ place \in {"check", "arguments"} => drawn = {}
  /\ \A byte \in drawn : \E row \in rect.y .. rect.y + rect.height - 1 : byte \in RowBytes(row)
  /\ place = "exited" /\ cleared = {} => ~Fits

IInv == TypeOK /\ RowsDrawn

LEMMA RowBytesNat ==
  ASSUME framebuffer \in Framebuffers, rect \in Rects, NEW row \in Nat,
         args.pitch \in {0, framebuffer.pitch}, args.bytes \in {0, PixelBytes}
  PROVE  RowBytes(row) \subseteq Nat
<1>1. /\ args.pitch \in Nat /\ args.bytes \in Nat /\ rect.x \in Nat /\ rect.width \in Nat
  BY PitchRead, RectFields, SizesAssumption
<1>2. args.pitch * row + rect.x * args.bytes \in Nat /\ rect.width * args.bytes \in Nat
  BY <1>1
<1>3. RowStart(row) \in Nat
  <2>1. \A a \in Nat : \A m \in Nat \ {0} : a % m \in Nat
    OBVIOUS
  <2> QED
    BY <1>2, <2>1, SizesAssumption DEF RowStart
<1> QED
  BY <1>2, <1>3 DEF RowBytes

(* The part of the invariant that is about what is drawn needs the rectangle *)
(* and the arguments of the reads only.                                      *)
LEMMA SameRows ==
  ASSUME UNCHANGED <<inputVars, args>>
  PROVE  /\ NotEmpty' = NotEmpty /\ End' = End /\ serverBytes' = serverBytes
         /\ rect' = rect
         /\ FitsWith(args.pitch)' = FitsWith(args.pitch)
         /\ \A row : RowBytes(row)' = RowBytes(row)
BY DEF inputVars, NotEmpty, End, FitsWith, RowBytes, RowStart

(* A field that is cleared takes nothing from what was checked.              *)
LEMMA FieldCleared ==
  ASSUME framebuffer \in Framebuffers, rect \in Rects, serverBytes \in Nat, NotEmpty,
         FitsWith(Pitch), UNCHANGED inputVars, cleared \subseteq cleared'
  PROVE  FitsWith(Pitch)'
<1>1. CASE "pitch" \in cleared \/ "pitch" \notin cleared'
  <2>1. Pitch' = Pitch
    BY <1>1 DEF Pitch, inputVars
  <2> QED
    BY <2>1 DEF FitsWith, inputVars
<1>2. CASE "pitch" \notin cleared /\ "pitch" \in cleared'
  <2>1. Pitch = framebuffer.pitch /\ Pitch' = 0
    BY <1>2 DEF Pitch
  <2>2. FitsWith(0)
    BY <2>1, FitsWithoutPitch
  <2> QED
    BY <2>1, <2>2 DEF FitsWith, inputVars
<1> QED
  BY <1>1, <1>2

LEMMA InitIInv == Init => IInv
<1> SUFFICES ASSUME Init PROVE IInv
  OBVIOUS
<1>1. 0 \in 0 .. U16 - 1
  BY SizesAssumption
<1> QED
  BY <1>1 DEF Init, IInv, TypeOK, RowsDrawn, NoArgs

LEMMA NextIInv == IInv /\ [Next]_vars => IInv'
<1> SUFFICES ASSUME IInv, [Next]_vars PROVE IInv'
  OBVIOUS
<1> USE DEF IInv
<1>1. /\ rect.x \in Nat /\ rect.y \in Nat /\ rect.width \in Nat /\ rect.height \in Nat
      /\ rect.y < U16 /\ U16 \in Nat \ {0} /\ End = rect.y + rect.height
      /\ serverBytes \in Nat /\ y \in Nat
  BY RectFields, SizesAssumption DEF TypeOK, End
<1>2. CASE CheckRect
  <2>1. TypeOK'
    BY <1>2 DEF TypeOK, CheckRect, inputVars
  <2>2. /\ UNCHANGED <<inputVars, args, cleared, drawn>> /\ place = "check"
        /\ place' = IF Fits THEN "arguments" ELSE "exited"
    BY <1>2 DEF CheckRect
  <2>3. Fits' = Fits /\ FitsWith(Pitch)' = FitsWith(Pitch) /\ Pitch' = Pitch
    BY <2>2 DEF inputVars, Fits, BottomRightPixelIndex, FitsWith, Pitch, Bytes, Size
  <2>4. Fits => /\ serverBytes <= PixelBytes
                /\ NotEmpty => FitsWith(Pitch)
                /\ Pitch # 0 => End <= U16 - 1
    BY <1>1, CheckedFits DEF TypeOK
  <2>5. drawn = {} /\ drawn' = {}
    BY <2>2 DEF RowsDrawn
  <2>6. place' = "arguments" => Fits
    BY <2>2
  <2>7. place' = "exited" => ~Fits
    BY <2>2
  <2>8. place' # "rows"
    BY <2>2
  <2> QED
    BY <2>1, <2>2, <2>3, <2>4, <2>5, <2>6, <2>7, <2>8, SameRows DEF RowsDrawn
<1>3. CASE CallRecvRect
  <2>1. /\ UNCHANGED <<inputVars, cleared, drawn>> /\ place = "arguments" /\ place' = "rows"
        /\ y' = rect.y /\ args'.pitch = Pitch /\ drawn = {}
        /\ args' = [pitch |-> Pitch, bytes |-> Bytes, mapped |-> "buffer" \notin cleared]
    BY <1>3 DEF CallRecvRect, RowsDrawn
  <2>2. rect' = rect /\ serverBytes' = serverBytes /\ End' = End /\ NotEmpty' = NotEmpty
    BY <2>1 DEF inputVars, End, NotEmpty
  <2>3. y' \in rect'.y .. End' /\ y' \in 0 .. U16 - 1
        /\ y' \in rect'.y .. rect'.y + rect'.height
    BY <1>1, <2>1, <2>2
  <2>4. TypeOK'
    <3>1. args' \in [pitch : {0, framebuffer.pitch}, bytes : {0, PixelBytes}, mapped : BOOLEAN]
      BY <2>1 DEF Pitch, Bytes
    <3> QED
      BY <2>1, <2>3, <3>1 DEF TypeOK, inputVars
  <2>5. FitsWith(args.pitch)' = FitsWith(Pitch)
    BY <2>1 DEF FitsWith, inputVars
  <2> QED
    BY <2>1, <2>2, <2>3, <2>4, <2>5 DEF RowsDrawn
<1>4. CASE ReceiveRow
  <2>1. /\ UNCHANGED <<inputVars, cleared, place, args>> /\ place = "rows"
        /\ drawn' = drawn \cup RowBytes(y) /\ y' = (y + 1) % U16
        /\ y < rect.y + rect.height
    BY <1>4 DEF ReceiveRow
  <2>2. rect.height # 0
    BY <1>1, <2>1 DEF RowsDrawn
  <2>3. args.pitch # 0 => /\ y \in rect.y .. rect.y + rect.height - 1
                          /\ y' = y + 1 /\ y' \in rect.y .. End /\ End <= U16 - 1
    <3> SUFFICES ASSUME args.pitch # 0
                 PROVE  /\ y \in rect.y .. rect.y + rect.height - 1
                        /\ y' = y + 1 /\ y' \in rect.y .. End /\ End <= U16 - 1
      OBVIOUS
    <3>1. y \in rect.y .. End /\ End <= U16 - 1
      BY <2>1 DEF RowsDrawn
    <3>2. y + 1 \in Nat /\ y + 1 < U16
      BY <1>1, <2>1, <3>1
    <3>3. (y + 1) % U16 = y + 1
      BY <1>1, <3>2, SmallRemainder
    <3> QED
      BY <1>1, <2>1, <3>1, <3>3
  <2>4. y' \in 0 .. U16 - 1
    <3>1. \A a \in Nat : \A m \in Nat \ {0} : a % m \in 0 .. m - 1
      OBVIOUS
    <3>2. y + 1 \in Nat
      BY <1>1
    <3> QED
      BY <1>1, <2>1, <3>1, <3>2
  <2>5. RowBytes(y) \subseteq Nat
    <3>1. args.pitch \in {0, framebuffer.pitch} /\ args.bytes \in {0, PixelBytes}
      BY DEF TypeOK
    <3> QED
      BY <1>1, <3>1, RowBytesNat DEF TypeOK
  <2>6. TypeOK'
    <3>1. args'.pitch # 0 => y' \in {0} \cup (rect'.y .. rect'.y + rect'.height)
      BY <1>1, <2>1, <2>3 DEF inputVars
    <3> QED
      BY <2>1, <2>4, <2>5, <3>1 DEF TypeOK, inputVars
  <2>7. \E row \in rect.y .. rect.y + rect.height - 1 : RowBytes(y) = RowBytes(row)
    <3>1. CASE args.pitch # 0
      BY <2>3, <3>1
    <3>2. CASE args.pitch = 0
      <4>1. rect.y \in rect.y .. rect.y + rect.height - 1
        BY <1>1, <2>2
      <4>2. args.pitch * y = 0 /\ args.pitch * rect.y = 0
        BY <1>1, <3>2
      <4>3. RowStart(y) = RowStart(rect.y)
        BY <4>2 DEF RowStart
      <4> QED
        BY <4>1, <4>3 DEF RowBytes
    <3> QED
      BY <3>1, <3>2
  <2>8. ASSUME NEW byte \in drawn'
        PROVE  \E row \in rect.y .. rect.y + rect.height - 1 : byte \in RowBytes(row)
    <3>1. byte \in drawn \/ byte \in RowBytes(y)
      BY <2>1, <2>8
    <3> QED
      BY <2>7, <3>1 DEF RowsDrawn
  <2>9. rect' = rect
    BY <2>1 DEF inputVars
  <2>10. \A byte \in drawn' :
           \E row \in rect'.y .. rect'.y + rect'.height - 1 : byte \in RowBytes(row)'
    BY <2>1, <2>8, <2>9, SameRows
  <2> QED
    BY <2>1, <2>2, <2>3, <2>6, <2>9, <2>10, SameRows DEF RowsDrawn
<1>5. ASSUME RowFails \/ RowsDone \/ Return PROVE IInv'
  <2>1. /\ UNCHANGED <<inputVars, cleared, args, y, drawn>>
        /\ place' \in {"lost", "done", "gone"}
    BY <1>5 DEF RowFails, RowsDone, Return
  <2>2. TypeOK'
    BY <2>1 DEF TypeOK, inputVars
  <2> QED
    BY <2>1, <2>2, SameRows DEF RowsDrawn
<1>6. ASSUME NEW field \in Fields, ClearField(field) PROVE IInv'
  <2>1. /\ UNCHANGED <<inputVars, place, args, y, drawn>>
        /\ cleared' = cleared \cup {field} /\ cleared' # {}
        /\ place \in {"check", "arguments", "rows"}
    BY <1>6 DEF ClearField, Handling
  <2>2. TypeOK'
    BY <1>6, <2>1 DEF TypeOK, inputVars
  <2>3. FitsWith(Pitch) /\ NotEmpty => FitsWith(Pitch)'
    BY <1>1, <2>1, FieldCleared DEF TypeOK
  <2>4. Pitch' # 0 => Pitch' = Pitch
    BY <2>1 DEF Pitch, inputVars
  <2> QED
    BY <2>1, <2>2, <2>3, <2>4, SameRows DEF RowsDrawn
<1>7. CASE UNCHANGED vars
  <2>1. UNCHANGED <<inputVars, cleared, place, args, y, drawn>>
    BY <1>7 DEF vars, inputVars
  <2>2. TypeOK'
    BY <2>1 DEF TypeOK, inputVars
  <2>3. Fits' = Fits /\ FitsWith(Pitch)' = FitsWith(Pitch) /\ Pitch' = Pitch
    BY <2>1 DEF inputVars, Fits, BottomRightPixelIndex, FitsWith, Pitch, Bytes, Size
  <2> QED
    BY <2>1, <2>2, <2>3, SameRows DEF RowsDrawn
<1> QED
  BY <1>2, <1>3, <1>4, <1>5, <1>6, <1>7 DEF Next, ThreadGoesOn

(* The invariant, strengthened, holds in every reachable state.              *)
THEOREM IInvHolds == Spec => []IInv
BY InitIInv, NextIInv, PTL DEF Spec

(* The row counter leaves no rectangle that passed the check, and the rest   *)
(* of the types (the loop of vnc_rfb_recv_rect_raw).                         *)
THEOREM TypeCorrect == Spec => []TypeOK
BY IInvHolds, PTL DEF IInv

(* For every rectangle, framebuffer and pixel format of the server: one look *)
(* at the last pixel answers for every byte of every row, but for what it    *)
(* misses by taking the server's bytes per pixel (handle_rect).              *)
THEOREM RowsAreInBuffer == Spec => []RowsStayInBuffer
<1>1. IInv => RowsStayInBuffer
  <2> SUFFICES ASSUME IInv, NEW byte \in drawn
               PROVE  byte < framebuffer.size + MissedByCheck
    BY DEF RowsStayInBuffer
  <2>1. PICK row \in rect.y .. rect.y + rect.height - 1 : byte \in RowBytes(row)
    BY DEF IInv, RowsDrawn
  <2>2. /\ args.pitch \in {0, framebuffer.pitch} /\ args.bytes \in {0, PixelBytes}
        /\ serverBytes \in Nat /\ framebuffer \in Framebuffers /\ rect \in Rects
    BY SizesAssumption DEF IInv, TypeOK
  <2>3. NotEmpty
    <3>1. rect.y \in Nat /\ rect.height \in Nat /\ rect.width \in Nat /\ rect.x \in Nat
      BY <2>2, RectFields
    <3>2. row \in Nat /\ rect.height > 0
      BY <2>1, <3>1
    <3>3. rect.width # 0
      <4> SUFFICES ASSUME rect.width = 0 PROVE FALSE
        OBVIOUS
      <4>1. RowBytes(row) \subseteq Nat
        BY <2>2, <3>2, RowBytesNat
      <4>2. args.bytes \in Nat /\ args.pitch \in Nat
        BY <2>2, PitchRead, SizesAssumption
      <4>3. rect.width * args.bytes = 0
        BY <4>2
      <4>4. RowStart(row) \in Nat
        <5>1. \A a \in Nat : \A m \in Nat \ {0} : a % m \in Nat
          OBVIOUS
        <5>2. args.pitch * row + rect.x * args.bytes \in Nat
          BY <3>1, <3>2, <4>2
        <5> QED
          BY <5>1, <5>2, SizesAssumption DEF RowStart
      <4> QED
        BY <2>1, <4>3, <4>4 DEF RowBytes
    <3> QED
      BY <3>1, <3>2, <3>3 DEF NotEmpty
  <2>4. serverBytes <= PixelBytes /\ FitsWith(args.pitch)
    BY <2>3 DEF IInv, RowsDrawn
  <2> QED
    BY <2>1, <2>2, <2>3, <2>4, RowFits
<1> QED
  BY <1>1, IInvHolds, PTL

(* A rectangle on the screen never ends the viewer, but for empty ones       *)
(* before the first pixel, which handle_rect takes for very large ones.      *)
THEOREM VisibleRectsAreDrawn == Spec => []VisibleRectIsDrawn
<1>1. IInv => VisibleRectIsDrawn
  <2>1. IInv => serverBytes \in Nat
    BY SizesAssumption DEF IInv, TypeOK
  <2> QED
    BY <2>1, VisibleFits DEF IInv, TypeOK, RowsDrawn, VisibleRectIsDrawn
<1> QED
  BY <1>1, IInvHolds, PTL

-----------------------------------------------------------------------------
(* Which bytes are written.  Division, with p bytes to a row:                *)
LEMMA Divided ==
  ASSUME NEW b \in Nat, NEW p \in Nat \ {0}
  PROVE  /\ b \div p \in Nat /\ b % p \in Nat /\ b % p < p
         /\ b = (b \div p) * p + (b % p)
<1>1. b % p \in Nat /\ b % p < p
  OBVIOUS
<1>2. b = p * (b \div p) + (b % p)
  OBVIOUS
<1>3. b \div p \in Int
  OBVIOUS
<1>4. b \div p >= 0
  OBVIOUS
<1>5. p * (b \div p) = (b \div p) * p
  BY <1>3
<1> QED
  BY <1>1, <1>2, <1>3, <1>4, <1>5

LEMMA Division ==
  ASSUME NEW q \in Nat, NEW p \in Nat \ {0}, NEW o \in Nat, o < p, NEW b, b = q * p + o
  PROVE  b \div p = q /\ b % p = o
<1> DEFINE d == b \div p
           m == b % p
<1>1. b \in Nat /\ q * p \in Nat
  OBVIOUS
<1>2. d \in Nat /\ m \in Nat /\ m < p /\ b = d * p + m
  BY <1>1, Divided
<1> HIDE DEF d, m
<1>3. d * p \in Nat
  BY <1>2
<1>4. ~(d * p < q * p) /\ ~(q * p < d * p)
  <2>1. d * p < q * p => d * p + p <= q * p
    BY <1>2, MultiplesApart
  <2>2. q * p < d * p => q * p + p <= d * p
    BY <1>2, MultiplesApart
  <2> QED
    BY <1>1, <1>2, <1>3, <2>1, <2>2
<1>5. d * p = q * p /\ m = o
  BY <1>1, <1>2, <1>3, <1>4
<1>6. d = q
  <2>1. d < q => d * p + p <= q * p
    <3>1. d < q => d + 1 <= q /\ d + 1 \in Nat
      BY <1>2
    <3>2. d < q => (d + 1) * p <= q * p
      BY <3>1, ProductMonotonic
    <3>3. (d + 1) * p = d * p + p
      BY <1>2
    <3> QED
      BY <3>2, <3>3
  <2>2. q < d => q * p + p <= d * p
    <3>1. q < d => q + 1 <= d /\ q + 1 \in Nat
      BY <1>2
    <3>2. q < d => (q + 1) * p <= d * p
      BY <1>2, <3>1, ProductMonotonic
    <3>3. (q + 1) * p = q * p + p
      OBVIOUS
    <3> QED
      BY <3>2, <3>3
  <2> QED
    BY <1>1, <1>2, <1>3, <1>5, <2>1, <2>2
<1> QED
  BY <1>5, <1>6 DEF d, m

\* A byte of a row is of the pixels from x on when it is among their bytes.
LEMMA PixelOfByte ==
  ASSUME NEW o \in Nat, NEW x \in Nat, NEW w \in Nat, NEW bytes \in Nat \ {0}
  PROVE  o \div bytes \in x .. x + w - 1 <=> x * bytes <= o /\ o < (x + w) * bytes
<1> DEFINE c == o \div bytes
           m == o % bytes
           end == x + w
<1>1. c \in Nat /\ m \in Nat /\ m < bytes /\ o = c * bytes + m
  BY Divided
<1>2. end \in Nat /\ (c \in x .. x + w - 1 <=> x <= c /\ c + 1 <= end)
  BY <1>1
<1> HIDE DEF c, m, end
<1>3. c * bytes \in Nat /\ x * bytes \in Nat /\ end * bytes \in Nat
      /\ (c + 1) * bytes = c * bytes + bytes
  BY <1>1, <1>2
<1>4. x <= c => x * bytes <= o
  <2>1. x <= c => x * bytes <= c * bytes
    BY <1>1, ProductMonotonic
  <2> QED
    BY <1>1, <1>3, <2>1
<1>5. ~(x <= c) => o < x * bytes
  <2>1. ~(x <= c) => c + 1 <= x /\ c + 1 \in Nat
    BY <1>1
  <2>2. ~(x <= c) => (c + 1) * bytes <= x * bytes
    BY <1>1, <2>1, ProductMonotonic
  <2> QED
    BY <1>1, <1>3, <2>2
<1>6. c + 1 <= end => o < end * bytes
  <2>1. c + 1 \in Nat
    BY <1>1
  <2>2. c + 1 <= end => (c + 1) * bytes <= end * bytes
    BY <1>2, <2>1, ProductMonotonic
  <2> QED
    BY <1>1, <1>3, <2>2
<1>7. ~(c + 1 <= end) => end * bytes <= o
  <2>1. ~(c + 1 <= end) => end <= c
    BY <1>1, <1>2
  <2>2. ~(c + 1 <= end) => end * bytes <= c * bytes
    BY <1>1, <1>2, <2>1, ProductMonotonic
  <2> QED
    BY <1>1, <1>3, <2>2
<1>8. c \in x .. x + w - 1 <=> x * bytes <= o /\ o < end * bytes
  BY <1>1, <1>2, <1>3, <1>4, <1>5, <1>6, <1>7
<1> QED
  BY <1>8 DEF c, end

\* The bytes a row of a visible rectangle is received into.
LEMMA VisibleRow ==
  ASSUME framebuffer \in Framebuffers, rect \in Rects, NotEmpty, OnScreen,
         args.pitch = framebuffer.pitch, args.bytes = PixelBytes,
         NEW row \in rect.y .. rect.y + rect.height - 1
  PROVE  LET p == framebuffer.pitch
             first == rect.x * PixelBytes
             end == (rect.x + rect.width) * PixelBytes
         IN  /\ p \in Nat \ {0} /\ first \in Nat /\ end \in Nat /\ end <= p /\ row \in Nat
             /\ row * p \in Nat /\ row * p + p <= framebuffer.size
             /\ \A byte : byte \in RowBytes(row) <=>
                            byte \in Int /\ row * p + first <= byte /\ byte < row * p + end
<1> DEFINE p == framebuffer.pitch
           x == rect.x
           w == rect.width
           B == PixelBytes
           columns == framebuffer.width
           rows == framebuffer.height
<1>1. /\ x \in Nat /\ w \in Nat \ {0} /\ row \in Nat /\ row < 2 * U16 /\ x < 2 * U16
      /\ rect.y \in Nat /\ rect.height \in Nat /\ x + w <= columns /\ row + 1 <= rows
  BY RectFields, FramebufferFields, SizesAssumption DEF NotEmpty, OnScreen
<1>2. /\ p \in Nat /\ columns \in Nat /\ rows \in Nat /\ B \in Nat \ {0}
      /\ columns * B <= p /\ p * rows <= framebuffer.size /\ framebuffer.size \in Nat
  BY FramebufferFields, SizesAssumption
<1>3. RowStart(row) = row * p + x * B
  <2>1. row * p + x * B \in Nat /\ row * p + x * B < U32
    <3>1. p \in {0, framebuffer.pitch} /\ PixelBytes \in Nat /\ PixelBytes <= PixelBytes
      BY SizesAssumption
    <3> QED
      BY <1>1, <3>1, OffsetFits
  <2>2. (row * p + x * B) % U32 = row * p + x * B
    BY <2>1, SmallRemainder, SizesAssumption
  <2>3. p * row = row * p
    BY <1>1, <1>2
  <2> QED
    BY <2>2, <2>3 DEF RowStart
<1>4. RowBytes(row) = RowStart(row) .. RowStart(row) + w * B - 1
  BY DEF RowBytes
<1> HIDE DEF p, x, w, B, columns, rows
<1>5. (x + w) * B <= columns * B /\ (x + w) * B = x * B + w * B
  <2>1. x + w \in Nat
    BY <1>1
  <2> QED
    BY <1>1, <1>2, <2>1, ProductMonotonic
<1>6. x * B \in Nat /\ w * B \in Nat /\ w * B >= 1 /\ row * p \in Nat /\ columns * B \in Nat
  <2>1. w * B >= 1
    <3>1. w - 1 \in Nat /\ w = (w - 1) + 1
      BY <1>1
    <3>2. w * B = (w - 1) * B + B /\ (w - 1) * B \in Nat
      BY <1>2, <3>1
    <3> QED
      BY <1>2, <3>2
  <2> QED
    BY <1>1, <1>2, <2>1
<1>7. (x + w) * B <= p /\ p # 0 /\ (x + w) * B \in Nat
  BY <1>2, <1>5, <1>6
<1>8. row * p + p <= framebuffer.size
  <2>1. (row + 1) * p <= rows * p /\ rows * p = p * rows /\ (row + 1) * p = row * p + p
    <3>1. row + 1 \in Nat
      BY <1>1
    <3> QED
      BY <1>1, <1>2, <3>1, ProductMonotonic
  <2> QED
    BY <1>2, <2>1
<1>9. \A byte : byte \in RowBytes(row) <=>
                  byte \in Int /\ row * p + x * B <= byte /\ byte < row * p + (x + w) * B
  BY <1>3, <1>4, <1>5, <1>6
<1> QED
  BY <1>1, <1>2, <1>6, <1>7, <1>8, <1>9 DEF p, x, w, B

LEMMA PixelsOfVisibleRows ==
  ASSUME framebuffer \in Framebuffers, rect \in Rects, NotEmpty, OnScreen,
         args.pitch = framebuffer.pitch, args.bytes = PixelBytes
  PROVE  \A byte : byte \in PixelBytesOf(rect) <=>
           \E row \in rect.y .. rect.y + rect.height - 1 : byte \in RowBytes(row)
<1> DEFINE p == framebuffer.pitch
           first == rect.x * PixelBytes
           end == (rect.x + rect.width) * PixelBytes
           rows == rect.y .. rect.y + rect.height - 1
<1>1. /\ rect.x \in Nat /\ rect.y \in Nat /\ rect.width \in Nat /\ rect.height \in Nat \ {0}
      /\ PixelBytes \in Nat \ {0} /\ framebuffer.size \in Nat
  BY RectFields, FramebufferFields, SizesAssumption DEF NotEmpty
<1>2. ASSUME NEW row \in rows
      PROVE  /\ p \in Nat \ {0} /\ first \in Nat /\ end \in Nat /\ end <= p /\ row \in Nat
             /\ row * p \in Nat /\ row * p + p <= framebuffer.size
             /\ \A byte : byte \in RowBytes(row) <=>
                            byte \in Int /\ row * p + first <= byte /\ byte < row * p + end
  BY VisibleRow
<1>3. ASSUME NEW row \in rows, NEW byte \in RowBytes(row)
      PROVE  byte \in PixelBytesOf(rect)
  <2> DEFINE o == byte - row * p
  <2>1. /\ p \in Nat \ {0} /\ first \in Nat /\ end \in Nat /\ end <= p /\ row \in Nat
        /\ row * p \in Nat /\ row * p + p <= framebuffer.size
        /\ byte \in Int /\ row * p + first <= byte /\ byte < row * p + end
    BY <1>2, <1>3
  <2> HIDE DEF p, first, end
  <2>2. /\ o \in Nat /\ o < p /\ byte = row * p + o /\ first <= o /\ o < end
        /\ byte \in 0 .. framebuffer.size - 1
    BY <1>1, <2>1
  <2> HIDE DEF o
  <2>3. byte \div p = row /\ byte % p = o
    BY <2>1, <2>2, Division
  <2>4. o \div PixelBytes \in rect.x .. rect.x + rect.width - 1
    BY <1>1, <2>2, PixelOfByte DEF first, end
  <2> QED
    BY <1>3, <2>2, <2>3, <2>4 DEF PixelBytesOf, p
<1>4. ASSUME NEW byte \in PixelBytesOf(rect)
      PROVE  \E row \in rows : byte \in RowBytes(row)
  <2> DEFINE row == byte \div p
             o == byte % p
  <2>1. /\ byte \in Nat /\ row \in rows
        /\ o \div PixelBytes \in rect.x .. rect.x + rect.width - 1
    BY <1>1 DEF PixelBytesOf
  <2>2. p \in Nat \ {0}
    BY <1>2, <2>1
  <2>3. row \in Nat /\ o \in Nat /\ byte = row * p + o
    BY <2>1, <2>2, Divided
  <2> HIDE DEF row, o
  <2>4. first <= o /\ o < end
    BY <1>1, <2>1, <2>3, PixelOfByte
  <2>5. /\ first \in Nat /\ end \in Nat /\ row * p \in Nat
        /\ byte \in RowBytes(row) <=>
             byte \in Int /\ row * p + first <= byte /\ byte < row * p + end
    BY <1>2, <2>1
  <2> HIDE DEF first, end, p
  <2>6. byte \in RowBytes(row)
    BY <2>1, <2>3, <2>4, <2>5
  <2> QED
    BY <2>1, <2>6
<1> QED
  BY <1>3, <1>4

\* The rows before row n.
WrittenBefore(n) == \A row \in rect.y .. n - 1 : RowBytes(row) \subseteq drawn

\* When every row of a visible rectangle is written and nothing else is.
LEMMA DrawnAfterRows ==
  ASSUME framebuffer \in Framebuffers, rect \in Rects, OnScreen,
         args.pitch = framebuffer.pitch, args.bytes = PixelBytes, WrittenBefore(End),
         \A byte \in drawn :
           \E row \in rect.y .. rect.y + rect.height - 1 : byte \in RowBytes(row)
  PROVE  drawn = PixelBytesOf(rect)
<1>2. \A byte : byte \in drawn <=>
        \E row \in rect.y .. rect.y + rect.height - 1 : byte \in RowBytes(row)
  <2>1. \A row \in rect.y .. rect.y + rect.height - 1 : RowBytes(row) \subseteq drawn
    <3>1. rect.y \in Nat /\ rect.height \in Nat
      BY RectFields
    <3>2. rect.y .. End - 1 = rect.y .. rect.y + rect.height - 1
      BY <3>1 DEF End
    <3> QED
      BY <3>2 DEF WrittenBefore
  <2> QED
    BY <2>1
<1>3. \A byte : byte \in PixelBytesOf(rect) <=>
        \E row \in rect.y .. rect.y + rect.height - 1 : byte \in RowBytes(row)
  <2>1. CASE NotEmpty
    BY <2>1, PixelsOfVisibleRows
  <2>2. CASE ~NotEmpty
    <3>1. /\ rect.x \in Nat /\ rect.y \in Nat /\ rect.width \in Nat /\ rect.height \in Nat
          /\ rect.width = 0 \/ rect.height = 0
      BY <2>2, RectFields DEF NotEmpty
    <3>2. CASE rect.height = 0
      <4>1. rect.y .. rect.y + rect.height - 1 = {}
        BY <3>1, <3>2
      <4> QED
        BY <4>1 DEF PixelBytesOf
    <3>3. CASE rect.width = 0
      <4>1. rect.x .. rect.x + rect.width - 1 = {}
        BY <3>1, <3>3
      <4>2. \A row \in rect.y .. rect.y + rect.height - 1 : RowBytes(row) = {}
        <5> SUFFICES ASSUME NEW row \in rect.y .. rect.y + rect.height - 1
                     PROVE  RowBytes(row) = {}
          OBVIOUS
        <5>1. /\ args.pitch \in Nat /\ PixelBytes \in Nat /\ row \in Nat /\ U32 \in Nat \ {0}
              /\ rect.width * args.bytes = 0
          BY <3>1, <3>3, FramebufferFields, SizesAssumption
        <5>2. args.pitch * row + rect.x * args.bytes \in Nat
          BY <3>1, <5>1
        <5>3. RowStart(row) \in Nat
          <6>1. \A a \in Nat : \A m \in Nat \ {0} : a % m \in Nat
            OBVIOUS
          <6> QED
            BY <5>1, <5>2, <6>1 DEF RowStart
        <5> QED
          BY <5>1, <5>3 DEF RowBytes
      <4> QED
        BY <4>1, <4>2 DEF PixelBytesOf
    <3> QED
      BY <3>1, <3>2, <3>3
  <2> QED
    BY <2>1, <2>2
<1> QED
  BY <1>2, <1>3

\* The rows before the counter are written, unless all rows are the same, and
\* with the framebuffer as it was set up as long as nothing is cleared.
RowsWritten ==
  /\ place \in {"rows", "done"} /\ args.pitch # 0 => WrittenBefore(y)
  /\ place = "done" /\ args.pitch # 0 => y = End
  /\ place \in {"rows", "done"} /\ cleared = {} =>
       args.pitch = framebuffer.pitch /\ args.bytes = PixelBytes

LEMMA RowsWrittenStep == IInv /\ RowsWritten /\ [Next]_vars => RowsWritten'
<1> SUFFICES ASSUME IInv, RowsWritten, [Next]_vars PROVE RowsWritten'
  OBVIOUS
<1>1. /\ rect.x \in Nat /\ rect.y \in Nat /\ rect.width \in Nat /\ rect.height \in Nat
      /\ U16 \in Nat \ {0} /\ End = rect.y + rect.height
  BY RectFields, SizesAssumption DEF IInv, TypeOK, End
<1>2. CASE CheckRect
  <2>1. place' \notin {"rows", "done"}
    BY <1>2 DEF CheckRect
  <2> QED
    BY <2>1 DEF RowsWritten
<1>3. CASE CallRecvRect
  <2>1. /\ UNCHANGED <<inputVars, cleared>> /\ place' = "rows" /\ y' = rect.y
        /\ args' = [pitch |-> Pitch, bytes |-> Bytes, mapped |-> "buffer" \notin cleared]
    BY <1>3 DEF CallRecvRect
  <2>2. rect' = rect /\ framebuffer' = framebuffer
    BY <2>1 DEF inputVars
  <2>3. rect'.y .. y' - 1 = {}
    BY <1>1, <2>1, <2>2
  <2>4. cleared' = {} => args'.pitch = framebuffer'.pitch /\ args'.bytes = PixelBytes
    BY <2>1, <2>2 DEF Pitch, Bytes
  <2>5. place' # "done"
    BY <2>1
  <2> QED
    BY <2>3, <2>4, <2>5 DEF RowsWritten, WrittenBefore
<1>4. CASE ReceiveRow
  <2>1. /\ UNCHANGED <<inputVars, cleared, place, args>> /\ place = "rows"
        /\ drawn' = drawn \cup RowBytes(y) /\ y' = (y + 1) % U16
        /\ y < rect.y + rect.height
    BY <1>4 DEF ReceiveRow
  <2>2. args.pitch # 0 => y \in rect.y .. rect.y + rect.height - 1 /\ End <= U16 - 1
    <3>1. args.pitch # 0 => y \in rect.y .. End /\ End <= U16 - 1
      BY <2>1 DEF IInv, RowsDrawn
    <3> QED
      BY <1>1, <2>1, <3>1
  <2>3. args.pitch # 0 => y' = y + 1
    <3>1. args.pitch # 0 => y + 1 \in Nat /\ y + 1 < U16
      BY <1>1, <2>2
    <3> QED
      BY <1>1, <2>1, <3>1, SmallRemainder
  <2>4. rect' = rect /\ framebuffer' = framebuffer
    BY <2>1 DEF inputVars
  <2>5. ASSUME args.pitch # 0, NEW row \in rect.y .. y' - 1
        PROVE  RowBytes(row)' \subseteq drawn'
    <3>1. row \in rect.y .. y - 1 \/ row = y
      BY <1>1, <2>2, <2>3, <2>5
    <3>2. RowBytes(row)' = RowBytes(row)
      BY <2>1, SameRows
    <3> QED
      BY <2>1, <2>5, <3>1, <3>2 DEF RowsWritten, WrittenBefore
  <2>6. place' = "rows" /\ cleared' = cleared /\ args' = args
    BY <2>1
  <2> QED
    BY <2>1, <2>4, <2>5, <2>6 DEF RowsWritten, WrittenBefore
<1>5. CASE RowFails \/ Return
  <2>1. place' \notin {"rows", "done"}
    BY <1>5 DEF RowFails, Return
  <2> QED
    BY <2>1 DEF RowsWritten
<1>6. ASSUME UNCHANGED <<inputVars, args, y, drawn>>, cleared' = {} => cleared = {},
             \/ place' = place
             \/ place = "rows" /\ place' = "done" /\ (args.pitch # 0 => y = End)
      PROVE  RowsWritten'
  <2>1. rect' = rect /\ framebuffer' = framebuffer
    BY <1>6 DEF inputVars
  <2>2. \A row : RowBytes(row)' = RowBytes(row)
    BY <1>6, SameRows
  <2>3. WrittenBefore(y)' = WrittenBefore(y) /\ End' = End
    BY <1>6, <2>1, <2>2 DEF WrittenBefore, End
  <2> QED
    BY <1>6, <2>1, <2>3 DEF RowsWritten
<1>7. CASE RowsDone
  <2>1. args.pitch # 0 => y = End
    BY <1>1, <1>7 DEF RowsDone, IInv, RowsDrawn, End
  <2> QED
    BY <1>6, <1>7, <2>1 DEF RowsDone
<1>8. ASSUME NEW field \in Fields, ClearField(field) PROVE RowsWritten'
  BY <1>6, <1>8 DEF ClearField
<1>9. CASE UNCHANGED vars
  BY <1>6, <1>9 DEF vars, inputVars
<1> QED
  BY <1>2, <1>3, <1>4, <1>5, <1>7, <1>8, <1>9 DEF Next, ThreadGoesOn

(* The rows that are done have filled exactly the pixels of the rectangle,   *)
(* for every pitch, padding and position on the screen, empty rectangles     *)
(* included (vnc_rfb_recv_rect_raw).                                         *)
THEOREM RectsAreWhereTheyBelong == Spec => []DrawnWhereItBelongs
<1>1. Init => RowsWritten
  BY DEF Init, RowsWritten
<1>2. IInv /\ RowsWritten => DrawnWhereItBelongs
  <2> SUFFICES ASSUME IInv, RowsWritten, OnScreen, place = "done", cleared = {}
               PROVE  drawn = PixelBytesOf(rect)
    BY DEF DrawnWhereItBelongs
  <2>1. /\ framebuffer \in Framebuffers /\ rect \in Rects
        /\ args.pitch = framebuffer.pitch /\ args.bytes = PixelBytes
        /\ WrittenBefore(End)
    <3>1. framebuffer \in Framebuffers /\ rect \in Rects
      BY DEF IInv, TypeOK
    <3>2. args.pitch = framebuffer.pitch /\ args.bytes = PixelBytes /\ args.pitch # 0
      BY <3>1, FramebufferFields DEF RowsWritten
    <3> QED
      BY <3>1, <3>2 DEF RowsWritten
  <2>2. \A byte \in drawn :
          \E row \in rect.y .. rect.y + rect.height - 1 : byte \in RowBytes(row)
    BY DEF IInv, RowsDrawn
  <2> QED
    BY <2>1, <2>2, DrawnAfterRows
<1> QED
  BY <1>1, <1>2, InitIInv, NextIInv, RowsWrittenStep, PTL DEF Spec
=============================================================================
