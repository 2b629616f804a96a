-------------------------- MODULE SessionThreadProofs --------------------------
(***************************************************************************)
(* The session thread, for every set of messages with any number of        *)
(* rectangles: the area continuous updates are asked for, and the types,   *)
(* slow networks and lost parts included; then, when no read times out     *)
(* with its parts on their way, the boundaries of the messages, the        *)
(* answers to fences, and whether continuous updates come.                 *)
(***************************************************************************)
EXTENDS SessionThread, SequenceLemmas

(* Only between the new settings and the request for them, and after a       *)
(* request that failed, does the area differ from the settings.              *)
CoveredOutsideResize ==
  place \notin {"enable for size", "exited"} => coveredByCU \in {NoSize, settings}

LEMMA CoveredStep ==
  ASSUME CoveredOutsideResize, [Next]_vars
  PROVE  CoveredOutsideResize'
<1> USE DEF CoveredOutsideResize, Goto, historyVars
<1>1. CASE Peek \/ PeekFails \/ PeekTimesOut
  BY <1>1 DEF Peek, PeekFails, PeekTimesOut, vars
<1>2. CASE DiscardTypeByte \/ ReceiveCutText \/ CutTextLost
  BY <1>2 DEF DiscardTypeByte, ReceiveCutText, CutTextLost
<1>3. CASE \E ok \in BOOLEAN : EnableContinuousUpdates(ok)
  BY <1>3 DEF EnableContinuousUpdates
<1>4. CASE ReceiveFence \/ FenceLost \/ \E ok \in BOOLEAN : ReplyToFence(ok)
  BY <1>4 DEF ReceiveFence, FenceLost, ReplyToFence
<1>5. CASE ReceiveUpdateHeader \/ ReceiveRect \/ ReceiveRows \/ RowsLost
  BY <1>5 DEF ReceiveUpdateHeader, ReceiveRect, ReceiveRows, RowsLost, StartRects
<1>6. CASE ReceiveScreenCount \/ ReceiveScreens \/ UpdateLost
  BY <1>6 DEF ReceiveScreenCount, ReceiveScreens, UpdateLost, StartRects
<1>7. CASE WriteSettings
  BY <1>7 DEF WriteSettings
<1>8. CASE \E ok \in BOOLEAN : EnableForSize(ok)
  BY <1>8 DEF EnableForSize, StartRects
<1>9. CASE BrokenPipe \/ Spin
  BY <1>9 DEF BrokenPipe, Spin, Reading
<1>10. CASE \/ \E m \in Messages : ServerSends(m)
            \/ \E how \in ConnectionEnds : ConnectionEnded(how)
            \/ UNCHANGED vars
  BY <1>10 DEF ServerSends, ConnectionEnded, vars
<1> QED
  BY <1>1, <1>2, <1>3, <1>4, <1>5, <1>6, <1>7, <1>8, <1>9, <1>10 DEF Next, ThreadGoesOn

(* Whatever the server sends and whatever gets lost, back at peek the thread *)
(* has last asked for updates of the desktop as it takes it to be            *)
(* (handle_rect, vnc_session_handle_message).                                *)
THEOREM UpdatesAreForTheDesktop == Spec => []UpdatesCoverDesktop
<1>1. Init => CoveredOutsideResize
  BY DEF Init, CoveredOutsideResize
<1>2. CoveredOutsideResize /\ [Next]_vars => CoveredOutsideResize'
  BY CoveredStep
<1>3. CoveredOutsideResize => UpdatesCoverDesktop
  BY DEF CoveredOutsideResize, UpdatesCoverDesktop
<1> QED
  BY <1>1, <1>2, <1>3, PTL DEF Spec

-----------------------------------------------------------------------------
(* What the server writes: the lengths of messages, and the fences among     *)
(* parts.                                                                    *)
LEMMA RectPartsType ==
  ASSUME NEW rect \in Rectangles
  PROVE  RectParts(rect) \in Nat \ {0}
BY DEF RectParts, Rectangles

LEMMA PartsOfLastDef ==
  ASSUME NEW updated \in Seq(Rectangles)
  PROVE  LET n == Len(updated) IN
         /\ PartsOfLast(updated) \in [0 .. n -> Nat]
         /\ PartsOfLast(updated)[0] = 0
         /\ \A i \in 1 .. n : PartsOfLast(updated)[i]
                                = PartsOfLast(updated)[i - 1] + RectParts(updated[n - i + 1])
<1> DEFINE n == Len(updated)
           f(i) == RectParts(updated[n - i + 1])
           step == [i \in 1 .. n |-> [x \in Nat |-> x + f(i)]]
<1>1. n \in Nat
  OBVIOUS
<1>2. ASSUME NEW i \in 1 .. n
      PROVE  f(i) \in Nat
  <2>1. n - i + 1 \in 1 .. n
    BY <1>1
  <2>2. updated[n - i + 1] \in Rectangles
    BY <2>1, ElementOfSeq
  <2> QED
    BY <2>2, RectPartsType
<1>3. step \in [1 .. n -> [Nat -> Nat]]
  BY <1>2
<1>4. \A i \in 1 .. n : \A x \in Nat : step[i][x] = x + f(i)
  OBVIOUS
<1> HIDE DEF step
<1>5. PICK c \in [0 .. n -> Nat] :
        \A i \in 0 .. n : c[i] = IF i = 0 THEN 0 ELSE step[i][c[i - 1]]
  <2>1. 0 \in Nat /\ step \in Steps(Nat, n)
    BY <1>3 DEF Steps
  <2> HIDE DEF n
  <2>2. \E c : Recurs(c, Nat, 0, n, step)
    BY <1>1, <2>1, RecursiveFunction
  <2> QED
    BY <2>2 DEF Recurs
<1>6. \A i \in 0 .. n : i # 0 => i \in 1 .. n /\ i - 1 \in 0 .. n
  BY <1>1
<1>7. \A i \in 0 .. n : c[i] = IF i = 0 THEN 0 ELSE c[i - 1] + f(i)
  BY <1>4, <1>5, <1>6
<1>8. c = [i \in 0 .. n |-> IF i = 0 THEN 0 ELSE c[i - 1] + f(i)]
  BY <1>5, <1>7
<1>9. LET P == PartsOfLast(updated) IN
      P = [i \in 0 .. n |-> IF i = 0 THEN 0 ELSE P[i - 1] + f(i)]
  BY <1>8 DEF PartsOfLast
<1> HIDE DEF f
<1> DEFINE P == PartsOfLast(updated)
<1>10. /\ DOMAIN P = 0 .. n
       /\ \A i \in 0 .. n : P[i] = IF i = 0 THEN 0 ELSE P[i - 1] + f(i)
  BY <1>9
<1> HIDE DEF P, n
<1>11. \A i \in 0 .. n : P[i] \in Nat
  <2> DEFINE T == {i \in Nat : i <= n => P[i] \in Nat}
  <2>1. 0 \in T
    BY <1>1, <1>10
  <2>2. ASSUME NEW i \in Nat, i \in T
        PROVE  i + 1 \in T
    <3> SUFFICES ASSUME i + 1 <= n PROVE P[i + 1] \in Nat
      OBVIOUS
    <3>1. i + 1 \in 0 .. n /\ i + 1 # 0 /\ (i + 1) - 1 = i /\ i + 1 \in 1 .. n /\ i <= n
      BY <1>1
    <3>2. P[i] \in Nat
      BY <2>2, <3>1
    <3> QED
      BY <1>2, <1>10, <3>1, <3>2
  <2> HIDE DEF T
  <2>3. \A i \in Nat : i \in T
    BY <2>1, <2>2, SetInduction
  <2> QED
    BY <1>1, <2>3 DEF T
<1>12. P = [i \in 0 .. n |-> P[i]]
  BY <1>9 DEF P
<1>13. P \in [0 .. n -> Nat]
  BY <1>11, <1>12
<1>14. P[0] = 0 /\ \A i \in 1 .. n : P[i] = P[i - 1] + f(i)
  BY <1>1, <1>10
<1> QED
  BY <1>13, <1>14 DEF P, n, f

WireParts == Messages \cup {Rest}

LEMMA WantedFenceType ==
  ASSUME NEW part \in WireParts
  PROVE  /\ WantedFence(part) \in Seq(Int)
         /\ part = Rest => WantedFence(part) = <<>>
         /\ part.type # "fence" => WantedFence(part) = <<>>
<1>1. CASE part = Rest
  BY <1>1 DEF WantedFence, Rest
<1>2. CASE part \in Messages
  <2>1. part \in MessageForms
    BY <1>2, MessagesAssumption
  <2>2. part.type = "fence" => part.id \in Int
    BY <2>1 DEF MessageForms
  <2>3. part # Rest
    <3>1. part.type # "rest"
      BY <2>1 DEF MessageForms
    <3> QED
      BY <3>1 DEF Rest
  <2> QED
    BY <2>2, <2>3 DEF WantedFence
<1> QED
  BY <1>1, <1>2 DEF WireParts

WantedFences == [part \in WireParts |-> WantedFence(part)]

LEMMA FencesMapped ==
  /\ WantedFences \in Maps(WireParts, Seq(Int))
  /\ \A part \in WireParts : WantedFences[part] = WantedFence(part)
  /\ \A parts \in Seq(WireParts) : FencesIn(parts) = FlattenSeq(Mapped(WantedFences, parts))
<1>1. WantedFences \in [WireParts -> Seq(Int)]
  BY WantedFenceType DEF WantedFences
<1>2. \A part \in WireParts : WantedFences[part] = WantedFence(part)
  BY DEF WantedFences
<1>3. ASSUME NEW parts \in Seq(WireParts)
      PROVE  [i \in DOMAIN parts |-> WantedFence(parts[i])] = Mapped(WantedFences, parts)
  <2>1. \A i \in DOMAIN parts : parts[i] \in WireParts
    BY ElementOfSeq
  <2> QED
    BY <1>2, <2>1 DEF Mapped
<1> QED
  BY <1>1, <1>2, <1>3 DEF Maps, FencesIn

LEMMA FencesInType ==
  ASSUME NEW parts \in Seq(WireParts)
  PROVE  FencesIn(parts) \in Seq(Int)
BY FencesMapped, FlattenMappedType

LEMMA FencesConcat ==
  ASSUME NEW a \in Seq(WireParts), NEW b \in Seq(WireParts)
  PROVE  FencesIn(a \o b) = FencesIn(a) \o FencesIn(b)
<1>1. a \o b \in Seq(WireParts)
  BY ConcatProperties
<1>2. FlattenSeq(Mapped(WantedFences, a \o b))
        = FlattenSeq(Mapped(WantedFences, a)) \o FlattenSeq(Mapped(WantedFences, b))
  BY FencesMapped, FlattenMappedConcat
<1> QED
  BY <1>1, <1>2, FencesMapped

LEMMA NoFences ==
  ASSUME NEW parts \in Seq(WireParts),
         \A i \in 1 .. Len(parts) : WantedFence(parts[i]) = <<>>
  PROVE  FencesIn(parts) = <<>>
<1>1. \A i \in 1 .. Len(parts) : WantedFences[parts[i]] = <<>>
  BY ElementOfSeq, FencesMapped
<1> QED
  BY <1>1, FencesMapped, FlattenMappedNothing

LEMMA OneFence ==
  ASSUME NEW part \in WireParts
  PROVE  FencesIn(<<part>>) = WantedFence(part)
<1>1. <<part>> \in Seq(WireParts)
  OBVIOUS
<1> QED
  BY <1>1, FencesMapped, FlattenMappedOne

-----------------------------------------------------------------------------
(* The types, for slow networks too.  Which message is handled where:        *)
AtMessage ==
  /\ place = "type byte" => message.type \in {"eocu", "bell"}
  /\ place \in {"fence header", "fence payload", "fence reply"} => message.type = "fence"
  /\ place \in {"cut header", "cut text"} => message.type = "cut text"
  /\ place = "update header" => message.type = "update"
  /\ place = "rows" => Head(rects).encoding = "raw"
  /\ place \in {"screen count", "screens", "new size", "enable for size"} =>
       Head(rects).encoding = "size"

\* r are the last rectangles of the update m.
LastRects(r, m) ==
  /\ m.type = "update" /\ r # <<>> /\ Len(r) <= Len(m.rects)
  /\ r = SubSeq(m.rects, Len(m.rects) - Len(r) + 1, Len(m.rects))

PlaceTypeOK ==
  /\ place \in {"peek", "tail", "fence reply", "new size", "enable for size"} \cup Reading \cup Ended
  /\ message \in Messages \cup {Unknown}
  /\ rects \in Seq(Rectangles)
  /\ place \in RectPlaces => LastRects(rects, message)
  /\ AtMessage

LEMMA MessageTypes ==
  ASSUME NEW m \in Messages \cup {Unknown}
  PROVE  /\ m.type = "fence" => /\ m \in Messages /\ m.id \in Int
                                /\ m.request \in BOOLEAN /\ m.payload \in BOOLEAN
         /\ m.type = "update" => m \in Messages /\ m.rects \in Seq(Rectangles)
         /\ m \in Messages => m.type \in {"fence", "eocu", "bell", "cut text", "update"}
         /\ m.type # "rest" /\ m # Rest
<1>1. CASE m = Unknown
  <2>1. m.type = "unknown" /\ Rest.type = "rest"
    BY <1>1 DEF Unknown, Rest
  <2>2. m \notin MessageForms
    BY <2>1 DEF MessageForms
  <2> QED
    BY <2>1, <2>2, MessagesAssumption
<1>2. CASE m \in Messages
  <2>1. m \in MessageForms
    BY <1>2, MessagesAssumption
  <2>2. /\ m.type = "fence" => m.id \in Int /\ m.request \in BOOLEAN /\ m.payload \in BOOLEAN
        /\ m.type \in {"fence", "eocu", "bell", "cut text", "update"}
    BY <2>1 DEF MessageForms
  <2>3. m.type = "update" => m.rects \in Seq(Rectangles)
    <3> DEFINE R == Seq(Rectangles)
    <3>1. m \in [type : {"fence"}, id : Int, request : BOOLEAN, payload : BOOLEAN]
                \cup [type : {"eocu", "bell", "cut text"}] \cup [type : {"update"}, rects : R]
      BY <2>1 DEF MessageForms
    <3> HIDE DEF R
    <3>2. m.type = "update" => m.rects \in R
      BY <3>1
    <3> QED
      BY <3>2 DEF R
  <2>4. m # Rest
    <3>1. m.type # "rest" /\ Rest.type = "rest"
      BY <2>2 DEF Rest
    <3> QED
      BY <3>1
  <2> QED
    BY <1>2, <2>2, <2>3, <2>4
<1> QED
  BY <1>1, <1>2

LEMMA RectTypes ==
  ASSUME NEW rect \in Rectangles
  PROVE  /\ rect.encoding \in {"raw", "size", "other"}
         /\ rect.encoding = "raw" => rect.rows \in Nat /\ rect.fits \in BOOLEAN
         /\ rect.encoding = "size" => /\ rect.screens \in Nat /\ rect.size \in ScreenSizes
                                      /\ rect.denied \in BOOLEAN
BY DEF Rectangles

\* The rectangle that is handled is the one the message has at that place.
LEMMA CurrentRect ==
  ASSUME NEW m, m.rects \in Seq(Rectangles), NEW r \in Seq(Rectangles), LastRects(r, m)
  PROVE  /\ Len(r) \in 1 .. Len(m.rects)
         /\ Head(r) = m.rects[Len(m.rects) - Len(r) + 1]
         /\ Head(r) \in Rectangles
         /\ Tail(r) \in Seq(Rectangles) /\ Len(Tail(r)) = Len(r) - 1
         /\ Tail(r) # <<>> => LastRects(Tail(r), m)
<1> DEFINE R == Rectangles
           u == m.rects
           n == Len(r)
           first == Len(u) - n + 1
<1> HIDE DEF R
<1>1. u \in Seq(R) /\ r \in Seq(R) /\ m.type = "update" /\ r # <<>> /\ n <= Len(u)
      /\ r = SubSeq(u, first, Len(u))
  BY DEF LastRects, R
<1> HIDE DEF u
<1>2. Len(u) \in Nat /\ n \in Nat /\ n # 0
  BY <1>1, EmptySeq
<1> HIDE DEF n
<1>3. first \in 1 .. Len(u) /\ Len(u) \in first .. Len(u) /\ n \in 1 .. Len(u)
  BY <1>1, <1>2
<1>4. Head(r) = u[first] /\ Tail(r) = SubSeq(u, first + 1, Len(u))
  <2> HIDE DEF first
  <2> QED
    BY <1>1, <1>3, HeadTailOfSubSeq
<1>5. Head(r) \in R /\ Tail(r) \in Seq(R) /\ Len(Tail(r)) = n - 1
  BY <1>1, HeadTailProperties DEF n
<1>6. ASSUME Tail(r) # <<>>
      PROVE  LastRects(Tail(r), m)
  <2>1. Len(u) - Len(Tail(r)) + 1 = first + 1 /\ Len(Tail(r)) <= Len(u)
    BY <1>1, <1>2, <1>5
  <2>2. Tail(r) = SubSeq(u, Len(u) - Len(Tail(r)) + 1, Len(u))
    BY <1>4, <2>1
  <2> QED
    BY <1>1, <1>6, <2>1, <2>2 DEF LastRects, u
<1> QED
  BY <1>3, <1>4, <1>5, <1>6 DEF R, n, u

\* All rectangles of an update.
LEMMA AllRects ==
  ASSUME NEW m, m.type = "update", m.rects \in Seq(Rectangles), m.rects # <<>>
  PROVE  LastRects(m.rects, m)
<1> DEFINE R == Rectangles
           u == m.rects
<1> HIDE DEF R, u
<1>1. u \in Seq(R) /\ Len(u) \in Nat
  BY DEF R, u
<1>2. Len(u) - Len(u) + 1 = 1 /\ Len(u) <= Len(u)
  BY <1>1
<1>3. u = SubSeq(u, 1, Len(u))
  BY <1>1, SubSeqFull
<1> QED
  BY <1>2, <1>3 DEF LastRects, u

\* What the thread goes on with after a rectangle, or after the header.
LEMMA StartRectsType ==
  ASSUME PlaceTypeOK, UNCHANGED message, NEW remaining \in Seq(Rectangles),
         remaining # <<>> => LastRects(remaining, message), StartRects(remaining)
  PROVE  PlaceTypeOK'
<1>1. rects' = remaining /\ place' \in {"tail", "rect"} /\ (place' = "rect" => remaining # <<>>)
  BY DEF StartRects, Goto
<1>2. AtMessage'
  BY <1>1 DEF AtMessage
<1>3. place' \in RectPlaces => LastRects(rects', message')
  BY <1>1 DEF RectPlaces
<1> QED
  BY <1>1, <1>2, <1>3 DEF PlaceTypeOK, Reading

LEMMA RectAtPlace ==
  ASSUME PlaceTypeOK, place \in RectPlaces
  PROVE  /\ message \in Messages /\ message.type = "update" /\ message.rects \in Seq(Rectangles)
         /\ LastRects(rects, message) /\ Head(rects) \in Rectangles
         /\ Tail(rects) \in Seq(Rectangles)
         /\ Tail(rects) # <<>> => LastRects(Tail(rects), message)
<1>1. LastRects(rects, message) /\ message \in Messages \cup {Unknown} /\ rects \in Seq(Rectangles)
  BY DEF PlaceTypeOK
<1>2. message.type = "update"
  BY <1>1 DEF LastRects
<1>3. message \in Messages /\ message.rects \in Seq(Rectangles)
  BY <1>1, <1>2, MessageTypes
<1> QED
  BY <1>1, <1>2, <1>3, CurrentRect

LEMMA PeekedType ==
  ASSUME wire \in Seq(WireParts), wire # <<>>, NEW m \in Peeked
  PROVE  m \in Messages \cup {Unknown}
<1>1. Head(wire) \in WireParts
  <2> DEFINE W == WireParts
  <2> HIDE DEF W
  <2>1. wire \in Seq(W) /\ wire # <<>> => Head(wire) \in W
    OBVIOUS
  <2> QED
    BY <2>1 DEF W
<1>2. Head(wire).type # "rest" => Head(wire) \in Messages
  BY <1>1 DEF WireParts, Rest
<1> QED
  BY <1>2 DEF Peeked

LEMMA PlaceTypeStep ==
  ASSUME PlaceTypeOK, wire \in Seq(WireParts), [Next]_vars
  PROVE  PlaceTypeOK'
<1> USE DEF Goto
<1>1. CASE Peek
  <2>1. PICK m \in Peeked : message' = m /\ place' = FirstRead(m)
    BY <1>1 DEF Peek
  <2>2. UNCHANGED rects /\ rects \in Seq(Rectangles)
    BY <1>1 DEF Peek, PlaceTypeOK
  <2>3. m \in Messages \cup {Unknown}
    BY <1>1, <2>1, PeekedType DEF Peek
  <2>4. \/ place' = "assertion failed"
        \/ place' = "type byte" /\ m.type \in {"eocu", "bell"}
        \/ place' = "fence header" /\ m.type = "fence"
        \/ place' = "cut header" /\ m.type = "cut text"
        \/ place' = "update header" /\ m.type = "update"
    BY <2>1 DEF FirstRead
  <2>5. AtMessage'
    BY <2>1, <2>4 DEF AtMessage
  <2> QED
    BY <2>1, <2>2, <2>3, <2>4, <2>5 DEF PlaceTypeOK, Reading, Ended, RectPlaces
<1>2. ASSUME UNCHANGED <<message, rects>>,
             \/ UNCHANGED place
             \/ place' \in {"peek", "tail"} \cup Ended
             \/ place = "cut header" /\ place' = "cut text"
             \/ place = "fence header" /\ place' = "fence payload"
             \/ place = "fence payload" /\ place' = "fence reply"
      PROVE  PlaceTypeOK'
  <2>1. AtMessage'
    BY <1>2 DEF PlaceTypeOK, AtMessage, Ended
  <2>2. place' \in RectPlaces => place = place'
    BY <1>2 DEF RectPlaces, Ended
  <2> QED
    BY <1>2, <2>1, <2>2 DEF PlaceTypeOK, Reading
<1>3. CASE PeekFails \/ PeekTimesOut \/ DiscardTypeByte \/ Spin \/ BrokenPipe
  BY <1>2, <1>3 DEF PeekFails, PeekTimesOut, DiscardTypeByte, Spin, BrokenPipe, vars, Ended
<1>4. CASE ReceiveCutText \/ CutTextLost
  BY <1>2, <1>4 DEF ReceiveCutText, CutTextLost
<1>5. CASE ReceiveFence \/ FenceLost \/ \E ok \in BOOLEAN : ReplyToFence(ok)
  BY <1>2, <1>5 DEF ReceiveFence, FenceLost, ReplyToFence, Ended
<1>6. CASE UpdateLost \/ RowsLost \/ \E ok \in BOOLEAN : EnableContinuousUpdates(ok)
  BY <1>2, <1>6 DEF UpdateLost, RowsLost, EnableContinuousUpdates
<1>7. CASE \/ \E m \in Messages : ServerSends(m)
           \/ \E how \in ConnectionEnds : ConnectionEnded(how)
           \/ UNCHANGED vars
  BY <1>2, <1>7 DEF ServerSends, ConnectionEnded, vars
<1>8. CASE ReceiveUpdateHeader
  <2>1. place = "update header" /\ UNCHANGED message /\ StartRects(message.rects)
    BY <1>8 DEF ReceiveUpdateHeader
  <2>2. message.type = "update" /\ message \in Messages \cup {Unknown}
    BY <2>1 DEF PlaceTypeOK, AtMessage
  <2>3. message.rects \in Seq(Rectangles)
    BY <2>2, MessageTypes
  <2> QED
    BY <2>1, <2>2, <2>3, AllRects, StartRectsType
<1>9. ASSUME place \in RectPlaces, UNCHANGED message, StartRects(Tail(rects))
      PROVE  PlaceTypeOK'
  BY <1>9, RectAtPlace, StartRectsType
<1>10. ASSUME place \in RectPlaces, UNCHANGED <<message, rects>>,
              \/ place' \in Ended
              \/ place' = "rows" /\ Head(rects).encoding = "raw"
              \/ /\ place' \in {"screen count", "screens", "new size", "enable for size"}
                 /\ Head(rects).encoding = "size"
       PROVE  PlaceTypeOK'
  <2>1. AtMessage'
    BY <1>10 DEF AtMessage, Ended
  <2>2. place' \in RectPlaces => LastRects(rects', message')
    BY <1>10, RectAtPlace
  <2>3. place' \in {"new size", "enable for size"} \cup Reading \cup Ended
    BY <1>10 DEF Reading
  <2> QED
    BY <1>10, <2>1, <2>2, <2>3 DEF PlaceTypeOK
<1>11. CASE ReceiveRect
  BY <1>10, <1>11 DEF ReceiveRect, RectPlaces, Ended
<1>12. CASE ReceiveRows
  BY <1>9, <1>12 DEF ReceiveRows, RectPlaces
<1>13. CASE ReceiveScreenCount \/ WriteSettings
  BY <1>10, <1>13 DEF ReceiveScreenCount, WriteSettings, RectPlaces, Ended, PlaceTypeOK, AtMessage
<1>14. CASE ReceiveScreens
  BY <1>9, <1>10, <1>14 DEF ReceiveScreens, RectPlaces, PlaceTypeOK, AtMessage
<1>15. CASE \E ok \in BOOLEAN : EnableForSize(ok)
  BY <1>9, <1>10, <1>15 DEF EnableForSize, RectPlaces, Ended
<1> QED
  BY <1>1, <1>3, <1>4, <1>5, <1>6, <1>7, <1>8, <1>11, <1>12, <1>13, <1>14, <1>15
  DEF Next, ThreadGoesOn

LEMMA NeededType ==
  ASSUME PlaceTypeOK
  PROVE  Needed \in Nat
<1>1. place = "rows" => Head(rects).rows \in Nat
  BY RectAtPlace, RectTypes DEF PlaceTypeOK, AtMessage, RectPlaces
<1> QED
  BY <1>1 DEF Needed

WireTypeOK == wire \in Seq(WireParts) /\ conn \in {"open", "eof", "reset"}

LEMMA PartsAfterTypeType ==
  ASSUME NEW m \in Messages
  PROVE  PartsAfterType(m) \in Nat
<1>1. CASE m.type = "update"
  <2>1. m.rects \in Seq(Rectangles)
    BY <1>1, MessageTypes
  <2>2. Len(m.rects) \in 0 .. Len(m.rects)
    BY <2>1
  <2>3. PartsOfLast(m.rects)[Len(m.rects)] \in Nat
    BY <2>1, <2>2, PartsOfLastDef
  <2> QED
    BY <1>1, <2>3 DEF PartsAfterType
<1>2. CASE m.type # "update"
  BY <1>2 DEF PartsAfterType
<1> QED
  BY <1>1, <1>2

\* A message on the wire: its type byte, and the rest of it.
LEMMA PartsProperties ==
  ASSUME NEW m \in Messages
  PROVE  /\ Parts(m) \in Seq(WireParts)
         /\ Len(Parts(m)) = 1 + PartsAfterType(m)
         /\ Parts(m)[1] = m
         /\ \A i \in 2 .. 1 + PartsAfterType(m) : Parts(m)[i] = Rest
<1> DEFINE W == WireParts
           n == PartsAfterType(m)
           rest == [i \in 1 .. n |-> Rest]
<1>1. n \in Nat /\ m \in W /\ Rest \in W
  BY PartsAfterTypeType DEF WireParts
<1> HIDE DEF W, n
<1>2. rest \in Seq(W) /\ Len(rest) = n
  BY <1>1
<1>3. <<m>> \in Seq(W) /\ Len(<<m>>) = 1 /\ <<m>>[1] = m
  BY <1>1
<1>4. \A i \in 1 .. n : rest[i] = Rest
  OBVIOUS
<1>5. Parts(m) = <<m>> \o rest
  BY DEF Parts, n
<1> HIDE DEF rest
<1>6. /\ <<m>> \o rest \in Seq(W)
      /\ Len(<<m>> \o rest) = 1 + n
      /\ \A i \in 1 .. 1 + n : (<<m>> \o rest)[i] = IF i <= 1 THEN <<m>>[i] ELSE rest[i - 1]
  BY <1>2, <1>3, ConcatProperties
<1>7. \A i \in 2 .. 1 + n : i \in 1 .. 1 + n /\ ~(i <= 1) /\ i - 1 \in 1 .. n
  BY <1>1
<1>8. 1 \in 1 .. 1 + n
  BY <1>1
<1> QED
  BY <1>3, <1>4, <1>5, <1>6, <1>7, <1>8 DEF W, n

\* A stretch of the wire.
LEMMA Stretch ==
  ASSUME NEW w \in Seq(WireParts), NEW k \in Nat, NEW n \in Nat, n <= Len(w)
  PROVE  /\ SubSeq(w, k + 1, n) \in Seq(WireParts)
         /\ Len(SubSeq(w, k + 1, n)) = IF k + 1 <= n THEN n - k ELSE 0
         /\ \A i \in 1 .. n - k : SubSeq(w, k + 1, n)[i] = w[k + i]
<1> DEFINE W == WireParts
<1>1. \A i \in k + 1 .. n : w[i] \in W
  BY ElementOfSeq
<1> HIDE DEF W
<1>2. k + 1 \in Int /\ n \in Int
  OBVIOUS
<1>3. /\ SubSeq(w, k + 1, n) \in Seq(W)
      /\ Len(SubSeq(w, k + 1, n)) = IF k + 1 <= n THEN n - (k + 1) + 1 ELSE 0
      /\ \A i \in 1 .. n - (k + 1) + 1 : SubSeq(w, k + 1, n)[i] = w[(k + 1) + i - 1]
  BY <1>1, <1>2, SubSeqProperties
<1>4. n - (k + 1) + 1 = n - k /\ \A i \in 1 .. n - k : (k + 1) + i - 1 = k + i
  OBVIOUS
<1> QED
  BY <1>3, <1>4 DEF W

LEMMA WireTypeStep ==
  ASSUME WireTypeOK, PlaceTypeOK, [Next]_vars
  PROVE  WireTypeOK'
<1> USE DEF WireTypeOK
<1>1. Len(wire) \in Nat /\ <<>> \in Seq(WireParts)
  OBVIOUS
<1>2. CASE Received
  <2>1. wire' = SubSeq(wire, Needed + 1, Len(wire)) /\ UNCHANGED conn
    BY <1>2 DEF Received
  <2> QED
    BY <1>1, <2>1, NeededType, Stretch
<1>3. CASE NotReceived
  <2>1. CASE TimedOut
    <3>1. PICK got \in 0 .. Needed - 1 : wire' = SubSeq(wire, got + 1, Len(wire))
      BY <2>1 DEF TimedOut
    <3>2. got \in Nat /\ UNCHANGED conn
      BY <2>1, NeededType DEF TimedOut
    <3> QED
      BY <1>1, <3>1, <3>2, Stretch
  <2>2. CASE ResetReported
    BY <1>1, <2>2 DEF ResetReported
  <2> QED
    BY <1>3, <2>1, <2>2 DEF NotReceived
<1>4. CASE \E m \in Messages : ServerSends(m)
  <2>1. PICK m \in Messages : ServerSends(m)
    BY <1>4
  <2>2. wire' = wire \o Parts(m) /\ UNCHANGED conn
    BY <2>1 DEF ServerSends
  <2>3. Parts(m) \in Seq(WireParts)
    BY PartsProperties
  <2> DEFINE W == WireParts
  <2> HIDE DEF W
  <2>4. wire \in Seq(W) /\ Parts(m) \in Seq(W) => wire \o Parts(m) \in Seq(W)
    OBVIOUS
  <2> QED
    BY <2>2, <2>3, <2>4 DEF W
<1>5. CASE \E how \in ConnectionEnds : ConnectionEnded(how)
  <2>1. PICK how \in ConnectionEnds : ConnectionEnded(how)
    BY <1>5
  <2>2. conn' = how /\ \E n \in 0 .. Len(wire) : wire' = SubSeq(wire, 1, n)
    BY <2>1 DEF ConnectionEnded
  <2>3. PICK n \in 0 .. Len(wire) : wire' = SubSeq(wire, 1, n)
    BY <2>2
  <2>4. n \in Nat /\ n <= Len(wire) /\ 0 \in Nat /\ 0 + 1 = 1
    BY <1>1
  <2>5. wire' \in Seq(WireParts)
    BY <2>3, <2>4, Stretch
  <2> QED
    BY <2>2, <2>5, SessionAssumption
<1>6. CASE UNCHANGED netVars
  BY <1>6 DEF netVars
<1>7. CASE PeekFails
  BY <1>7 DEF PeekFails
<1>8. CASE \/ DiscardTypeByte \/ ReceiveCutText \/ ReceiveFence \/ ReceiveUpdateHeader
           \/ ReceiveRect \/ ReceiveRows \/ ReceiveScreenCount \/ ReceiveScreens
  BY <1>2, <1>8 DEF DiscardTypeByte, ReceiveCutText, ReceiveFence, ReceiveUpdateHeader,
         ReceiveRect, ReceiveRows, ReceiveScreenCount, ReceiveScreens
<1>9. CASE CutTextLost \/ FenceLost \/ RowsLost \/ UpdateLost
  BY <1>3, <1>9 DEF CutTextLost, FenceLost, RowsLost, UpdateLost
<1>10. CASE \/ Peek \/ WriteSettings \/ Spin \/ BrokenPipe \/ PeekTimesOut \/ UNCHANGED vars
            \/ \E ok \in BOOLEAN :
                 ReplyToFence(ok) \/ EnableForSize(ok) \/ EnableContinuousUpdates(ok)
  BY <1>6, <1>10 DEF Peek, WriteSettings, Spin, BrokenPipe, PeekTimesOut, vars, ReplyToFence,
         EnableForSize, EnableContinuousUpdates, netVars
<1> QED
  BY <1>4, <1>5, <1>7, <1>8, <1>9, <1>10 DEF Next, ThreadGoesOn

FlagsTypeOK ==
  /\ supportsFence \in BOOLEAN /\ supportsCU \in BOOLEAN /\ enabledCU \in BOOLEAN
  /\ settings \in ScreenSizes
  /\ coveredByCU \in ScreenSizes \cup {NoSize}
  /\ serverUpdates \in BOOLEAN
  /\ enableFailed \in BOOLEAN

LEMMA FlagsTypeStep ==
  ASSUME FlagsTypeOK, PlaceTypeOK, [Next]_vars
  PROVE  FlagsTypeOK'
<1> USE DEF FlagsTypeOK
<1>1. CASE Peek
  BY <1>1 DEF Peek
<1>2. CASE \E ok \in BOOLEAN : EnableContinuousUpdates(ok)
  BY <1>2 DEF EnableContinuousUpdates
<1>3. CASE WriteSettings
  <2>1. place = "new size" /\ settings' = Head(rects).size
    BY <1>3 DEF WriteSettings
  <2>2. Head(rects) \in Rectangles /\ Head(rects).encoding = "size"
    BY <2>1, RectAtPlace DEF RectPlaces, PlaceTypeOK, AtMessage
  <2>3. settings' \in ScreenSizes
    BY <2>1, <2>2, RectTypes
  <2> QED
    BY <1>3, <2>3 DEF WriteSettings, flagVars, historyVars
<1>4. CASE \E ok \in BOOLEAN : EnableForSize(ok)
  BY <1>4 DEF EnableForSize, flagVars
<1>5. CASE \E m \in Messages : ServerSends(m)
  BY <1>5 DEF ServerSends, flagVars
<1>6. CASE \E how \in ConnectionEnds : ConnectionEnded(how)
  BY <1>6 DEF ConnectionEnded, flagVars
<1>7. CASE \E ok \in BOOLEAN : ReplyToFence(ok)
  BY <1>7 DEF ReplyToFence, flagVars
<1>8. CASE \/ PeekFails \/ PeekTimesOut \/ DiscardTypeByte \/ ReceiveCutText \/ CutTextLost
           \/ ReceiveFence \/ FenceLost \/ Spin \/ BrokenPipe \/ UNCHANGED vars
  BY <1>8 DEF PeekFails, PeekTimesOut, DiscardTypeByte, ReceiveCutText, CutTextLost,
         ReceiveFence, FenceLost, Spin, BrokenPipe, flagVars, historyVars, vars
<1>9. CASE \/ ReceiveUpdateHeader \/ ReceiveRect \/ ReceiveRows \/ RowsLost
           \/ ReceiveScreenCount \/ ReceiveScreens \/ UpdateLost
  BY <1>9 DEF ReceiveUpdateHeader, ReceiveRect, ReceiveRows, RowsLost, ReceiveScreenCount,
         ReceiveScreens, UpdateLost, flagVars, historyVars
<1> QED
  BY <1>1, <1>2, <1>3, <1>4, <1>5, <1>6, <1>7, <1>8, <1>9 DEF Next, ThreadGoesOn

BacklogTypeOK == backlog \in 0 .. MaxBacklog

LEMMA BacklogTypeStep ==
  ASSUME BacklogTypeOK, [Next]_vars
  PROVE  BacklogTypeOK'
<1> USE DEF BacklogTypeOK
<1>1. CASE ReceiveRows \/ RowsLost
  <2>1. RegisterDrawnRect
    BY <1>1 DEF ReceiveRows, RowsLost
  <2>2. MaxBacklog \in Nat /\ backlog \in Nat /\ backlog <= MaxBacklog
    BY SessionAssumption
  <2>3. CASE backlog = MaxBacklog
    BY <2>1, <2>3 DEF RegisterDrawnRect
  <2>4. CASE backlog # MaxBacklog
    <3>1. backlog' = backlog + 1
      BY <2>1, <2>4 DEF RegisterDrawnRect
    <3> QED
      BY <2>2, <2>4, <3>1
  <2> QED
    BY <2>3, <2>4
<1>2. CASE UNCHANGED fbVars
  BY <1>2 DEF fbVars
<1>3. CASE \/ Peek \/ PeekFails \/ PeekTimesOut \/ DiscardTypeByte \/ ReceiveCutText \/ CutTextLost
           \/ ReceiveFence \/ FenceLost \/ Spin \/ BrokenPipe \/ UNCHANGED vars
           \/ ReceiveUpdateHeader \/ ReceiveRect \/ ReceiveScreenCount \/ ReceiveScreens
           \/ UpdateLost \/ WriteSettings
           \/ \E ok \in BOOLEAN :
                ReplyToFence(ok) \/ EnableForSize(ok) \/ EnableContinuousUpdates(ok)
           \/ \E m \in Messages : ServerSends(m)
           \/ \E how \in ConnectionEnds : ConnectionEnded(how)
  <2>1. UNCHANGED fbVars
    BY <1>3 DEF Peek, PeekFails, PeekTimesOut, DiscardTypeByte, ReceiveCutText, CutTextLost,
           ReceiveFence, FenceLost, Spin, BrokenPipe, vars, ReceiveUpdateHeader, ReceiveRect,
           ReceiveScreenCount, ReceiveScreens, UpdateLost, WriteSettings, ReplyToFence,
           EnableForSize, EnableContinuousUpdates, ServerSends, ConnectionEnded, fbVars
  <2> QED
    BY <1>2, <2>1
<1> QED
  BY <1>1, <1>3 DEF Next, ThreadGoesOn

AskedTypeOK == asked \in Seq(Int)

LEMMA AskedTypeStep ==
  ASSUME AskedTypeOK, WireTypeOK, [Next]_vars
  PROVE  AskedTypeOK'
<1> USE DEF AskedTypeOK
<1>1. CASE \E m \in Messages : ServerSends(m)
  <2>1. PICK m \in Messages : asked' = asked \o FencesIn(<<m>>)
    BY <1>1 DEF ServerSends
  <2>2. FencesIn(<<m>>) \in Seq(Int)
    <3>1. <<m>> \in Seq(WireParts)
      BY DEF WireParts
    <3> QED
      BY <3>1, FencesInType
  <2> QED
    BY <2>1, <2>2
<1>2. CASE \E how \in ConnectionEnds : ConnectionEnded(how)
  <2>1. PICK how \in ConnectionEnds : ConnectionEnded(how)
    BY <1>2
  <2>2. \E n \in 0 .. Len(wire) :
          asked' = SubSeq(asked, 1, Len(asked) - Len(FencesIn(SubSeq(wire, n + 1, Len(wire)))))
    BY <2>1 DEF ConnectionEnded
  <2>3. PICK n \in 0 .. Len(wire) :
          asked' = SubSeq(asked, 1, Len(asked) - Len(FencesIn(SubSeq(wire, n + 1, Len(wire)))))
    BY <2>2
  <2> DEFINE cut == FencesIn(SubSeq(wire, n + 1, Len(wire)))
  <2>4. n \in Nat /\ Len(wire) \in Nat
    BY DEF WireTypeOK
  <2>5. cut \in Seq(Int)
    <3>1. wire \in Seq(WireParts) /\ Len(wire) <= Len(wire)
      BY <2>4 DEF WireTypeOK
    <3>2. SubSeq(wire, n + 1, Len(wire)) \in Seq(WireParts)
      BY <2>4, <3>1, Stretch
    <3> QED
      BY <3>2, FencesInType
  <2>6. Len(cut) \in Nat /\ Len(asked) \in Nat
    BY <2>5
  <2> DEFINE I == Int
             upto == Len(asked) - Len(cut)
  <2>7. \A i \in 1 .. upto : i \in 1 .. Len(asked)
    BY <2>6
  <2>8. upto \in Int /\ 1 \in Int
    BY <2>6
  <2>9. asked' = SubSeq(asked, 1, upto)
    BY <2>3
  <2> HIDE DEF cut, I, upto
  <2>10. asked \in Seq(I)
    BY DEF I
  <2>11. \A i \in 1 .. upto : asked[i] \in I
    BY <2>7, <2>10, ElementOfSeq
  <2>12. SubSeq(asked, 1, upto) \in Seq(I)
    BY <2>8, <2>11, SubSeqProperties
  <2> QED
    BY <2>9, <2>12 DEF I
<1>3. CASE \E ok \in BOOLEAN : ReplyToFence(ok)
  <2> DEFINE I == Int
  <2> HIDE DEF I
  <2>1. asked \in Seq(I) /\ asked # <<>> => Tail(asked) \in Seq(I)
    OBVIOUS
  <2>2. asked \in Seq(Int) /\ asked # <<>> => Tail(asked) \in Seq(Int)
    BY <2>1 DEF I
  <2>3. asked' = asked \/ (asked # <<>> /\ asked' = Tail(asked))
    BY <1>3 DEF ReplyToFence
  <2> QED
    BY <2>2, <2>3
<1>4. CASE UNCHANGED asked
  BY <1>4
<1>5. CASE \/ Peek \/ PeekFails \/ PeekTimesOut \/ DiscardTypeByte \/ ReceiveCutText \/ CutTextLost
           \/ ReceiveFence \/ FenceLost \/ Spin \/ BrokenPipe \/ UNCHANGED vars
           \/ ReceiveUpdateHeader \/ ReceiveRect \/ ReceiveRows \/ RowsLost \/ ReceiveScreenCount
           \/ ReceiveScreens \/ UpdateLost \/ WriteSettings
           \/ \E ok \in BOOLEAN : EnableForSize(ok) \/ EnableContinuousUpdates(ok)
  <2>1. UNCHANGED asked
    BY <1>5 DEF Peek, PeekFails, PeekTimesOut, DiscardTypeByte, ReceiveCutText, CutTextLost,
           ReceiveFence, FenceLost, Spin, BrokenPipe, vars, ReceiveUpdateHeader, ReceiveRect,
           ReceiveRows, RowsLost, ReceiveScreenCount, ReceiveScreens, UpdateLost, WriteSettings,
           EnableForSize, EnableContinuousUpdates, historyVars
  <2> QED
    BY <1>4, <2>1
<1> QED
  BY <1>1, <1>2, <1>3, <1>5 DEF Next, ThreadGoesOn

ThreadTypeOK ==
  WireTypeOK /\ PlaceTypeOK /\ FlagsTypeOK /\ BacklogTypeOK /\ AskedTypeOK

LEMMA ThreadTypeStep == ThreadTypeOK /\ [Next]_vars => ThreadTypeOK'
BY WireTypeStep, PlaceTypeStep, FlagsTypeStep, BacklogTypeStep, AskedTypeStep
DEF ThreadTypeOK, WireTypeOK

LEMMA ThreadTypeInit == Init => ThreadTypeOK
<1> SUFFICES ASSUME Init PROVE ThreadTypeOK
  OBVIOUS
<1>1. WireTypeOK /\ AskedTypeOK
  BY DEF Init, WireTypeOK, AskedTypeOK
<1>2. PlaceTypeOK
  <2>1. rects \in Seq(Rectangles)
    BY DEF Init
  <2>2. place = "peek" /\ message \in Messages \cup {Unknown}
    BY DEF Init
  <2> QED
    BY <2>1, <2>2 DEF PlaceTypeOK, AtMessage, RectPlaces
<1>3. FlagsTypeOK
  BY DEF Init, FlagsTypeOK
<1>4. BacklogTypeOK
  <2>1. 0 \in 0 .. MaxBacklog
    BY SessionAssumption
  <2>2. backlog = 0
    BY DEF Init
  <2> QED
    BY <2>1, <2>2 DEF BacklogTypeOK
<1> QED
  BY <1>1, <1>2, <1>3, <1>4 DEF ThreadTypeOK

(* The types, with parts lost and sends that fail: the backlog stays within  *)
(* its array, and the rectangles still to be handled are the last ones of    *)
(* the update the thread is at, however often it gave one up.                *)
THEOREM ThreadTypesCorrect == Spec => []TypeOK
<1>1. ThreadTypeOK => TypeOK
  BY DEF ThreadTypeOK, WireTypeOK, PlaceTypeOK, FlagsTypeOK, BacklogTypeOK, AskedTypeOK,
     TypeOK, WireParts, LastRects
<1> QED
  BY <1>1, ThreadTypeInit, ThreadTypeStep, PTL DEF Spec

-----------------------------------------------------------------------------
(* The thread's place in the stream.  From one part on, k parts of a message *)
(* and then the type byte of another, as far as the parts go.                *)
RestThenMessage(parts, from, k) ==
  /\ \A j \in 1 .. Len(parts) : from <= j /\ j < from + k => parts[j] = Rest
  /\ from + k <= Len(parts) => parts[from + k] # Rest

\* Every type byte is followed by the parts of its message, then by another.
Follows(parts) ==
  \A i \in 1 .. Len(parts) :
    parts[i] # Rest => RestThenMessage(parts, i + 1, PartsAfterType(parts[i]))

\* No message is cut off at the end.
Whole(parts, k) ==
  /\ k <= Len(parts)
  /\ \A i \in 1 .. Len(parts) : parts[i] # Rest => i + PartsAfterType(parts[i]) <= Len(parts)

\* The parts of its message the thread has not received yet.
Due ==
  LET screens == IF Head(rects).screens > 0 THEN 1 ELSE 0
      later   == PartsOfLast(message.rects)[Len(rects) - 1]
  IN  CASE place \in AfterPeek         -> 1 + PartsAfterType(message)
        [] place = "fence payload"     -> IF message.payload THEN 1 ELSE 0
        [] place = "cut text"          -> 1
        [] place = "rect"              -> PartsOfLast(message.rects)[Len(rects)]
        [] place = "rows"              -> Head(rects).rows + later
        [] place = "screen count"      -> 1 + screens + later
        [] place = "screens"           -> screens + later
        [] place = "new size"          -> later
        [] place = "enable for size"   -> later
        [] OTHER                       -> 0

InStep ==
  /\ Follows(wire)
  /\ IF place \in AfterPeek THEN wire # <<>> /\ wire[1] = message
     ELSE RestThenMessage(wire, 1, Due)
  /\ conn = "open" => Whole(wire, Due)

StepInv == place \notin Ended => InStep

LEMMA RectsDue ==
  ASSUME PlaceTypeOK, place \in RectPlaces
  PROVE  LET P == PartsOfLast(message.rects) IN
         /\ Len(rects) \in Nat \ {0}
         /\ P[0] = 0 /\ P[Len(rects)] \in Nat /\ P[Len(rects) - 1] \in Nat
         /\ P[Len(rects)] = P[Len(rects) - 1] + RectParts(Head(rects))
<1> DEFINE P == PartsOfLast(message.rects)
           u == message.rects
           n == Len(rects)
<1>1. u \in Seq(Rectangles) /\ Len(u) \in Nat
  BY RectAtPlace
<1>2. n \in 1 .. Len(u) /\ Head(rects) = u[Len(u) - n + 1]
  BY RectAtPlace, CurrentRect DEF PlaceTypeOK
<1>3. /\ P \in [0 .. Len(u) -> Nat] /\ P[0] = 0
      /\ \A i \in 1 .. Len(u) : P[i] = P[i - 1] + RectParts(u[Len(u) - i + 1])
  BY <1>1, PartsOfLastDef
<1> HIDE DEF P, u, n
<1>4. n \in 0 .. Len(u) /\ n - 1 \in 0 .. Len(u) /\ n \in Nat \ {0}
  BY <1>1, <1>2
<1> QED
  BY <1>2, <1>3, <1>4 DEF P, n, u

LEMMA DueType ==
  ASSUME PlaceTypeOK, place \notin Ended
  PROVE  Due \in Nat /\ Needed \in Nat /\ Needed <= Due
<1>1. CASE place \in AfterPeek
  <2>1. message \in Messages
    <3>1. message \in Messages \cup {Unknown} /\ message.type # "unknown"
      BY <1>1 DEF AfterPeek, PlaceTypeOK, AtMessage
    <3> QED
      BY <3>1 DEF Unknown
  <2>2. PartsAfterType(message) \in Nat
    BY <2>1, PartsAfterTypeType
  <2>3. ASSUME place # "type byte"
        PROVE  PartsAfterType(message) >= 1
    <3>1. CASE message.type = "update"
      <4>1. message.rects \in Seq(Rectangles)
        BY <2>1, <3>1, MessageTypes
      <4>2. Len(message.rects) \in 0 .. Len(message.rects)
        BY <4>1
      <4>3. PartsOfLast(message.rects)[Len(message.rects)] \in Nat
        BY <4>1, <4>2, PartsOfLastDef
      <4>4. PartsAfterType(message) = 1 + PartsOfLast(message.rects)[Len(message.rects)]
        BY <3>1 DEF PartsAfterType
      <4> QED
        BY <4>3, <4>4
    <3>2. CASE message.type # "update"
      <4>1. message.type \in {"fence", "cut text"}
        BY <1>1, <2>3, <3>2 DEF PlaceTypeOK, AtMessage, AfterPeek
      <4>2. \/ PartsAfterType(message) = 1 + (IF message.payload THEN 1 ELSE 0)
            \/ PartsAfterType(message) = 2
        BY <4>1 DEF PartsAfterType
      <4> QED
        BY <4>2
    <3> QED
      BY <3>1, <3>2
  <2>4. Due = 1 + PartsAfterType(message)
    BY <1>1 DEF Due, AfterPeek
  <2>5. Needed = 1 \/ (Needed = 2 /\ place # "type byte")
    BY <1>1 DEF Needed, AfterPeek
  <2>6. Needed = 1 \/ (Needed = 2 /\ PartsAfterType(message) >= 1)
    BY <2>3, <2>5
  <2> QED
    BY <2>2, <2>4, <2>6
<1>2. CASE place \in RectPlaces
  <2> DEFINE later == PartsOfLast(message.rects)[Len(rects) - 1]
             all == PartsOfLast(message.rects)[Len(rects)]
             screens == IF Head(rects).screens > 0 THEN 1 ELSE 0
  <2>1. Head(rects) \in Rectangles
    BY <1>2, RectAtPlace
  <2>2. later \in Nat /\ all = later + RectParts(Head(rects)) /\ RectParts(Head(rects)) \in Nat \ {0}
    BY <1>2, <2>1, RectsDue, RectPartsType
  <2>3. place = "rows" => Head(rects).rows \in Nat
    BY <2>1, RectTypes DEF PlaceTypeOK, AtMessage
  <2>4. screens \in Nat
    OBVIOUS
  <2>5. /\ place = "rect" => Due = all /\ Needed = 1
        /\ place = "rows" => Due = Head(rects).rows + later /\ Needed = Head(rects).rows
        /\ place = "screen count" => Due = 1 + screens + later /\ Needed = 1
        /\ place = "screens" => Due = screens + later /\ Needed = screens
        /\ place \in {"new size", "enable for size"} => Due = later /\ Needed = 0
    BY <1>2 DEF Due, Needed, RectPlaces, AfterPeek
  <2> HIDE DEF later, all, screens
  <2>6. CASE place = "rect"
    <3>1. Due = later + RectParts(Head(rects)) /\ Needed = 1
      BY <2>2, <2>5, <2>6
    <3> QED
      BY <2>2, <3>1
  <2>7. CASE place = "rows"
    <3>1. Head(rects).rows \in Nat /\ Due = Head(rects).rows + later /\ Needed = Head(rects).rows
      BY <2>3, <2>5, <2>7
    <3> QED
      BY <2>2, <3>1
  <2>8. CASE place \in {"screen count", "screens"}
    <3>1. (Due = 1 + screens + later /\ Needed = 1) \/ (Due = screens + later /\ Needed = screens)
      BY <2>5, <2>8
    <3> QED
      BY <2>2, <2>4, <3>1
  <2>9. CASE place \in {"new size", "enable for size"}
    <3>1. Due = later /\ Needed = 0
      BY <2>5, <2>9
    <3> QED
      BY <2>2, <3>1
  <2> QED
    BY <1>2, <2>6, <2>7, <2>8, <2>9 DEF RectPlaces
<1>3. CASE place \notin AfterPeek /\ place \notin RectPlaces
  <2>1. place \in {"peek", "tail", "fence reply", "fence payload", "cut text"}
    BY <1>3 DEF PlaceTypeOK, RectPlaces, AfterPeek, Reading
  <2>2. Due = Needed /\ (Needed = 0 \/ Needed = 1)
    BY <2>1 DEF Due, Needed, AfterPeek
  <2> QED
    BY <2>2
<1> QED
  BY <1>1, <1>2, <1>3

\* Without the first n parts.
LEMMA Dropped ==
  ASSUME NEW w \in Seq(WireParts), NEW n \in Nat, n <= Len(w)
  PROVE  LET v == SubSeq(w, n + 1, Len(w)) IN
         /\ Len(v) = Len(w) - n
         /\ Follows(w) => Follows(v)
         /\ \A k \in Nat : /\ RestThenMessage(w, n + 1, k) => RestThenMessage(v, 1, k)
                           /\ Whole(w, n + k) => Whole(v, k)
<1> DEFINE v == SubSeq(w, n + 1, Len(w))
<1>1. Len(w) \in Nat /\ w \in Seq(WireParts)
  OBVIOUS
<1>2. Len(v) = Len(w) - n /\ \A i \in 1 .. Len(w) - n : v[i] = w[n + i]
  <2>1. /\ Len(v) = IF n + 1 <= Len(w) THEN Len(w) - n ELSE 0
        /\ \A i \in 1 .. Len(w) - n : v[i] = w[n + i]
    BY <1>1, Stretch
  <2> HIDE DEF v
  <2> QED
    BY <1>1, <2>1
<1> HIDE DEF v
<1>3. ASSUME NEW from \in Nat, from >= 1, NEW k \in Nat, RestThenMessage(w, n + from, k)
      PROVE  RestThenMessage(v, from, k)
  <2>1. ASSUME NEW j \in 1 .. Len(v), from <= j, j < from + k
        PROVE  v[j] = Rest
    <3>1. n + j \in 1 .. Len(w) /\ n + from <= n + j /\ n + j < n + from + k /\ v[j] = w[n + j]
      BY <1>1, <1>2, <2>1
    <3> QED
      BY <1>3, <3>1 DEF RestThenMessage
  <2>2. ASSUME from + k <= Len(v)
        PROVE  v[from + k] # Rest
    <3>1. from + k \in 1 .. Len(w) - n /\ n + from + k <= Len(w) /\ n + (from + k) = n + from + k
      BY <1>1, <1>2, <1>3, <2>2
    <3>2. v[from + k] = w[n + from + k]
      BY <1>2, <3>1
    <3> QED
      BY <1>3, <3>1, <3>2 DEF RestThenMessage
  <2> QED
    BY <2>1, <2>2 DEF RestThenMessage
<1>4. ASSUME NEW i \in 1 .. Len(v), v[i] # Rest
      PROVE  /\ n + i \in 1 .. Len(w) /\ v[i] = w[n + i] /\ v[i] \in Messages
             /\ PartsAfterType(v[i]) \in Nat
  <2>1. n + i \in 1 .. Len(w) /\ v[i] = w[n + i]
    BY <1>1, <1>2
  <2>2. w[n + i] \in WireParts
    BY <1>1, <2>1, ElementOfSeq
  <2>3. v[i] \in Messages
    BY <1>4, <2>1, <2>2 DEF WireParts
  <2> QED
    BY <2>1, <2>3, PartsAfterTypeType
<1>5. ASSUME Follows(w)
      PROVE  Follows(v)
  <2> SUFFICES ASSUME NEW i \in 1 .. Len(v), v[i] # Rest
               PROVE  RestThenMessage(v, i + 1, PartsAfterType(v[i]))
    BY DEF Follows
  <2>1. RestThenMessage(w, (n + i) + 1, PartsAfterType(v[i]))
    BY <1>4, <1>5 DEF Follows
  <2>2. (n + i) + 1 = n + (i + 1) /\ i + 1 \in Nat /\ i + 1 >= 1
    OBVIOUS
  <2> QED
    BY <1>3, <1>4, <2>1, <2>2
<1>6. ASSUME NEW k \in Nat, Whole(w, n + k)
      PROVE  Whole(v, k)
  <2>1. k <= Len(v)
    BY <1>1, <1>2, <1>6 DEF Whole
  <2>2. ASSUME NEW i \in 1 .. Len(v), v[i] # Rest
        PROVE  i + PartsAfterType(v[i]) <= Len(v)
    <3>1. (n + i) + PartsAfterType(v[i]) <= Len(w)
      BY <1>4, <1>6, <2>2 DEF Whole
    <3>2. PartsAfterType(v[i]) \in Nat
      BY <1>4, <2>2
    <3> QED
      BY <1>1, <1>2, <3>1, <3>2
  <2> QED
    BY <2>1, <2>2 DEF Whole
<1> QED
  BY <1>2, <1>3, <1>5, <1>6 DEF v

\* The first n parts.
LEMMA Kept ==
  ASSUME NEW w \in Seq(WireParts), NEW n \in Nat, n <= Len(w)
  PROVE  LET v == SubSeq(w, 1, n) IN
         /\ Len(v) = n /\ \A i \in 1 .. n : v[i] = w[i]
         /\ Follows(w) => Follows(v)
         /\ \A k \in Nat : RestThenMessage(w, 1, k) => RestThenMessage(v, 1, k)
<1> DEFINE v == SubSeq(w, 1, n)
<1>1. Len(w) \in Nat /\ 0 \in Nat /\ 0 + 1 = 1
  OBVIOUS
<1>2. Len(v) = n /\ \A i \in 1 .. n : v[i] = w[i]
  <2>1. /\ Len(v) = IF 1 <= n THEN n - 0 ELSE 0
        /\ \A i \in 1 .. n - 0 : v[i] = w[0 + i]
    BY <1>1, Stretch
  <2>2. n - 0 = n /\ \A i \in 1 .. n : 0 + i = i
    OBVIOUS
  <2> HIDE DEF v
  <2> QED
    BY <2>1, <2>2
<1> HIDE DEF v
<1>3. ASSUME NEW from \in Nat, from >= 1, NEW k \in Nat, RestThenMessage(w, from, k)
      PROVE  RestThenMessage(v, from, k)
  <2>1. \A j \in 1 .. n : j \in 1 .. Len(w)
    BY <1>1
  <2>2. from + k <= n => from + k \in 1 .. n /\ from + k <= Len(w)
    BY <1>1, <1>3
  <2> QED
    BY <1>2, <1>3, <2>1, <2>2 DEF RestThenMessage
<1>4. ASSUME Follows(w)
      PROVE  Follows(v)
  <2> SUFFICES ASSUME NEW i \in 1 .. n, v[i] # Rest
               PROVE  RestThenMessage(v, i + 1, PartsAfterType(v[i]))
    BY <1>2 DEF Follows
  <2>1. i \in 1 .. Len(w) /\ v[i] = w[i]
    BY <1>1, <1>2
  <2>2. v[i] \in Messages
    <3>1. w[i] \in WireParts
      BY <2>1, ElementOfSeq
    <3> QED
      BY <2>1, <3>1 DEF WireParts
  <2>3. PartsAfterType(v[i]) \in Nat
    BY <2>2, PartsAfterTypeType
  <2>4. RestThenMessage(w, i + 1, PartsAfterType(v[i]))
    BY <1>4, <2>1 DEF Follows
  <2>5. i + 1 \in Nat /\ i + 1 >= 1
    OBVIOUS
  <2> QED
    BY <1>3, <2>3, <2>4, <2>5
<1>5. 1 \in Nat /\ 1 >= 1
  OBVIOUS
<1> QED
  BY <1>2, <1>3, <1>4, <1>5 DEF v

LEMMA LessRest ==
  ASSUME NEW w, NEW from \in Nat, NEW k \in Nat, NEW n \in Nat, n <= k,
         Len(w) \in Nat, RestThenMessage(w, from, k)
  PROVE  RestThenMessage(w, from + n, k - n)
<1>1. (from + n) + (k - n) = from + k
  OBVIOUS
<1>2. \A j \in 1 .. Len(w) : from + n <= j => from <= j
  OBVIOUS
<1> QED
  BY <1>1, <1>2 DEF RestThenMessage

\* One more message at the end.
LEMMA OneMoreMessage ==
  ASSUME NEW w \in Seq(WireParts), NEW m \in Messages, NEW k \in Nat, Whole(w, k), Follows(w)
  PROVE  LET v == w \o Parts(m) IN
         /\ Follows(v) /\ Whole(v, k)
         /\ RestThenMessage(w, 1, k) => RestThenMessage(v, 1, k)
         /\ w # <<>> => v # <<>> /\ v[1] = w[1]
<1> DEFINE W == WireParts
           ps == Parts(m)
           v == w \o ps
           l == Len(w)
           p == PartsAfterType(m)
<1>1. /\ ps \in Seq(W) /\ Len(ps) = 1 + p /\ ps[1] = m /\ p \in Nat
      /\ \A i \in 2 .. 1 + p : ps[i] = Rest
  BY PartsProperties, PartsAfterTypeType
<1>2. w \in Seq(W) /\ l \in Nat /\ m # Rest
  <2>1. m # Rest
    BY MessageTypes
  <2> QED
    BY <2>1
<1> HIDE DEF W, ps, p
<1>3. /\ Len(v) = l + (1 + p)
      /\ \A i \in 1 .. l + (1 + p) : v[i] = IF i <= l THEN w[i] ELSE ps[i - l]
  <2>1. /\ Len(w \o ps) = Len(w) + Len(ps)
        /\ \A i \in 1 .. Len(w) + Len(ps) :
             (w \o ps)[i] = IF i <= Len(w) THEN w[i] ELSE ps[i - Len(w)]
    BY <1>1, <1>2, ConcatProperties
  <2> QED
    BY <1>1, <2>1
<1> HIDE DEF v
<1>4. \A i \in 1 .. l : i \in 1 .. Len(v) /\ v[i] = w[i]
  BY <1>1, <1>2, <1>3
<1>5. l + 1 \in 1 .. Len(v) /\ v[l + 1] = m
  <2>1. l + 1 \in 1 .. l + (1 + p) /\ ~(l + 1 <= l) /\ (l + 1) - l = 1
    BY <1>1, <1>2
  <2> QED
    BY <1>1, <1>3, <2>1
<1>6. \A i \in 1 .. Len(v) : i > l + 1 => v[i] = Rest
  <2>1. \A i \in 1 .. l + (1 + p) : i > l + 1 => ~(i <= l) /\ i - l \in 2 .. 1 + p
    BY <1>1, <1>2
  <2> QED
    BY <1>1, <1>3, <2>1
<1> HIDE DEF l
<1>7. ASSUME NEW from \in Nat, from >= 1, NEW c \in Nat, from + c <= l + 1,
             RestThenMessage(w, from, c)
      PROVE  RestThenMessage(v, from, c)
  <2>1. ASSUME NEW j \in 1 .. Len(v), from <= j, j < from + c
        PROVE  v[j] = Rest
    <3>1. j \in 1 .. l /\ v[j] = w[j]
      BY <1>1, <1>2, <1>3, <1>4, <1>7, <2>1
    <3> QED
      BY <1>7, <2>1, <3>1 DEF RestThenMessage, l
  <2>2. v[from + c] # Rest
    <3>1. CASE from + c = l + 1
      BY <1>2, <1>5, <3>1
    <3>2. CASE from + c # l + 1
      <4>1. from + c \in 1 .. l /\ from + c <= l
        BY <1>2, <1>7, <3>2
      <4>2. v[from + c] = w[from + c]
        BY <1>4, <4>1
      <4> QED
        BY <1>7, <4>1, <4>2 DEF RestThenMessage, l
    <3> QED
      BY <3>1, <3>2
  <2> QED
    BY <2>1, <2>2 DEF RestThenMessage
<1>8. \A i \in 1 .. Len(v) : i \in 1 .. l \/ i = l + 1 \/ i > l + 1
  BY <1>1, <1>2, <1>3
<1>9. ASSUME NEW i \in 1 .. l, w[i] # Rest
      PROVE  i + PartsAfterType(w[i]) <= l /\ PartsAfterType(w[i]) \in Nat
  <2>1. w[i] \in Messages
    <3>1. w[i] \in WireParts
      BY ElementOfSeq DEF l
    <3> QED
      BY <1>9, <3>1 DEF WireParts
  <2> QED
    BY <1>9, <2>1, PartsAfterTypeType DEF Whole, l
<1>10. Follows(v)
  <2> SUFFICES ASSUME NEW i \in 1 .. Len(v), v[i] # Rest
               PROVE  RestThenMessage(v, i + 1, PartsAfterType(v[i]))
    BY DEF Follows
  <2>1. CASE i \in 1 .. l
    <3>1. v[i] = w[i]
      BY <1>4, <2>1
    <3>2. RestThenMessage(w, i + 1, PartsAfterType(w[i]))
      BY <2>1, <3>1 DEF Follows, l
    <3>3. /\ i + 1 \in Nat /\ i + 1 >= 1 /\ PartsAfterType(w[i]) \in Nat
          /\ (i + 1) + PartsAfterType(w[i]) <= l + 1
      <4>1. i + PartsAfterType(w[i]) <= l /\ PartsAfterType(w[i]) \in Nat
        BY <1>9, <2>1, <3>1
      <4> QED
        BY <1>2, <4>1
    <3> QED
      BY <1>7, <3>1, <3>2, <3>3
  <2>2. CASE i = l + 1
    <3>1. v[i] = m
      BY <1>5, <2>2
    <3>2. ~((i + 1) + p <= Len(v))
      BY <1>1, <1>2, <1>3, <2>2
    <3>3. \A j \in 1 .. Len(v) : i + 1 <= j => j > l + 1
      BY <1>2, <2>2
    <3> QED
      BY <1>6, <3>1, <3>2, <3>3 DEF RestThenMessage, p
  <2> QED
    BY <1>6, <1>8, <2>1, <2>2
<1>11. Whole(v, k)
  <2>1. k <= Len(v)
    <3>1. k <= l
      BY DEF Whole, l
    <3> QED
      BY <1>1, <1>2, <1>3, <3>1
  <2>2. ASSUME NEW i \in 1 .. Len(v), v[i] # Rest
        PROVE  i + PartsAfterType(v[i]) <= Len(v)
    <3>1. CASE i \in 1 .. l
      <4>1. v[i] = w[i] /\ i + PartsAfterType(w[i]) <= l /\ PartsAfterType(w[i]) \in Nat
        BY <1>4, <1>9, <2>2, <3>1
      <4>2. i + PartsAfterType(w[i]) <= Len(v)
        BY <1>1, <1>2, <1>3, <4>1
      <4> QED
        BY <4>1, <4>2
    <3>2. CASE i = l + 1
      <4>1. v[i] = m /\ (l + 1) + p <= Len(v)
        BY <1>1, <1>2, <1>3, <1>5, <3>2
      <4> QED
        BY <3>2, <4>1 DEF p
    <3> QED
      BY <1>6, <1>8, <2>2, <3>1, <3>2
  <2> QED
    BY <2>1, <2>2 DEF Whole
<1>12. ASSUME RestThenMessage(w, 1, k)
       PROVE  RestThenMessage(v, 1, k)
  <2>1. k <= l
    BY DEF Whole, l
  <2>2. 1 \in Nat /\ 1 >= 1 /\ 1 + k <= l + 1
    BY <1>2, <2>1
  <2> QED
    BY <1>7, <1>12, <2>2
<1>13. ASSUME w # <<>>
       PROVE  v # <<>> /\ v[1] = w[1]
  <2>1. l # 0
    BY <1>2, <1>13, EmptySeq DEF l
  <2>2. 1 \in 1 .. l /\ Len(v) # 0
    BY <1>1, <1>2, <1>3, <2>1
  <2> QED
    BY <1>4, <2>2
<1> QED
  BY <1>10, <1>11, <1>12, <1>13 DEF v, ps

\* The message that was peeked is the first part; nothing of it is received.
LEMMA AtTypeByte ==
  ASSUME WireTypeOK, PlaceTypeOK, place \in AfterPeek, InStep
  PROVE  /\ message \in Messages /\ PartsAfterType(message) \in Nat
         /\ Len(wire) \in Nat /\ 1 \in 1 .. Len(wire)
         /\ RestThenMessage(wire, 2, PartsAfterType(message))
         /\ Due = 1 + PartsAfterType(message)
         /\ Needed >= 1
<1>1. message \in Messages
  <2>1. message \in Messages \cup {Unknown} /\ message.type # "unknown"
    BY DEF AfterPeek, PlaceTypeOK, AtMessage
  <2> QED
    BY <2>1 DEF Unknown
<1>2. PartsAfterType(message) \in Nat /\ message # Rest
  BY <1>1, PartsAfterTypeType, MessageTypes
<1>3. Len(wire) \in Nat /\ 1 \in 1 .. Len(wire)
  <2>1. wire \in Seq(WireParts) /\ wire # <<>>
    BY DEF WireTypeOK, InStep
  <2>2. Len(wire) \in Nat /\ Len(wire) # 0
    BY <2>1
  <2> QED
    BY <2>2
<1>4. RestThenMessage(wire, 1 + 1, PartsAfterType(message))
  BY <1>2, <1>3 DEF InStep, Follows
<1>5. 1 + 1 = 2
  OBVIOUS
<1>6. Due = 1 + PartsAfterType(message)
  BY DEF Due, AfterPeek
<1>7. Needed = 1 \/ Needed = 2
  BY DEF Needed, AfterPeek
<1>8. Needed >= 1
  BY <1>7
<1> QED
  BY <1>1, <1>2, <1>3, <1>4, <1>5, <1>6, <1>8

LEMMA ReceivedInStep ==
  ASSUME WireTypeOK, PlaceTypeOK, place \notin Ended, InStep, Received,
         Due' = Due - Needed, place' \notin AfterPeek
  PROVE  InStep'
<1> DEFINE n == Needed
           k == Due - Needed
<1>1. n \in Nat /\ k \in Nat /\ n + k = Due /\ n <= Due
  BY DueType
<1>2. wire \in Seq(WireParts) /\ n <= Len(wire) /\ Len(wire) \in Nat
  BY DEF WireTypeOK, Received
<1>3. wire' = SubSeq(wire, n + 1, Len(wire)) /\ UNCHANGED conn
  BY DEF Received
<1>4. RestThenMessage(wire, n + 1, k)
  <2>1. CASE place \in AfterPeek
    <3>1. /\ PartsAfterType(message) \in Nat /\ RestThenMessage(wire, 2, PartsAfterType(message))
          /\ Due = 1 + PartsAfterType(message) /\ n >= 1
      BY <2>1, AtTypeByte
    <3>2. /\ n - 1 \in Nat /\ n - 1 <= PartsAfterType(message) /\ 2 + (n - 1) = n + 1
          /\ PartsAfterType(message) - (n - 1) = k
      BY <1>1, <3>1
    <3> HIDE DEF n, k
    <3>3. RestThenMessage(wire, 2 + (n - 1), PartsAfterType(message) - (n - 1))
      BY <1>2, <3>1, <3>2, LessRest
    <3> QED
      BY <3>2, <3>3
  <2>2. CASE place \notin AfterPeek
    <3>1. RestThenMessage(wire, 1, Due) /\ 1 + n = n + 1 /\ Due \in Nat /\ Due - n = k
      BY <1>1, <2>2, DueType DEF InStep
    <3> HIDE DEF n, k
    <3>2. RestThenMessage(wire, 1 + n, Due - n)
      BY <1>1, <1>2, <3>1, LessRest
    <3> QED
      BY <3>1, <3>2
  <2> QED
    BY <2>1, <2>2
<1> HIDE DEF n, k
<1>5. /\ Follows(wire) => Follows(wire')
      /\ RestThenMessage(wire', 1, k)
      /\ Whole(wire, n + k) => Whole(wire', k)
  BY <1>1, <1>2, <1>3, <1>4, Dropped
<1>6. Due' = k
  BY DEF k, n
<1> QED
  BY <1>1, <1>3, <1>5, <1>6 DEF InStep

\* Without a slow network, no read of a connection that is open times out.
LEMMA NothingLost ==
  ASSUME ~SlowNetwork, WireTypeOK, PlaceTypeOK, place \notin Ended, InStep, NotReceived
  PROVE  wire' = <<>> /\ conn' = "eof" /\ conn # "open" /\ Len(wire) < Needed
<1>1. Needed \in Nat /\ Due \in Nat /\ Needed <= Due /\ Len(wire) \in Nat
  BY DueType DEF WireTypeOK
<1>2. ~TimedOut
  <2> SUFFICES ASSUME TimedOut PROVE FALSE
    OBVIOUS
  <2>1. Len(wire) < Needed /\ conn = "open"
    BY DEF TimedOut
  <2>2. Due <= Len(wire)
    BY <2>1 DEF InStep, Whole
  <2> QED
    BY <1>1, <2>1, <2>2
<1> QED
  BY <1>2 DEF NotReceived, ResetReported

LEMMA EmptyWire ==
  ASSUME wire' = <<>>, conn' # "open", place' \notin AfterPeek, Due' \in Nat
  PROVE  InStep'
<1>1. Len(<<>>) = 0
  OBVIOUS
<1>2. ~ \E i : i \in 1 .. Len(<<>>)
  BY <1>1
<1>3. Follows(<<>>)
  BY <1>2 DEF Follows
<1>4. ASSUME NEW k \in Nat
      PROVE  RestThenMessage(<<>>, 1, k)
  <2>1. ~(1 + k <= Len(<<>>))
    BY <1>1
  <2> QED
    BY <1>2, <2>1 DEF RestThenMessage
<1> QED
  BY <1>3, <1>4 DEF InStep

\* What is due does not change while the thread computes.
LEMMA SamePartsDue ==
  ASSUME InStep, UNCHANGED netVars, Due' = Due, place \notin AfterPeek, place' \notin AfterPeek
  PROVE  InStep'
BY DEF InStep, netVars

\* After a rectangle the later ones are due.
LEMMA LaterRectsDue ==
  ASSUME PlaceTypeOK, place \in RectPlaces, UNCHANGED message, StartRects(Tail(rects))
  PROVE  /\ place' \in {"tail", "rect"}
         /\ Due' = PartsOfLast(message.rects)[Len(rects) - 1]
<1> DEFINE P == PartsOfLast(message.rects)
<1>1. rects' = Tail(rects) /\ place' = IF Tail(rects) = <<>> THEN "tail" ELSE "rect"
  BY DEF StartRects, Goto
<1>2. P[0] = 0 /\ Len(rects) \in Nat \ {0}
  BY RectsDue
<1>3. Len(Tail(rects)) = Len(rects) - 1
  BY RectAtPlace, CurrentRect DEF PlaceTypeOK
<1>4. Tail(rects) = <<>> => Len(rects) - 1 = 0
  <2>1. Len(<<>>) = 0
    OBVIOUS
  <2> QED
    BY <1>3, <2>1
<1>5. CASE Tail(rects) = <<>>
  <2>1. Due' = 0 /\ place' = "tail"
    BY <1>1, <1>5 DEF Due, AfterPeek
  <2> QED
    BY <1>2, <1>4, <1>5, <2>1
<1>6. CASE Tail(rects) # <<>>
  <2>1. Due' = P[Len(Tail(rects))] /\ place' = "rect"
    BY <1>1, <1>6 DEF Due, AfterPeek
  <2> QED
    BY <1>3, <2>1
<1> QED
  BY <1>5, <1>6

LEMMA HeaderDue ==
  ASSUME PlaceTypeOK,
         DiscardTypeByte \/ ReceiveCutText \/ ReceiveFence \/ ReceiveUpdateHeader
  PROVE  Due' = Due - Needed /\ place' \notin AfterPeek
<1> USE DEF Goto
<1>1. CASE DiscardTypeByte
  <2>1. place = "type byte" /\ place' = "tail"
    BY <1>1 DEF DiscardTypeByte
  <2>2. PartsAfterType(message) = 0
    BY <2>1 DEF PartsAfterType, PlaceTypeOK, AtMessage
  <2>3. Due = 1 + PartsAfterType(message) /\ Needed = 1 /\ Due' = 0 /\ place' \notin AfterPeek
    BY <2>1 DEF Due, Needed, AfterPeek
  <2> QED
    BY <2>2, <2>3
<1>2. CASE ReceiveCutText
  <2>0. \/ place = "cut header" /\ place' = "cut text"
        \/ place = "cut text" /\ place' = "tail"
    BY <1>2 DEF ReceiveCutText
  <2>1. message.type = "cut text"
    BY <2>0 DEF PlaceTypeOK, AtMessage
  <2>2. PartsAfterType(message) = 2
    BY <2>1 DEF PartsAfterType
  <2>3. /\ \/ Due = 1 + PartsAfterType(message) /\ Needed = 2 /\ Due' = 1
           \/ Due = 1 /\ Needed = 1 /\ Due' = 0
        /\ place' \notin AfterPeek
    BY <2>0 DEF Due, Needed, AfterPeek
  <2> QED
    BY <2>2, <2>3
<1>3. CASE ReceiveFence
  <2> DEFINE payload == IF message.payload THEN 1 ELSE 0
  <2>1. /\ \/ place = "fence header" /\ place' = "fence payload"
           \/ place = "fence payload" /\ place' \in {"fence reply", "peek"}
        /\ message.type = "fence" /\ UNCHANGED message
    BY <1>3 DEF ReceiveFence, PlaceTypeOK, AtMessage
  <2>2. PartsAfterType(message) = 1 + payload /\ payload \in {0, 1}
    BY <2>1 DEF PartsAfterType
  <2>3. /\ \/ Due = 1 + PartsAfterType(message) /\ Needed = 2 /\ Due' = payload
           \/ Due = payload /\ Needed = payload /\ Due' = 0
        /\ place' \notin AfterPeek
    BY <2>1 DEF Due, Needed, AfterPeek
  <2> HIDE DEF payload
  <2>4. payload \in Int
    BY <2>2
  <2> QED
    BY <2>2, <2>3, <2>4
<1>4. CASE ReceiveUpdateHeader
  <2> DEFINE all == PartsOfLast(message.rects)[Len(message.rects)]
  <2>1. /\ place = "update header" /\ UNCHANGED message /\ rects' = message.rects
        /\ place' = IF message.rects = <<>> THEN "tail" ELSE "rect"
        /\ message.type = "update" /\ message \in Messages \cup {Unknown}
    BY <1>4 DEF ReceiveUpdateHeader, StartRects, PlaceTypeOK, AtMessage
  <2>2. message.rects \in Seq(Rectangles)
    BY <2>1, MessageTypes
  <2>3. PartsOfLast(message.rects)[0] = 0 /\ all \in Nat
    <3>1. Len(message.rects) \in 0 .. Len(message.rects)
      BY <2>2
    <3> QED
      BY <2>2, <3>1, PartsOfLastDef
  <2>4. message.rects = <<>> => all = 0
    <3>1. Len(<<>>) = 0
      OBVIOUS
    <3> QED
      BY <2>3, <3>1
  <2>5. PartsAfterType(message) = 1 + all
    BY <2>1 DEF PartsAfterType
  <2>6. /\ Due = 1 + PartsAfterType(message) /\ Needed = 2
        /\ (message.rects = <<>> /\ Due' = 0) \/ Due' = all
        /\ place' \notin AfterPeek
    BY <2>1 DEF Due, Needed, AfterPeek
  <2>7. Due' = all
    BY <2>4, <2>6
  <2> HIDE DEF all
  <2> QED
    BY <2>3, <2>5, <2>6, <2>7
<1> QED
  BY <1>1, <1>2, <1>3, <1>4

LEMMA RectDue ==
  ASSUME PlaceTypeOK, place' \notin Ended,
         ReceiveRect \/ ReceiveRows \/ ReceiveScreenCount \/ ReceiveScreens
  PROVE  Due' = Due - Needed /\ place' \notin AfterPeek
<1> USE DEF Goto
<1> DEFINE later == PartsOfLast(message.rects)[Len(rects) - 1]
           all == PartsOfLast(message.rects)[Len(rects)]
           screens == IF Head(rects).screens > 0 THEN 1 ELSE 0
           rows == Head(rects).rows
<1>1. place \in RectPlaces /\ UNCHANGED message
  BY DEF ReceiveRect, ReceiveRows, ReceiveScreenCount, ReceiveScreens, RectPlaces
<1>2. later \in Nat /\ all = later + RectParts(Head(rects)) /\ Head(rects) \in Rectangles
  BY <1>1, RectsDue, RectAtPlace
<1>3. screens \in {0, 1}
  OBVIOUS
<1>4. CASE ReceiveRect
  <2>1. /\ place = "rect" /\ UNCHANGED <<message, rects>>
        /\ \/ place' = "screen count" /\ Head(rects).encoding = "size"
           \/ place' = "rows" /\ Head(rects).encoding = "raw"
    BY <1>4 DEF ReceiveRect, Ended
  <2>2. Due = all /\ Needed = 1
    BY <2>1 DEF Due, Needed, AfterPeek
  <2>3. CASE Head(rects).encoding = "size"
    <3>1. RectParts(Head(rects)) = 1 + (1 + screens)
      BY <2>3 DEF RectParts
    <3>2. Due' = 1 + screens + later /\ place' \notin AfterPeek
      BY <2>1, <2>3 DEF Due, AfterPeek
    <3> HIDE DEF screens, later, all
    <3> QED
      BY <1>2, <1>3, <2>2, <3>1, <3>2
  <2>4. CASE Head(rects).encoding = "raw"
    <3>1. RectParts(Head(rects)) = 1 + rows /\ rows \in Nat
      BY <1>2, <2>4, RectTypes DEF RectParts
    <3>2. Due' = rows + later /\ place' \notin AfterPeek
      BY <2>1, <2>4 DEF Due, AfterPeek
    <3> HIDE DEF rows, later, all
    <3> QED
      BY <1>2, <2>2, <3>1, <3>2
  <2> QED
    BY <2>1, <2>3, <2>4
<1>5. CASE ReceiveRows
  <2>1. place = "rows" /\ StartRects(Tail(rects))
    BY <1>5 DEF ReceiveRows
  <2>2. rows \in Nat
    BY <1>2, <2>1, RectTypes DEF PlaceTypeOK, AtMessage
  <2>3. Due = rows + later /\ Needed = rows
    BY <2>1 DEF Due, Needed, AfterPeek
  <2>4. Due' = later /\ place' \in {"tail", "rect"}
    BY <1>1, <2>1, LaterRectsDue
  <2>5. place' \notin AfterPeek
    BY <2>4 DEF AfterPeek
  <2> HIDE DEF rows, later
  <2>6. Due' = Due - Needed
    <3>1. Due' = later
      BY <2>4
    <3> QED
      BY <1>2, <2>2, <2>3, <3>1
  <2> QED
    BY <2>5, <2>6
<1>6. CASE ReceiveScreenCount
  <2>1. place = "screen count" /\ place' = "screens" /\ UNCHANGED <<message, rects>>
    BY <1>6 DEF ReceiveScreenCount, Ended
  <2>2. Due = 1 + screens + later /\ Needed = 1
    BY <2>1 DEF Due, Needed, AfterPeek
  <2>3. Due' = screens + later /\ place' \notin AfterPeek
    BY <2>1 DEF Due, AfterPeek
  <2> HIDE DEF screens, later
  <2> QED
    BY <1>2, <1>3, <2>2, <2>3
<1>7. CASE ReceiveScreens
  <2>1. place = "screens"
    BY <1>7 DEF ReceiveScreens
  <2>2. Due = screens + later /\ Needed = screens
    BY <2>1 DEF Due, Needed, AfterPeek
  <2>3. Due' = later /\ place' \notin AfterPeek
    <3>1. CASE StartRects(Tail(rects))
      BY <1>1, <3>1, LaterRectsDue DEF AfterPeek
    <3>2. CASE place' = "new size" /\ UNCHANGED rects
      BY <1>1, <3>2 DEF Due, AfterPeek
    <3> QED
      BY <1>7, <3>1, <3>2 DEF ReceiveScreens
  <2> HIDE DEF screens, later
  <2> QED
    BY <1>2, <1>3, <2>2, <2>3
<1> QED
  BY <1>4, <1>5, <1>6, <1>7

LEMMA NotEndedBefore ==
  ASSUME [Next]_vars, place' \notin Ended
  PROVE  place \notin Ended
<1>1. ASSUME UNCHANGED place
      PROVE  place \notin Ended
  BY <1>1
<1>2. CASE ThreadGoesOn
  BY <1>2 DEF ThreadGoesOn, Ended, Reading, Peek, PeekFails, DiscardTypeByte, ReceiveCutText,
     CutTextLost, ReceiveFence, FenceLost, ReceiveUpdateHeader, ReceiveRect, ReceiveRows, RowsLost,
     ReceiveScreenCount, ReceiveScreens, UpdateLost, WriteSettings, ReplyToFence, EnableForSize,
     EnableContinuousUpdates, Spin, BrokenPipe
<1>3. CASE \/ PeekTimesOut \/ UNCHANGED vars \/ \E m \in Messages : ServerSends(m)
           \/ \E how \in ConnectionEnds : ConnectionEnded(how)
  BY <1>1, <1>3 DEF PeekTimesOut, vars, ServerSends, ConnectionEnded
<1> QED
  BY <1>2, <1>3 DEF Next

\* Between two messages the first part is the type byte of a message.
LEMMA AtBoundary ==
  ASSUME WireTypeOK, InStep, place = "peek", wire # <<>>
  PROVE  /\ wire[1] \in Messages /\ Head(wire) = wire[1]
         /\ Head(wire).type # "rest" /\ 1 \in 1 .. Len(wire)
<1>1. wire \in Seq(WireParts)
  BY DEF WireTypeOK
<1>2. Len(wire) \in Nat /\ Len(wire) # 0
  BY <1>1, EmptySeq
<1>3. 1 \in 1 .. Len(wire) /\ 1 + 0 = 1
  BY <1>2
<1>4. RestThenMessage(wire, 1, 0)
  <2>1. Due = 0 /\ place \notin AfterPeek
    BY DEF Due, AfterPeek
  <2> QED
    BY <2>1 DEF InStep
<1>5. wire[1] # Rest
  BY <1>3, <1>4 DEF RestThenMessage
<1>6. wire[1] \in WireParts
  BY <1>1, <1>3, ElementOfSeq
<1>7. wire[1] \in Messages
  BY <1>5, <1>6 DEF WireParts
<1>8. Head(wire) = wire[1]
  BY <1>1
<1>9. wire[1].type # "rest"
  BY <1>7, MessageTypes
<1> QED
  BY <1>3, <1>7, <1>8, <1>9

LEMMA PeekInStep ==
  ASSUME WireTypeOK, InStep, Peek
  PROVE  /\ place' \in AfterPeek /\ message' = wire[1] /\ message' \in Messages
         /\ InStep'
<1>1. /\ place = "peek" /\ wire # <<>> /\ UNCHANGED netVars
      /\ \E m \in Peeked : message' = m /\ place' = FirstRead(m)
  BY DEF Peek, Goto
<1>2. /\ wire[1] \in Messages /\ Head(wire) = wire[1] /\ Head(wire).type # "rest"
      /\ 1 \in 1 .. Len(wire)
  BY <1>1, AtBoundary
<1>3. message' = wire[1] /\ place' = FirstRead(wire[1])
  BY <1>1, <1>2 DEF Peeked
<1>4. place' \in AfterPeek
  <2>1. wire[1].type \in {"fence", "eocu", "bell", "cut text", "update"}
    BY <1>2, MessageTypes
  <2> QED
    BY <1>3, <2>1 DEF FirstRead, AfterPeek
<1>5. Due' = 1 + PartsAfterType(wire[1])
  <2>1. Due' = 1 + PartsAfterType(message')
    BY <1>4 DEF Due, AfterPeek
  <2> QED
    BY <1>3, <2>1
<1>6. wire[1] # Rest
  BY <1>2, MessageTypes
<1>7. Whole(wire, 0) => Whole(wire, 1 + PartsAfterType(wire[1]))
  BY <1>2, <1>6 DEF Whole
<1>8. Due = 0
  BY <1>1 DEF Due, AfterPeek
<1>9. wire' = wire /\ conn' = conn
  BY <1>1 DEF netVars
<1> QED
  BY <1>1, <1>2, <1>3, <1>4, <1>5, <1>7, <1>8, <1>9 DEF InStep

LEMMA LostInStep ==
  ASSUME ~SlowNetwork, WireTypeOK, PlaceTypeOK, place \notin Ended, InStep, NotReceived,
         place' \in {"peek", "tail"}
  PROVE  InStep'
<1>1. Due' = 0 /\ place' \notin AfterPeek
  BY DEF Due, AfterPeek
<1>2. wire' = <<>> /\ conn' # "open"
  BY NothingLost
<1> QED
  BY <1>1, <1>2, EmptyWire

LEMMA StepInvStep ==
  ASSUME ~SlowNetwork, WireTypeOK, PlaceTypeOK, StepInv, [Next]_vars
  PROVE  StepInv'
<1> SUFFICES ASSUME place' \notin Ended
             PROVE  InStep'
  BY DEF StepInv
<1>0. place \notin Ended /\ InStep
  BY NotEndedBefore DEF StepInv
<1>1. CASE Peek
  BY <1>0, <1>1, PeekInStep
<1>2. CASE DiscardTypeByte \/ ReceiveCutText \/ ReceiveFence \/ ReceiveUpdateHeader
  <2>1. Received
    BY <1>2 DEF DiscardTypeByte, ReceiveCutText, ReceiveFence, ReceiveUpdateHeader
  <2> QED
    BY <1>0, <1>2, <2>1, HeaderDue, ReceivedInStep
<1>3. CASE ReceiveRect \/ ReceiveRows \/ ReceiveScreenCount \/ ReceiveScreens
  <2>1. Received
    BY <1>3 DEF ReceiveRect, ReceiveRows, ReceiveScreenCount, ReceiveScreens
  <2> QED
    BY <1>0, <1>3, <2>1, RectDue, ReceivedInStep
<1>4. CASE CutTextLost \/ FenceLost \/ RowsLost \/ UpdateLost
  <2>1. NotReceived /\ place' \in {"peek", "tail"}
    BY <1>4 DEF CutTextLost, FenceLost, RowsLost, UpdateLost, Goto, Ended
  <2> QED
    BY <1>0, <2>1, LostInStep
<1>5. ASSUME UNCHANGED netVars, place \notin AfterPeek, place' \notin AfterPeek, Due' = Due
      PROVE  InStep'
  BY <1>0, <1>5, SamePartsDue
<1>6. CASE WriteSettings
  <2>1. /\ place = "new size" /\ place' = "enable for size"
        /\ UNCHANGED <<netVars, message, rects>>
    BY <1>6 DEF WriteSettings, Goto, Ended
  <2>2. Due' = Due /\ place \notin AfterPeek /\ place' \notin AfterPeek
    BY <2>1 DEF Due, AfterPeek
  <2> QED
    BY <1>5, <2>1, <2>2
<1>7. CASE \E ok \in BOOLEAN : EnableForSize(ok)
  <2>1. /\ place = "enable for size" /\ StartRects(Tail(rects))
        /\ UNCHANGED <<netVars, message>>
    BY <1>7 DEF EnableForSize, Goto, Ended
  <2>2. Due' = PartsOfLast(message.rects)[Len(rects) - 1] /\ place' \in {"tail", "rect"}
    BY <2>1, LaterRectsDue DEF RectPlaces
  <2>3. Due = PartsOfLast(message.rects)[Len(rects) - 1] /\ place \notin AfterPeek
        /\ place' \notin AfterPeek
    BY <2>1, <2>2 DEF Due, AfterPeek
  <2> QED
    BY <1>5, <2>1, <2>2, <2>3
<1>8. CASE \E ok \in BOOLEAN : ReplyToFence(ok) \/ EnableContinuousUpdates(ok)
  <2>1. place \in {"fence reply", "tail"} /\ place' = "peek" /\ UNCHANGED netVars
    BY <1>8 DEF ReplyToFence, EnableContinuousUpdates, Goto, Ended
  <2>2. Due = 0 /\ Due' = 0 /\ place \notin AfterPeek /\ place' \notin AfterPeek
    BY <2>1 DEF Due, AfterPeek
  <2> QED
    BY <1>5, <2>1, <2>2
<1>9. CASE PeekFails \/ Spin \/ BrokenPipe
  BY <1>9 DEF PeekFails, Spin, BrokenPipe, Goto, Ended
<1>10. CASE PeekTimesOut \/ UNCHANGED vars
  <2>1. UNCHANGED <<netVars, place, message, rects>>
    BY <1>10 DEF PeekTimesOut, vars, netVars
  <2>2. wire' = wire /\ conn' = conn /\ place' = place /\ message' = message /\ Due' = Due
    BY <2>1 DEF Due, netVars
  <2> QED
    BY <1>0, <2>2 DEF InStep
<1>11. CASE \E m \in Messages : ServerSends(m)
  <2>1. PICK m \in Messages : ServerSends(m)
    BY <1>11
  <2>2. /\ conn = "open" /\ wire' = wire \o Parts(m)
        /\ UNCHANGED <<conn, place, message, rects>>
    BY <2>1 DEF ServerSends
  <2>3. Due' = Due
    BY <2>2 DEF Due
  <2>4. Due \in Nat /\ wire \in Seq(WireParts) /\ Follows(wire) /\ Whole(wire, Due)
    BY <1>0, <2>2, DueType DEF InStep, WireTypeOK
  <2>5. /\ Follows(wire') /\ Whole(wire', Due)
        /\ RestThenMessage(wire, 1, Due) => RestThenMessage(wire', 1, Due)
        /\ wire # <<>> => wire' # <<>> /\ wire'[1] = wire[1]
    BY <2>2, <2>4, OneMoreMessage
  <2> QED
    BY <1>0, <2>2, <2>3, <2>5 DEF InStep
<1>12. CASE \E how \in ConnectionEnds : ConnectionEnded(how)
  <2>1. PICK how \in ConnectionEnds : ConnectionEnded(how)
    BY <1>12
  <2>2. conn' # "open" /\ UNCHANGED <<place, message, rects>>
    BY <2>1, SessionAssumption DEF ConnectionEnded
  <2>3. PICK n \in 0 .. Len(wire) : (place \in AfterPeek => n > 0) /\ wire' = SubSeq(wire, 1, n)
    BY <2>1 DEF ConnectionEnded
  <2>4. Due' = Due
    BY <2>2 DEF Due
  <2>5. Due \in Nat /\ wire \in Seq(WireParts) /\ n \in Nat /\ n <= Len(wire)
    BY <1>0, <2>3, DueType DEF WireTypeOK
  <2>6. /\ Len(wire') = n /\ (\A i \in 1 .. n : wire'[i] = wire[i])
        /\ Follows(wire) => Follows(wire')
        /\ RestThenMessage(wire, 1, Due) => RestThenMessage(wire', 1, Due)
    BY <2>3, <2>5, Kept
  <2>7. n > 0 => wire' # <<>> /\ wire'[1] = wire[1]
    <3>1. Len(<<>>) = 0
      OBVIOUS
    <3> QED
      BY <2>5, <2>6, <3>1
  <2> QED
    BY <1>0, <2>2, <2>3, <2>4, <2>6, <2>7 DEF InStep
<1> QED
  BY <1>1, <1>2, <1>3, <1>4, <1>6, <1>7, <1>8, <1>9, <1>10, <1>11, <1>12
  DEF Next, ThreadGoesOn

LEMMA StepInvInit == Init => StepInv
<1> SUFFICES ASSUME Init PROVE InStep
  BY DEF StepInv
<1>1. wire = <<>> /\ place = "peek" /\ Due = 0 /\ place \notin AfterPeek
  BY DEF Init, Due, AfterPeek
<1>2. Len(<<>>) = 0 /\ ~ \E i : i \in 1 .. 0
  OBVIOUS
<1>3. ~(1 + 0 <= Len(<<>>)) /\ 0 <= Len(<<>>)
  BY <1>2
<1> QED
  BY <1>1, <1>2, <1>3 DEF InStep, Follows, RestThenMessage, Whole

(* When no read times out with its parts on their way, every handler         *)
(* receives what the server wrote for its message and no more: between two   *)
(* messages the thread is at a type byte, for every message the protocol     *)
(* has, with any number of rectangles in it (vnc_session_handle_message).    *)
THEOREM HandlersKeepInStep ==
  ASSUME ~SlowNetwork
  PROVE  Spec => []AtMessageBoundary
<1>1. Init => ThreadTypeOK /\ StepInv
  BY ThreadTypeInit, StepInvInit
<1>2. (ThreadTypeOK /\ StepInv) /\ [Next]_vars => (ThreadTypeOK /\ StepInv)'
  BY ThreadTypeStep, StepInvStep DEF ThreadTypeOK
<1>3. ThreadTypeOK /\ StepInv => AtMessageBoundary
  <2> SUFFICES ASSUME WireTypeOK, StepInv, place = "peek", wire # <<>>
               PROVE  Head(wire).type # "rest"
    BY DEF AtMessageBoundary, ThreadTypeOK
  <2>1. InStep
    BY DEF StepInv, Ended
  <2> QED
    BY <2>1, AtBoundary
<1> QED
  BY <1>1, <1>2, <1>3, PTL DEF Spec

-----------------------------------------------------------------------------
(* The fences.  Before a split and behind it:                                *)
LEMMA SplitFences ==
  ASSUME NEW w \in Seq(WireParts), NEW n \in Nat, n <= Len(w)
  PROVE  /\ SubSeq(w, 1, n) \in Seq(WireParts) /\ SubSeq(w, n + 1, Len(w)) \in Seq(WireParts)
         /\ FencesIn(w) = FencesIn(SubSeq(w, 1, n)) \o FencesIn(SubSeq(w, n + 1, Len(w)))
<1> DEFINE W == WireParts
<1>1. Len(w) \in Nat /\ w \in Seq(W)
  OBVIOUS
<1>2. /\ 1 \in 1 .. Len(w) + 1 /\ n \in 1 - 1 .. Len(w) /\ Len(w) \in n .. Len(w)
      /\ 0 \in Nat /\ 0 + 1 = 1 /\ Len(w) <= Len(w)
  BY <1>1
<1>3. SubSeq(w, 0 + 1, n) \in Seq(W) /\ SubSeq(w, n + 1, Len(w)) \in Seq(W)
  BY <1>1, <1>2, Stretch
<1> HIDE DEF W
<1>4. SubSeq(w, 1, n) \o SubSeq(w, n + 1, Len(w)) = SubSeq(w, 1, Len(w))
  BY <1>1, <1>2, ConcatAdjacentSubSeq
<1>5. SubSeq(w, 1, Len(w)) = w
  BY <1>1, SubSeqFull
<1>6. SubSeq(w, 1, n) \in Seq(WireParts) /\ SubSeq(w, n + 1, Len(w)) \in Seq(WireParts)
  BY <1>2, <1>3 DEF W
<1>7. FencesIn(SubSeq(w, 1, n) \o SubSeq(w, n + 1, Len(w)))
      = FencesIn(SubSeq(w, 1, n)) \o FencesIn(SubSeq(w, n + 1, Len(w)))
  BY <1>6, FencesConcat
<1> QED
  BY <1>4, <1>5, <1>6, <1>7

\* Parts that are no type byte ask for nothing.
LEMMA RestFences ==
  ASSUME NEW parts \in Seq(WireParts), \A i \in 1 .. Len(parts) : parts[i] = Rest
  PROVE  FencesIn(parts) = <<>>
<1>1. Rest \in WireParts
  BY DEF WireParts
<1>2. WantedFence(Rest) = <<>>
  BY <1>1, WantedFenceType
<1> QED
  BY <1>2, NoFences

\* A type byte and parts that are none.
LEMMA HeadFences ==
  ASSUME NEW parts \in Seq(WireParts), Len(parts) >= 1,
         \A i \in 2 .. Len(parts) : parts[i] = Rest
  PROVE  FencesIn(parts) = WantedFence(parts[1]) /\ WantedFence(parts[1]) \in Seq(Int)
<1> DEFINE front == SubSeq(parts, 1, 1)
           back  == SubSeq(parts, 1 + 1, Len(parts))
           I == Int
<1>1. 1 \in Nat /\ 1 <= Len(parts) /\ Len(parts) \in Nat /\ 1 \in 1 .. Len(parts)
  OBVIOUS
<1>2. front \in Seq(WireParts) /\ back \in Seq(WireParts)
      /\ FencesIn(parts) = FencesIn(front) \o FencesIn(back)
  BY <1>1, SplitFences
<1>3. parts[1] \in WireParts
  BY <1>1, ElementOfSeq
<1>4. front = <<parts[1]>>
  <2> DEFINE one == <<parts[1]>>
             W == WireParts
  <2>1. one \in Seq(W) /\ Len(one) = 1 /\ one[1] = parts[1]
    BY <1>3
  <2>2. front \in Seq(W) /\ Len(front) = 1 /\ front[1] = parts[1]
    BY <1>1, <1>2, Kept
  <2>3. \A i \in 1 .. 1 : i = 1
    OBVIOUS
  <2> HIDE DEF one, W, front
  <2> QED
    BY <2>1, <2>2, <2>3, SeqEqual DEF one
<1>5. FencesIn(back) = <<>>
  <2>1. /\ Len(back) = IF 1 + 1 <= Len(parts) THEN Len(parts) - 1 ELSE 0
        /\ \A i \in 1 .. Len(parts) - 1 : back[i] = parts[1 + i]
    BY <1>1, Stretch
  <2> HIDE DEF back
  <2>2. \A i \in 1 .. Len(back) : i \in 1 .. Len(parts) - 1 /\ 1 + i \in 2 .. Len(parts)
    BY <1>1, <2>1
  <2>3. \A i \in 1 .. Len(back) : back[i] = Rest
    BY <2>1, <2>2
  <2> QED
    BY <1>2, <2>3, RestFences
<1>6. FencesIn(front) = WantedFence(parts[1]) /\ WantedFence(parts[1]) \in Seq(I)
  BY <1>3, <1>4, OneFence, WantedFenceType
<1> HIDE DEF front, back, I
<1>7. WantedFence(parts[1]) \o <<>> = WantedFence(parts[1])
  BY <1>6, ConcatEmptySeq
<1> QED
  BY <1>2, <1>5, <1>6, <1>7 DEF I

\* What is due holds no fence but the one whose type byte was peeked.
LEMMA FrontFences ==
  ASSUME WireTypeOK, PlaceTypeOK, place \notin Ended, InStep,
         NEW n \in Nat, n <= Due, n <= Len(wire), place \in AfterPeek => n > 0
  PROVE  FencesIn(wire) = (IF place = "fence header" THEN WantedFence(message) ELSE <<>>)
                          \o FencesIn(SubSeq(wire, n + 1, Len(wire)))
<1> DEFINE front == SubSeq(wire, 1, n)
<1>1. wire \in Seq(WireParts) /\ Len(wire) \in Nat /\ Due \in Nat
  BY DueType DEF WireTypeOK
<1>2. front \in Seq(WireParts)
      /\ FencesIn(wire) = FencesIn(front) \o FencesIn(SubSeq(wire, n + 1, Len(wire)))
  BY <1>1, SplitFences
<1>3. Len(front) = n /\ \A i \in 1 .. n : front[i] = wire[i]
  BY <1>1, Kept
<1> HIDE DEF front
<1>4. CASE place \in AfterPeek
  <2>1. /\ PartsAfterType(message) \in Nat /\ RestThenMessage(wire, 2, PartsAfterType(message))
        /\ Due = 1 + PartsAfterType(message) /\ wire[1] = message
    BY <1>4, AtTypeByte DEF InStep
  <2>2. \A i \in 2 .. n : /\ i \in 1 .. n /\ i \in 1 .. Len(wire)
                          /\ 2 <= i /\ i < 2 + PartsAfterType(message)
    BY <1>1, <2>1
  <2>3. \A i \in 2 .. n : front[i] = Rest
    BY <1>3, <2>1, <2>2 DEF RestThenMessage
  <2>4. 1 \in 1 .. n /\ Len(front) >= 1
    BY <1>3, <1>4
  <2>5. FencesIn(front) = WantedFence(message)
    BY <1>2, <1>3, <2>1, <2>3, <2>4, HeadFences
  <2>6. place # "fence header" => WantedFence(message) = <<>>
    <3>1. place # "fence header" => message.type # "fence"
      BY <1>4 DEF PlaceTypeOK, AtMessage, AfterPeek
    <3>2. message \in WireParts
      BY <1>4, AtTypeByte DEF WireParts
    <3> QED
      BY <3>1, <3>2, WantedFenceType
  <2> QED
    BY <1>2, <2>5, <2>6
<1>5. CASE place \notin AfterPeek
  <2>1. RestThenMessage(wire, 1, Due)
    BY <1>5 DEF InStep
  <2>2. \A i \in 1 .. n : i \in 1 .. Len(wire) /\ 1 <= i /\ i < 1 + Due
    BY <1>1
  <2>3. \A i \in 1 .. n : front[i] = Rest
    BY <1>3, <2>1, <2>2 DEF RestThenMessage
  <2>4. FencesIn(front) = <<>>
    BY <1>2, <1>3, <2>3, RestFences
  <2>5. place # "fence header"
    BY <1>5 DEF AfterPeek
  <2> QED
    BY <1>2, <2>4, <2>5
<1> QED
  BY <1>4, <1>5

LEMMA FrontGone ==
  ASSUME ~SlowNetwork, WireTypeOK, PlaceTypeOK, place \notin Ended, InStep, Received \/ NotReceived
  PROVE  FencesIn(wire) = (IF place = "fence header" THEN WantedFence(message) ELSE <<>>)
                          \o FencesIn(wire')
<1>1. Needed \in Nat /\ Due \in Nat /\ Needed <= Due /\ Len(wire) \in Nat
  BY DueType DEF WireTypeOK
<1>2. CASE Received
  <2>1. Needed <= Len(wire) /\ wire' = SubSeq(wire, Needed + 1, Len(wire))
    BY <1>1, <1>2 DEF Received
  <2>2. place \in AfterPeek => Needed > 0
    BY <1>1, AtTypeByte
  <2> QED
    BY <1>1, <2>1, <2>2, FrontFences
<1>3. CASE NotReceived
  <2>1. wire' = <<>> /\ Len(wire) < Needed
    BY <1>3, NothingLost
  <2>2. Len(wire) <= Due /\ Len(wire) <= Len(wire) /\ Len(wire) + 1 \in Int /\ Len(wire) \in Int
    BY <1>1, <2>1
  <2>3. place \in AfterPeek => Len(wire) > 0
    BY <1>1, AtTypeByte
  <2>4. SubSeq(wire, Len(wire) + 1, Len(wire)) = <<>>
    <3>1. Len(wire) < Len(wire) + 1
      BY <1>1
    <3> QED
      BY <2>2, <3>1, SubSeqEmpty
  <2> QED
    BY <1>1, <2>1, <2>2, <2>3, <2>4, FrontFences
<1> QED
  BY <1>2, <1>3

LEMMA FrontOfConcat ==
  ASSUME NEW S, NEW s \in Seq(S), NEW t \in Seq(S)
  PROVE  SubSeq(s \o t, 1, Len(s)) = s
<1> DEFINE st == s \o t
           front == SubSeq(st, 1, Len(s))
<1>1. /\ st \in Seq(S) /\ Len(st) = Len(s) + Len(t) /\ Len(s) \in Nat /\ Len(t) \in Nat
      /\ \A i \in 1 .. Len(s) + Len(t) : st[i] = IF i <= Len(s) THEN s[i] ELSE t[i - Len(s)]
  BY ConcatProperties
<1> HIDE DEF st
<1>2. \A i \in 1 .. Len(s) : st[i] = s[i] /\ st[i] \in S
  <2>1. \A i \in 1 .. Len(s) : i \in 1 .. Len(s) + Len(t) /\ i <= Len(s)
    BY <1>1
  <2>2. \A i \in 1 .. Len(s) : s[i] \in S
    BY ElementOfSeq
  <2> QED
    BY <1>1, <2>1, <2>2
<1>3. /\ front \in Seq(S)
      /\ Len(front) = IF 1 <= Len(s) THEN Len(s) - 1 + 1 ELSE 0
      /\ \A i \in 1 .. Len(s) - 1 + 1 : front[i] = st[1 + i - 1]
  <2>1. 1 \in Int /\ Len(s) \in Int
    BY <1>1
  <2> QED
    BY <1>2, <2>1, SubSeqProperties
<1> HIDE DEF front
<1>4. Len(front) = Len(s) /\ \A i \in 1 .. Len(s) : front[i] = s[i]
  <2>1. Len(s) - 1 + 1 = Len(s) /\ \A i \in 1 .. Len(s) : 1 + i - 1 = i
    BY <1>1
  <2> QED
    BY <1>1, <1>2, <1>3, <2>1
<1>5. front = s
  BY <1>3, <1>4, SeqEqual
<1> QED
  BY <1>5 DEF front, st

LEMMA OneThen ==
  ASSUME NEW S, NEW x \in S, NEW t \in Seq(S)
  PROVE  LET s == <<x>> \o t IN s # <<>> /\ Head(s) = x /\ Tail(s) = t
<1> DEFINE one == <<x>>
           s == one \o t
<1>1. one \in Seq(S) /\ Len(one) = 1 /\ one[1] = x /\ Len(t) \in Nat
  OBVIOUS
<1> HIDE DEF one
<1>2. /\ s \in Seq(S) /\ Len(s) = 1 + Len(t)
      /\ \A i \in 1 .. 1 + Len(t) : s[i] = IF i <= 1 THEN one[i] ELSE t[i - 1]
  <2>1. /\ s \in Seq(S) /\ Len(s) = Len(one) + Len(t)
        /\ \A i \in 1 .. Len(one) + Len(t) : s[i] = IF i <= Len(one) THEN one[i] ELSE t[i - Len(one)]
    BY <1>1, ConcatProperties
  <2> HIDE DEF s
  <2> QED
    BY <1>1, <2>1
<1> HIDE DEF s
<1>3. s # <<>> /\ s[1] = x
  <2>1. Len(s) # 0 /\ 1 \in 1 .. 1 + Len(t)
    BY <1>1, <1>2
  <2> QED
    BY <1>1, <1>2, <2>1, EmptySeq
<1>4. Head(s) = x
  BY <1>2, <1>3
<1>5. /\ Tail(s) \in Seq(S) /\ Len(Tail(s)) = Len(s) - 1
      /\ \A i \in 1 .. Len(Tail(s)) : Tail(s)[i] = s[i + 1]
  BY <1>2, <1>3, HeadTailProperties
<1>6. Len(Tail(s)) = Len(t) /\ \A i \in 1 .. Len(t) : Tail(s)[i] = t[i]
  <2>1. \A i \in 1 .. Len(t) : i + 1 \in 1 .. 1 + Len(t) /\ ~(i + 1 <= 1) /\ (i + 1) - 1 = i
    BY <1>1
  <2>2. Len(s) - 1 = Len(t)
    BY <1>1, <1>2
  <2> QED
    BY <1>2, <1>5, <2>1, <2>2
<1>7. Tail(s) = t
  BY <1>5, <1>6, SeqEqual
<1> QED
  BY <1>3, <1>4, <1>7 DEF s, one

LEMMA MessageFences ==
  ASSUME NEW m \in Messages
  PROVE  /\ FencesIn(Parts(m)) = WantedFence(m) /\ FencesIn(<<m>>) = WantedFence(m)
         /\ Parts(m) \in Seq(WireParts) /\ WantedFence(m) \in Seq(Int)
<1>1. m \in WireParts
  BY DEF WireParts
<1>2. /\ Parts(m) \in Seq(WireParts) /\ Len(Parts(m)) = 1 + PartsAfterType(m)
      /\ Parts(m)[1] = m /\ \A i \in 2 .. 1 + PartsAfterType(m) : Parts(m)[i] = Rest
      /\ PartsAfterType(m) \in Nat
  BY PartsProperties, PartsAfterTypeType
<1>3. Len(Parts(m)) >= 1
  BY <1>2
<1> QED
  BY <1>1, <1>2, <1>3, HeadFences, OneFence

\* The fence the thread has received and has not answered.
OwnFence ==
  IF place \in {"fence payload", "fence reply"} /\ message.request THEN <<message.id>> ELSE <<>>

FenceInv ==
  place \notin Ended =>
    /\ asked = OwnFence \o FencesIn(wire)
    /\ place = "fence reply" => message.request

LEMMA OwnFenceType ==
  ASSUME PlaceTypeOK
  PROVE  OwnFence \in Seq(Int)
<1> DEFINE I == Int
<1>1. OwnFence = <<>> \/ (OwnFence = <<message.id>> /\ message.id \in I)
  <2>1. place \in {"fence payload", "fence reply"} => message.id \in I
    BY MessageTypes DEF PlaceTypeOK, AtMessage
  <2> HIDE DEF I
  <2> QED
    BY <2>1 DEF OwnFence
<1> HIDE DEF I
<1>2. <<>> \in Seq(I) /\ (message.id \in I => <<message.id>> \in Seq(I))
  OBVIOUS
<1>3. OwnFence \in Seq(I)
  BY <1>1, <1>2
<1> QED
  BY <1>3 DEF I

LEMMA FenceInvReceive ==
  ASSUME ~SlowNetwork, WireTypeOK, PlaceTypeOK, WireTypeOK', InStep, place \notin Ended,
         asked = OwnFence \o FencesIn(wire), ReceiveFence
  PROVE  FenceInv'
<1> DEFINE I == Int
           F == FencesIn(wire)
           G == FencesIn(wire')
           own == IF message.request THEN <<message.id>> ELSE <<>>
<1>1. Received /\ UNCHANGED <<message, asked>>
  BY DEF ReceiveFence, historyVars
<1>2. message.type = "fence" /\ message \in Messages \cup {Unknown}
  BY DEF ReceiveFence, PlaceTypeOK, AtMessage
<1>3. message.id \in Int /\ message.request \in BOOLEAN
  BY <1>2, MessageTypes
<1>4. WantedFence(message) = own /\ own \in Seq(I)
  BY <1>2, <1>3 DEF WantedFence
<1>5. F = (IF place = "fence header" THEN own ELSE <<>>) \o G
  BY <1>1, <1>4, FrontGone
<1>6. G \in Seq(I)
  BY FencesInType DEF WireTypeOK
<1>7. <<>> \o G = G
  <2> HIDE DEF G, I
  <2> QED
    BY <1>6, ConcatEmptySeq
<1>8. CASE place = "fence header"
  <2>1. place' = "fence payload" /\ OwnFence = <<>> /\ OwnFence' = own
    BY <1>1, <1>8 DEF ReceiveFence, Goto, OwnFence
  <2>2. own \o G \in Seq(I)
    <3> HIDE DEF own, G, I
    <3> QED
      BY <1>4, <1>6, ConcatProperties
  <2>3. <<>> \o (own \o G) = own \o G
    <3> HIDE DEF I
    <3> QED
      BY <2>2, ConcatEmptySeq
  <2>4. F = own \o G
    BY <1>5, <1>8
  <2> HIDE DEF own
  <2> QED
    BY <1>1, <2>1, <2>3, <2>4 DEF FenceInv
<1>9. CASE place = "fence payload"
  <2>1. OwnFence = own /\ F = G
    BY <1>5, <1>7, <1>9 DEF OwnFence
  <2>2. /\ place' = IF message.request THEN "fence reply" ELSE "peek"
        /\ OwnFence' = own
    BY <1>1, <1>9 DEF ReceiveFence, Goto, OwnFence
  <2> HIDE DEF own
  <2> QED
    BY <1>1, <2>1, <2>2 DEF FenceInv
<1> QED
  BY <1>8, <1>9 DEF ReceiveFence

LEMMA FenceInvReply ==
  ASSUME WireTypeOK, PlaceTypeOK, asked = OwnFence \o FencesIn(wire), message.request,
         NEW ok \in BOOLEAN, ReplyToFence(ok)
  PROVE  FenceInv'
<1> DEFINE I == Int
           F == FencesIn(wire)
           own == <<message.id>>
<1>1. place = "fence reply" /\ wire' = wire
  BY DEF ReplyToFence, netVars
<1>2. OwnFence = own
  BY <1>1 DEF OwnFence
<1>3. message.id \in I
  BY <1>1, MessageTypes DEF PlaceTypeOK, AtMessage
<1>4. F \in Seq(I)
  BY FencesInType DEF WireTypeOK
<1> HIDE DEF F, own, I
<1>5. asked # <<>> /\ Tail(asked) = F
  <2>1. <<message.id>> \o F # <<>> /\ Tail(<<message.id>> \o F) = F
    BY <1>3, <1>4, OneThen
  <2> QED
    BY <1>2, <2>1 DEF F, own
<1>6. <<>> \o F = F
  BY <1>4, ConcatEmptySeq
<1>7. CASE ok
  <2>1. place' = "peek" /\ asked' = Tail(asked) /\ OwnFence' = <<>>
    BY <1>5, <1>7 DEF ReplyToFence, Goto, OwnFence
  <2> QED
    BY <1>1, <1>5, <1>6, <2>1 DEF FenceInv, F
<1>8. CASE ~ok
  BY <1>8 DEF ReplyToFence, Goto, FenceInv, Ended
<1> QED
  BY <1>7, <1>8

LEMMA FenceInvSend ==
  ASSUME WireTypeOK, PlaceTypeOK, FenceInv, NEW m \in Messages, ServerSends(m)
  PROVE  FenceInv'
<1> DEFINE I == Int
           F == FencesIn(wire)
           new == WantedFence(m)
           own == OwnFence
<1>1. /\ wire' = wire \o Parts(m) /\ asked' = asked \o FencesIn(<<m>>)
      /\ UNCHANGED <<place, message>>
  BY DEF ServerSends
<1>2. /\ FencesIn(Parts(m)) = new /\ FencesIn(<<m>>) = new /\ Parts(m) \in Seq(WireParts)
      /\ new \in Seq(I)
  BY MessageFences
<1>3. F \in Seq(I) /\ own \in Seq(I)
  BY FencesInType, OwnFenceType DEF WireTypeOK
<1>4. FencesIn(wire') = F \o new
  BY <1>1, <1>2, FencesConcat DEF WireTypeOK
<1>5. OwnFence' = own
  BY <1>1 DEF OwnFence
<1> HIDE DEF I, F, new, own
<1>6. (own \o F) \o new = own \o (F \o new)
  BY <1>2, <1>3, ConcatAssociative
<1> SUFFICES ASSUME place \notin Ended
             PROVE  /\ asked' = own \o (F \o new)
                    /\ place = "fence reply" => message.request
  BY <1>1, <1>4, <1>5 DEF FenceInv
<1>7. asked = own \o F /\ (place = "fence reply" => message.request)
  BY DEF FenceInv, own, F
<1> QED
  BY <1>1, <1>2, <1>6, <1>7

LEMMA FenceInvEnd ==
  ASSUME WireTypeOK, PlaceTypeOK, FenceInv, NEW how, ConnectionEnded(how)
  PROVE  FenceInv'
<1> DEFINE I == Int
           front(n) == FencesIn(SubSeq(wire, 1, n))
           back(n) == FencesIn(SubSeq(wire, n + 1, Len(wire)))
           own == OwnFence
<1>1. UNCHANGED <<place, message>>
  BY DEF ConnectionEnded
<1>2. PICK n \in 0 .. Len(wire) :
        /\ wire' = SubSeq(wire, 1, n)
        /\ asked' = SubSeq(asked, 1, Len(asked) - Len(back(n)))
  BY DEF ConnectionEnded
<1>3. n \in Nat /\ n <= Len(wire) /\ wire \in Seq(WireParts)
  BY <1>2 DEF WireTypeOK
<1>4. /\ FencesIn(wire) = front(n) \o back(n)
      /\ front(n) \in Seq(I) /\ back(n) \in Seq(I)
  BY <1>3, SplitFences, FencesInType
<1>5. own \in Seq(I) /\ OwnFence' = own /\ FencesIn(wire') = front(n)
  BY <1>1, <1>2, OwnFenceType DEF OwnFence
<1> HIDE DEF front, back, I, own
<1>6. own \o (front(n) \o back(n)) = (own \o front(n)) \o back(n)
  BY <1>4, <1>5, ConcatAssociative
<1> DEFINE s == own \o front(n)
           t == back(n)
<1>7. s \in Seq(I) /\ t \in Seq(I) /\ Len(s) \in Nat /\ Len(t) \in Nat
      /\ s \o t \in Seq(I) /\ Len(s \o t) = Len(s) + Len(t)
  <2>1. s \in Seq(I) /\ t \in Seq(I)
    BY <1>4, <1>5, ConcatProperties
  <2> HIDE DEF s, t
  <2> QED
    BY <2>1, ConcatProperties
<1> HIDE DEF s, t
<1>8. SubSeq(s \o t, 1, Len(s \o t) - Len(t)) = s
  <2>1. Len(s \o t) - Len(t) = Len(s)
    BY <1>7
  <2>2. SubSeq(s \o t, 1, Len(s)) = s
    BY <1>7, FrontOfConcat
  <2> QED
    BY <2>1, <2>2
<1> SUFFICES ASSUME place \notin Ended
             PROVE  asked' = s /\ (place = "fence reply" => message.request)
  BY <1>1, <1>5 DEF FenceInv, s
<1>9. asked = s \o t /\ (place = "fence reply" => message.request)
  BY <1>4, <1>6 DEF FenceInv, own, s, t
<1> QED
  BY <1>2, <1>8, <1>9 DEF t

LEMMA FenceInvStep ==
  ASSUME ~SlowNetwork, WireTypeOK, PlaceTypeOK, WireTypeOK', StepInv, FenceInv, [Next]_vars
  PROVE  FenceInv'
<1> USE DEF Goto
<1> SUFFICES ASSUME place' \notin Ended
             PROVE  FenceInv'
  BY DEF FenceInv
<1>0. /\ place \notin Ended /\ InStep
      /\ asked = OwnFence \o FencesIn(wire)
      /\ place = "fence reply" => message.request
  BY NotEndedBefore DEF StepInv, FenceInv
<1>1. ASSUME UNCHANGED <<wire, asked>>, OwnFence' = OwnFence, place' # "fence reply"
      PROVE  FenceInv'
  BY <1>0, <1>1 DEF FenceInv
<1>2. ASSUME place \notin {"fence header", "fence payload", "fence reply"},
             place' \notin {"fence payload", "fence reply"},
             UNCHANGED asked, Received \/ NotReceived
      PROVE  FenceInv'
  <2> DEFINE G == FencesIn(wire')
             I == Int
  <2>1. FencesIn(wire) = <<>> \o G
    BY <1>0, <1>2, FrontGone
  <2>2. G \in Seq(I)
    BY FencesInType DEF WireTypeOK
  <2> HIDE DEF G, I
  <2>3. FencesIn(wire) = G
    BY <2>1, <2>2, ConcatEmptySeq
  <2>4. OwnFence = <<>> /\ OwnFence' = <<>>
    BY <1>2 DEF OwnFence
  <2> QED
    BY <1>0, <1>2, <2>3, <2>4 DEF FenceInv, G
<1>3. CASE \/ Peek \/ WriteSettings
           \/ \E ok \in BOOLEAN : EnableForSize(ok) \/ EnableContinuousUpdates(ok)
  <2>1. /\ UNCHANGED <<wire, asked>>
        /\ place \in {"peek", "new size", "enable for size", "tail"}
    BY <1>3 DEF Peek, WriteSettings, EnableForSize, EnableContinuousUpdates, netVars, historyVars
  <2>2. place' \notin {"fence payload", "fence reply"}
    BY <1>3 DEF Peek, WriteSettings, EnableForSize, EnableContinuousUpdates, FirstRead, StartRects,
       Ended
  <2>3. OwnFence = <<>> /\ OwnFence' = <<>>
    BY <2>1, <2>2 DEF OwnFence
  <2> QED
    BY <1>1, <2>1, <2>2, <2>3
<1>4. CASE \/ DiscardTypeByte \/ ReceiveCutText \/ ReceiveUpdateHeader \/ ReceiveRect
           \/ ReceiveRows \/ ReceiveScreenCount \/ ReceiveScreens
  <2>1. Received /\ UNCHANGED asked
    BY <1>4 DEF DiscardTypeByte, ReceiveCutText, ReceiveUpdateHeader, ReceiveRect, ReceiveRows,
       ReceiveScreenCount, ReceiveScreens, historyVars
  <2>2. place \notin {"fence header", "fence payload", "fence reply"}
    BY <1>4 DEF DiscardTypeByte, ReceiveCutText, ReceiveUpdateHeader, ReceiveRect, ReceiveRows,
       ReceiveScreenCount, ReceiveScreens
  <2>3. place' \notin {"fence payload", "fence reply"}
    BY <1>4 DEF DiscardTypeByte, ReceiveCutText, ReceiveUpdateHeader, ReceiveRect, ReceiveRows,
       ReceiveScreenCount, ReceiveScreens, StartRects
  <2> QED
    BY <1>2, <2>1, <2>2, <2>3
<1>5. CASE CutTextLost \/ FenceLost \/ RowsLost \/ UpdateLost
  <2>1. /\ NotReceived /\ UNCHANGED asked /\ place' \in {"peek", "tail"}
        /\ place \notin {"fence header", "fence payload", "fence reply"}
    BY <1>5 DEF CutTextLost, FenceLost, RowsLost, UpdateLost, Ended, historyVars
  <2> QED
    BY <1>2, <2>1
<1>6. CASE ReceiveFence
  BY <1>0, <1>6, FenceInvReceive
<1>7. CASE \E ok \in BOOLEAN : ReplyToFence(ok)
  <2>1. place = "fence reply"
    BY <1>7 DEF ReplyToFence
  <2> QED
    BY <1>0, <1>7, <2>1, FenceInvReply
<1>8. CASE PeekFails \/ Spin \/ BrokenPipe
  BY <1>8 DEF PeekFails, Spin, BrokenPipe, Ended
<1>9. CASE PeekTimesOut \/ UNCHANGED vars
  <2>1. UNCHANGED <<wire, asked, place, message>>
    BY <1>9 DEF PeekTimesOut, vars
  <2>2. OwnFence' = OwnFence
    BY <2>1 DEF OwnFence
  <2> QED
    BY <1>0, <2>1, <2>2 DEF FenceInv
<1>10. CASE \E m \in Messages : ServerSends(m)
  BY <1>10, FenceInvSend
<1>11. CASE \E how \in ConnectionEnds : ConnectionEnded(how)
  BY <1>11, FenceInvEnd
<1> QED
  BY <1>3, <1>4, <1>5, <1>6, <1>7, <1>8, <1>9, <1>10, <1>11 DEF Next, ThreadGoesOn

LEMMA FenceInvInit == Init => FenceInv
<1> SUFFICES ASSUME Init PROVE FenceInv
  OBVIOUS
<1>1. wire = <<>> /\ asked = <<>> /\ place = "peek" /\ OwnFence = <<>>
  BY DEF Init, OwnFence
<1>2. FencesIn(<<>>) = <<>>
  <2>1. <<>> \in Seq(WireParts) /\ ~ \E i : i \in 1 .. Len(<<>>)
    OBVIOUS
  <2> QED
    BY <2>1, NoFences
<1>3. <<>> \o <<>> = <<>>
  OBVIOUS
<1> QED
  BY <1>1, <1>2, <1>3 DEF FenceInv

(* When no read times out with its parts on their way, the fences are        *)
(* answered one by one in the order of the server, with any number of them   *)
(* and of other messages on their way, and the connection ending anywhere    *)
(* (handle_fence).                                                           *)
THEOREM FencesKeepTheirOrder ==
  ASSUME ~SlowNetwork
  PROVE  Spec => []FencesAnsweredInOrder
<1> DEFINE Inv == ThreadTypeOK /\ StepInv /\ FenceInv
<1>1. Init => Inv
  BY ThreadTypeInit, StepInvInit, FenceInvInit
<1>2. Inv /\ [Next]_vars => Inv'
  BY ThreadTypeStep, StepInvStep, FenceInvStep DEF ThreadTypeOK
<1>3. Inv => FencesAnsweredInOrder
  <2> SUFFICES ASSUME WireTypeOK, PlaceTypeOK, FenceInv
               PROVE  FencesAnsweredInOrder
    BY DEF ThreadTypeOK
  <2> DEFINE F == FencesIn(wire)
             I == Int
  <2>1. F \in Seq(I)
    BY FencesInType DEF WireTypeOK
  <2>2. CASE place = "peek"
    <3>1. asked = <<>> \o F
      BY <2>2 DEF FenceInv, Ended, OwnFence
    <3> HIDE DEF F, I
    <3>2. asked = F
      BY <2>1, <3>1, ConcatEmptySeq
    <3> QED
      BY <2>2, <3>2 DEF FencesAnsweredInOrder, F
  <2>3. CASE place = "fence reply"
    <3>1. asked = <<message.id>> \o F
      BY <2>3 DEF FenceInv, Ended, OwnFence
    <3>2. message.id \in I
      BY <2>3, MessageTypes DEF PlaceTypeOK, AtMessage
    <3> HIDE DEF F, I
    <3>3. asked # <<>> /\ Head(asked) = message.id
      BY <2>1, <3>1, <3>2, OneThen
    <3> QED
      BY <2>3, <3>3 DEF FencesAnsweredInOrder
  <2> QED
    BY <2>2, <2>3 DEF FencesAnsweredInOrder
<1> QED
  BY <1>1, <1>2, <1>3, PTL DEF Spec

-----------------------------------------------------------------------------
(* Continuous updates.  The thread comes back to peek from the tail, from a  *)
(* fence, or from a text that the end of the connection cut short.           *)
LEMMA UpdatesEnabledStep ==
  ASSUME ~SlowNetwork, WireTypeOK, PlaceTypeOK, FlagsTypeOK, StepInv, UpdatesEnabled, [Next]_vars
  PROVE  UpdatesEnabled'
<1> USE DEF Goto, Sends
<1> SUFFICES ASSUME place' = "peek", conn' = "open", WantsUpdates'
             PROVE  message'.type = "fence" \/ enableFailed'
  BY DEF UpdatesEnabled
<1>0. place \notin Ended /\ InStep
  BY NotEndedBefore DEF StepInv, Ended
<1>1. CASE \E ok \in BOOLEAN : EnableContinuousUpdates(ok)
  <2>1. PICK ok \in BOOLEAN : EnableContinuousUpdates(ok)
    BY <1>1
  <2>2. ~enabledCU' /\ supportsFence' /\ supportsCU'
    BY DEF WantsUpdates
  <2>3. UNCHANGED <<supportsFence, supportsCU>>
    BY <2>1 DEF EnableContinuousUpdates
  <2>4. CASE WantsUpdates
    <3>1. enabledCU' = ok /\ enableFailed' = ~ok
      BY <2>1, <2>4 DEF EnableContinuousUpdates
    <3>2. ok = FALSE
      BY <2>2, <3>1
    <3> QED
      BY <3>1, <3>2
  <2>5. CASE ~WantsUpdates
    <3>1. UNCHANGED enabledCU
      BY <2>1, <2>5 DEF EnableContinuousUpdates
    <3> QED
      BY <2>2, <2>3, <2>5, <3>1 DEF WantsUpdates
  <2> QED
    BY <2>4, <2>5
<1>2. CASE ReceiveFence \/ \E ok \in BOOLEAN : ReplyToFence(ok)
  BY <1>2 DEF ReceiveFence, ReplyToFence, PlaceTypeOK, AtMessage
<1>3. CASE CutTextLost
  <2>1. NotReceived
    BY <1>3 DEF CutTextLost
  <2> QED
    BY <1>0, <2>1, NothingLost
<1>4. ASSUME UNCHANGED <<place, conn, message, flagVars, enableFailed>>
      PROVE  message'.type = "fence" \/ enableFailed'
  BY <1>4 DEF UpdatesEnabled, WantsUpdates, flagVars
<1>5. CASE \/ PeekTimesOut \/ UNCHANGED vars \/ \E m \in Messages : ServerSends(m)
  BY <1>4, <1>5 DEF PeekTimesOut, vars, flagVars, ServerSends
<1>6. CASE \E how \in ConnectionEnds : ConnectionEnded(how)
  BY <1>6, SessionAssumption DEF ConnectionEnded
<1>7. CASE \/ Peek \/ PeekFails \/ DiscardTypeByte \/ ReceiveCutText \/ FenceLost
           \/ ReceiveUpdateHeader \/ ReceiveRect \/ ReceiveRows \/ RowsLost \/ ReceiveScreenCount
           \/ ReceiveScreens \/ UpdateLost \/ WriteSettings \/ Spin \/ BrokenPipe
           \/ \E ok \in BOOLEAN : EnableForSize(ok)
  BY <1>7 DEF Peek, FirstRead, PeekFails, DiscardTypeByte, ReceiveCutText, FenceLost,
     ReceiveUpdateHeader, ReceiveRect, ReceiveRows, RowsLost, ReceiveScreenCount, ReceiveScreens,
     UpdateLost, WriteSettings, Spin, BrokenPipe, EnableForSize, StartRects
<1> QED
  BY <1>1, <1>2, <1>3, <1>5, <1>6, <1>7 DEF Next, ThreadGoesOn

(* When no read times out with its parts on their way, the thread asks for   *)
(* continuous updates after the first message other than a fence that finds  *)
(* both extensions announced, in whatever order they come; on an open        *)
(* connection only a failed send keeps it from that                          *)
(* (vnc_session_handle_message).                                             *)
THEOREM UpdatesAskedFor ==
  ASSUME ~SlowNetwork
  PROVE  Spec => []UpdatesEnabled
<1> DEFINE Inv == ThreadTypeOK /\ StepInv /\ UpdatesEnabled
<1>1. Init => Inv
  <2>1. Init => UpdatesEnabled
    BY DEF Init, UpdatesEnabled, WantsUpdates
  <2> QED
    BY <2>1, ThreadTypeInit, StepInvInit
<1>2. Inv /\ [Next]_vars => Inv'
  BY ThreadTypeStep, StepInvStep, UpdatesEnabledStep DEF ThreadTypeOK
<1>3. Inv => UpdatesEnabled
  OBVIOUS
<1> QED
  BY <1>1, <1>2, <1>3, PTL DEF Spec

\* An EndOfContinuousUpdates is on its way.
IsEnd(part)  == part.type = "eocu"
EndIn(parts) == \E i \in 1 .. Len(parts) : IsEnd(parts[i])

AtEnd == place = "type byte" /\ IsEnd(message)

EnabledInv ==
  place \notin Ended /\ enabledCU =>
    /\ ~AtEnd
    /\ conn = "open" => serverUpdates \/ EndIn(wire)

\* What is received is no end of the updates, unless it was peeked as one.
LEMMA EndStays ==
  ASSUME WireTypeOK, PlaceTypeOK, place \notin Ended, InStep, Received, EndIn(wire), ~AtEnd
  PROVE  EndIn(wire')
<1> DEFINE n == Needed
<1>1. /\ n \in Nat /\ Due \in Nat /\ n <= Due /\ n <= Len(wire) /\ Len(wire) \in Nat
      /\ wire \in Seq(WireParts) /\ wire' = SubSeq(wire, n + 1, Len(wire))
  BY DueType DEF WireTypeOK, Received
<1>2. PICK i \in 1 .. Len(wire) : IsEnd(wire[i])
  BY DEF EndIn
<1>3. wire[i] # Rest
  <2>1. ~IsEnd(Rest)
    BY DEF Rest, IsEnd
  <2> QED
    BY <1>2, <2>1
<1>4. ~(i <= n)
  <2> SUFFICES ASSUME i <= n PROVE FALSE
    OBVIOUS
  <2>1. CASE place \in AfterPeek
    <3>1. /\ PartsAfterType(message) \in Nat /\ RestThenMessage(wire, 2, PartsAfterType(message))
          /\ Due = 1 + PartsAfterType(message) /\ wire[1] = message
      BY <2>1, AtTypeByte DEF InStep
    <3>2. i = 1 \/ (2 <= i /\ i < 2 + PartsAfterType(message))
      BY <1>1, <3>1
    <3>3. i = 1
      BY <1>3, <3>1, <3>2 DEF RestThenMessage
    <3>4. IsEnd(message)
      BY <1>2, <3>1, <3>3
    <3> QED
      BY <2>1, <3>4 DEF PlaceTypeOK, AtMessage, AfterPeek, AtEnd, IsEnd
  <2>2. CASE place \notin AfterPeek
    <3>1. RestThenMessage(wire, 1, Due) /\ 1 <= i /\ i < 1 + Due
      BY <1>1, <2>2 DEF InStep
    <3> QED
      BY <1>3, <3>1 DEF RestThenMessage
  <2> QED
    BY <2>1, <2>2
<1> HIDE DEF n
<1>5. /\ Len(wire') = IF n + 1 <= Len(wire) THEN Len(wire) - n ELSE 0
      /\ \A j \in 1 .. Len(wire) - n : wire'[j] = wire[n + j]
  <2>1. Len(wire) <= Len(wire)
    BY <1>1
  <2> QED
    BY <1>1, <2>1, Stretch
<1>6. i - n \in 1 .. Len(wire) - n /\ i - n \in 1 .. Len(wire') /\ n + (i - n) = i
  BY <1>1, <1>4, <1>5
<1> QED
  BY <1>2, <1>5, <1>6 DEF EndIn

LEMMA EndSent ==
  ASSUME WireTypeOK, NEW m \in Messages, ServerSends(m)
  PROVE  (IsEnd(m) \/ EndIn(wire)) => EndIn(wire')
<1> DEFINE W == WireParts
           ps == Parts(m)
           v == wire \o ps
<1>1. /\ ps \in Seq(W) /\ Len(ps) = 1 + PartsAfterType(m) /\ ps[1] = m
      /\ PartsAfterType(m) \in Nat
  BY PartsProperties, PartsAfterTypeType
<1>2. wire \in Seq(W) /\ Len(wire) \in Nat /\ wire' = v
  BY DEF WireTypeOK, ServerSends
<1> HIDE DEF W, ps
<1>3. /\ Len(v) = Len(wire) + Len(ps)
      /\ \A i \in 1 .. Len(wire) + Len(ps) :
           v[i] = IF i <= Len(wire) THEN wire[i] ELSE ps[i - Len(wire)]
  BY <1>1, <1>2, ConcatProperties
<1> HIDE DEF v
<1>4. \A i \in 1 .. Len(wire) : i \in 1 .. Len(v) /\ v[i] = wire[i]
  BY <1>1, <1>2, <1>3
<1>5. Len(wire) + 1 \in 1 .. Len(v) /\ v[Len(wire) + 1] = m
  <2>1. /\ Len(wire) + 1 \in 1 .. Len(wire) + Len(ps) /\ ~(Len(wire) + 1 <= Len(wire))
        /\ (Len(wire) + 1) - Len(wire) = 1
    BY <1>1, <1>2
  <2> QED
    BY <1>1, <1>3, <2>1
<1> QED
  BY <1>2, <1>4, <1>5 DEF EndIn

LEMMA EnabledInvStep ==
  ASSUME ~SlowNetwork, WireTypeOK, PlaceTypeOK, StepInv, EnabledInv, [Next]_vars
  PROVE  EnabledInv'
<1> USE DEF Goto
<1> SUFFICES ASSUME place' \notin Ended, enabledCU'
             PROVE  /\ ~AtEnd'
                    /\ conn' = "open" => serverUpdates' \/ EndIn(wire)'
  BY DEF EnabledInv
<1>0. place \notin Ended /\ InStep
  BY NotEndedBefore DEF StepInv
<1>1. CASE Peek
  <2>1. PICK m \in Peeked : message' = m /\ enabledCU' = (enabledCU /\ m.type # "eocu")
    BY <1>1 DEF Peek
  <2>2. enabledCU /\ ~AtEnd'
    BY <2>1 DEF AtEnd, IsEnd
  <2>3. UNCHANGED <<wire, conn, serverUpdates>>
    BY <1>1 DEF Peek, netVars
  <2>4. conn = "open" => serverUpdates \/ EndIn(wire)
    BY <1>0, <2>2 DEF EnabledInv
  <2> QED
    BY <2>2, <2>3, <2>4
<1>2. CASE \/ DiscardTypeByte \/ ReceiveCutText \/ ReceiveFence \/ ReceiveUpdateHeader
           \/ ReceiveRect \/ ReceiveRows \/ ReceiveScreenCount \/ ReceiveScreens
  <2>1. Received /\ UNCHANGED <<flagVars, serverUpdates>>
    BY <1>2 DEF DiscardTypeByte, ReceiveCutText, ReceiveFence, ReceiveUpdateHeader, ReceiveRect,
       ReceiveRows, ReceiveScreenCount, ReceiveScreens, historyVars
  <2>2. ~AtEnd'
    BY <1>2, HeaderDue, RectDue DEF AfterPeek, AtEnd
  <2>3. enabledCU /\ UNCHANGED conn
    BY <2>1 DEF flagVars, Received
  <2>4. /\ ~AtEnd
        /\ conn = "open" => serverUpdates \/ EndIn(wire)
    BY <1>0, <2>3 DEF EnabledInv
  <2>5. EndIn(wire) => EndIn(wire')
    BY <1>0, <2>1, <2>4, EndStays
  <2> QED
    BY <2>1, <2>2, <2>3, <2>4, <2>5
<1>3. CASE CutTextLost \/ FenceLost \/ RowsLost \/ UpdateLost
  <2>1. NotReceived /\ ~AtEnd'
    BY <1>3 DEF CutTextLost, FenceLost, RowsLost, UpdateLost, Ended, AtEnd
  <2> QED
    BY <1>0, <2>1, NothingLost
<1>4. CASE \E m \in Messages : ServerSends(m)
  <2>1. PICK m \in Messages : ServerSends(m)
    BY <1>4
  <2>2. /\ UNCHANGED <<enabledCU, conn>> /\ AtEnd' = AtEnd
        /\ serverUpdates' = (serverUpdates /\ ~IsEnd(m))
    BY <2>1 DEF ServerSends, flagVars, IsEnd, AtEnd
  <2>3. /\ ~AtEnd
        /\ conn = "open" => serverUpdates \/ EndIn(wire)
    BY <1>0, <2>2 DEF EnabledInv
  <2>4. (IsEnd(m) \/ EndIn(wire)) => EndIn(wire')
    BY <2>1, EndSent
  <2> QED
    BY <2>2, <2>3, <2>4
<1>5. CASE \E how \in ConnectionEnds : ConnectionEnded(how)
  <2>1. UNCHANGED enabledCU /\ AtEnd' = AtEnd /\ conn' # "open"
    BY <1>5, SessionAssumption DEF ConnectionEnded, flagVars, AtEnd, IsEnd
  <2> QED
    BY <1>0, <2>1 DEF EnabledInv
<1>6. ASSUME UNCHANGED <<wire, conn, enabledCU, serverUpdates>>
      PROVE  conn' = "open" => serverUpdates' \/ EndIn(wire)'
  BY <1>0, <1>6 DEF EnabledInv, EndIn
<1>7. CASE \E ok \in BOOLEAN : EnableContinuousUpdates(ok)
  <2>1. PICK ok \in BOOLEAN : EnableContinuousUpdates(ok)
    BY <1>7
  <2>2. ~AtEnd' /\ UNCHANGED <<wire, conn>>
    BY <2>1 DEF EnableContinuousUpdates, netVars, AtEnd
  <2>3. CASE WantsUpdates
    <3>1. enabledCU' = ok /\ serverUpdates' = (ok \/ serverUpdates)
      BY <2>1, <2>3 DEF EnableContinuousUpdates
    <3>2. serverUpdates'
      BY <3>1
    <3> QED
      BY <2>2, <3>2
  <2>4. CASE ~WantsUpdates
    <3>1. UNCHANGED <<enabledCU, serverUpdates>>
      BY <2>1, <2>4 DEF EnableContinuousUpdates
    <3> QED
      BY <1>6, <2>2, <3>1
  <2> QED
    BY <2>3, <2>4
<1>8. CASE \E ok \in BOOLEAN : EnableForSize(ok)
  <2>1. serverUpdates' /\ ~AtEnd'
    BY <1>8 DEF EnableForSize, StartRects, Ended, AtEnd
  <2> QED
    BY <2>1
<1>9. CASE WriteSettings \/ \E ok \in BOOLEAN : ReplyToFence(ok)
  <2>1. UNCHANGED <<wire, conn, enabledCU, serverUpdates>> /\ ~AtEnd'
    BY <1>9 DEF WriteSettings, ReplyToFence, netVars, flagVars, historyVars, Ended, AtEnd
  <2> QED
    BY <1>6, <2>1
<1>10. CASE PeekFails \/ Spin \/ BrokenPipe
  BY <1>10 DEF PeekFails, Spin, BrokenPipe, Ended
<1>11. CASE PeekTimesOut \/ UNCHANGED vars
  <2>1. UNCHANGED <<wire, conn, enabledCU, serverUpdates>> /\ AtEnd' = AtEnd
    BY <1>11 DEF PeekTimesOut, vars, AtEnd, IsEnd
  <2> QED
    BY <1>0, <2>1 DEF EnabledInv, EndIn
<1> QED
  BY <1>1, <1>2, <1>3, <1>4, <1>5, <1>7, <1>8, <1>9, <1>10, <1>11 DEF Next, ThreadGoesOn

(* When no read times out with its parts on their way, the thread never      *)
(* takes continuous updates for enabled on an open connection while the      *)
(* server has stopped them and nothing on its way says so: an                *)
(* EndOfContinuousUpdates that crosses a request is noticed, however many    *)
(* of them cross (vnc_session_handle_message).                               *)
THEOREM EnabledUpdatesCome ==
  ASSUME ~SlowNetwork
  PROVE  Spec => []EnabledMeansUpdates
<1> DEFINE Inv == ThreadTypeOK /\ StepInv /\ EnabledInv
<1>1. Init => Inv
  <2>1. Init => EnabledInv
    BY DEF Init, EnabledInv, AtEnd
  <2> QED
    BY <2>1, ThreadTypeInit, StepInvInit
<1>2. Inv /\ [Next]_vars => Inv'
  BY ThreadTypeStep, StepInvStep, EnabledInvStep DEF ThreadTypeOK
<1>3. Inv => EnabledMeansUpdates
  <2> SUFFICES ASSUME WireTypeOK, EnabledInv, place = "peek", enabledCU, conn = "open", ~serverUpdates
               PROVE  \E i \in DOMAIN wire : wire[i].type = "eocu"
    BY DEF ThreadTypeOK, EnabledMeansUpdates
  <2>1. EndIn(wire)
    BY DEF EnabledInv, Ended
  <2>2. DOMAIN wire = 1 .. Len(wire)
    BY DEF WireTypeOK
  <2> QED
    BY <2>1, <2>2 DEF EndIn, IsEnd
<1> QED
  BY <1>1, <1>2, <1>3, PTL DEF Spec
=============================================================================
