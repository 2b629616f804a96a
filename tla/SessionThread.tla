----------------------------- MODULE SessionThread ----------------------------
(***************************************************************************)
(* The session thread (vnc_session_thread and vnc_session_handle_message,  *)
(* src/src/session.c): it peeks at the type of the next message, receives  *)
(* the parts the type calls for, and answers fences and asks for           *)
(* continuous updates on the way.                                          *)
(*                                                                         *)
(* The server's messages come as parts: first the type byte, which carries *)
(* the message here, then what follows it in the protocol.  The receive    *)
(* timeout of one second (SO_RCVTIMEO) may cut a read short; the parts     *)
(* read so far are gone.  What is peeked when the thread has lost its      *)
(* place in the stream is any byte at all.                                 *)
(***************************************************************************)
EXTENDS Integers, SequencesExt

CONSTANTS
  Messages,         \* messages the server may send
  ScreenSizes,      \* sizes of the desktop
  MaxBacklog,       \* ARRAY_COUNT(rect_backlog), USHRT_MAX in the source
  SlowNetwork,      \* whether a read may time out while its parts are on their way
  ConnectionEnds,   \* how the connection may end: "eof", "reset", or neither
  SendsMayFail,     \* whether a send may fail while the connection is open
  MaxWire,          \* bound of the model on the parts on their way
  MaxFences         \* bound of the model on the fences not answered yet

ASSUME SessionAssumption ==
  /\ MaxBacklog \in Nat
  /\ SlowNetwork \in BOOLEAN
  /\ ConnectionEnds \subseteq {"eof", "reset"}
  /\ SendsMayFail \in BOOLEAN
  /\ MaxWire \in Nat \ {0}
  /\ MaxFences \in Nat

VARIABLES
  wire,             \* parts sent by the server and not received
  conn,             \* the connection: "open", "eof" or "reset"
  place,            \* where the thread is
  message,          \* the message being handled
  rects,            \* its rectangles from the current one on
  supportsFence,    \* server_supports_fence
  supportsCU,       \* server_supports_continuous_updates
  enabledCU,        \* continuous_updates_enabled
  settings,         \* server_settings.width and height, as one size
  backlog,          \* rect_backlog_count
  asked,            \* history: fences the server wants answered, oldest first
  coveredByCU,      \* history: the size in the last EnableContinuousUpdates sent
  serverUpdates,    \* history: the server sends continuous updates
  enableFailed      \* history: sending it failed while this message was handled

flagVars    == <<supportsFence, supportsCU, enabledCU>>
fbVars      == <<backlog>>
historyVars == <<asked, coveredByCU, serverUpdates, enableFailed>>
netVars     == <<wire, conn>>
vars == <<wire, conn, place, message, rects, supportsFence, supportsCU, enabledCU,
          settings, backlog, asked, coveredByCU, serverUpdates,
          enableFailed>>

-----------------------------------------------------------------------------
(***************************************************************************)
(* The protocol, as the server writes it (external): the parts that follow *)
(* the type byte of a message.                                             *)
(***************************************************************************)
NoSize  == "none"
Unknown == [type |-> "unknown"]

Rectangles ==
  [encoding : {"raw"}, rows : Nat, fits : BOOLEAN] \cup
  [encoding : {"size"}, screens : Nat, size : ScreenSizes, denied : BOOLEAN] \cup
  [encoding : {"other"}]

MessageForms ==
  [type : {"fence"}, id : Int, request : BOOLEAN, payload : BOOLEAN] \cup
  [type : {"eocu", "bell", "cut text"}] \cup
  [type : {"update"}, rects : Seq(Rectangles)]

ASSUME MessagesAssumption == Messages \subseteq MessageForms

RectParts(rect) ==
  1 + CASE rect.encoding = "raw"  -> rect.rows
        [] rect.encoding = "size" -> 1 + (IF rect.screens > 0 THEN 1 ELSE 0)
        [] OTHER                  -> 1

\* A function of n: the parts of the last n rectangles of an update.
PartsOfLast(updated) ==
  LET parts[n \in 0 .. Len(updated)] ==
        IF n = 0 THEN 0 ELSE parts[n - 1] + RectParts(updated[Len(updated) - n + 1])
  IN  parts

PartsAfterType(m) ==
  CASE m.type = "fence"    -> 1 + (IF m.payload THEN 1 ELSE 0)
    [] m.type = "cut text" -> 2
    [] m.type = "update"   -> 1 + PartsOfLast(m.rects)[Len(m.rects)]
    [] OTHER               -> 0

Rest     == [type |-> "rest"]
Parts(m) == <<m>> \o [i \in 1 .. PartsAfterType(m) |-> Rest]

\* The fences to be answered among the parts on their way.
WantedFence(part) ==
  IF part.type = "fence" /\ part.request THEN <<part.id>> ELSE <<>>

FencesIn(parts) == FlattenSeq([i \in DOMAIN parts |-> WantedFence(parts[i])])

ServerSends(m) ==
  /\ conn = "open"
  /\ Len(wire) < MaxWire
  /\ wire' = wire \o Parts(m)
  /\ asked' = asked \o FencesIn(<<m>>)
  /\ Len(asked') <= MaxFences
  /\ serverUpdates' = (serverUpdates /\ m.type # "eocu")
  /\ UNCHANGED <<conn, place, message, rects, flagVars, settings, fbVars, coveredByCU,
                 enableFailed>>

\* Reads that start with the byte that was peeked, which is there.
AfterPeek == {"type byte", "fence header", "cut header", "update header"}

\* The server goes away, in the middle of a message for all one knows.
ConnectionEnded(how) ==
  /\ conn = "open"
  /\ conn' = how
  /\ \E n \in 0 .. Len(wire) :
       /\ place \in AfterPeek => n > 0
       /\ wire' = SubSeq(wire, 1, n)
       /\ asked' = SubSeq(asked, 1,
                          Len(asked) - Len(FencesIn(SubSeq(wire, n + 1, Len(wire)))))
  /\ UNCHANGED <<place, message, rects, flagVars, settings, fbVars, coveredByCU,
                 serverUpdates, enableFailed>>

-----------------------------------------------------------------------------
(***************************************************************************)
(* Receiving: RFB_TRY_READ and RFB_TRY_DISCARD                             *)
(***************************************************************************)

\* What the read at a place asks for, in parts; the first read of a message
\* includes the type byte.
Needed ==
  CASE place = "type byte"     -> 1
    [] place = "fence header"  -> 2
    [] place = "fence payload" -> IF message.payload THEN 1 ELSE 0
    [] place = "cut header"    -> 2
    [] place = "cut text"      -> 1
    [] place = "update header" -> 2
    [] place = "rect"          -> 1
    [] place = "rows"          -> Head(rects).rows
    [] place = "screen count"  -> 1
    [] place = "screens"       -> IF Head(rects).screens > 0 THEN 1 ELSE 0
    [] OTHER                   -> 0

Received ==
  /\ Len(wire) >= Needed
  /\ wire' = SubSeq(wire, Needed + 1, Len(wire))
  /\ UNCHANGED conn

\* After a second of silence; what the read has got by then is lost.
TimedOut ==
  /\ SlowNetwork \/ (Len(wire) < Needed /\ conn = "open")
  /\ \E got \in 0 .. Needed - 1 :
       /\ got <= Len(wire)
       /\ place \in AfterPeek => got > 0
       /\ SlowNetwork \/ got = Len(wire)
       /\ wire' = SubSeq(wire, got + 1, Len(wire))
  /\ UNCHANGED conn

\* A reset is reported once, after the data before it; then recv returns 0.
ResetReported ==
  /\ conn = "reset"
  /\ Len(wire) < Needed
  /\ wire' = <<>>
  /\ conn' = "eof"

NotReceived == TimedOut \/ ResetReported

\* recv returns 0 at the end of the stream: the loop asks again, forever.
AtEndOfStream == conn = "eof" /\ Len(wire) < Needed

Goto(p) == place' = p

\* A send of this thread; the result decides what the caller does.
Sends(ok) == ok \/ SendsMayFail \/ conn # "open"

-----------------------------------------------------------------------------
(***************************************************************************)
(* vnc_session_handle_message                                              *)
(***************************************************************************)
FirstRead(m) ==
  CASE m.type = "fence"           -> "fence header"
    [] m.type \in {"eocu", "bell"} -> "type byte"
    [] m.type = "cut text"        -> "cut header"
    [] m.type = "update"          -> "update header"
    [] OTHER                      -> "assertion failed"

Peeked == IF Head(wire).type = "rest" THEN Messages \cup {Unknown} ELSE {Head(wire)}

\* (mutant) EndOfContinuousUpdates only announces the extension.
PeekKeepsEnabled ==
  /\ place = "peek"
  /\ wire # <<>>
  /\ \E m \in Peeked :
       /\ message' = m
       /\ Goto(FirstRead(m))
       /\ supportsFence' = (supportsFence \/ m.type = "fence")
       /\ supportsCU' = (supportsCU \/ m.type = "eocu")
  /\ enableFailed' = FALSE
  /\ UNCHANGED <<netVars, rects, enabledCU, settings, fbVars, asked, coveredByCU, serverUpdates>>

Peek ==
  /\ place = "peek"
  /\ wire # <<>>
  /\ \E m \in Peeked :
       /\ message' = m
       /\ Goto(FirstRead(m))
       /\ supportsFence' = (supportsFence \/ m.type = "fence")
       /\ supportsCU' = (supportsCU \/ m.type = "eocu")
       /\ enabledCU' = (enabledCU /\ m.type # "eocu")
  /\ enableFailed' = FALSE
  /\ UNCHANGED <<netVars, rects, settings, fbVars, asked, coveredByCU, serverUpdates>>

PeekTimesOut ==
  /\ place = "peek"
  /\ wire = <<>>
  /\ conn = "open"
  /\ UNCHANGED vars

PeekFails ==
  /\ place = "peek"
  /\ wire = <<>>
  /\ conn = "reset"
  /\ conn' = "eof"
  /\ Goto("ended")
  /\ UNCHANGED <<wire, message, rects, flagVars, settings, fbVars, historyVars>>

\* (mutant) Returns at once, as handle_fence does.
DiscardTypeByteReturns ==
  /\ place = "type byte"
  /\ Received
  /\ Goto("peek")
  /\ UNCHANGED <<message, rects, flagVars, settings, fbVars, historyVars>>

\* EndOfContinuousUpdates and Bell have nothing but the type byte.
DiscardTypeByte ==
  /\ place = "type byte"
  /\ Received
  /\ Goto("tail")
  /\ UNCHANGED <<message, rects, flagVars, settings, fbVars, historyVars>>

ReceiveCutText ==
  /\ place \in {"cut header", "cut text"}
  /\ Received
  /\ Goto(IF place = "cut header" THEN "cut text" ELSE "tail")
  /\ UNCHANGED <<message, rects, flagVars, settings, fbVars, historyVars>>

\* An incomplete header is ignored; an incomplete text makes the handler
\* return an error code, which its bool result turns into true.
CutTextLost ==
  /\ place \in {"cut header", "cut text"}
  /\ NotReceived
  /\ Goto(IF place = "cut header" THEN "tail" ELSE "peek")
  /\ UNCHANGED <<message, rects, flagVars, settings, fbVars, historyVars>>

\* After every message that is not a fence.
WantsUpdates == ~enabledCU /\ supportsFence /\ supportsCU

EnableContinuousUpdates(ok) ==
  /\ place = "tail"
  /\ Goto("peek")
  /\ IF WantsUpdates
     THEN /\ Sends(ok)
          /\ enabledCU' = ok
          /\ coveredByCU' = IF ok THEN settings ELSE coveredByCU
          /\ serverUpdates' = (ok \/ serverUpdates)
          /\ enableFailed' = ~ok
     ELSE ok /\ UNCHANGED <<enabledCU, coveredByCU, serverUpdates, enableFailed>>
  /\ UNCHANGED <<netVars, message, rects, supportsFence, supportsCU, settings, fbVars, asked>>

-----------------------------------------------------------------------------
(***************************************************************************)
(* handle_fence                                                            *)
(***************************************************************************)
\* (mutant) Answers fences that ask for no answer.
ReceiveFenceAnswersAll ==
  /\ place \in {"fence header", "fence payload"}
  /\ Received
  /\ Goto(IF place = "fence header" THEN "fence payload" ELSE "fence reply")
  /\ UNCHANGED <<message, rects, flagVars, settings, fbVars, historyVars>>

\* The payload is what the protocol allows, at most the 64 bytes that there is
\* room for; its length is not compared with them.
ReceiveFence ==
  /\ place \in {"fence header", "fence payload"}
  /\ Received
  /\ Goto(IF place = "fence header" THEN "fence payload"
          ELSE IF message.request THEN "fence reply" ELSE "peek")
  /\ UNCHANGED <<message, rects, flagVars, settings, fbVars, historyVars>>

FenceLost ==
  /\ place \in {"fence header", "fence payload"}
  /\ NotReceived
  /\ Goto("ended")
  /\ UNCHANGED <<message, rects, flagVars, settings, fbVars, historyVars>>

ReplyToFence(ok) ==
  /\ place = "fence reply"
  /\ Sends(ok)
  /\ Goto(IF ok THEN "peek" ELSE "ended")
  /\ asked' = IF ok /\ asked # <<>> THEN Tail(asked) ELSE asked
  /\ UNCHANGED <<netVars, message, rects, flagVars, settings, fbVars, coveredByCU,
                 serverUpdates, enableFailed>>

-----------------------------------------------------------------------------
(***************************************************************************)
(* vnc_rfb_recv_framebuffer_update, whose result is ignored, handle_rect   *)
(***************************************************************************)
StartRects(remaining) ==
  /\ rects' = remaining
  /\ Goto(IF remaining = <<>> THEN "tail" ELSE "rect")

ReceiveUpdateHeader ==
  /\ place = "update header"
  /\ Received
  /\ StartRects(message.rects)
  /\ UNCHANGED <<message, flagVars, settings, fbVars, historyVars>>

\* An encoding the viewer does not know and pixels that do not fit the
\* framebuffer end the process.
ReceiveRect ==
  /\ place = "rect"
  /\ Received
  /\ LET rect == Head(rects) IN
       Goto(IF rect.encoding = "size" THEN "screen count"
            ELSE IF rect.encoding = "raw" /\ rect.fits THEN "rows"
            ELSE "exited")
  /\ UNCHANGED <<message, rects, flagVars, settings, fbVars, historyVars>>

\* (mutant) The backlog is not bounded.
RegisterDrawnRectAlways == backlog' = backlog + 1

\* vnc_fb_mngr_register_drawn_rect.  Nothing empties the backlog, and the result
\* that says it is full is not looked at.
RegisterDrawnRect == backlog' = IF backlog = MaxBacklog THEN backlog ELSE backlog + 1

ReceiveRows ==
  /\ place = "rows"
  /\ Received
  /\ RegisterDrawnRect
  /\ StartRects(Tail(rects))
  /\ UNCHANGED <<message, flagVars, settings, historyVars>>

\* (mutant) A timeout is retried.
RowsLostRetried ==
  /\ place = "rows"
  /\ NotReceived
  /\ UNCHANGED <<place, message, rects, flagVars, settings, fbVars, historyVars>>

\* The rectangle counts as drawn all the same.
RowsLost ==
  /\ place = "rows"
  /\ NotReceived
  /\ RegisterDrawnRect
  /\ Goto("tail")
  /\ UNCHANGED <<message, rects, flagVars, settings, historyVars>>

\* (mutant) A denial is taken to come without screens.
ReceiveScreenCountOfDenial ==
  /\ place = "screen count"
  /\ Received
  /\ IF Head(rects).denied THEN StartRects(Tail(rects))
     ELSE /\ Goto(IF Head(rects).screens > 1 THEN "exited" ELSE "screens")
          /\ UNCHANGED rects
  /\ UNCHANGED <<message, flagVars, settings, fbVars, historyVars>>

ReceiveScreenCount ==
  /\ place = "screen count"
  /\ Received
  /\ Goto(IF Head(rects).screens > 1 THEN "exited" ELSE "screens")
  /\ UNCHANGED <<message, rects, flagVars, settings, fbVars, historyVars>>

\* The screens are received whatever the server's answer is.
ReceiveScreens ==
  /\ place = "screens"
  /\ Received
  /\ IF Head(rects).denied THEN StartRects(Tail(rects))
     ELSE Goto("new size") /\ UNCHANGED rects
  /\ UNCHANGED <<message, flagVars, settings, fbVars, historyVars>>

UpdateLost ==
  /\ place \in {"update header", "rect", "screen count", "screens"}
  /\ NotReceived
  /\ Goto("tail")
  /\ UNCHANGED <<message, rects, flagVars, settings, fbVars, historyVars>>

\* Settings, then the event (module DesktopSize), then continuous updates for
\* the new size, whether or not the server has announced them.  When the event
\* cannot be written the process ends.
WriteSettings ==
  /\ place = "new size"
  /\ settings' = Head(rects).size
  /\ Goto("enable for size") \/ Goto("exited")
  /\ UNCHANGED <<netVars, message, rects, flagVars, fbVars, historyVars>>

\* (mutant) Updates that are on already are not asked for again.
EnableForSizeIfOff(ok) ==
  /\ place = "enable for size"
  /\ ok
  /\ coveredByCU' = IF enabledCU THEN coveredByCU ELSE settings
  /\ serverUpdates' = TRUE
  /\ StartRects(Tail(rects))
  /\ UNCHANGED <<netVars, message, flagVars, settings, fbVars, asked, enableFailed>>

EnableForSize(ok) ==
  /\ place = "enable for size"
  /\ Sends(ok)
  /\ IF ok THEN coveredByCU' = settings /\ serverUpdates' = TRUE /\ StartRects(Tail(rects))
     ELSE Goto("exited") /\ UNCHANGED <<coveredByCU, serverUpdates, rects>>
  /\ UNCHANGED <<netVars, message, flagVars, settings, fbVars, asked, enableFailed>>

-----------------------------------------------------------------------------
\* Writing to a connection that has ended raises SIGPIPE, which nobody handles.
BrokenPipe ==
  /\ conn # "open"
  /\ place \in {"fence reply", "enable for size"} \/ (place = "tail" /\ WantsUpdates)
  /\ Goto("exited")
  /\ UNCHANGED <<netVars, message, rects, flagVars, settings, fbVars, historyVars>>

Reading == {"type byte", "fence header", "fence payload", "cut header", "cut text",
            "update header", "rect", "rows", "screen count", "screens"}

Spin ==
  /\ \/ place = "peek" /\ wire = <<>> /\ conn = "eof"
     \/ place \in Reading /\ AtEndOfStream
  /\ Goto("spinning")
  /\ UNCHANGED <<netVars, message, rects, flagVars, settings, fbVars, historyVars>>

Init ==
  /\ wire = <<>>
  /\ conn = "open"
  /\ place = "peek"
  /\ message = Unknown
  /\ rects = <<>>
  /\ supportsFence = FALSE /\ supportsCU = FALSE /\ enabledCU = FALSE
  /\ settings \in ScreenSizes
  /\ backlog = 0
  /\ asked = <<>>
  /\ coveredByCU = NoSize
  /\ serverUpdates = FALSE
  /\ enableFailed = FALSE

ThreadGoesOn ==
  \/ Peek \/ PeekFails \/ DiscardTypeByte
  \/ ReceiveCutText \/ CutTextLost
  \/ ReceiveFence \/ FenceLost
  \/ ReceiveUpdateHeader \/ ReceiveRect \/ ReceiveRows \/ RowsLost
  \/ ReceiveScreenCount \/ ReceiveScreens \/ UpdateLost \/ WriteSettings
  \/ \E ok \in BOOLEAN : ReplyToFence(ok) \/ EnableForSize(ok) \/ EnableContinuousUpdates(ok)
  \/ Spin \/ BrokenPipe

Next ==
  \/ ThreadGoesOn
  \/ PeekTimesOut
  \/ \E m \in Messages : ServerSends(m)
  \/ \E how \in ConnectionEnds : ConnectionEnded(how)

Spec == Init /\ [][Next]_vars

(* The thread is scheduled and its timeouts end: every read and send returns *)
(* within a second.  Nothing is assumed of the server.                       *)
FairSpec == Spec /\ WF_vars(ThreadGoesOn)

-----------------------------------------------------------------------------
Ended == {"ended", "exited", "assertion failed", "spinning"}

\* Where a rectangle of an update is handled: the first of rects.
RectPlaces == {"rect", "rows", "screen count", "screens", "new size", "enable for size"}

TypeOK ==
  /\ wire \in Seq(Messages \cup {Rest})
  /\ conn \in {"open", "eof", "reset"}
  /\ place \in {"peek", "tail", "fence reply", "new size", "enable for size"} \cup Reading \cup Ended
  /\ message \in Messages \cup {Unknown}
  /\ rects \in Seq(Rectangles)
  /\ place \in RectPlaces =>
       LET updated == message.rects IN
       /\ message.type = "update" /\ rects # <<>> /\ Len(rects) <= Len(updated)
       /\ rects = SubSeq(updated, Len(updated) - Len(rects) + 1, Len(updated))
  /\ supportsFence \in BOOLEAN /\ supportsCU \in BOOLEAN /\ enabledCU \in BOOLEAN
  /\ settings \in ScreenSizes
  /\ backlog \in 0 .. MaxBacklog
  /\ asked \in Seq(Int)
  /\ coveredByCU \in ScreenSizes \cup {NoSize}
  /\ serverUpdates \in BOOLEAN
  /\ enableFailed \in BOOLEAN

(* Between two messages the thread is at the type byte of a message: every   *)
(* handler receives what the server wrote for it, no more and no less, for   *)
(* every rectangle, denied resizes included.  Holds when no read times out   *)
(* with its parts on their way.                                              *)
AtMessageBoundary == place = "peek" /\ wire # <<>> => Head(wire).type # "rest"

(* The server's fences are answered in the order it sent them, each once:    *)
(* between two messages, those not answered are those not received, and the  *)
(* fence being answered is the oldest one (handle_fence).                    *)
FencesAnsweredInOrder ==
  /\ place = "peek" => asked = FencesIn(wire)
  /\ place = "fence reply" => asked # <<>> /\ message.id = Head(asked)

(* Continuous updates, once asked for, cover the desktop as it is now: when  *)
(* the thread is back at peek, the last request it sent has the size of the  *)
(* settings, whether a resize was accepted, denied or cut short, and however *)
(* the server's announcements came in between.                               *)
UpdatesCoverDesktop ==
  place = "peek" => coveredByCU \in {NoSize, settings}

(* The thread takes continuous updates for enabled only while the server     *)
(* sends them, or while the message that ends them is still on its way: an   *)
(* EndOfContinuousUpdates never crosses a request unnoticed.                 *)
EnabledMeansUpdates ==
  place = "peek" /\ enabledCU /\ conn = "open"
    => serverUpdates \/ \E i \in DOMAIN wire : wire[i].type = "eocu"

(* Continuous updates are asked for as soon as a message other than a fence  *)
(* has been handled with both extensions announced, in whatever order the    *)
(* server announces them; only a failed send postpones it.  A connection     *)
(* that has ended may have cut a text short, which skips the request.        *)
UpdatesEnabled ==
  place = "peek" /\ conn = "open" /\ WantsUpdates
    => message.type = "fence" \/ enableFailed

(* A handler comes back to peek or ends the thread or the process: it does   *)
(* not wait forever for a server that has stopped in the middle of a         *)
(* message.  At the end of the stream alone it spins.                        *)
HandlersReturn == (place # "peek") ~> (place = "peek" \/ place \in Ended)

(* session.c:288: "BUG: unhandled message type", and the assertion after it: *)
(* a message type the viewer does not know never comes from a server that    *)
(* sends only messages the viewer knows.                                     *)
NoUnhandledMessageType == place # "assertion failed"
=============================================================================
