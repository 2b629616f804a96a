-------------------------------- MODULE Viewer --------------------------------
(***************************************************************************)
(* The main loop of the viewer (src/src/main.c, lines 118 to 172): it      *)
(* polls four descriptors and handles those that poll reported, in a fixed *)
(* order, with the input state of module InputState.  Around it: libinput, *)
(* the kernel's timer, the signal handler, and the session thread as far   *)
(* as it resizes the desktop (module DesktopSize shows that the hand-off   *)
(* may be taken in the two steps it has here).                             *)
(*                                                                         *)
(* Handling one descriptor takes several steps, so input, expiries and     *)
(* signals arrive between them; what poll reported is not asked for again. *)
(***************************************************************************)
EXTENDS InputState

CONSTANTS
  NewSizes,         \* sizes the server may give the desktop while the loop runs
  Signals,          \* signals the process may get, of those that end the loop
  MaxHidQueue,      \* bound of the model on the events waiting in libinput
  SendsMayFail      \* whether a send may fail (RFB_TRY_WRITE returns an error)

ASSUME ViewerAssumption ==
  /\ NewSizes \subseteq DesktopSizes
  /\ Signals \subseteq {"SIGINT", "SIGTERM"}
  /\ MaxHidQueue \in Nat \ {0}
  /\ SendsMayFail \in BOOLEAN

VARIABLES
  pc,               \* where the main loop is
  revents,          \* what poll reported and is not handled yet
  exitFd, eventFd,  \* the two event descriptors are readable
  settings,         \* session->server_settings.width (or .height)
  publishing,       \* the session thread has written settings, not yet the event
  hidQueue,         \* events waiting in libinput
  heldKeys,         \* keys the user holds down
  pointerSends,     \* button masks still to be sent for the current batch
  keySends,         \* key events still to be sent for the current batch
  lastSent,         \* session->last_sent_pointer_event
  serverPointer,    \* the pointer event the server received last
  serverKeys,       \* keysyms the server takes to be down
  wheelSeen,        \* history: wheel clicks of the current batch the server has
                    \* seen, one that is still going from an earlier batch included
  pointerStale,     \* history: the pointer changed and could not be sent since
  unsent,           \* history: keysyms whose last key event could not be sent
  splitKeys         \* history: keys a modifier changed under

fdVars      == <<exitFd, eventFd>>
mailVars    == <<settings, publishing>>
sendVars    == <<pointerSends, keySends>>
wireVars    == <<lastSent, serverPointer, serverKeys>>
keyHistory  == <<unsent, splitKeys>>
historyVars == <<wheelSeen, pointerStale, unsent, splitKeys>>
viewerVars  == <<pc, revents, fdVars, mailVars, hidQueue, heldKeys, sendVars,
                 wireVars, historyVars>>
vars        == <<inputVars, viewerVars>>

HidEvents ==
  [type : {"motion"}, dx : Deltas] \cup
  [type : {"button"}, button : Buttons, pressed : BOOLEAN] \cup
  [type : {"wheel"}, v120 : WheelValues] \cup
  [type : {"key"}, key : Keys, pressed : BOOLEAN] \cup
  [type : {"device added"}]

\* The descriptors in the order main handles them.
HandlingOrder == <<"VNC", "LIBINPUT", "KEY_REPEAT", "EXIT">>

Readable ==
  {e \in {"VNC", "LIBINPUT", "KEY_REPEAT", "EXIT"} :
     CASE e = "VNC"        -> eventFd
       [] e = "LIBINPUT"   -> hidQueue # <<>>
       [] e = "KEY_REPEAT" -> timerExpired
       [] e = "EXIT"       -> exitFd}

-----------------------------------------------------------------------------
(***************************************************************************)
(* The loop                                                                *)
(***************************************************************************)

\* It is the turn of e: whatever comes before it is handled or not reported.
Turn(e) ==
  /\ pc = "dispatch"
  /\ e \in revents
  /\ \E i \in DOMAIN HandlingOrder :
       /\ HandlingOrder[i] = e
       /\ \A j \in 1 .. i - 1 : HandlingOrder[j] \notin revents

Handled(e) ==
  /\ revents' = revents \ {e}
  /\ pc' = IF revents = {e} THEN "poll" ELSE "dispatch"

GoTo(place) == pc' = place /\ UNCHANGED revents

\* The first size is taken without an event, before the descriptors are
\* registered; the session thread is running by then.
Start ==
  /\ pc = "start"
  /\ GoTo("poll")
  /\ DesktopSizeUpdate(settings)
  /\ pointerStale' = TRUE
  /\ UNCHANGED <<fdVars, mailVars, hidQueue, heldKeys, sendVars, wireVars, wheelSeen,
                 keyHistory>>

Poll ==
  /\ pc = "poll"
  /\ Readable # {}
  /\ revents' = Readable
  /\ pc' = "dispatch"
  /\ UNCHANGED <<inputVars, fdVars, mailVars, hidQueue, heldKeys, sendVars, wireVars,
                 historyVars>>

\* poll fails for another reason than a signal: main leaves the loop.
PollFails ==
  /\ pc = "poll"
  /\ GoTo("stopped")
  /\ UNCHANGED <<inputVars, fdVars, mailVars, hidQueue, heldKeys, sendVars, wireVars,
                 historyVars>>

ReadEventFd ==
  /\ Turn("VNC")
  /\ GoTo("take size")
  /\ eventFd' = FALSE
  /\ UNCHANGED <<inputVars, exitFd, mailVars, hidQueue, heldKeys, sendVars, wireVars,
                 historyVars>>

\* vnc_session_get_server_settings, and the input state follows.
TakeSize ==
  /\ pc = "take size"
  /\ Handled("VNC")
  /\ DesktopSizeUpdate(settings)
  /\ pointerStale' = (pointerStale \/ pos' # pos)
  /\ UNCHANGED <<fdVars, mailVars, hidQueue, heldKeys, sendVars, wireVars, wheelSeen,
                 keyHistory>>

\* (mutant) The request is noted, the loop goes on.
ExitLoopGoesOn ==
  /\ Turn("EXIT")
  /\ Handled("EXIT")
  /\ UNCHANGED <<inputVars, fdVars, mailVars, hidQueue, heldKeys, sendVars, wireVars,
                 historyVars>>

ExitLoop ==
  /\ Turn("EXIT")
  /\ revents' = revents \ {"EXIT"}
  /\ pc' = "stopped"
  /\ UNCHANGED <<inputVars, fdVars, mailVars, hidQueue, heldKeys, sendVars, wireVars,
                 historyVars>>

-----------------------------------------------------------------------------
(***************************************************************************)
(* Input: vnc_input_handle_events drains libinput, then the pointer and    *)
(* the keys of the batch are sent.                                         *)
(***************************************************************************)
StartInput ==
  /\ Turn("LIBINPUT")
  /\ GoTo("input")
  /\ UNCHANGED <<inputVars, fdVars, mailVars, hidQueue, heldKeys, sendVars, wireVars,
                 historyVars>>

Callback(e) ==
  \/ e.type = "motion" /\ PointerMove(e.dx)
  \/ e.type = "button" /\ PointerButton(e.button, e.pressed)
  \/ e.type = "wheel" /\ PointerWheelScroll(e.v120)
  \/ e.type = "key" /\ KeyboardKey(e.key, e.pressed)
  \/ e.type = "device added" /\ UNCHANGED inputVars

\* The keys a modifier changes under: the keysym they were pressed with is not
\* the one they will be released with.
SplitBy(e) ==
  IF e.type = "key" /\ e.key \in Modifiers THEN (keysDown \cup lostKeys) \ Modifiers ELSE {}

HandleHidEvent ==
  /\ pc = "input"
  /\ hidQueue # <<>>
  /\ Callback(Head(hidQueue))
  /\ hidQueue' = Tail(hidQueue)
  /\ splitKeys' = splitKeys \cup SplitBy(Head(hidQueue))
  /\ UNCHANGED <<pc, revents, fdVars, mailVars, heldKeys, sendVars, wireVars, wheelSeen,
                 pointerStale, unsent>>

\* (mutant) The wheel buttons are counted from 1.
WheelBitOffByOne(direction) == IF direction = "UP" THEN 5 ELSE 4

\* The bit of the wheel button, which only post_process_mouse_input sets.
WheelBit(direction) == IF direction = "UP" THEN 4 ELSE 3

Toggled(mask, bit) == IF bit \in mask THEN mask \ {bit} ELSE mask \cup {bit}

(* vnc_session_post_process_mouse_input: the masks of the batch, each wheel  *)
(* step toggling its button twice.                                           *)
PointerMasks ==
  IF wheelScrolls = 0 THEN <<buttonMask>>
  ELSE LET still == buttonMask \cap {0, 1, 2}
       IN  [i \in 1 .. 2 * wheelScrolls |->
              IF i % 2 = 1 THEN Toggled(still, WheelBit(wheelDirection))
              ELSE Toggled(Toggled(still, WheelBit(wheelDirection)), WheelBit(wheelDirection))]

InputDrained ==
  /\ pc = "input"
  /\ hidQueue = <<>>
  /\ GoTo("mouse")
  /\ pointerSends' = PointerMasks
  /\ wheelSeen' = IF wheelScrolls > 0 /\ WheelBit(wheelDirection) \in serverPointer.mask
                  THEN 1 ELSE 0
  /\ pointerStale' = FALSE
  /\ UNCHANGED <<inputVars, fdVars, mailVars, hidQueue, heldKeys, keySends, wireVars,
                 keyHistory>>

\* The server takes a wheel button that goes down for a click.
WheelClicks(before, after) ==
  IF \E bit \in {3, 4} : bit \in after.mask \ before.mask THEN 1 ELSE 0

\* (mutant) The buttons are left out of the comparison.
SamePosition(event, other) == event.pos = other.pos

\* vnc_rfb_pointer_event_eq
SameEvent(event, other) == event.pos = other.pos /\ event.mask = other.mask

\* (mutant) An event is remembered although it was not sent.
SendPointerRemembersAll(sent) ==
  /\ pc = "mouse"
  /\ pointerSends # <<>>
  /\ pointerSends' = Tail(pointerSends)
  /\ LET event == [pos |-> pos, mask |-> Head(pointerSends)]
         known == SameEvent(event, lastSent)
     IN  /\ lastSent' = event
         /\ serverPointer' = IF ~known /\ sent THEN event ELSE serverPointer
         /\ wheelSeen' = wheelSeen + WheelClicks(serverPointer, serverPointer')
         /\ pointerStale' = (pointerStale \/ (~known /\ ~sent))
  /\ UNCHANGED <<inputVars, pc, revents, fdVars, mailVars, hidQueue, heldKeys, keySends,
                 serverKeys, keyHistory>>

(* vnc_session_send_pointer_event: an event equal to the last one sent is    *)
(* not sent; the last one is remembered only when the send succeeded.        *)
SendPointer(sent) ==
  /\ pc = "mouse"
  /\ pointerSends # <<>>
  /\ pointerSends' = Tail(pointerSends)
  /\ LET event == [pos |-> pos, mask |-> Head(pointerSends)]
         known == SameEvent(event, lastSent)
     IN  /\ lastSent' = IF ~known /\ sent THEN event ELSE lastSent
         /\ serverPointer' = IF ~known /\ sent THEN event ELSE serverPointer
         /\ wheelSeen' = wheelSeen + WheelClicks(serverPointer, serverPointer')
         /\ pointerStale' = (pointerStale \/ (~known /\ ~sent))
  /\ UNCHANGED <<inputVars, pc, revents, fdVars, mailVars, hidQueue, heldKeys, keySends,
                 serverKeys, keyHistory>>

ResetWheel ==
  /\ pc = "mouse"
  /\ pointerSends = <<>>
  /\ GoTo("pop keys")
  /\ PointerResetWheelScrolls
  /\ UNCHANGED <<fdVars, mailVars, hidQueue, heldKeys, sendVars, wireVars, historyVars>>

PopKeys ==
  /\ pc = "pop keys"
  /\ GoTo("keys")
  /\ keySends' = keyEvents
  /\ PopKeyboardKeyEvents
  /\ UNCHANGED <<fdVars, mailVars, hidQueue, heldKeys, pointerSends, wireVars, historyVars>>

\* vnc_session_send_key_event, whose result its callers ignore.
SendKeyEvent(event, sent) ==
  /\ serverKeys' = IF ~sent THEN serverKeys
                   ELSE IF event.pressed THEN serverKeys \cup {event.keysym}
                   ELSE serverKeys \ {event.keysym}
  /\ UNCHANGED splitKeys

SendKey(sent) ==
  /\ pc = "keys"
  /\ keySends # <<>>
  /\ keySends' = Tail(keySends)
  /\ SendKeyEvent(Head(keySends), sent)
  /\ unsent' = IF sent THEN unsent \ {Head(keySends).keysym}
               ELSE unsent \cup {Head(keySends).keysym}
  /\ UNCHANGED <<inputVars, pc, revents, fdVars, mailVars, hidQueue, heldKeys, pointerSends,
                 lastSent, serverPointer, wheelSeen, pointerStale>>

KeysDone ==
  /\ pc = "keys"
  /\ keySends = <<>>
  /\ Handled("LIBINPUT")
  /\ UNCHANGED <<inputVars, fdVars, mailVars, hidQueue, heldKeys, sendVars, wireVars,
                 historyVars>>

-----------------------------------------------------------------------------
(***************************************************************************)
(* Key repeat: send, then read the timer's descriptor.  The read blocks    *)
(* when the timer was set since poll reported it.                          *)
(***************************************************************************)
RepeatKey(sent) ==
  /\ Turn("KEY_REPEAT")
  /\ GoTo("reset timer")
  /\ SendKeyEvent(RepeatKeyEvent, sent)
  /\ unsent' = IF sent /\ repeatKey \in keysDown THEN unsent \ {RepeatKeyEvent.keysym}
               ELSE unsent
  /\ UNCHANGED <<inputVars, fdVars, mailVars, hidQueue, heldKeys, sendVars, lastSent,
                 serverPointer, wheelSeen, pointerStale>>

ReadTimer ==
  /\ pc = "reset timer"
  /\ Handled("KEY_REPEAT")
  /\ ResetKeyRepeatTfd
  /\ UNCHANGED <<fdVars, mailVars, hidQueue, heldKeys, sendVars, wireVars, historyVars>>

-----------------------------------------------------------------------------
(***************************************************************************)
(* Around the loop                                                         *)
(***************************************************************************)
Alive == pc # "stopped"

\* The user; a key goes down and up in turn.
HidEvent(e) ==
  /\ Alive
  /\ Len(hidQueue) < MaxHidQueue
  /\ hidQueue' = Append(hidQueue, e)
  /\ e.type = "key" => e.pressed = (e.key \notin heldKeys)
  /\ heldKeys' = IF e.type # "key" THEN heldKeys
                 ELSE IF e.pressed THEN heldKeys \cup {e.key} ELSE heldKeys \ {e.key}
  /\ UNCHANGED <<inputVars, pc, revents, fdVars, mailVars, sendVars, wireVars, historyVars>>

\* sigterm_handler, installed for both signals, writes the exit descriptor.
ExitSignal(signo) ==
  /\ Alive
  /\ signo \in {"SIGINT", "SIGTERM"}
  /\ exitFd' = TRUE
  /\ UNCHANGED <<inputVars, pc, revents, eventFd, mailVars, hidQueue, heldKeys, sendVars,
                 wireVars, historyVars>>

TimerFires ==
  /\ Alive
  /\ TimerExpires
  /\ UNCHANGED viewerVars

\* (mutant) Only a growing desktop is announced.
SessionWritesSizeIfLarger(size) ==
  /\ Alive
  /\ ~publishing
  /\ settings' = size
  /\ publishing' = (size > settings)
  /\ UNCHANGED <<inputVars, pc, revents, fdVars, hidQueue, heldKeys, sendVars, wireVars,
                 historyVars>>

\* The session thread: the settings first, the event after it.
SessionWritesSize(size) ==
  /\ Alive
  /\ ~publishing
  /\ settings' = size
  /\ publishing' = TRUE
  /\ UNCHANGED <<inputVars, pc, revents, fdVars, hidQueue, heldKeys, sendVars, wireVars,
                 historyVars>>

SessionSetsEvent ==
  /\ Alive
  /\ publishing
  /\ publishing' = FALSE
  /\ eventFd' = TRUE
  /\ UNCHANGED <<inputVars, pc, revents, exitFd, settings, hidQueue, heldKeys, sendVars,
                 wireVars, historyVars>>

-----------------------------------------------------------------------------
Init ==
  /\ InputInit
  /\ pc = "start"
  /\ revents = {}
  /\ exitFd = FALSE
  /\ eventFd = FALSE
  /\ settings \in DesktopSizes
  /\ publishing = FALSE
  /\ hidQueue = <<>>
  /\ heldKeys = {}
  /\ pointerSends = <<>>
  /\ keySends = <<>>
  /\ lastSent = [pos |-> -1, mask |-> {}]
  /\ serverPointer = lastSent
  /\ serverKeys = {}
  /\ wheelSeen = 0
  /\ pointerStale = TRUE
  /\ unsent = {}
  /\ splitKeys = {}

SendResults == {TRUE} \cup {~SendsMayFail}

MainGoesOn ==
  \/ Start \/ Poll \/ ReadEventFd \/ TakeSize
  \/ StartInput \/ HandleHidEvent \/ InputDrained
  \/ \E sent \in SendResults : SendPointer(sent)
  \/ ResetWheel \/ PopKeys
  \/ \E sent \in SendResults : SendKey(sent)
  \/ KeysDone
  \/ \E sent \in SendResults : RepeatKey(sent)
  \/ ReadTimer \/ ExitLoop

Next ==
  \/ MainGoesOn
  \/ PollFails
  \/ \E e \in HidEvents : HidEvent(e)
  \/ \E signo \in Signals : ExitSignal(signo)
  \/ TimerFires
  \/ \E size \in NewSizes : SessionWritesSize(size)
  \/ SessionSetsEvent

Spec == Init /\ [][Next]_vars

(* The main thread is scheduled and an armed timer expires.  Nothing is      *)
(* assumed of the user, of signals, of the server or of sends.               *)
FairSpec == Spec /\ WF_vars(MainGoesOn) /\ WF_vars(TimerFires)

-----------------------------------------------------------------------------
ViewerTypeOK ==
  /\ InputTypeOK
  /\ pc \in {"start", "poll", "dispatch", "take size", "input", "mouse", "pop keys",
             "keys", "reset timer", "stopped"}
  /\ revents \subseteq {"VNC", "LIBINPUT", "KEY_REPEAT", "EXIT"}
  /\ exitFd \in BOOLEAN /\ eventFd \in BOOLEAN
  /\ settings \in DesktopSizes /\ publishing \in BOOLEAN
  /\ hidQueue \in Seq(HidEvents) /\ heldKeys \subseteq Keys
  /\ pointerSends \in Seq(SUBSET (0 .. 4)) /\ keySends \in Seq(KeyEvents)
  /\ lastSent \in [pos : Int, mask : SUBSET (0 .. 4)]
  /\ serverPointer \in [pos : Int, mask : SUBSET (0 .. 4)]
  /\ serverKeys \subseteq Keysyms
  /\ wheelSeen \in Nat
  /\ pointerStale \in BOOLEAN
  /\ unsent \subseteq Keysyms /\ splitKeys \subseteq Keys

(* Back in poll, the server has the pointer and the buttons as they are,     *)
(* unless a send failed in the last batch or a resize moved the pointer      *)
(* after it: skipping an event equal to the last one sent never leaves the   *)
(* server with an old position, nor with a wheel button still down           *)
(* (vnc_session_send_pointer_event, vnc_session_post_process_mouse_input).   *)
PointerInSync ==
  pc = "poll" /\ ~pointerStale => serverPointer = [pos |-> pos, mask |-> buttonMask]

(* Once the batch is sent, the server has seen one click of the wheel for    *)
(* each wheel step of the batch, unless a send failed in it: comparing with  *)
(* the last event sent swallows no click but one the server has down already *)
(* because the event that should have ended it was not sent.                 *)
WheelStepsClick ==
  pc = "mouse" /\ pointerSends = <<>> /\ ~pointerStale => wheelSeen = wheelScrolls

(* Back in poll, the server holds down exactly the keys the user holds       *)
(* down, as far as libinput has reported them, but for keys whose last event *)
(* was dropped for a full key_events or could not be sent, and keys a        *)
(* modifier changed under.  Such an error is one of its key only and lasts   *)
(* only until the key's next event arrives (or its first repetition, for a   *)
(* press): the results of the sends and the dropped events are not looked    *)
(* at, and key repeat never presses a key again that the same or an earlier  *)
(* batch released.                                                           *)
ServerHoldsTheSameKeys ==
  pc = "poll" =>
    \A key \in Keys \ (lostKeys \cup splitKeys \cup {keysym[1] : keysym \in unsent}) :
      key \in keysDown <=> \E keysym \in serverKeys : keysym[1] = key

(* The size goes through the loop as through the mailbox: a size that the    *)
(* session thread wrote is taken or still announced, whatever else the loop  *)
(* is doing.                                                                 *)
announced == eventFd \/ publishing \/ pc \in {"start", "take size"}

Mailbox == INSTANCE SizeMailbox WITH
             Sizes <- DesktopSizes, NoSize <- 0,
             size <- settings, taken <- desktopSize, pending <- announced

ImplementsMailbox == Mailbox!MailboxSpec

\* The read of the timer waits, and no timer runs that would end the wait.
Stuck == pc = "reset timer" /\ ~timerArmed /\ ~timerExpired

InputPauses == <>[](hidQueue = <<>>)

(* A signal asking for the end ends the main loop, provided that the user    *)
(* pauses (vnc_input_handle_events drains libinput while events come) and    *)
(* that the loop does not wait for a timer that was disarmed.                *)
ExitOrStuck == InputPauses => (exitFd ~> (pc = "stopped" \/ Stuck))

(* A signal asking for the end ends the main loop (main.c: "Exit requested", *)
(* then break), provided that the user pauses.                               *)
ExitIsHonoured == InputPauses => (exitFd ~> (pc = "stopped"))
=============================================================================
