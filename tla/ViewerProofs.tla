----------------------------- MODULE ViewerProofs -----------------------------
(***************************************************************************)
(* The main loop, for every keyboard, pointer, desktop and sizes of the    *)
(* queues: it implements the input state and the mailbox of the desktop    *)
(* size, so that what InputStateProofs proves holds of it too.             *)
(***************************************************************************)
EXTENDS Viewer, InputStateProofs, SequenceTheorems

(* The steps that leave the input state alone.                               *)
LEMMA QuietSteps ==
  ASSUME \/ Poll \/ PollFails \/ ReadEventFd \/ StartInput \/ InputDrained \/ KeysDone
         \/ ExitLoop
         \/ \E sent \in BOOLEAN : SendPointer(sent) \/ SendKey(sent) \/ RepeatKey(sent)
         \/ \E e \in HidEvents : HidEvent(e)
         \/ \E signo \in Signals : ExitSignal(signo)
         \/ \E size \in NewSizes : SessionWritesSize(size)
         \/ SessionSetsEvent
  PROVE  UNCHANGED inputVars
BY DEF Poll, PollFails, ReadEventFd, StartInput, InputDrained, KeysDone, ExitLoop,
       SendPointer, SendKey, RepeatKey, HidEvent, ExitSignal, SessionWritesSize,
       SessionSetsEvent

(* The settings are a size the server may give.                              *)
SettingsOK == settings \in DesktopSizes

LEMMA SettingsStep == SettingsOK /\ [Next]_vars => SettingsOK'
<1> SUFFICES ASSUME SettingsOK, [Next]_vars PROVE SettingsOK'
  OBVIOUS
<1> USE DEF SettingsOK
<1>1. CASE UNCHANGED settings
  BY <1>1
<1>2. CASE \E size \in NewSizes : SessionWritesSize(size)
  BY <1>2, ViewerAssumption DEF SessionWritesSize
<1>3. UNCHANGED mailVars => UNCHANGED settings
  BY DEF mailVars
<1>4. MainGoesOn => UNCHANGED mailVars
  BY DEF MainGoesOn, Start, Poll, ReadEventFd, TakeSize, StartInput, HandleHidEvent,
         InputDrained, SendPointer, ResetWheel, PopKeys, SendKey, KeysDone, RepeatKey,
         ReadTimer, ExitLoop
<1>5. TimerFires \/ UNCHANGED vars => UNCHANGED mailVars
  BY DEF TimerFires, vars, viewerVars
<1>6. ASSUME \/ PollFails
             \/ \E e \in HidEvents : HidEvent(e)
             \/ \E signo \in Signals : ExitSignal(signo)
      PROVE  UNCHANGED mailVars
  BY <1>6 DEF PollFails, HidEvent, ExitSignal
<1>7. SessionSetsEvent => UNCHANGED settings
  BY DEF SessionSetsEvent
<1> QED
  BY <1>1, <1>2, <1>3, <1>4, <1>5, <1>6, <1>7 DEF Next

(* An event libinput reports leads to one of the callbacks.                  *)
LEMMA HidEventTypes ==
  ASSUME NEW e \in HidEvents
  PROVE  /\ e.type = "motion" => e.dx \in Deltas
         /\ e.type = "button" => e.button \in Buttons /\ e.pressed \in BOOLEAN
         /\ e.type = "wheel" => e.v120 \in WheelValues
         /\ e.type = "key" => e.key \in Keys /\ e.pressed \in BOOLEAN
BY DEF HidEvents

LEMMA CallbackStep ==
  ASSUME NEW e \in HidEvents, Callback(e)
  PROVE  InputNext \/ UNCHANGED inputVars
BY HidEventTypes DEF Callback, InputNext

HidQueueOK == hidQueue \in Seq(HidEvents)

LEMMA HidQueueStep == HidQueueOK /\ [Next]_vars => HidQueueOK'
<1> SUFFICES ASSUME HidQueueOK, [Next]_vars PROVE HidQueueOK'
  OBVIOUS
<1> USE DEF HidQueueOK
<1>1. CASE UNCHANGED hidQueue
  BY <1>1
<1>2. CASE HandleHidEvent
  <2>1. hidQueue # <<>> /\ hidQueue' = Tail(hidQueue)
    BY <1>2 DEF HandleHidEvent
  <2> QED
    BY <2>1
<1>3. CASE \E e \in HidEvents : HidEvent(e)
  BY <1>3 DEF HidEvent
<1>4. CASE \/ Start \/ Poll \/ ReadEventFd \/ TakeSize \/ StartInput \/ InputDrained
           \/ ResetWheel \/ PopKeys \/ KeysDone \/ ReadTimer \/ ExitLoop
           \/ \E sent \in SendResults : SendPointer(sent) \/ SendKey(sent) \/ RepeatKey(sent)
  BY <1>4 DEF Start, Poll, ReadEventFd, TakeSize, StartInput, InputDrained, SendPointer,
         ResetWheel, PopKeys, SendKey, KeysDone, RepeatKey, ReadTimer, ExitLoop
<1>5. CASE TimerFires \/ UNCHANGED vars
  BY <1>5 DEF TimerFires, vars, viewerVars
<1>6. CASE \/ PollFails \/ SessionSetsEvent
           \/ \E signo \in Signals : ExitSignal(signo)
           \/ \E size \in NewSizes : SessionWritesSize(size)
  BY <1>6 DEF PollFails, ExitSignal, SessionWritesSize, SessionSetsEvent
<1> QED
  BY <1>1, <1>2, <1>3, <1>4, <1>5, <1>6 DEF Next, MainGoesOn

-----------------------------------------------------------------------------
(* Every step of the loop and of what surrounds it is one call of the input  *)
(* state, or none.                                                           *)
LEMMA InputStateStep ==
  ASSUME SettingsOK, HidQueueOK, [Next]_vars
  PROVE  [InputNext]_inputVars
<1>1. CASE Start \/ TakeSize
  BY <1>1 DEF Start, TakeSize, SettingsOK, InputNext
<1>2. CASE HandleHidEvent
  <2>1. Head(hidQueue) \in HidEvents
    <3>1. hidQueue # <<>> /\ hidQueue \in Seq(HidEvents)
      BY <1>2 DEF HidQueueOK, HandleHidEvent
    <3> QED
      BY <3>1
  <2>2. Callback(Head(hidQueue))
    BY <1>2 DEF HandleHidEvent
  <2> QED
    BY <2>1, <2>2, CallbackStep
<1>3. CASE ResetWheel \/ PopKeys \/ ReadTimer \/ TimerFires
  BY <1>3 DEF ResetWheel, PopKeys, ReadTimer, TimerFires, InputNext
<1>4. CASE UNCHANGED vars
  BY <1>4 DEF vars
<1>5. SendResults \subseteq BOOLEAN
  BY ViewerAssumption DEF SendResults
<1> QED
  BY <1>1, <1>2, <1>3, <1>4, <1>5, QuietSteps DEF Next, MainGoesOn

LEMMA SettingsAndQueue == Spec => [](SettingsOK /\ HidQueueOK)
<1>1. Init => SettingsOK /\ HidQueueOK
  BY DEF Init, SettingsOK, HidQueueOK
<1>2. SettingsOK /\ HidQueueOK /\ [Next]_vars => (SettingsOK /\ HidQueueOK)'
  BY SettingsStep, HidQueueStep
<1> QED
  BY <1>1, <1>2, PTL DEF Spec

(* The input state in the loop takes no step but those of InputState, so the *)
(* invariants proved of all its behaviours hold in the loop.                 *)
LEMMA InputOfLoop == Spec => InputSpec
<1>1. Init => InputInit
  BY DEF Init
<1>2. SettingsOK /\ HidQueueOK /\ [Next]_vars => [InputNext]_inputVars
  BY InputStateStep
<1> QED
  BY <1>1, <1>2, SettingsAndQueue, PTL DEF Spec, InputSpec

(* So in the main loop too the pointer stays on the desktop, and a key that  *)
(* repeats has its timer and is held down.                                   *)
THEOREM LoopKeepsInputInvariants ==
  Spec => [](PointerOnDesktop /\ RepeatingKeyHasTimer /\ RepeatingKeyIsHeld)
BY InputOfLoop, PointerStaysOnDesktop, RepeatIsSound, PTL

-----------------------------------------------------------------------------
(* A step that publishes nothing and takes nothing.                          *)
LEMMA MailboxUntouched ==
  ASSUME UNCHANGED <<settings, desktopSize, eventFd, publishing>>,
         pc \in {"start", "take size"} <=> pc' \in {"start", "take size"}
  PROVE  UNCHANGED Mailbox!mailboxVars
<1>1. announced' = announced
  BY DEF announced
<1> QED
  BY <1>1 DEF Mailbox!mailboxVars

(* The steps of the main thread that have nothing to do with the size: those *)
(* that leave the input state alone, and those that call it.                 *)
LEMMA OtherStepsOfTheLoop ==
  ASSUME \/ Poll \/ PollFails \/ StartInput \/ InputDrained \/ KeysDone \/ ExitLoop
         \/ \E sent \in BOOLEAN : SendPointer(sent) \/ SendKey(sent) \/ RepeatKey(sent)
         \/ HandleHidEvent \/ ResetWheel \/ PopKeys \/ ReadTimer
  PROVE  UNCHANGED Mailbox!mailboxVars
<1>1. UNCHANGED <<settings, eventFd, publishing>>
  BY DEF Poll, PollFails, StartInput, InputDrained, KeysDone, ExitLoop, SendPointer, SendKey,
         RepeatKey, HandleHidEvent, ResetWheel, PopKeys, ReadTimer, fdVars, mailVars
<1>2. pc \notin {"start", "take size"} /\ pc' \notin {"start", "take size"}
  BY DEF Poll, PollFails, StartInput, InputDrained, KeysDone, ExitLoop, SendPointer, SendKey,
         RepeatKey, HandleHidEvent, ResetWheel, PopKeys, ReadTimer, GoTo, Handled, Turn
<1>3. UNCHANGED desktopSize
  <2>1. UNCHANGED inputVars => UNCHANGED desktopSize
    BY DEF inputVars
  <2>2. HandleHidEvent => UNCHANGED desktopSize
    BY <2>1 DEF HandleHidEvent, Callback, PointerMove, PointerButton, PointerWheelScroll,
                KeyboardKey, pointerVars
  <2>3. ResetWheel \/ PopKeys \/ ReadTimer => UNCHANGED desktopSize
    BY DEF ResetWheel, PopKeys, ReadTimer, PointerResetWheelScrolls, PopKeyboardKeyEvents,
           ResetKeyRepeatTfd, pointerVars
  <2> QED
    BY <2>1, <2>2, <2>3, QuietSteps
<1> QED
  BY <1>1, <1>2, <1>3, MailboxUntouched

LEMMA StepsAroundTheLoop ==
  ASSUME \/ \E e \in HidEvents : HidEvent(e)
         \/ \E signo \in Signals : ExitSignal(signo)
         \/ TimerFires
         \/ UNCHANGED vars
  PROVE  UNCHANGED Mailbox!mailboxVars
<1>1. UNCHANGED <<settings, desktopSize, eventFd, publishing, pc>>
  BY DEF HidEvent, ExitSignal, TimerFires, TimerExpires, pointerVars, vars, viewerVars,
         inputVars, fdVars, mailVars
<1> QED
  BY <1>1, MailboxUntouched

LEMMA MailboxStep ==
  ASSUME SettingsOK, [Next]_vars
  PROVE  [Mailbox!MailboxNext]_(Mailbox!mailboxVars)
<1>1. CASE Start \/ TakeSize
  <2>1. announced /\ announced' \in BOOLEAN
    BY <1>1 DEF Start, TakeSize, announced
  <2>2. desktopSize' = settings /\ UNCHANGED settings
    BY <1>1 DEF Start, TakeSize, DesktopSizeUpdate, mailVars
  <2> QED
    BY <2>1, <2>2 DEF Mailbox!MailboxNext, Mailbox!Take
<1>2. ASSUME NEW size \in NewSizes, SessionWritesSize(size)
      PROVE  Mailbox!MailboxNext
  <2>1. announced' = TRUE
    BY <1>2 DEF SessionWritesSize, announced
  <2>2. settings' = size /\ UNCHANGED desktopSize /\ size \in DesktopSizes
    BY <1>2, ViewerAssumption DEF SessionWritesSize, inputVars
  <2> QED
    BY <2>1, <2>2 DEF Mailbox!MailboxNext, Mailbox!Publish
\* The event is set or read: the size that is there is announced (again).
<1>3. CASE SessionSetsEvent \/ ReadEventFd
  <2>1. announced' = TRUE
    <3>1. CASE SessionSetsEvent
      BY <3>1 DEF SessionSetsEvent, announced
    <3>2. CASE ReadEventFd
      BY <3>2 DEF ReadEventFd, announced, GoTo
    <3> QED
      BY <1>3, <3>1, <3>2
  <2>2. UNCHANGED <<settings, desktopSize>>
    BY <1>3 DEF SessionSetsEvent, ReadEventFd, inputVars, mailVars, pointerVars
  <2>3. Mailbox!Publish(settings)
    BY <2>1, <2>2 DEF Mailbox!Publish
  <2> QED
    BY <2>3 DEF Mailbox!MailboxNext, SettingsOK
<1>4. SendResults \subseteq BOOLEAN
  BY ViewerAssumption DEF SendResults
<1>5. CASE MainGoesOn
  <2>1. \/ Start \/ TakeSize \/ ReadEventFd
        \/ Poll \/ StartInput \/ InputDrained \/ KeysDone \/ ExitLoop
        \/ \E sent \in BOOLEAN : SendPointer(sent) \/ SendKey(sent) \/ RepeatKey(sent)
        \/ HandleHidEvent \/ ResetWheel \/ PopKeys \/ ReadTimer
    BY <1>4, <1>5 DEF MainGoesOn
  <2> QED
    BY <2>1, <1>1, <1>3, OtherStepsOfTheLoop
<1>6. PollFails => UNCHANGED Mailbox!mailboxVars
  BY OtherStepsOfTheLoop
<1>7. CASE Next
  <2>1. \/ MainGoesOn \/ PollFails \/ SessionSetsEvent
        \/ \E size \in NewSizes : SessionWritesSize(size)
        \/ \E e \in HidEvents : HidEvent(e)
        \/ \E signo \in Signals : ExitSignal(signo)
        \/ TimerFires
    BY <1>7 DEF Next
  <2> QED
    BY <2>1, <1>2, <1>3, <1>5, <1>6, StepsAroundTheLoop
<1> QED
  BY <1>7, StepsAroundTheLoop

(* The main loop empties the mailbox of the desktop size as it should: a     *)
(* size the session thread wrote is taken or still announced.                *)
THEOREM LoopImplementsMailbox == Spec => ImplementsMailbox
<1>1. Init => Mailbox!MailboxInit
  <2>1. Init => announced = TRUE
    BY DEF Init, announced
  <2> QED
    BY <2>1 DEF Init, InputInit, Mailbox!MailboxInit
<1>2. SettingsOK /\ [Next]_vars => [Mailbox!MailboxNext]_(Mailbox!mailboxVars)
  BY MailboxStep
<1> QED
  BY <1>1, <1>2, SettingsAndQueue, PTL DEF Spec, ImplementsMailbox, Mailbox!MailboxSpec

-----------------------------------------------------------------------------
(* The masks of a batch.                                                     *)
LEMMA PointerMasksType ==
  ASSUME InputTypeOK
  PROVE  /\ PointerMasks \in Seq(SUBSET (0 .. 4))
         /\ Len(PointerMasks) = IF wheelScrolls = 0 THEN 1 ELSE 2 * wheelScrolls
<1>1. buttonMask \subseteq {0, 1, 2} /\ wheelScrolls \in Nat /\ wheelDirection \in {"UP", "DOWN"}
  BY NumbersAssumption DEF InputTypeOK
<1>2. CASE wheelScrolls = 0
  <2>1. buttonMask \in SUBSET (0 .. 4)
    BY <1>1
  <2> QED
    BY <1>2, <2>1 DEF PointerMasks
<1>3. CASE wheelScrolls # 0
  <2> DEFINE still == buttonMask \cap {0, 1, 2}
             mask(i) == IF i % 2 = 1 THEN Toggled(still, WheelBit(wheelDirection))
                        ELSE Toggled(Toggled(still, WheelBit(wheelDirection)), WheelBit(wheelDirection))
  <2>1. \A i \in 1 .. 2 * wheelScrolls : mask(i) \in SUBSET (0 .. 4)
    BY <1>1 DEF Toggled, WheelBit
  <2>2. PointerMasks = [i \in 1 .. 2 * wheelScrolls |-> mask(i)]
    BY <1>3 DEF PointerMasks
  <2>3. 2 * wheelScrolls \in Nat
    BY <1>1
  <2> HIDE DEF mask
  <2> QED
    BY <1>3, <2>1, <2>2, <2>3
<1> QED
  BY <1>2, <1>3

Places ==
  {"start", "poll", "dispatch", "take size", "input", "mouse", "pop keys", "keys",
   "reset timer", "stopped"}

Descriptors == {"VNC", "LIBINPUT", "KEY_REPEAT", "EXIT"}

LEMMA PlacesStep ==
  ASSUME pc \in Places, revents \subseteq Descriptors, [Next]_vars
  PROVE  pc' \in Places /\ revents' \subseteq Descriptors
<1> USE DEF Places, Descriptors, GoTo, Handled
<1>1. CASE \/ Start \/ ReadEventFd \/ TakeSize \/ StartInput \/ HandleHidEvent \/ InputDrained
           \/ ResetWheel \/ PopKeys \/ KeysDone \/ ReadTimer \/ ExitLoop \/ PollFails
  BY <1>1 DEF Start, ReadEventFd, TakeSize, StartInput, HandleHidEvent, InputDrained,
         ResetWheel, PopKeys, KeysDone, ReadTimer, ExitLoop, PollFails
<1>2. CASE Poll
  BY <1>2 DEF Poll, Readable
<1>3. CASE \E sent \in SendResults : SendPointer(sent) \/ SendKey(sent) \/ RepeatKey(sent)
  BY <1>3 DEF SendPointer, SendKey, RepeatKey
<1>4. CASE \/ SessionSetsEvent \/ TimerFires \/ UNCHANGED vars
           \/ \E e \in HidEvents : HidEvent(e)
           \/ \E signo \in Signals : ExitSignal(signo)
           \/ \E size \in NewSizes : SessionWritesSize(size)
  BY <1>4 DEF SessionSetsEvent, TimerFires, HidEvent, ExitSignal, SessionWritesSize, vars,
         viewerVars
<1> QED
  BY <1>1, <1>2, <1>3, <1>4 DEF Next, MainGoesOn

\* What only few actions change.
Flags == exitFd \in BOOLEAN /\ eventFd \in BOOLEAN /\ publishing \in BOOLEAN

LEMMA FlagsStep ==
  ASSUME Flags, [Next]_vars
  PROVE  Flags'
<1> USE DEF Flags, fdVars, mailVars
<1>1. CASE MainGoesOn
  BY <1>1 DEF MainGoesOn, Start, Poll, ReadEventFd, TakeSize, StartInput, HandleHidEvent,
         InputDrained, SendPointer, ResetWheel, PopKeys, SendKey, KeysDone, RepeatKey,
         ReadTimer, ExitLoop
<1>2. CASE \/ PollFails \/ SessionSetsEvent \/ TimerFires \/ UNCHANGED vars
           \/ \E e \in HidEvents : HidEvent(e)
           \/ \E signo \in Signals : ExitSignal(signo)
           \/ \E size \in NewSizes : SessionWritesSize(size)
  BY <1>2 DEF PollFails, SessionSetsEvent, TimerFires, HidEvent, ExitSignal, SessionWritesSize,
         vars, viewerVars
<1> QED
  BY <1>1, <1>2 DEF Next

LEMMA HeldKeysStep ==
  ASSUME heldKeys \subseteq Keys, [Next]_vars
  PROVE  heldKeys' \subseteq Keys
<1>1. CASE MainGoesOn
  BY <1>1 DEF MainGoesOn, Start, Poll, ReadEventFd, TakeSize, StartInput, HandleHidEvent,
         InputDrained, SendPointer, ResetWheel, PopKeys, SendKey, KeysDone, RepeatKey,
         ReadTimer, ExitLoop
<1>2. CASE \E e \in HidEvents : HidEvent(e)
  BY <1>2, HidEventTypes DEF HidEvent
<1>3. CASE \/ PollFails \/ SessionSetsEvent \/ TimerFires \/ UNCHANGED vars
           \/ \E signo \in Signals : ExitSignal(signo)
           \/ \E size \in NewSizes : SessionWritesSize(size)
  BY <1>3 DEF PollFails, SessionSetsEvent, TimerFires, ExitSignal, SessionWritesSize,
         vars, viewerVars
<1> QED
  BY <1>1, <1>2, <1>3 DEF Next

PointerEvents == [pos : Int, mask : SUBSET (0 .. 4)]

SendTypeOK ==
  /\ pointerSends \in Seq(SUBSET (0 .. 4)) /\ keySends \in Seq(KeyEvents)
  /\ lastSent \in PointerEvents
  /\ serverPointer \in PointerEvents
  /\ serverKeys \subseteq Keysyms
  /\ wheelSeen \in Nat
  /\ pointerStale \in BOOLEAN
  /\ unsent \subseteq Keysyms /\ splitKeys \subseteq Keys

LEMMA SendPointerType ==
  ASSUME InputTypeOK, SendTypeOK, NEW sent \in BOOLEAN, SendPointer(sent)
  PROVE  SendTypeOK'
<1> DEFINE event == [pos |-> pos, mask |-> Head(pointerSends)]
           S == SUBSET (0 .. 4)
<1>1. pointerSends \in Seq(S) /\ pointerSends # <<>> /\ pointerSends' = Tail(pointerSends)
  BY DEF SendPointer, SendTypeOK
<1>2. Head(pointerSends) \in S /\ Tail(pointerSends) \in Seq(S)
  <2> HIDE DEF S
  <2> QED
    BY <1>1
<1>3. event \in PointerEvents
  BY <1>2 DEF PointerEvents, InputTypeOK
<1>4. lastSent' \in {event, lastSent} /\ serverPointer' \in {event, serverPointer}
  BY DEF SendPointer
<1>5. wheelSeen' \in Nat
  <2>1. WheelClicks(serverPointer, serverPointer') \in {0, 1}
    BY DEF WheelClicks
  <2>2. wheelSeen' = wheelSeen + WheelClicks(serverPointer, serverPointer') /\ wheelSeen \in Nat
    BY DEF SendPointer, SendTypeOK
  <2> QED
    BY <2>1, <2>2
<1>6. pointerStale' \in BOOLEAN
  BY DEF SendPointer, SendTypeOK
<1>7. keySends' = keySends /\ serverKeys' = serverKeys
      /\ unsent' = unsent /\ splitKeys' = splitKeys
  BY DEF SendPointer, keyHistory
<1> QED
  BY <1>1, <1>2, <1>3, <1>4, <1>5, <1>6, <1>7 DEF SendTypeOK

LEMMA SendKeyEventType ==
  ASSUME SendTypeOK, NEW event \in KeyEvents, NEW sent \in BOOLEAN, SendKeyEvent(event, sent)
  PROVE  /\ serverKeys' \subseteq Keysyms
         /\ splitKeys' = splitKeys
<1>1. event.keysym \in Keysyms
  BY DEF KeyEvents
<1> QED
  BY <1>1 DEF SendKeyEvent, SendTypeOK

LEMMA RepeatKeyEventType ==
  ASSUME InputTypeOK
  PROVE  RepeatKeyEvent \in KeyEvents
<1>1. repeatKey \in Keys \cup {NoKey}
  BY KeysAssumption DEF InputTypeOK
<1> QED
  BY <1>1, KeysymOfType DEF RepeatKeyEvent, KeyEvents

LEMMA SendTypeStep ==
  ASSUME InputTypeOK, SendTypeOK, [Next]_vars
  PROVE  SendTypeOK'
<1> DEFINE E == KeyEvents
<1>1. SendResults \subseteq BOOLEAN
  BY ViewerAssumption DEF SendResults
<1>2. CASE \E sent \in SendResults : SendPointer(sent)
  BY <1>1, <1>2, SendPointerType
<1>3. CASE \E sent \in SendResults : SendKey(sent)
  <2>1. PICK sent \in SendResults : SendKey(sent)
    BY <1>3
  <2>2. keySends \in Seq(E) /\ keySends # <<>> /\ keySends' = Tail(keySends)
    BY <2>1 DEF SendKey, SendTypeOK
  <2>3. Head(keySends) \in E /\ Tail(keySends) \in Seq(E)
    BY <2>2
  <2>4. SendKeyEvent(Head(keySends), sent)
    BY <2>1 DEF SendKey
  <2>5. /\ serverKeys' \subseteq Keysyms
        /\ unsent' \subseteq Keysyms /\ splitKeys' = splitKeys
    <3>1. Head(keySends).keysym \in Keysyms
      BY <2>3 DEF KeyEvents
    <3>2. unsent' \subseteq unsent \cup {Head(keySends).keysym}
      BY <2>1 DEF SendKey
    <3> QED
      BY <2>4, <3>1, <3>2 DEF SendKeyEvent, SendTypeOK
  <2> QED
    BY <2>1, <2>2, <2>3, <2>5 DEF SendKey, SendTypeOK
<1>4. CASE \E sent \in SendResults : RepeatKey(sent)
  <2>1. PICK sent \in SendResults : RepeatKey(sent)
    BY <1>4
  <2>2. SendKeyEvent(RepeatKeyEvent, sent)
    BY <2>1 DEF RepeatKey
  <2>3. RepeatKeyEvent.keysym \in Keysyms
    BY RepeatKeyEventType DEF KeyEvents
  <2>4. /\ serverKeys' \subseteq Keysyms
        /\ unsent' \subseteq unsent /\ splitKeys' = splitKeys
    BY <2>1, <2>2, <2>3 DEF SendKeyEvent, RepeatKey, SendTypeOK
  <2> QED
    BY <2>1, <2>4 DEF RepeatKey, SendTypeOK, sendVars
<1>5. CASE InputDrained
  <2>1. pointerSends' = PointerMasks /\ wheelSeen' \in {0, 1} /\ pointerStale' = FALSE
    BY <1>5 DEF InputDrained
  <2> QED
    BY <1>5, <2>1, PointerMasksType DEF InputDrained, SendTypeOK, wireVars, keyHistory
<1>6. CASE PopKeys
  <2>1. keySends' = keyEvents /\ keyEvents \in Seq(KeyEvents)
    BY <1>6 DEF PopKeys, InputTypeOK
  <2> QED
    BY <1>6, <2>1 DEF PopKeys, SendTypeOK, wireVars, historyVars
<1>7. CASE \/ Start \/ TakeSize
  BY <1>7 DEF Start, TakeSize, SendTypeOK, sendVars, wireVars, keyHistory
<1>8. CASE HandleHidEvent
  <2>1. SplitBy(Head(hidQueue)) \subseteq Keys
    BY DEF SplitBy, InputTypeOK
  <2> QED
    BY <1>8, <2>1 DEF HandleHidEvent, SendTypeOK, sendVars, wireVars
<1>9. CASE \/ Poll \/ PollFails \/ ReadEventFd \/ StartInput \/ ResetWheel \/ KeysDone
           \/ ReadTimer \/ ExitLoop \/ SessionSetsEvent \/ TimerFires \/ UNCHANGED vars
           \/ \E e \in HidEvents : HidEvent(e)
           \/ \E signo \in Signals : ExitSignal(signo)
           \/ \E size \in NewSizes : SessionWritesSize(size)
  BY <1>9 DEF Poll, PollFails, ReadEventFd, StartInput, ResetWheel, KeysDone, ReadTimer, ExitLoop,
         SessionSetsEvent, TimerFires, HidEvent, ExitSignal, SessionWritesSize, vars,
         viewerVars, sendVars, wireVars, historyVars, SendTypeOK
<1> QED
  BY <1>2, <1>3, <1>4, <1>5, <1>6, <1>7, <1>8, <1>9 DEF Next, MainGoesOn

LEMMA ViewerTypeParts ==
  ViewerTypeOK <=> /\ InputTypeOK /\ SettingsOK /\ HidQueueOK /\ heldKeys \subseteq Keys
                   /\ pc \in Places /\ revents \subseteq Descriptors /\ Flags /\ SendTypeOK
BY DEF ViewerTypeOK, SettingsOK, HidQueueOK, Places, Descriptors, Flags, SendTypeOK,
       PointerEvents

LEMMA ViewerTypeStep ==
  ASSUME ViewerTypeOK, [Next]_vars
  PROVE  ViewerTypeOK'
<1>1. /\ InputTypeOK /\ SettingsOK /\ HidQueueOK /\ heldKeys \subseteq Keys
      /\ pc \in Places /\ revents \subseteq Descriptors /\ Flags /\ SendTypeOK
  BY ViewerTypeParts
<1>2. InputTypeOK'
  BY <1>1, InputStateStep, NextType
<1>3. SettingsOK' /\ HidQueueOK'
  BY <1>1, SettingsStep, HidQueueStep
<1>4. heldKeys' \subseteq Keys /\ pc' \in Places /\ revents' \subseteq Descriptors
  BY <1>1, HeldKeysStep, PlacesStep
<1>5. Flags' /\ SendTypeOK'
  BY <1>1, FlagsStep, SendTypeStep
<1> QED
  BY <1>2, <1>3, <1>4, <1>5 DEF ViewerTypeOK, SettingsOK, HidQueueOK, Places, Descriptors, Flags,
     SendTypeOK, PointerEvents

LEMMA ViewerTypeInit == Init => ViewerTypeOK
<1> SUFFICES ASSUME Init PROVE ViewerTypeOK
  OBVIOUS
<1>1. InputTypeOK
  BY InitType DEF Init
<1>2. lastSent \in PointerEvents /\ serverPointer \in PointerEvents
  BY DEF Init, PointerEvents
<1>3. /\ SettingsOK /\ HidQueueOK /\ heldKeys \subseteq Keys
      /\ pc \in Places /\ revents \subseteq Descriptors /\ Flags
  <2>1. SettingsOK /\ HidQueueOK
    BY DEF Init, SettingsOK, HidQueueOK
  <2>2. heldKeys \subseteq Keys /\ pc \in Places /\ revents \subseteq Descriptors /\ Flags
    BY DEF Init, Places, Descriptors, Flags
  <2> QED
    BY <2>1, <2>2
<1>4. SendTypeOK
  BY <1>2 DEF Init, SendTypeOK
<1> QED
  BY <1>1, <1>3, <1>4, ViewerTypeParts

(* The types of the main loop.                                               *)
THEOREM LoopTypesCorrect == Spec => []ViewerTypeOK
<1>1. ViewerTypeOK /\ [Next]_vars => ViewerTypeOK'
  BY ViewerTypeStep
<1> QED
  BY <1>1, ViewerTypeInit, PTL DEF Spec

-----------------------------------------------------------------------------
(* The pointer.  While a batch is sent: which of its masks are still to be   *)
(* sent, and what the server has seen of those that were.                    *)
Sent == Len(PointerMasks) - Len(pointerSends)

\* Each second mask, beginning with the first, is a click.
Clicks(n) == (n + 1) \div 2

WheelGoesOn == wheelScrolls > 0 /\ WheelBit(wheelDirection) \in serverPointer.mask

BatchUnderWay ==
  pc = "mouse" =>
    /\ Sent \in Nat
    /\ \A i \in 1 .. Len(pointerSends) : pointerSends[i] = PointerMasks[Sent + i]
    /\ ~pointerStale /\ Sent = 0 => wheelSeen = IF WheelGoesOn THEN 1 ELSE 0
    /\ ~pointerStale /\ Sent # 0 =>
         /\ serverPointer = [pos |-> pos, mask |-> PointerMasks[Sent]]
         /\ wheelSeen = IF wheelScrolls = 0 THEN 0 ELSE Clicks(Sent)

BatchSent ==
  pc \notin {"start", "input", "mouse"} /\ ~pointerStale =>
    serverPointer = [pos |-> pos, mask |-> buttonMask]

PointerInv == lastSent = serverPointer /\ BatchUnderWay /\ BatchSent

LEMMA MaskValues ==
  ASSUME InputTypeOK, NEW i \in 1 .. Len(PointerMasks)
  PROVE  PointerMasks[i] = IF wheelScrolls # 0 /\ i % 2 = 1
                           THEN buttonMask \cup {WheelBit(wheelDirection)} ELSE buttonMask
<1>1. buttonMask \subseteq {0, 1, 2} /\ wheelScrolls \in Nat /\ wheelDirection \in {"UP", "DOWN"}
  BY NumbersAssumption DEF InputTypeOK
<1>2. CASE wheelScrolls = 0
  <2>1. i = 1
    <3>1. Len(PointerMasks) = 1
      BY <1>2, PointerMasksType
    <3> QED
      BY <3>1
  <2> QED
    BY <1>2, <2>1 DEF PointerMasks
<1>3. CASE wheelScrolls # 0
  <2> DEFINE still == buttonMask \cap {0, 1, 2}
             bit == WheelBit(wheelDirection)
  <2>1. still = buttonMask /\ bit \notin buttonMask
    <3>1. bit \in {3, 4}
      BY DEF WheelBit
    <3>2. bit \notin {0, 1, 2}
      BY <3>1
    <3>3. still = buttonMask
      BY <1>1
    <3> QED
      BY <1>1, <3>2, <3>3
  <2>2. i \in 1 .. 2 * wheelScrolls
    BY <1>3, PointerMasksType
  <2>3. PointerMasks[i] = IF i % 2 = 1 THEN Toggled(still, bit)
                          ELSE Toggled(Toggled(still, bit), bit)
    BY <1>3, <2>2 DEF PointerMasks
  <2>4. Toggled(still, bit) = buttonMask \cup {bit}
        /\ Toggled(Toggled(still, bit), bit) = buttonMask
    BY <2>1 DEF Toggled
  <2> QED
    BY <1>3, <2>3, <2>4
<1> QED
  BY <1>2, <1>3

LEMMA ClicksCount ==
  ASSUME NEW n \in Nat
  PROVE  /\ n % 2 = 1 => Clicks(n + 1) = Clicks(n) /\ (n + 1) % 2 # 1
         /\ n % 2 # 1 => Clicks(n + 1) = Clicks(n) + 1 /\ (n + 1) % 2 = 1
         /\ Clicks(2 * n) = n /\ (2 * n) % 2 # 1
BY DEF Clicks

\* The server's view of one more mask of the batch.
LEMMA NextMask ==
  ASSUME InputTypeOK, PointerInv, pc = "mouse", pointerSends # <<>>, ~pointerStale,
         Sent \in Nat, Sent + 1 \in 1 .. Len(PointerMasks), wheelSeen \in Nat,
         NEW event, event = [pos |-> pos, mask |-> PointerMasks[Sent + 1]]
  PROVE  wheelSeen + WheelClicks(serverPointer, event)
           = IF wheelScrolls = 0 THEN 0 ELSE Clicks(Sent + 1)
<1> DEFINE k == Sent
           bit == WheelBit(wheelDirection)
           before == serverPointer.mask
           after == PointerMasks[k + 1]
<1>1. buttonMask \subseteq {0, 1, 2} /\ wheelScrolls \in Nat /\ bit \in {3, 4}
  BY NumbersAssumption DEF InputTypeOK, WheelBit
<1>2. after = IF wheelScrolls # 0 /\ (k + 1) % 2 = 1 THEN buttonMask \cup {bit} ELSE buttonMask
  BY MaskValues
<1>3. WheelClicks(serverPointer, event) = IF \E b \in {3, 4} : b \in after \ before THEN 1 ELSE 0
  BY DEF WheelClicks
<1>4. CASE wheelScrolls = 0
  <2>1. after \cap {3, 4} = {}
    BY <1>1, <1>2, <1>4
  <2>2. WheelClicks(serverPointer, event) = 0
    BY <1>3, <2>1
  <2>3. wheelSeen = 0
    BY <1>4 DEF PointerInv, BatchUnderWay, WheelGoesOn
  <2> QED
    BY <1>4, <2>2, <2>3
<1>5. CASE wheelScrolls # 0 /\ k = 0
  <2>1. after = buttonMask \cup {bit}
    <3>1. (0 + 1) % 2 = 1
      OBVIOUS
    <3> QED
      BY <1>2, <1>5, <3>1
  <2>2. wheelSeen = IF bit \in before THEN 1 ELSE 0
    BY <1>1, <1>5 DEF PointerInv, BatchUnderWay, WheelGoesOn
  <2>3. (\E b \in {3, 4} : b \in after \ before) <=> bit \notin before
    BY <1>1, <2>1
  <2>4. Clicks(0 + 1) = 1
    BY DEF Clicks
  <2> QED
    BY <1>3, <1>5, <2>2, <2>3, <2>4
<1>6. CASE wheelScrolls # 0 /\ k # 0
  <2>1. serverPointer = [pos |-> pos, mask |-> PointerMasks[k]] /\ wheelSeen = Clicks(k)
    BY <1>6 DEF PointerInv, BatchUnderWay
  <2>2. k \in 1 .. Len(PointerMasks)
    <3>1. Len(PointerMasks) \in Nat
      BY <1>1, PointerMasksType
    <3> QED
      BY <1>6, <3>1
  <2>3. before = IF k % 2 = 1 THEN buttonMask \cup {bit} ELSE buttonMask
    BY <1>6, <2>1, <2>2, MaskValues
  <2>4. CASE k % 2 = 1
    <3>1. Clicks(k + 1) = Clicks(k) /\ (k + 1) % 2 # 1
      BY <2>4, ClicksCount
    <3>2. after = buttonMask
      BY <1>2, <3>1
    <3>3. WheelClicks(serverPointer, event) = 0
      BY <1>1, <1>3, <3>2
    <3> QED
      BY <1>6, <2>1, <3>1, <3>3
  <2>5. CASE k % 2 # 1
    <3>1. Clicks(k + 1) = Clicks(k) + 1 /\ (k + 1) % 2 = 1
      BY <2>5, ClicksCount
    <3>2. after = buttonMask \cup {bit} /\ before = buttonMask
      BY <1>2, <1>6, <2>3, <2>5, <3>1
    <3>3. WheelClicks(serverPointer, event) = 1
      BY <1>1, <1>3, <3>2
    <3> QED
      BY <1>6, <2>1, <3>1, <3>3
  <2> QED
    BY <2>4, <2>5
<1> QED
  BY <1>4, <1>5, <1>6

LEMMA MasksUnchanged ==
  ASSUME UNCHANGED <<wheelScrolls, wheelDirection, buttonMask>>
  PROVE  UNCHANGED PointerMasks
BY DEF PointerMasks

LEMMA SendPointerStep ==
  ASSUME ViewerTypeOK, PointerInv, NEW sent \in BOOLEAN, SendPointer(sent)
  PROVE  PointerInv'
<1> DEFINE k == Sent
           event == [pos |-> pos, mask |-> Head(pointerSends)]
           S == SUBSET (0 .. 4)
<1>1. /\ pc = "mouse" /\ pc' = "mouse" /\ pointerSends # <<>> /\ pointerSends' = Tail(pointerSends)
      /\ UNCHANGED inputVars
  BY DEF SendPointer
<1>2. UNCHANGED <<PointerMasks, pos, buttonMask, wheelScrolls, wheelDirection>>
  BY <1>1, MasksUnchanged DEF inputVars
<1>3. InputTypeOK /\ pointerSends \in Seq(S) /\ wheelSeen \in Nat
  BY DEF ViewerTypeOK
<1>4. /\ Len(pointerSends) \in Nat /\ Len(pointerSends) # 0
      /\ Len(pointerSends') = Len(pointerSends) - 1
      /\ Head(pointerSends) = pointerSends[1]
      /\ \A i \in 1 .. Len(pointerSends') : pointerSends'[i] = pointerSends[i + 1]
  <2> HIDE DEF S
  <2> QED
    BY <1>1, <1>3
<1>5. Len(PointerMasks) \in Nat
  BY <1>3, PointerMasksType, NumbersAssumption DEF InputTypeOK
<1>6. k \in Nat /\ \A i \in 1 .. Len(pointerSends) : pointerSends[i] = PointerMasks[k + i]
  BY <1>1 DEF PointerInv, BatchUnderWay
<1>7. Sent' = k + 1 /\ k + 1 \in 1 .. Len(PointerMasks)
  BY <1>2, <1>4, <1>5, <1>6 DEF Sent
<1>8. Head(pointerSends) = PointerMasks[k + 1]
  BY <1>4, <1>6
<1>9. lastSent' = serverPointer'
  BY DEF SendPointer, PointerInv
<1>10. \A i \in 1 .. Len(pointerSends') : pointerSends'[i] = PointerMasks'[Sent' + i]
  <2> TAKE i \in 1 .. Len(pointerSends')
  <2>1. i + 1 \in 1 .. Len(pointerSends) /\ k + (i + 1) = (k + 1) + i
    BY <1>4, <1>6
  <2> QED
    BY <1>2, <1>4, <1>6, <1>7, <2>1
<1>11. ASSUME ~pointerStale'
       PROVE  /\ serverPointer' = [pos |-> pos, mask |-> PointerMasks[k + 1]]
              /\ wheelSeen' = IF wheelScrolls = 0 THEN 0 ELSE Clicks(k + 1)
  <2>1. ~pointerStale /\ (SameEvent(event, lastSent) \/ sent)
    BY <1>11 DEF SendPointer
  <2>2. lastSent \in PointerEvents /\ lastSent = serverPointer
    BY DEF ViewerTypeOK, PointerEvents, PointerInv
  <2>3. serverPointer' = event
    <3>1. CASE SameEvent(event, lastSent)
      <4>1. event = lastSent
        BY <2>2, <3>1 DEF SameEvent, PointerEvents
      <4> QED
        BY <2>2, <3>1, <4>1 DEF SendPointer
    <3>2. CASE ~SameEvent(event, lastSent) /\ sent
      BY <3>2 DEF SendPointer
    <3> QED
      BY <2>1, <3>1, <3>2
  <2>4. wheelSeen' = wheelSeen + WheelClicks(serverPointer, event)
    BY <2>3 DEF SendPointer
  <2>5. event = [pos |-> pos, mask |-> PointerMasks[Sent + 1]]
    BY <1>8
  <2>6. wheelSeen' = IF wheelScrolls = 0 THEN 0 ELSE Clicks(k + 1)
    <3> HIDE DEF event
    <3> QED
      BY <1>1, <1>3, <1>6, <1>7, <2>1, <2>4, <2>5, NextMask
  <2> QED
    BY <1>8, <2>3, <2>6
<1>12. BatchUnderWay'
  <2>1. Sent' # 0 /\ Sent' \in Nat
    BY <1>6, <1>7
  <2>2. PointerMasks'[Sent'] = PointerMasks[k + 1] /\ pos' = pos /\ wheelScrolls' = wheelScrolls
    BY <1>2, <1>7
  <2> HIDE DEF k
  <2>3. ~pointerStale' =>
          /\ serverPointer' = [pos |-> pos', mask |-> PointerMasks'[Sent']]
          /\ wheelSeen' = IF wheelScrolls' = 0 THEN 0 ELSE Clicks(Sent')
    BY <1>7, <1>11, <2>2
  <2> QED
    BY <1>10, <2>1, <2>3 DEF BatchUnderWay
<1>13. BatchSent'
  BY <1>1 DEF BatchSent
<1> QED
  BY <1>9, <1>12, <1>13 DEF PointerInv

\* A step that sends nothing of the pointer and does not move it.
PointerUntouched ==
  /\ UNCHANGED <<pos, buttonMask, lastSent, serverPointer, pointerStale>>
  /\ \/ UNCHANGED <<pc, wheelScrolls, wheelDirection, pointerSends, wheelSeen>>
     \/ pc \notin {"start", "input", "mouse"} /\ pc' \notin {"start", "input", "mouse"}

LEMMA PointerUntouchedStep ==
  ASSUME PointerInv, PointerUntouched
  PROVE  PointerInv'
<1>1. lastSent' = serverPointer' /\ BatchSent'
  BY DEF PointerInv, PointerUntouched, BatchSent
<1>2. CASE UNCHANGED <<pc, wheelScrolls, wheelDirection, pointerSends, wheelSeen>>
  <2>1. UNCHANGED PointerMasks
    BY <1>2, MasksUnchanged DEF PointerUntouched
  <2>2. UNCHANGED <<Sent, WheelGoesOn>>
    BY <1>2, <2>1 DEF Sent, WheelGoesOn, PointerUntouched
  <2>3. BatchUnderWay'
    BY <1>2, <2>1, <2>2 DEF PointerInv, BatchUnderWay, PointerUntouched
  <2> QED
    BY <1>1, <2>3 DEF PointerInv
<1>3. CASE pc' \notin {"start", "input", "mouse"}
  BY <1>1, <1>3 DEF PointerInv, BatchUnderWay
<1> QED
  BY <1>2, <1>3 DEF PointerUntouched

LEMMA QuietPointerSteps ==
  ASSUME \/ Poll \/ PollFails \/ ReadEventFd \/ PopKeys \/ KeysDone \/ ReadTimer \/ ExitLoop
         \/ \E sent \in BOOLEAN : SendKey(sent) \/ RepeatKey(sent)
         \/ SessionSetsEvent \/ TimerFires \/ UNCHANGED vars
         \/ \E e \in HidEvents : HidEvent(e)
         \/ \E signo \in Signals : ExitSignal(signo)
         \/ \E size \in NewSizes : SessionWritesSize(size)
  PROVE  PointerUntouched
<1> USE DEF PointerUntouched, inputVars, pointerVars, sendVars, wireVars, historyVars
<1>1. CASE Poll \/ PollFails \/ ReadEventFd \/ KeysDone \/ ExitLoop
  BY <1>1 DEF Poll, PollFails, ReadEventFd, KeysDone, ExitLoop, GoTo, Handled, Turn
<1>2. CASE PopKeys \/ ReadTimer
  BY <1>2 DEF PopKeys, ReadTimer, GoTo, Handled, PopKeyboardKeyEvents, ResetKeyRepeatTfd
<1>3. CASE \E sent \in BOOLEAN : SendKey(sent) \/ RepeatKey(sent)
  BY <1>3 DEF SendKey, RepeatKey, GoTo, Turn
<1>4. CASE \/ SessionSetsEvent \/ TimerFires \/ UNCHANGED vars
           \/ \E e \in HidEvents : HidEvent(e)
           \/ \E signo \in Signals : ExitSignal(signo)
           \/ \E size \in NewSizes : SessionWritesSize(size)
  BY <1>4 DEF SessionSetsEvent, TimerFires, TimerExpires, HidEvent, ExitSignal,
              SessionWritesSize, vars, viewerVars
<1> QED
  BY <1>1, <1>2, <1>3, <1>4

LEMMA InputDrainedStep ==
  ASSUME ViewerTypeOK, PointerInv, InputDrained
  PROVE  PointerInv'
<1>1. /\ pc' = "mouse" /\ pointerSends' = PointerMasks
      /\ wheelSeen' = (IF wheelScrolls > 0 /\ WheelBit(wheelDirection) \in serverPointer.mask
                       THEN 1 ELSE 0)
      /\ UNCHANGED <<pos, buttonMask, wheelScrolls, wheelDirection, lastSent, serverPointer>>
  BY DEF InputDrained, GoTo, inputVars, wireVars
<1>2. UNCHANGED PointerMasks
  BY <1>1, MasksUnchanged
<1>3. InputTypeOK /\ wheelScrolls \in Nat
  <2>1. InputTypeOK
    BY DEF ViewerTypeOK
  <2>2. wheelScrolls \in 0 .. MaxWheelScrolls
    BY <2>1 DEF InputTypeOK
  <2> QED
    BY <2>1, <2>2, NumbersAssumption
<1>4. Len(PointerMasks) \in Nat
  BY <1>3, PointerMasksType
<1>5. Sent' = 0
  BY <1>1, <1>2, <1>4 DEF Sent
<1>6. \A i \in 1 .. Len(pointerSends') : pointerSends'[i] = PointerMasks'[Sent' + i]
  <2> TAKE i \in 1 .. Len(pointerSends')
  <2>1. Sent' + i = i
    BY <1>5
  <2> QED
    BY <1>1, <1>2, <2>1
<1>7. BatchUnderWay'
  BY <1>1, <1>5, <1>6 DEF BatchUnderWay, WheelGoesOn
<1> QED
  BY <1>1, <1>7 DEF PointerInv, BatchSent

\* When all masks are sent the last is that of the buttons, and each wheel
\* step has made one click.
LEMMA AllSent ==
  ASSUME ViewerTypeOK, PointerInv, pc = "mouse", pointerSends = <<>>, ~pointerStale
  PROVE  serverPointer = [pos |-> pos, mask |-> buttonMask] /\ wheelSeen = wheelScrolls
<1>1. InputTypeOK /\ wheelScrolls \in Nat
  <2>1. InputTypeOK
    BY DEF ViewerTypeOK
  <2>2. wheelScrolls \in 0 .. MaxWheelScrolls
    BY <2>1 DEF InputTypeOK
  <2> QED
    BY <2>1, <2>2, NumbersAssumption
<1>2. Len(PointerMasks) = IF wheelScrolls = 0 THEN 1 ELSE 2 * wheelScrolls
  BY <1>1, PointerMasksType
<1>3. Sent = Len(PointerMasks) /\ Sent \in Nat /\ Sent # 0
  BY <1>1, <1>2 DEF Sent
<1>4. /\ serverPointer = [pos |-> pos, mask |-> PointerMasks[Sent]]
      /\ wheelSeen = IF wheelScrolls = 0 THEN 0 ELSE Clicks(Sent)
  BY <1>3 DEF PointerInv, BatchUnderWay
<1>5. Sent \in 1 .. Len(PointerMasks)
  BY <1>3
<1>6. wheelScrolls # 0 => Sent % 2 # 1 /\ Clicks(Sent) = wheelScrolls
  BY <1>1, <1>2, <1>3, ClicksCount
<1>7. PointerMasks[Sent] = buttonMask
  BY <1>1, <1>5, <1>6, MaskValues
<1> QED
  BY <1>4, <1>6, <1>7

LEMMA PointerInvStep ==
  ASSUME ViewerTypeOK, PointerInv, [Next]_vars
  PROVE  PointerInv'
<1>1. SendResults \subseteq BOOLEAN
  BY ViewerAssumption DEF SendResults
<1>2. CASE \E sent \in SendResults : SendPointer(sent)
  BY <1>1, <1>2, SendPointerStep
<1>3. CASE InputDrained
  BY <1>3, InputDrainedStep
<1>4. CASE ResetWheel
  <2>1. /\ pc = "mouse" /\ pointerSends = <<>> /\ pc' = "pop keys"
        /\ UNCHANGED <<pos, buttonMask, lastSent, serverPointer, pointerStale>>
    BY <1>4 DEF ResetWheel, GoTo, PointerResetWheelScrolls, wireVars, historyVars
  <2> QED
    BY <2>1, AllSent DEF PointerInv, BatchUnderWay, BatchSent
<1>5. CASE Start
  <2>1. pc' = "poll" /\ pointerStale' = TRUE /\ UNCHANGED <<lastSent, serverPointer>>
    BY <1>5 DEF Start, GoTo, wireVars
  <2> QED
    BY <2>1 DEF PointerInv, BatchUnderWay, BatchSent
<1>6. CASE TakeSize
  <2>1. /\ pc = "take size" /\ pc' \in {"poll", "dispatch"}
        /\ pointerStale' = (pointerStale \/ pos' # pos)
        /\ UNCHANGED <<buttonMask, lastSent, serverPointer>>
    BY <1>6 DEF TakeSize, Handled, DesktopSizeUpdate, wireVars
  <2> QED
    BY <2>1 DEF PointerInv, BatchUnderWay, BatchSent
<1>7. CASE StartInput \/ HandleHidEvent
  <2>1. pc' = "input" /\ UNCHANGED <<lastSent, serverPointer>>
    BY <1>7 DEF StartInput, HandleHidEvent, GoTo, wireVars
  <2> QED
    BY <2>1 DEF PointerInv, BatchUnderWay, BatchSent
<1>8. CASE \/ Poll \/ PollFails \/ ReadEventFd \/ PopKeys \/ KeysDone \/ ReadTimer \/ ExitLoop
           \/ \E sent \in SendResults : SendKey(sent) \/ RepeatKey(sent)
           \/ SessionSetsEvent \/ TimerFires \/ UNCHANGED vars
           \/ \E e \in HidEvents : HidEvent(e)
           \/ \E signo \in Signals : ExitSignal(signo)
           \/ \E size \in NewSizes : SessionWritesSize(size)
  BY <1>1, <1>8, QuietPointerSteps, PointerUntouchedStep
<1> QED
  BY <1>2, <1>3, <1>4, <1>5, <1>6, <1>7, <1>8 DEF Next, MainGoesOn

LEMMA PointerInvInit == Init => PointerInv
BY DEF Init, PointerInv, BatchUnderWay, BatchSent

(* Not sending an event that equals the last one sent never leaves the       *)
(* server with an old position or with a wheel button down, for every size   *)
(* of the desktop and every number of wheel steps                            *)
(* (vnc_session_send_pointer_event).                                         *)
THEOREM ServerHasPointer == Spec => []PointerInSync
<1>1. Init => ViewerTypeOK /\ PointerInv
  BY ViewerTypeInit, PointerInvInit
<1>2. ViewerTypeOK /\ PointerInv /\ [Next]_vars => (ViewerTypeOK /\ PointerInv)'
  BY ViewerTypeStep, PointerInvStep
<1>3. ViewerTypeOK /\ PointerInv => PointerInSync
  BY DEF PointerInv, BatchSent, PointerInSync
<1> QED
  BY <1>1, <1>2, <1>3, PTL DEF Spec

(* Each wheel step is one click at the server, whatever it was sent before   *)
(* (vnc_session_post_process_mouse_input).                                   *)
THEOREM WheelStepsAreClicks == Spec => []WheelStepsClick
<1>1. Init => ViewerTypeOK /\ PointerInv
  BY ViewerTypeInit, PointerInvInit
<1>2. ViewerTypeOK /\ PointerInv /\ [Next]_vars => (ViewerTypeOK /\ PointerInv)'
  BY ViewerTypeStep, PointerInvStep
<1>3. ViewerTypeOK /\ PointerInv => WheelStepsClick
  BY AllSent DEF WheelStepsClick
<1> QED
  BY <1>1, <1>2, <1>3, PTL DEF Spec

-----------------------------------------------------------------------------
(* The keys.  The server follows the keyboard with a delay: what it will     *)
(* hold when the key events of the batch have been sent, too.                *)
Applied(held, event) ==
  IF event.pressed THEN held \cup {event.keysym} ELSE held \ {event.keysym}

After(held, events) ==
  {x \in held : \A i \in 1 .. Len(events) : events[i].keysym # x} \cup
  {x \in Keysyms :
     \E i \in 1 .. Len(events) :
       /\ events[i].keysym = x /\ events[i].pressed
       /\ \A j \in 1 .. Len(events) : j > i => events[j].keysym # x}

Pending == IF pc = "keys" THEN keySends ELSE keyEvents

HeldKeysyms == {KeysymOf(key) : key \in keysDown}

BatchOfKeys ==
  /\ pc # "keys" => keySends = <<>>
  /\ pc \notin {"input", "mouse", "pop keys"} => keyEvents = <<>>

\* The keysyms whose last event could not be sent, when nothing of the batch
\* makes up for it.
UnsentAfter == {x \in unsent : \A i \in 1 .. Len(Pending) : Pending[i].keysym # x}

\* A keysym of which the server is told rightly: of a key that was dropped only
\* the keysym it would have been sent with is in doubt.
Trusted(keysym) ==
  /\ keysym[1] \in Keys \ splitKeys
  /\ keysym \notin UnsentAfter
  /\ keysym[1] \in lostKeys => keysym # KeysymOf(keysym[1])

ServerFollows ==
  \A keysym \in Keysyms :
    Trusted(keysym) => (keysym \in After(serverKeys, Pending) <=> keysym \in HeldKeysyms)

KeysInv == BatchOfKeys /\ ServerFollows

LEMMA AfterNothing ==
  ASSUME NEW held
  PROVE  After(held, <<>>) = held
BY DEF After

\* An event of the keysym decides, and without one what was held before.
LEMMA AfterDependsOn ==
  ASSUME NEW held, NEW other, NEW events, NEW x,
         \/ x \in held <=> x \in other
         \/ \E i \in 1 .. Len(events) : events[i].keysym = x
  PROVE  x \in After(held, events) <=> x \in After(other, events)
BY DEF After

LEMMA AfterOneMore ==
  ASSUME NEW held, held \subseteq Keysyms, NEW events \in Seq(KeyEvents), NEW event \in KeyEvents
  PROVE  After(held, Append(events, event)) = Applied(After(held, events), event)
<1> DEFINE n == Len(events)
           more == Append(events, event)
<1>1. n \in Nat /\ Len(more) = n + 1 /\ more[n + 1] = event
      /\ \A i \in 1 .. n : more[i] = events[i]
  BY AppendProperties
<1>2. event.keysym \in Keysyms /\ event.pressed \in BOOLEAN
  BY DEF KeyEvents
<1>3. \A i \in 1 .. n + 1 : i \in 1 .. n \/ i = n + 1
  BY <1>1
<1>4. 1 .. n \subseteq 1 .. n + 1 /\ n + 1 \in 1 .. n + 1 /\ \A i \in 1 .. n : n + 1 > i
  BY <1>1
<1> HIDE DEF n, more
<1>5. ASSUME NEW x, x # event.keysym
      PROVE  x \in After(held, more) <=> x \in After(held, events)
  <2>1. (\A i \in 1 .. n + 1 : more[i].keysym # x) <=> (\A i \in 1 .. n : events[i].keysym # x)
    BY <1>1, <1>3, <1>4, <1>5
  <2>2. ASSUME NEW i \in 1 .. n
        PROVE  (\A j \in 1 .. n + 1 : j > i => more[j].keysym # x)
                 <=> (\A j \in 1 .. n : j > i => events[j].keysym # x)
    BY <1>1, <1>3, <1>4, <1>5
  <2>3. (\E i \in 1 .. n + 1 : /\ more[i].keysym = x /\ more[i].pressed
                               /\ \A j \in 1 .. n + 1 : j > i => more[j].keysym # x)
        <=> (\E i \in 1 .. n : /\ events[i].keysym = x /\ events[i].pressed
                               /\ \A j \in 1 .. n : j > i => events[j].keysym # x)
    BY <1>1, <1>3, <1>4, <1>5, <2>2
  <2> QED
    BY <1>1, <2>1, <2>3 DEF After, n
<1>6. event.keysym \in After(held, more) <=> event.pressed
  <2>1. ~ \A i \in 1 .. n + 1 : more[i].keysym # event.keysym
    BY <1>1, <1>4
  <2>2. (\E i \in 1 .. n + 1 :
           /\ more[i].keysym = event.keysym /\ more[i].pressed
           /\ \A j \in 1 .. n + 1 : j > i => more[j].keysym # event.keysym)
        <=> event.pressed
    <3>1. ASSUME NEW i \in 1 .. n + 1,
                 \A j \in 1 .. n + 1 : j > i => more[j].keysym # event.keysym
          PROVE  i = n + 1
      BY <1>1, <1>3, <1>4, <3>1
    <3>2. \A j \in 1 .. n + 1 : ~(j > n + 1)
      BY <1>1
    <3> QED
      BY <1>1, <1>4, <3>1, <3>2
  <2> QED
    BY <1>1, <1>2, <2>1, <2>2 DEF After
<1> QED
  BY <1>5, <1>6 DEF Applied, more

LEMMA AfterFirst ==
  ASSUME NEW held, held \subseteq Keysyms, NEW events \in Seq(KeyEvents), events # <<>>
  PROVE  After(Applied(held, Head(events)), Tail(events)) = After(held, events)
<1> DEFINE n == Len(events)
           event == Head(events)
           rest == Tail(events)
<1>1. /\ n \in Nat /\ n # 0 /\ event = events[1] /\ event \in KeyEvents
      /\ Len(rest) = n - 1 /\ \A i \in 1 .. n - 1 : rest[i] = events[i + 1]
  BY HeadTailProperties
<1>2. event.keysym \in Keysyms /\ event.pressed \in BOOLEAN
  BY <1>1 DEF KeyEvents
<1>3. /\ 1 \in 1 .. n
      /\ \A i \in 1 .. n - 1 : i + 1 \in 1 .. n /\ i + 1 > 1
      /\ \A i \in 1 .. n : i # 1 => i - 1 \in 1 .. n - 1 /\ (i - 1) + 1 = i
      /\ \A i, j \in 1 .. n - 1 : j > i <=> j + 1 > i + 1
      /\ \A i \in 1 .. n : i > 1 <=> i # 1
  BY <1>1
<1> HIDE DEF n, event, rest
<1>4. ASSUME NEW x
      PROVE  x \in After(Applied(held, event), rest) <=> x \in After(held, events)
  <2> USE <1>1, <1>3
  <2>0. (\A j \in 1 .. n : j > 1 => events[j].keysym # x)
        <=> \A j \in 1 .. n - 1 : rest[j].keysym # x
    <3>1. ASSUME \A j \in 1 .. n : j > 1 => events[j].keysym # x, NEW j \in 1 .. n - 1
          PROVE  rest[j].keysym # x
      <4>1. j + 1 \in 1 .. n /\ j + 1 > 1 /\ rest[j] = events[j + 1]
        OBVIOUS
      <4> QED
        BY <3>1, <4>1
    <3>2. ASSUME \A j \in 1 .. n - 1 : rest[j].keysym # x, NEW j \in 1 .. n, j > 1
          PROVE  events[j].keysym # x
      <4>1. j - 1 \in 1 .. n - 1 /\ rest[j - 1] = events[j]
        BY <3>2
      <4> QED
        BY <3>2, <4>1
    <3> QED
      BY <3>1, <3>2
  <2>1. (\A i \in 1 .. n : events[i].keysym # x)
        <=> event.keysym # x /\ \A i \in 1 .. n - 1 : rest[i].keysym # x
    BY <2>0
  <2>2. ASSUME NEW i \in 1 .. n - 1
        PROVE  (\A j \in 1 .. n - 1 : j > i => rest[j].keysym # x)
                 <=> (\A j \in 1 .. n : j > i + 1 => events[j].keysym # x)
    <3>1. ASSUME \A j \in 1 .. n - 1 : j > i => rest[j].keysym # x,
                 NEW j \in 1 .. n, j > i + 1
          PROVE  events[j].keysym # x
      <4>1. j # 1 /\ j - 1 \in 1 .. n - 1 /\ j - 1 > i /\ rest[j - 1] = events[j]
        BY <1>1, <1>3, <3>1
      <4> QED
        BY <3>1, <4>1
    <3>2. ASSUME \A j \in 1 .. n : j > i + 1 => events[j].keysym # x,
                 NEW j \in 1 .. n - 1, j > i
          PROVE  rest[j].keysym # x
      <4>1. j + 1 \in 1 .. n /\ j + 1 > i + 1 /\ rest[j] = events[j + 1]
        BY <1>1, <1>3, <3>2
      <4> QED
        BY <3>2, <4>1
    <3> QED
      BY <3>1, <3>2
  <2>3. (\E i \in 1 .. n : /\ events[i].keysym = x /\ events[i].pressed
                           /\ \A j \in 1 .. n : j > i => events[j].keysym # x)
        <=> \/ /\ event.keysym = x /\ event.pressed
               /\ \A j \in 1 .. n - 1 : rest[j].keysym # x
            \/ \E i \in 1 .. n - 1 : /\ rest[i].keysym = x /\ rest[i].pressed
                                     /\ \A j \in 1 .. n - 1 : j > i => rest[j].keysym # x
    <3> DEFINE LastIn(i) == /\ events[i].keysym = x /\ events[i].pressed
                            /\ \A j \in 1 .. n : j > i => events[j].keysym # x
               LastOf(i) == /\ rest[i].keysym = x /\ rest[i].pressed
                            /\ \A j \in 1 .. n - 1 : j > i => rest[j].keysym # x
    <3>1. LastIn(1) <=> /\ event.keysym = x /\ event.pressed
                        /\ \A j \in 1 .. n - 1 : rest[j].keysym # x
      BY <2>0
    <3>2. ASSUME NEW i \in 1 .. n - 1
          PROVE  LastIn(i + 1) <=> LastOf(i)
      <4>1. rest[i] = events[i + 1]
        OBVIOUS
      <4> QED
        BY <2>2, <4>1
    <3>3. \A i \in 1 .. n : i = 1 \/ \E k \in 1 .. n - 1 : i = k + 1
      OBVIOUS
    <3>4. 1 \in 1 .. n /\ \A k \in 1 .. n - 1 : k + 1 \in 1 .. n
      OBVIOUS
    <3> HIDE DEF LastIn, LastOf
    <3>5. (\E i \in 1 .. n : LastIn(i)) <=> LastIn(1) \/ \E i \in 1 .. n - 1 : LastOf(i)
      <4>1. ASSUME NEW i \in 1 .. n, LastIn(i), i # 1
            PROVE  \E k \in 1 .. n - 1 : LastOf(k)
        <5>1. PICK k \in 1 .. n - 1 : i = k + 1
          BY <3>3, <4>1
        <5>2. LastIn(k + 1)
          BY <4>1, <5>1
        <5> QED
          BY <3>2, <5>2
      <4>2. ASSUME NEW k \in 1 .. n - 1, LastOf(k)
            PROVE  \E i \in 1 .. n : LastIn(i)
        BY <3>2, <3>4, <4>2
      <4>3. LastIn(1) => \E i \in 1 .. n : LastIn(i)
        BY <3>4
      <4>4. ASSUME NEW i \in 1 .. n, LastIn(i)
            PROVE  LastIn(1) \/ i # 1
        BY <4>4
      <4> QED
        BY <4>1, <4>2, <4>3, <4>4
    <3> QED
      BY <3>1, <3>5 DEF LastIn, LastOf
  <2>4. x \in Applied(held, event) <=>
          \/ event.keysym = x /\ event.pressed
          \/ event.keysym # x /\ x \in held
    BY <1>2 DEF Applied
  <2>5. x \in After(Applied(held, event), rest) <=>
          \/ x \in Applied(held, event) /\ \A i \in 1 .. n - 1 : rest[i].keysym # x
          \/ x \in Keysyms /\ \E i \in 1 .. n - 1 :
                 /\ rest[i].keysym = x /\ rest[i].pressed
                 /\ \A j \in 1 .. n - 1 : j > i => rest[j].keysym # x
    BY <1>1 DEF After
  <2>6. x \in After(held, events) <=>
          \/ x \in held /\ \A i \in 1 .. n : events[i].keysym # x
          \/ x \in Keysyms /\ \E i \in 1 .. n :
                 /\ events[i].keysym = x /\ events[i].pressed
                 /\ \A j \in 1 .. n : j > i => events[j].keysym # x
    BY DEF After, n
  <2>7. event.keysym = x => x \in Keysyms
    BY <1>2
  <2> QED
    BY <2>1, <2>3, <2>4, <2>5, <2>6, <2>7
<1> QED
  BY <1>4 DEF event, rest

\* A key and its keysym: another key has another keysym.
LEMMA KeysymIsOfKey ==
  ASSUME NEW key
  PROVE  /\ KeysymOf(key)[1] = key /\ KeysymOf(key)'[1] = key
         /\ KeysymOf(NoKey) = NoSymbol
         /\ key \in Keys => KeysymOf(key) # NoSymbol
BY KeysAssumption DEF KeysymOf, NoSymbol

\* Where the key events of the batch are still in the input state.
Collecting == {"input", "mouse", "pop keys"}

KeysUntouched ==
  /\ UNCHANGED <<serverKeys, keysDown, keyEvents, keySends, lostKeys, unsent, splitKeys>>
  /\ pc = "keys" <=> pc' = "keys"
  /\ pc \in Collecting => pc' \in Collecting

LEMMA KeysUntouchedStep ==
  ASSUME KeysInv, KeysUntouched
  PROVE  KeysInv'
<1>1. UNCHANGED <<Pending, HeldKeysyms>>
  BY DEF KeysUntouched, Pending, HeldKeysyms, KeysymOf
<1>4. \A keysym : Trusted(keysym)' <=> Trusted(keysym)
  BY <1>1 DEF Trusted, UnsentAfter, KeysymOf, KeysUntouched
<1>2. BatchOfKeys'
  BY DEF KeysInv, BatchOfKeys, KeysUntouched, Collecting
<1>3. UNCHANGED After(serverKeys, Pending)
  BY <1>1 DEF KeysUntouched, After
<1> QED
  BY <1>1, <1>2, <1>3, <1>4 DEF KeysInv, ServerFollows

LEMMA QuietKeySteps ==
  ASSUME \/ Start \/ Poll \/ PollFails \/ ReadEventFd \/ TakeSize \/ StartInput \/ InputDrained
         \/ ResetWheel \/ ReadTimer \/ ExitLoop
         \/ \E sent \in BOOLEAN : SendPointer(sent)
         \/ SessionSetsEvent \/ TimerFires \/ UNCHANGED vars
         \/ \E e \in HidEvents : HidEvent(e)
         \/ \E signo \in Signals : ExitSignal(signo)
         \/ \E size \in NewSizes : SessionWritesSize(size)
  PROVE  KeysUntouched
<1> USE DEF KeysUntouched, Collecting, inputVars, keyVars, sendVars, wireVars, historyVars,
            keyHistory
<1>1. CASE Start \/ TakeSize
  BY <1>1 DEF Start, TakeSize, GoTo, Handled, DesktopSizeUpdate
<1>2. CASE Poll \/ PollFails \/ ReadEventFd \/ StartInput \/ ExitLoop
  BY <1>2 DEF Poll, PollFails, ReadEventFd, StartInput, ExitLoop, GoTo, Handled, Turn
<1>3. CASE InputDrained \/ ResetWheel
  BY <1>3 DEF InputDrained, ResetWheel, GoTo, PointerResetWheelScrolls
<1>4. CASE ReadTimer
  BY <1>4 DEF ReadTimer, Handled, ResetKeyRepeatTfd
<1>5. CASE \E sent \in BOOLEAN : SendPointer(sent)
  BY <1>5 DEF SendPointer
<1>6. CASE \/ SessionSetsEvent
           \/ \E e \in HidEvents : HidEvent(e)
           \/ \E signo \in Signals : ExitSignal(signo)
           \/ \E size \in NewSizes : SessionWritesSize(size)
  BY <1>6 DEF SessionSetsEvent, HidEvent, ExitSignal, SessionWritesSize
<1>7. CASE TimerFires \/ UNCHANGED vars
  BY <1>7 DEF TimerFires, TimerExpires, vars, viewerVars
<1> QED
  BY <1>1, <1>2, <1>3, <1>4, <1>5, <1>6, <1>7

\* The batch is taken out of the input state, and it is sent.
LEMMA BatchMoves ==
  ASSUME KeysInv, PopKeys \/ KeysDone
  PROVE  KeysInv'
<1>1. UNCHANGED <<serverKeys, keysDown, lostKeys, unsent, splitKeys>>
  BY DEF PopKeys, KeysDone, PopKeyboardKeyEvents, inputVars, wireVars, historyVars
<1>2. UNCHANGED Pending /\ BatchOfKeys'
  <2>1. CASE PopKeys
    <3>1. /\ pc = "pop keys" /\ pc' = "keys" /\ keySends' = keyEvents /\ keyEvents' = <<>>
      BY <2>1 DEF PopKeys, GoTo, PopKeyboardKeyEvents
    <3> QED
      BY <3>1 DEF Pending, BatchOfKeys
  <2>2. CASE KeysDone
    <3>1. /\ pc = "keys" /\ pc' \in {"poll", "dispatch"} /\ keySends = <<>>
          /\ UNCHANGED <<keySends, keyEvents>>
      BY <2>2 DEF KeysDone, Handled, inputVars, sendVars
    <3> QED
      BY <3>1 DEF Pending, KeysInv, BatchOfKeys
  <2> QED
    BY <2>1, <2>2
<1>3. UNCHANGED <<HeldKeysyms, After(serverKeys, Pending)>>
  BY <1>1, <1>2 DEF HeldKeysyms, KeysymOf, After
<1>4. \A keysym : Trusted(keysym)' <=> Trusted(keysym)
  BY <1>1, <1>2 DEF Trusted, UnsentAfter, KeysymOf
<1> QED
  BY <1>2, <1>3, <1>4 DEF KeysInv, ServerFollows

LEMMA SendKeyStep ==
  ASSUME ViewerTypeOK, KeysInv, NEW sent \in BOOLEAN, SendKey(sent)
  PROVE  KeysInv'
<1> DEFINE event == Head(keySends)
           rest == Tail(keySends)
<1>1. /\ pc = "keys" /\ pc' = "keys" /\ keySends # <<>> /\ keySends' = rest
      /\ UNCHANGED inputVars /\ SendKeyEvent(event, sent)
      /\ unsent' = IF sent THEN unsent \ {event.keysym} ELSE unsent \cup {event.keysym}
  BY DEF SendKey
<1>2. UNCHANGED <<keysDown, keyEvents, lostKeys, splitKeys, HeldKeysyms>>
      /\ \A key : KeysymOf(key)' = KeysymOf(key)
  BY <1>1 DEF SendKeyEvent, inputVars, HeldKeysyms, KeysymOf
<1>3. BatchOfKeys'
  BY <1>1, <1>2 DEF KeysInv, BatchOfKeys
<1>4. serverKeys' = IF sent THEN Applied(serverKeys, event) ELSE serverKeys
  BY <1>1 DEF SendKeyEvent, Applied
<1>5. keySends \in Seq(KeyEvents) /\ serverKeys \subseteq Keysyms
  BY DEF ViewerTypeOK
<1>6. Pending = keySends /\ Pending' = rest
  BY <1>1 DEF Pending
<1>7. After(Applied(serverKeys, event), rest) = After(serverKeys, Pending)
  BY <1>1, <1>5, <1>6, AfterFirst
<1>8. \A x : (\A i \in 1 .. Len(keySends) : keySends[i].keysym # x)
              <=> x # event.keysym /\ \A i \in 1 .. Len(rest) : rest[i].keysym # x
  <2> DEFINE n == Len(keySends)
             E == KeyEvents
  <2>1. /\ n \in Nat /\ n # 0 /\ event = keySends[1] /\ Len(rest) = n - 1
        /\ \A i \in 1 .. n - 1 : rest[i] = keySends[i + 1]
    BY <1>1, <1>5, HeadTailProperties
  <2>2. /\ 1 \in 1 .. n /\ \A i \in 1 .. n - 1 : i + 1 \in 1 .. n
        /\ \A i \in 1 .. n : i # 1 => i - 1 \in 1 .. n - 1 /\ (i - 1) + 1 = i
    BY <2>1
  <2> HIDE DEF n, event, rest
  <2>3. ASSUME NEW x, \A i \in 1 .. n - 1 : rest[i].keysym # x, NEW i \in 1 .. n, i # 1
        PROVE  keySends[i].keysym # x
    <3>1. i - 1 \in 1 .. n - 1 /\ rest[i - 1] = keySends[i]
      BY <2>1, <2>2, <2>3
    <3> QED
      BY <2>3, <3>1
  <2>4. ASSUME NEW x, \A i \in 1 .. n : keySends[i].keysym # x
        PROVE  x # event.keysym /\ \A i \in 1 .. n - 1 : rest[i].keysym # x
    BY <2>1, <2>2, <2>4
  <2>5. ASSUME NEW x, x # event.keysym, \A i \in 1 .. n - 1 : rest[i].keysym # x
        PROVE  \A i \in 1 .. n : keySends[i].keysym # x
    BY <2>1, <2>3, <2>5
  <2> QED
    BY <2>1, <2>4, <2>5 DEF n
<1> HIDE DEF event, rest
<1>9. ASSUME NEW x, Trusted(x)'
      PROVE  /\ Trusted(x)
             /\ x \in After(serverKeys, Pending)' <=> x \in After(serverKeys, Pending)
  <2>1. After(serverKeys, Pending)' = After(serverKeys', rest)
    BY <1>6 DEF After
  <2>2. UnsentAfter = {y \in unsent : y # event.keysym /\ \A i \in 1 .. Len(rest) : rest[i].keysym # y}
    BY <1>6, <1>8 DEF UnsentAfter
  <2>3. UnsentAfter' = {y \in unsent' : \A i \in 1 .. Len(rest) : rest[i].keysym # y}
    BY <1>6 DEF UnsentAfter
  <2>4. UnsentAfter \subseteq UnsentAfter'
    BY <1>1, <2>2, <2>3
  <2>5. Trusted(x)
    BY <1>2, <1>9, <2>4 DEF Trusted
  <2>6. CASE sent
    BY <1>4, <1>7, <2>1, <2>5, <2>6
  <2>7. CASE ~sent
    <3>1. x # event.keysym \/ \E i \in 1 .. Len(rest) : rest[i].keysym = x
      <4>1. x \notin UnsentAfter'
        BY <1>9 DEF Trusted
      <4> QED
        BY <1>1, <2>3, <2>7, <4>1
    <3>2. x # event.keysym => (x \in serverKeys <=> x \in Applied(serverKeys, event))
      BY DEF Applied
    <3>3. x \in After(serverKeys, rest) <=> x \in After(Applied(serverKeys, event), rest)
      BY <3>1, <3>2, AfterDependsOn
    <3> QED
      BY <1>4, <1>7, <2>1, <2>5, <2>7, <3>3
  <2> QED
    BY <2>6, <2>7
<1>10. ServerFollows'
  BY <1>2, <1>9 DEF KeysInv, ServerFollows
<1> QED
  BY <1>3, <1>10 DEF KeysInv

\* A key that repeats is held, so the server is told what holds, or the
\* key's release was dropped and it is in doubt anyway.
LEMMA RepeatKeyStep ==
  ASSUME ViewerTypeOK, KeysInv, RepeatingKeyIsHeld, NEW sent \in BOOLEAN, RepeatKey(sent)
  PROVE  KeysInv'
<1> DEFINE repeated == KeysymOf(repeatKey)
<1>1. /\ pc = "dispatch" /\ pc' = "reset timer"
      /\ UNCHANGED inputVars /\ UNCHANGED keySends /\ SendKeyEvent(RepeatKeyEvent, sent)
      /\ unsent' = IF sent /\ repeatKey \in keysDown THEN unsent \ {repeated} ELSE unsent
  BY DEF RepeatKey, RepeatKeyEvent, Turn, GoTo, sendVars
<1>2. UNCHANGED <<keysDown, keyEvents, lostKeys, splitKeys, HeldKeysyms>>
      /\ \A key : KeysymOf(key)' = KeysymOf(key)
  BY <1>1 DEF SendKeyEvent, inputVars, HeldKeysyms, KeysymOf
<1>3. BatchOfKeys'
  BY <1>1, <1>2 DEF KeysInv, BatchOfKeys
<1>4. Pending = <<>> /\ Pending' = <<>>
  BY <1>1, <1>2 DEF KeysInv, BatchOfKeys, Pending
<1>5. serverKeys' = IF sent THEN serverKeys \cup {repeated} ELSE serverKeys
  BY <1>1 DEF SendKeyEvent, RepeatKeyEvent
<1>6. After(serverKeys, Pending) = serverKeys /\ After(serverKeys, Pending)' = serverKeys'
  BY <1>4 DEF After
<1>7. UnsentAfter = unsent /\ UnsentAfter' = unsent'
  BY <1>4 DEF UnsentAfter
<1> HIDE DEF repeated
<1>8. ASSUME NEW x, x # repeated, Trusted(x)'
      PROVE  Trusted(x) /\ (x \in serverKeys' <=> x \in serverKeys)
  BY <1>1, <1>2, <1>5, <1>7, <1>8 DEF Trusted
<1>9. ASSUME NEW x, x = repeated, Trusted(x)', sent, repeatKey \notin keysDown
      PROVE  FALSE
  <2>1. x[1] = repeatKey /\ x = KeysymOf(repeatKey)
    BY <1>9, KeysymIsOfKey DEF repeated
  <2>2. repeatKey \in Keys
    BY <1>9, <2>1 DEF Trusted
  <2>3. repeatKey \in lostKeys
    BY <1>9, <2>2, KeysAssumption DEF RepeatingKeyIsHeld
  <2> QED
    BY <1>2, <1>9, <2>1, <2>3 DEF Trusted
<1>10. ASSUME NEW x, Trusted(x)', ~sent
       PROVE  Trusted(x) /\ serverKeys' = serverKeys
  BY <1>1, <1>2, <1>5, <1>7, <1>10 DEF Trusted
<1>11. ASSUME sent, repeatKey \in keysDown
       PROVE  repeated \in serverKeys' /\ repeated \in HeldKeysyms
  BY <1>5, <1>11 DEF HeldKeysyms, repeated
<1>12. ASSUME NEW x \in Keysyms, Trusted(x)'
       PROVE  x \in serverKeys' <=> x \in HeldKeysyms
  <2>1. CASE x # repeated
    BY <1>6, <1>8, <1>12, <2>1 DEF KeysInv, ServerFollows
  <2>2. CASE x = repeated /\ sent
    BY <1>9, <1>11, <1>12, <2>2
  <2>3. CASE x = repeated /\ ~sent
    BY <1>6, <1>10, <1>12, <2>3 DEF KeysInv, ServerFollows
  <2> QED
    BY <2>1, <2>2, <2>3
<1>13. ServerFollows'
  BY <1>2, <1>6, <1>12 DEF ServerFollows
<1> QED
  BY <1>3, <1>13 DEF KeysInv

\* A key event, queued or dropped, says nothing of the keysyms of other keys:
\* those a modifier changes are set aside.
LEMMA OtherKeysyms ==
  ASSUME InputTypeOK, pc = "input", pc' = "input", unsent' = unsent,
         NEW key \in Keys, NEW pressed \in BOOLEAN,
         splitKeys' = splitKeys \cup IF key \in Modifiers
                                     THEN (keysDown \cup lostKeys) \ Modifiers ELSE {},
         KeyboardKey(key, pressed),
         NEW x \in Keysyms, x # KeysymOf(key), Trusted(x)'
  PROVE  Trusted(x) /\ (x \in HeldKeysyms' <=> x \in HeldKeysyms)
<1> DEFINE k == x[1]
<1>1. k \in Keys /\ k \notin splitKeys' /\ k \notin splitKeys
  BY DEF Trusted
<1>2. /\ keysDown' = IF pressed THEN keysDown \cup {key} ELSE keysDown \ {key}
      /\ KeyboardKeyQueued(key, pressed) \/ KeyboardKeyDropped(key)
  BY DEF KeyboardKey
<1>3. lostKeys \subseteq lostKeys' \cup {key} /\ (k # key => (k \in lostKeys' <=> k \in lostKeys))
  BY <1>2 DEF KeyboardKeyQueued, KeyboardKeyDropped
<1>4. x \notin UnsentAfter
  <2>1. x \notin UnsentAfter'
    BY DEF Trusted
  <2>2. Pending = keyEvents /\ Pending' = keyEvents'
    BY DEF Pending
  <2>3. CASE KeyboardKeyDropped(key)
    BY <2>1, <2>2, <2>3 DEF KeyboardKeyDropped, UnsentAfter
  <2>4. CASE KeyboardKeyQueued(key, pressed)
    <3> DEFINE event == [keysym |-> KeysymOf(key), pressed |-> pressed]
               n == Len(keyEvents)
               E == KeyEvents
    <3>1. keyEvents' = Append(keyEvents, event) /\ event.keysym # x
      BY <2>4 DEF KeyboardKeyQueued
    <3>2. keyEvents \in Seq(E) /\ event \in E
      BY KeysymOfType DEF InputTypeOK, KeyEvents
    <3> HIDE DEF event, E
    <3>3. /\ n \in Nat /\ Len(keyEvents') = n + 1 /\ keyEvents'[n + 1] = event
          /\ \A i \in 1 .. n : keyEvents'[i] = keyEvents[i]
      BY <3>1, <3>2, AppendProperties
    <3>4. \A i \in 1 .. n + 1 : i \in 1 .. n \/ i = n + 1
      BY <3>3
    <3> HIDE DEF n
    <3>5. (\A i \in 1 .. n : keyEvents[i].keysym # x)
          => \A i \in 1 .. Len(keyEvents') : keyEvents'[i].keysym # x
      BY <3>1, <3>3, <3>4
    <3> QED
      BY <2>1, <2>2, <3>5 DEF UnsentAfter, n
  <2> QED
    BY <1>2, <2>3, <2>4
<1>5. k \in Modifiers \/ key \notin Modifiers => KeysymOf(k)' = KeysymOf(k)
  BY <1>2 DEF KeysymOf
<1>6. key \in Modifiers /\ k \notin Modifiers =>
        k \notin keysDown /\ k \notin lostKeys /\ k # key
  BY <1>1
<1>7. k = key => KeysymOf(k)' = KeysymOf(k)
  BY <1>5
<1>8. Trusted(x)
  <2>1. CASE k = key
    BY <1>1, <1>4, <2>1 DEF Trusted
  <2>2. CASE k # key /\ (k \in Modifiers \/ key \notin Modifiers)
    BY <1>1, <1>3, <1>4, <1>5, <2>2 DEF Trusted
  <2>3. CASE key \in Modifiers /\ k \notin Modifiers
    BY <1>1, <1>4, <1>6, <2>3 DEF Trusted
  <2> QED
    BY <2>1, <2>2, <2>3
<1>9. /\ x \in HeldKeysyms <=> k \in keysDown /\ x = KeysymOf(k)
      /\ x \in HeldKeysyms' <=> k \in keysDown' /\ x = KeysymOf(k)'
  BY KeysymIsOfKey DEF HeldKeysyms
<1>10. k # key => (k \in keysDown' <=> k \in keysDown)
  BY <1>2
<1> HIDE DEF k
<1> QED
  BY <1>5, <1>6, <1>7, <1>8, <1>9, <1>10 DEF k

\* A key event that is queued: its keysym is in order again.
LEMMA KeyQueued ==
  ASSUME ViewerTypeOK, KeysInv, pc = "input", pc' = "input", unsent' = unsent,
         serverKeys' = serverKeys,
         NEW key \in Keys, NEW pressed \in BOOLEAN,
         splitKeys' = splitKeys \cup IF key \in Modifiers
                                     THEN (keysDown \cup lostKeys) \ Modifiers ELSE {},
         KeyboardKey(key, pressed), KeyboardKeyQueued(key, pressed)
  PROVE  ServerFollows'
<1> DEFINE event == [keysym |-> KeysymOf(key), pressed |-> pressed]
           E == KeyEvents
<1>1. event \in E /\ event.keysym = KeysymOf(key) /\ event.pressed = pressed
  BY KeysymOfType DEF KeyEvents
<1>2. InputTypeOK /\ keyEvents \in Seq(E) /\ serverKeys \subseteq Keysyms
  <2>1. InputTypeOK /\ serverKeys \subseteq Keysyms
    BY DEF ViewerTypeOK
  <2> QED
    BY <2>1 DEF InputTypeOK
<1>3. Pending = keyEvents /\ Pending' = Append(keyEvents, event)
  BY DEF KeyboardKeyQueued, Pending
<1>4. KeysymOf(key)[1] = key /\ KeysymOf(key)'[1] = key
  BY KeysymIsOfKey
<1>5. After(serverKeys, Pending)' = Applied(After(serverKeys, Pending), event)
  <2>1. After(serverKeys, Pending)' = After(serverKeys, Append(keyEvents, event))
    BY <1>3 DEF After
  <2> HIDE DEF event, E
  <2> QED
    BY <1>1, <1>2, <1>3, <2>1, AfterOneMore DEF E
<1>6. KeysymOf(key)' = KeysymOf(key)
  BY DEF KeyboardKey, KeysymOf
<1>7. KeysymOf(key) \in HeldKeysyms' <=> pressed
  <2>1. KeysymOf(key) \in HeldKeysyms' <=> key \in keysDown'
    BY <1>4, <1>6, KeysymIsOfKey DEF HeldKeysyms
  <2> QED
    BY <2>1 DEF KeyboardKey
<1> HIDE DEF event
<1>8. ASSUME NEW x \in Keysyms, Trusted(x)'
      PROVE  x \in After(serverKeys, Pending)' <=> x \in HeldKeysyms'
  <2>1. CASE x = KeysymOf(key)
    BY <1>1, <1>5, <1>7, <2>1 DEF Applied
  <2>2. CASE x # KeysymOf(key)
    <3>1. Trusted(x) /\ (x \in HeldKeysyms' <=> x \in HeldKeysyms)
      BY <1>2, <1>8, <2>2, OtherKeysyms
    <3>2. x \in After(serverKeys, Pending)' <=> x \in After(serverKeys, Pending)
      BY <1>1, <1>5, <2>2 DEF Applied
    <3> QED
      BY <3>1, <3>2 DEF KeysInv, ServerFollows
  <2> QED
    BY <2>1, <2>2
<1> QED
  BY <1>8 DEF ServerFollows

\* A key event that is dropped: its keysym is in doubt from now on.
LEMMA KeyDropped ==
  ASSUME ViewerTypeOK, KeysInv, pc = "input", pc' = "input", unsent' = unsent,
         serverKeys' = serverKeys,
         NEW key \in Keys, NEW pressed \in BOOLEAN,
         splitKeys' = splitKeys \cup IF key \in Modifiers
                                     THEN (keysDown \cup lostKeys) \ Modifiers ELSE {},
         KeyboardKey(key, pressed), KeyboardKeyDropped(key)
  PROVE  ServerFollows'
<1>1. InputTypeOK
  BY DEF ViewerTypeOK
<1>2. lostKeys' = lostKeys \cup {key} /\ keyEvents' = keyEvents
  BY DEF KeyboardKeyDropped
<1>3. After(serverKeys, Pending)' = After(serverKeys, Pending)
  BY <1>2 DEF Pending, After
<1>4. KeysymOf(key)' = KeysymOf(key) /\ KeysymOf(key)[1] = key
  BY KeysymIsOfKey DEF KeyboardKey, KeysymOf
<1>5. ASSUME NEW x \in Keysyms, Trusted(x)'
      PROVE  x \in After(serverKeys, Pending)' <=> x \in HeldKeysyms'
  <2>1. x # KeysymOf(key)
    BY <1>2, <1>4, <1>5 DEF Trusted
  <2>2. Trusted(x) /\ (x \in HeldKeysyms' <=> x \in HeldKeysyms)
    BY <1>1, <1>5, <2>1, OtherKeysyms
  <2> QED
    BY <1>3, <2>2 DEF KeysInv, ServerFollows
<1> QED
  BY <1>5 DEF ServerFollows

LEMMA HandleHidEventKeys ==
  ASSUME ViewerTypeOK, KeysInv, HandleHidEvent
  PROVE  KeysInv'
<1> DEFINE e == Head(hidQueue)
<1>1. /\ pc = "input" /\ hidQueue # <<>> /\ Callback(e)
      /\ UNCHANGED <<pc, keySends, serverKeys, unsent>>
      /\ splitKeys' = splitKeys \cup SplitBy(e)
  BY DEF HandleHidEvent, sendVars, wireVars
<1>2. e \in HidEvents
  <2>1. hidQueue \in Seq(HidEvents)
    BY DEF ViewerTypeOK
  <2> DEFINE H == HidEvents
  <2> HIDE DEF H
  <2>2. hidQueue \in Seq(H) /\ hidQueue # <<>> => Head(hidQueue) \in H
    OBVIOUS
  <2> QED
    BY <1>1, <2>1, <2>2 DEF H
<1>3. BatchOfKeys'
  BY <1>1 DEF KeysInv, BatchOfKeys
<1> HIDE DEF e
<1>4. CASE e.type = "key"
  <2>1. e.key \in Keys /\ e.pressed \in BOOLEAN
    BY <1>2, <1>4, HidEventTypes
  <2>2. KeyboardKey(e.key, e.pressed)
    BY <1>1, <1>4 DEF Callback
  <2>3. splitKeys' = splitKeys \cup IF e.key \in Modifiers
                                    THEN (keysDown \cup lostKeys) \ Modifiers ELSE {}
    BY <1>1, <1>4 DEF SplitBy
  <2>4. KeyboardKeyQueued(e.key, e.pressed) \/ KeyboardKeyDropped(e.key)
    BY <2>2 DEF KeyboardKey
  <2>5. ServerFollows'
    BY <1>1, <2>1, <2>2, <2>3, <2>4, KeyQueued, KeyDropped
  <2> QED
    BY <1>3, <2>5 DEF KeysInv
<1>5. CASE e.type # "key"
  <2>1. UNCHANGED keyVars
    BY <1>1, <1>5 DEF Callback, PointerMove, PointerButton, PointerWheelScroll, keyVars, inputVars
  <2>2. splitKeys' = splitKeys
    BY <1>1, <1>5 DEF SplitBy
  <2>3. KeysUntouched
    BY <1>1, <2>1, <2>2 DEF KeysUntouched, keyVars
  <2> QED
    BY <2>3, KeysUntouchedStep
<1> QED
  BY <1>4, <1>5

LEMMA KeysInvStep ==
  ASSUME ViewerTypeOK, KeysInv, RepeatingKeyIsHeld, [Next]_vars
  PROVE  KeysInv'
<1>1. SendResults \subseteq BOOLEAN
  BY ViewerAssumption DEF SendResults
<1>2. CASE \E sent \in SendResults : SendKey(sent)
  BY <1>1, <1>2, SendKeyStep
<1>3. CASE \E sent \in SendResults : RepeatKey(sent)
  BY <1>1, <1>3, RepeatKeyStep
<1>4. CASE HandleHidEvent
  BY <1>4, HandleHidEventKeys
<1>5. CASE PopKeys \/ KeysDone
  BY <1>5, BatchMoves
<1>6. CASE \/ Start \/ Poll \/ PollFails \/ ReadEventFd \/ TakeSize \/ StartInput \/ InputDrained
           \/ ResetWheel \/ ReadTimer \/ ExitLoop
           \/ \E sent \in SendResults : SendPointer(sent)
           \/ SessionSetsEvent \/ TimerFires \/ UNCHANGED vars
           \/ \E e \in HidEvents : HidEvent(e)
           \/ \E signo \in Signals : ExitSignal(signo)
           \/ \E size \in NewSizes : SessionWritesSize(size)
  BY <1>1, <1>6, QuietKeySteps, KeysUntouchedStep
<1> QED
  BY <1>2, <1>3, <1>4, <1>5, <1>6 DEF Next, MainGoesOn

LEMMA KeysInvInit == Init => KeysInv
<1> SUFFICES ASSUME Init PROVE KeysInv
  OBVIOUS
<1>1. /\ pc = "start" /\ keyEvents = <<>> /\ keySends = <<>> /\ serverKeys = {}
      /\ keysDown = {}
  BY DEF Init, InputInit
<1>2. Pending = <<>> /\ HeldKeysyms = {}
  BY <1>1 DEF Pending, HeldKeysyms
<1>3. After(serverKeys, Pending) = {}
  BY <1>1, <1>2, AfterNothing
<1> QED
  BY <1>1, <1>2, <1>3 DEF KeysInv, BatchOfKeys, ServerFollows

(* For every keyboard and length of key_events, whatever the order of        *)
(* batches, repeats, dropped events and failing sends: back in poll, the     *)
(* server holds a key down exactly when the keyboard does, but for the keys  *)
(* whose last event was dropped or not sent and those a modifier changed     *)
(* under.  The repeating key is sent after the batch that may have released  *)
(* it (main.c's order of descriptors), and by then it is either still held,  *)
(* no longer remembered, or its release was dropped.                         *)
THEOREM ServerHoldsKeys == Spec => []ServerHoldsTheSameKeys
<1> DEFINE Inv == /\ ViewerTypeOK /\ KeysInv
                  /\ RepeatingKeyHasTimer /\ RepeatingKeyIsHeld
<1>1. Init => Inv
  BY ViewerTypeInit, KeysInvInit
  DEF Init, InputInit, RepeatingKeyHasTimer, RepeatingKeyIsHeld
<1>2. Inv /\ [Next]_vars => Inv'
  <2>1. ASSUME Inv, [Next]_vars
        PROVE  RepeatingKeyHasTimer' /\ RepeatingKeyIsHeld'
    BY <2>1, ViewerTypeParts, InputStateStep, RepeatStep
  <2> QED
    BY <2>1, ViewerTypeStep, KeysInvStep
<1>3. Inv => ServerHoldsTheSameKeys
  <2> SUFFICES ASSUME Inv, pc = "poll",
                      NEW key \in Keys \ (lostKeys \cup splitKeys
                                          \cup {keysym[1] : keysym \in unsent})
               PROVE  key \in keysDown <=> \E keysym \in serverKeys : keysym[1] = key
    BY DEF ServerHoldsTheSameKeys
  <2>1. Pending = <<>>
    BY DEF KeysInv, BatchOfKeys, Pending
  <2>2. After(serverKeys, Pending) = serverKeys /\ UnsentAfter = unsent
    BY <2>1, AfterNothing DEF UnsentAfter
  <2>3. ASSUME NEW x, x[1] = key
        PROVE  Trusted(x)
    BY <2>2, <2>3 DEF Trusted
  <2>4. ASSUME NEW x \in Keysyms, x[1] = key
        PROVE  x \in serverKeys <=> x \in HeldKeysyms
    BY <2>2, <2>3, <2>4 DEF KeysInv, ServerFollows
  <2>5. ASSUME NEW x \in serverKeys, x[1] = key
        PROVE  key \in keysDown
    <3>1. x \in Keysyms
      BY DEF ViewerTypeOK
    <3> QED
      BY <2>4, <2>5, <3>1, KeysymIsOfKey DEF HeldKeysyms
  <2>6. ASSUME key \in keysDown
        PROVE  \E x \in serverKeys : x[1] = key
    <3>1. KeysymOf(key) \in Keysyms /\ KeysymOf(key)[1] = key
      BY KeysymOfType, KeysymIsOfKey
    <3> QED
      BY <2>4, <2>6, <3>1 DEF HeldKeysyms
  <2> QED
    BY <2>5, <2>6
<1> QED
  BY <1>1, <1>2, <1>3, PTL DEF Spec
=============================================================================
