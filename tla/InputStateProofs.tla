--------------------------- MODULE InputStateProofs ---------------------------
(***************************************************************************)
(* The invariants of InputState, for every keyboard, every desktop and     *)
(* every size of the arrays.                                               *)
(***************************************************************************)
EXTENDS InputState, TLAPS

(* Clamping leaves a position between zero and the size.                     *)
LEMMA ClampedRange ==
  ASSUME NEW p \in Int, NEW size \in Nat
  PROVE  Clamped(p, size) \in Nat /\ Clamped(p, size) <= size
BY DEF Clamped

(* The keysym of a key, or of no key, is a keysym.                           *)
LEMMA KeysymOfType ==
  ASSUME NEW key \in Keys \cup {NoKey}
  PROVE  KeysymOf(key) \in Keysyms
BY DEF KeysymOf, Keysyms

(* A v120 value is a natural number of wheel steps.                          *)
LEMMA WheelStepsType ==
  ASSUME NEW v120 \in Int
  PROVE  WheelSteps(v120) \in Nat
<1>1. 120 \in Nat \ {0}
  OBVIOUS
<1>2. ASSUME NEW n \in Nat PROVE n \div 120 \in Nat
  BY <1>1
<1>3. (IF v120 < 0 THEN -v120 ELSE v120) \in Nat
  OBVIOUS
<1> QED
  BY <1>2, <1>3 DEF WheelSteps

(* The empty key_events.                                                     *)
LEMMA NoKeyEvents == <<>> \in Seq(KeyEvents) /\ Len(<<>>) = 0
OBVIOUS

-----------------------------------------------------------------------------
(* What an action that leaves the keyboard alone keeps of the types.         *)
PointerTypeOK ==
  /\ pos \in Nat
  /\ desktopSize \in Nat
  /\ buttonMask \subseteq {0, 1, 2}
  /\ wheelScrolls \in 0 .. MaxWheelScrolls
  /\ wheelDirection \in {"UP", "DOWN"}

KeyTypeOK ==
  /\ keysDown \subseteq Keys
  /\ keyEvents \in Seq(KeyEvents) /\ Len(keyEvents) <= MaxKeyEvents
  /\ repeatKey \in RepeatingKeys \cup {NoKey}
  /\ timerArmed \in BOOLEAN
  /\ timerExpired \in BOOLEAN
  /\ lostKeys \subseteq Keys

LEMMA TypeParts == InputTypeOK <=> PointerTypeOK /\ KeyTypeOK
BY DEF InputTypeOK, PointerTypeOK, KeyTypeOK

LEMMA KeyTypesUnchanged ==
  KeyTypeOK /\ UNCHANGED keyVars => KeyTypeOK'
BY DEF KeyTypeOK, keyVars

LEMMA PointerTypesUnchanged ==
  PointerTypeOK /\ UNCHANGED pointerVars => PointerTypeOK'
BY DEF PointerTypeOK, pointerVars

(* The pointer's actions keep the types.                                     *)
LEMMA PointerMoveType ==
  ASSUME InputTypeOK, NEW dx \in Deltas, PointerMove(dx)
  PROVE  InputTypeOK'
<1>1. pos + dx \in Int
  BY NumbersAssumption DEF InputTypeOK
<1>2. pos' \in Nat
  BY <1>1, ClampedRange DEF PointerMove, InputTypeOK
<1>3. PointerTypeOK'
  BY <1>2 DEF PointerMove, InputTypeOK, PointerTypeOK
<1>4. KeyTypeOK'
  BY TypeParts, KeyTypesUnchanged DEF PointerMove
<1> QED
  BY <1>3, <1>4 DEF InputTypeOK, PointerTypeOK, KeyTypeOK

LEMMA DesktopSizeUpdateType ==
  ASSUME InputTypeOK, NEW size \in DesktopSizes, DesktopSizeUpdate(size)
  PROVE  InputTypeOK'
<1>1. size \in Nat /\ pos \in Int
  BY NumbersAssumption DEF InputTypeOK
<1>2. pos' \in Nat
  BY <1>1, ClampedRange DEF DesktopSizeUpdate
<1>3. PointerTypeOK'
  BY <1>1, <1>2 DEF DesktopSizeUpdate, InputTypeOK, PointerTypeOK
<1>4. KeyTypeOK'
  BY TypeParts, KeyTypesUnchanged DEF DesktopSizeUpdate
<1> QED
  BY <1>3, <1>4 DEF InputTypeOK, PointerTypeOK, KeyTypeOK

LEMMA PointerButtonType ==
  ASSUME InputTypeOK, NEW button \in Buttons, NEW pressed \in BOOLEAN,
         PointerButton(button, pressed)
  PROVE  InputTypeOK'
<1>1. ASSUME button \in DOMAIN MappedButton
      PROVE  MappedButton[button] \in {0, 1, 2}
  BY <1>1 DEF MappedButton
<1>2. buttonMask' \subseteq {0, 1, 2}
  BY <1>1 DEF PointerButton, InputTypeOK
<1>3. PointerTypeOK'
  BY <1>2 DEF PointerButton, InputTypeOK, PointerTypeOK
<1>4. KeyTypeOK'
  BY TypeParts, KeyTypesUnchanged DEF PointerButton
<1> QED
  BY <1>3, <1>4 DEF InputTypeOK, PointerTypeOK, KeyTypeOK

LEMMA WheelType ==
  ASSUME InputTypeOK,
         \/ \E v120 \in WheelValues : PointerWheelScroll(v120)
         \/ PointerResetWheelScrolls
  PROVE  InputTypeOK'
<1>1. wheelScrolls' \in 0 .. MaxWheelScrolls
  <2>1. ASSUME NEW v120 \in WheelValues, PointerWheelScroll(v120)
        PROVE  wheelScrolls' \in 0 .. MaxWheelScrolls
    <3>1. WheelSteps(v120) \in Nat
      BY WheelStepsType, NumbersAssumption
    <3>2. /\ wheelScrolls \in Nat /\ MaxWheelScrolls \in Nat
          /\ wheelScrolls' = wheelScrolls + WheelSteps(v120)
          /\ wheelScrolls' <= MaxWheelScrolls
      BY <2>1, NumbersAssumption DEF PointerWheelScroll, InputTypeOK
    <3> QED
      BY <3>1, <3>2
  <2>2. PointerResetWheelScrolls => wheelScrolls' \in 0 .. MaxWheelScrolls
    BY NumbersAssumption DEF PointerResetWheelScrolls
  <2> QED
    BY <2>1, <2>2
<1>2. PointerTypeOK'
  BY <1>1 DEF PointerWheelScroll, PointerResetWheelScrolls, InputTypeOK, PointerTypeOK
<1>3. KeyTypeOK'
  BY TypeParts, KeyTypesUnchanged DEF PointerWheelScroll, PointerResetWheelScrolls
<1> QED
  BY <1>2, <1>3 DEF InputTypeOK, PointerTypeOK, KeyTypeOK

(* So do the keyboard's.                                                     *)
LEMMA UpdateKeyRepeatType ==
  ASSUME KeyTypeOK, NEW key \in RepeatingKeys, NEW pressed \in BOOLEAN,
         UpdateKeyRepeat(key, pressed)
  PROVE  /\ repeatKey' \in RepeatingKeys \cup {NoKey}
         /\ timerArmed' \in BOOLEAN
         /\ timerExpired' \in BOOLEAN
BY DEF UpdateKeyRepeat, SetTimer, timerVars, KeyTypeOK

LEMMA KeyboardKeyType ==
  ASSUME InputTypeOK, NEW key \in Keys, NEW pressed \in BOOLEAN, KeyboardKey(key, pressed)
  PROVE  InputTypeOK'
<1> USE NumbersAssumption
<1>1. KeyTypeOK /\ PointerTypeOK'
  BY TypeParts, PointerTypesUnchanged DEF KeyboardKey
<1>2. keysDown' \subseteq Keys
  BY <1>1 DEF KeyTypeOK, KeyboardKey
<1>3. CASE KeyboardKeyQueued(key, pressed)
  <2>1. [keysym |-> KeysymOf(key), pressed |-> pressed] \in KeyEvents
    BY KeysymOfType DEF KeyEvents
  <2>2. keyEvents' \in Seq(KeyEvents) /\ Len(keyEvents') <= MaxKeyEvents
    BY <1>1, <1>3, <2>1 DEF KeyboardKeyQueued, KeyTypeOK
  <2>3. /\ repeatKey' \in RepeatingKeys \cup {NoKey}
        /\ timerArmed' \in BOOLEAN
        /\ timerExpired' \in BOOLEAN
    BY <1>1, <1>3, UpdateKeyRepeatType DEF KeyboardKeyQueued, KeyTypeOK, timerVars
  <2>4. lostKeys' \subseteq Keys
    BY <1>1, <1>3 DEF KeyboardKeyQueued, KeyTypeOK
  <2> QED
    BY <1>1, <1>2, <2>2, <2>3, <2>4 DEF InputTypeOK, PointerTypeOK
<1>4. CASE KeyboardKeyDropped(key)
  <2>1. lostKeys' \subseteq Keys
    BY <1>1, <1>4 DEF KeyboardKeyDropped, KeyTypeOK
  <2> QED
    BY <1>1, <1>2, <1>4, <2>1
    DEF KeyboardKeyDropped, KeyTypeOK, timerVars, InputTypeOK, PointerTypeOK
<1> QED
  BY <1>3, <1>4 DEF KeyboardKey

LEMMA QueueAndTimerType ==
  ASSUME InputTypeOK, PopKeyboardKeyEvents \/ ResetKeyRepeatTfd \/ TimerExpires
  PROVE  InputTypeOK'
<1> USE NumbersAssumption
<1>1. KeyTypeOK /\ PointerTypeOK'
  BY TypeParts, PointerTypesUnchanged
  DEF PopKeyboardKeyEvents, ResetKeyRepeatTfd, TimerExpires
<1>2. CASE PopKeyboardKeyEvents
  <2>1. keyEvents' \in Seq(KeyEvents) /\ Len(keyEvents') <= MaxKeyEvents
    BY <1>2, NoKeyEvents DEF PopKeyboardKeyEvents
  <2> QED
    BY <1>1, <1>2, <2>1 DEF KeyTypeOK, PopKeyboardKeyEvents, timerVars, InputTypeOK, PointerTypeOK
<1>3. CASE ResetKeyRepeatTfd \/ TimerExpires
  BY <1>1, <1>3
  DEF KeyTypeOK, ResetKeyRepeatTfd, TimerExpires, InputTypeOK, PointerTypeOK
<1> QED
  BY <1>2, <1>3

LEMMA InitType == InputInit => InputTypeOK
<1> SUFFICES ASSUME InputInit PROVE InputTypeOK
  OBVIOUS
<1>1. keyEvents \in Seq(KeyEvents) /\ Len(keyEvents) <= MaxKeyEvents
  BY NoKeyEvents, NumbersAssumption DEF InputInit
<1>2. wheelScrolls \in 0 .. MaxWheelScrolls /\ pos \in Nat /\ desktopSize \in Nat
  BY NumbersAssumption DEF InputInit
<1> QED
  BY <1>1, <1>2 DEF InputInit, InputTypeOK

LEMMA NextType == InputTypeOK /\ [InputNext]_inputVars => InputTypeOK'
<1> SUFFICES ASSUME InputTypeOK, [InputNext]_inputVars PROVE InputTypeOK'
  OBVIOUS
<1>1. CASE \E dx \in Deltas : PointerMove(dx)
  BY <1>1, PointerMoveType
<1>2. CASE \E size \in DesktopSizes : DesktopSizeUpdate(size)
  BY <1>2, DesktopSizeUpdateType
<1>3. CASE \E button \in Buttons, pressed \in BOOLEAN : PointerButton(button, pressed)
  BY <1>3, PointerButtonType
<1>4. CASE \/ \E v120 \in WheelValues : PointerWheelScroll(v120)
           \/ PointerResetWheelScrolls
  BY <1>4, WheelType
<1>5. CASE \E key \in Keys, pressed \in BOOLEAN : KeyboardKey(key, pressed)
  BY <1>5, KeyboardKeyType
<1>6. CASE PopKeyboardKeyEvents \/ ResetKeyRepeatTfd \/ TimerExpires
  BY <1>6, QueueAndTimerType
<1>7. CASE UNCHANGED inputVars
  BY <1>7 DEF inputVars, InputTypeOK
<1> QED
  BY <1>1, <1>2, <1>3, <1>4, <1>5, <1>6, <1>7 DEF InputNext

(* The types of the input state hold throughout: in particular, key_events   *)
(* never holds more than its size.                                           *)
THEOREM TypeCorrect == InputSpec => []InputTypeOK
<1>1. InputInit => InputTypeOK
  BY InitType
<1>2. InputTypeOK /\ [InputNext]_inputVars => InputTypeOK'
  BY NextType
<1> QED
  BY <1>1, <1>2, PTL DEF InputSpec
-----------------------------------------------------------------------------
(* The pointer stays on the desktop, through every motion and every resize.  *)
LEMMA PointerOnDesktopStep ==
  InputTypeOK /\ PointerOnDesktop /\ [InputNext]_inputVars => PointerOnDesktop'
<1> SUFFICES ASSUME InputTypeOK, PointerOnDesktop, [InputNext]_inputVars
             PROVE  PointerOnDesktop'
  OBVIOUS
<1> USE DEF PointerOnDesktop
<1>1. ASSUME NEW dx \in Deltas, PointerMove(dx) PROVE PointerOnDesktop'
  <2>1. pos + dx \in Int /\ desktopSize \in Nat
    BY NumbersAssumption DEF InputTypeOK
  <2> QED
    BY <1>1, <2>1, ClampedRange DEF PointerMove
<1>2. ASSUME NEW size \in DesktopSizes, DesktopSizeUpdate(size) PROVE PointerOnDesktop'
  <2>1. pos \in Int /\ size \in Nat
    BY NumbersAssumption DEF InputTypeOK
  <2> QED
    BY <1>2, <2>1, ClampedRange DEF DesktopSizeUpdate
<1>3. CASE UNCHANGED <<pos, desktopSize>>
  BY <1>3
<1>4. \/ \E dx \in Deltas : PointerMove(dx)
      \/ \E size \in DesktopSizes : DesktopSizeUpdate(size)
      \/ UNCHANGED <<pos, desktopSize>>
  BY DEF InputNext, PointerButton, PointerWheelScroll, PointerResetWheelScrolls, KeyboardKey,
         PopKeyboardKeyEvents, ResetKeyRepeatTfd, TimerExpires, inputVars, pointerVars
<1> QED
  BY <1>1, <1>2, <1>3, <1>4

THEOREM PointerStaysOnDesktop == InputSpec => []PointerOnDesktop
<1>1. InputInit => InputTypeOK /\ PointerOnDesktop
  BY InitType DEF InputInit, PointerOnDesktop
<1>2. /\ InputTypeOK /\ PointerOnDesktop
      /\ [InputNext]_inputVars
      => (InputTypeOK /\ PointerOnDesktop)'
  BY NextType, PointerOnDesktopStep
<1> QED
  BY <1>1, <1>2, PTL DEF InputSpec

-----------------------------------------------------------------------------
(* Only key events and the read of the timer touch the key repeat.           *)
LEMMA RepeatUntouched ==
  ASSUME [InputNext]_inputVars
  PROVE  \/ \E key \in Keys, pressed \in BOOLEAN : KeyboardKey(key, pressed)
         \/ UNCHANGED <<repeatKey, timerArmed, keysDown, lostKeys>>
BY DEF InputNext, PointerMove, DesktopSizeUpdate, PointerButton, PointerWheelScroll,
       PointerResetWheelScrolls, PopKeyboardKeyEvents, ResetKeyRepeatTfd, TimerExpires,
       inputVars, keyVars, timerVars

LEMMA RepeatStep ==
  /\ InputTypeOK /\ RepeatingKeyHasTimer /\ RepeatingKeyIsHeld
  /\ [InputNext]_inputVars
  => RepeatingKeyHasTimer' /\ RepeatingKeyIsHeld'
<1> SUFFICES ASSUME InputTypeOK, RepeatingKeyHasTimer, RepeatingKeyIsHeld,
                    [InputNext]_inputVars
             PROVE  RepeatingKeyHasTimer' /\ RepeatingKeyIsHeld'
  OBVIOUS
<1> USE DEF RepeatingKeyHasTimer, RepeatingKeyIsHeld
<1>1. CASE UNCHANGED <<repeatKey, timerArmed, keysDown, lostKeys>>
  BY <1>1
<1>2. ASSUME NEW key \in Keys, NEW pressed \in BOOLEAN, KeyboardKey(key, pressed)
      PROVE  RepeatingKeyHasTimer' /\ RepeatingKeyIsHeld'
  <2>1. CASE KeyboardKeyQueued(key, pressed) /\ key \in RepeatingKeys
    <3>1. UpdateKeyRepeat(key, pressed)
      BY <2>1 DEF KeyboardKeyQueued
    <3>2. repeatKey' = IF pressed THEN key ELSE NoKey
      BY <3>1 DEF UpdateKeyRepeat
    <3>3. CASE pressed
      <4>1. timerArmed'
        BY <3>1, <3>3, KeysAssumption DEF UpdateKeyRepeat, SetTimer, timerVars
      <4>2. key \in keysDown'
        BY <1>2, <3>3 DEF KeyboardKey
      <4> QED
        BY <3>2, <3>3, <4>1, <4>2
    <3>4. CASE ~pressed
      BY <3>2, <3>4
    <3> QED
      BY <3>3, <3>4
  <2>2. CASE KeyboardKeyQueued(key, pressed) /\ key \notin RepeatingKeys
    <3>1. UNCHANGED <<repeatKey, timerArmed>> /\ lostKeys' = lostKeys \ {key}
      BY <2>2 DEF KeyboardKeyQueued, timerVars
    <3>2. repeatKey # NoKey => repeatKey # key
      BY <2>2 DEF InputTypeOK
    <3> QED
      BY <1>2, <3>1, <3>2 DEF KeyboardKey
  <2>3. CASE KeyboardKeyDropped(key)
    <3>1. UNCHANGED <<repeatKey, timerArmed>>
      BY <2>3 DEF KeyboardKeyDropped, timerVars
    <3>2. keysDown \cup lostKeys \subseteq keysDown' \cup lostKeys'
      BY <1>2, <2>3 DEF KeyboardKey, KeyboardKeyDropped
    <3> QED
      BY <3>1, <3>2
  <2> QED
    BY <1>2, <2>1, <2>2, <2>3 DEF KeyboardKey
<1> QED
  BY <1>1, <1>2, RepeatUntouched

(* A remembered key has its timer and is held down, unless its release was   *)
(* dropped, for every keyboard and every size of key_events.                 *)
THEOREM RepeatIsSound == InputSpec => [](RepeatingKeyHasTimer /\ RepeatingKeyIsHeld)
<1> DEFINE Inv == InputTypeOK /\ RepeatingKeyHasTimer /\ RepeatingKeyIsHeld
<1>1. InputInit => Inv
  BY InitType DEF InputInit, RepeatingKeyHasTimer, RepeatingKeyIsHeld
<1>2. Inv /\ [InputNext]_inputVars => Inv'
  BY NextType, RepeatStep
<1>3. Inv => RepeatingKeyHasTimer /\ RepeatingKeyIsHeld
  OBVIOUS
<1> QED
  BY <1>1, <1>2, <1>3, PTL DEF InputSpec
=============================================================================
