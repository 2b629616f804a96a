------------------------------ MODULE InputState ------------------------------
(***************************************************************************)
(* The input state of the viewer (src/src/input_state.c): what the         *)
(* libinput callbacks accumulate between two calls of the main loop, and   *)
(* the key repeat timer.  One coordinate stands for both: xpos and ypos    *)
(* go through the same code and never meet.                                *)
(*                                                                         *)
(* The xkb state is external (libxkbcommon): of it the model keeps the set *)
(* of keys that are down, which is what the keysym of a key depends on.    *)
(***************************************************************************)
EXTENDS Integers, Sequences

CONSTANTS
  Keys,             \* keycodes of the keyboard (after the "+ 8" of libinput codes)
  RepeatingKeys,    \* those for which xkb_keymap_key_repeats answers yes
  Modifiers,        \* those that change the keysym of other keys
  NoKey,            \* keycode 0, which no key has
  MaxKeyEvents,     \* ARRAY_COUNT(key_events), 256 in the source
  Deltas,           \* pointer motions libinput may report
  Buttons,          \* pointer buttons libinput may report, by name
  WheelValues,      \* v120 values libinput may report for the wheel
  DesktopSizes,     \* sizes the server may give the desktop
  MaxWheelScrolls   \* bound of the model on the wheel steps of one batch

ASSUME KeysAssumption ==
  /\ RepeatingKeys \subseteq Keys
  /\ Modifiers \subseteq Keys
  /\ NoKey \notin Keys

ASSUME NumbersAssumption ==
  /\ MaxKeyEvents \in Nat \ {0}
  /\ Deltas \subseteq Int
  /\ WheelValues \subseteq Int
  /\ DesktopSizes \subseteq Nat
  /\ MaxWheelScrolls \in Nat

VARIABLES
  pos,              \* pos.x (or pos.y)
  desktopSize,      \* desktop_size.width (or .height)
  buttonMask,       \* the set of bits of button_mask that are 1
  wheelScrolls,     \* wheel_scrolls
  wheelDirection,   \* wheel_scroll_direction
  keysDown,         \* keys the xkb state holds down
  keyEvents,        \* key_events[0 .. key_event_count - 1]
  repeatKey,        \* key_repeat.keycode
  timerArmed,       \* the timer behind key_repeat_tfd has a next expiry
  timerExpired,     \* key_repeat_tfd is readable
  lostKeys          \* history: keys whose last event was dropped

pointerVars == <<pos, desktopSize, buttonMask, wheelScrolls, wheelDirection>>
timerVars   == <<timerArmed, timerExpired>>
keyVars     == <<keysDown, keyEvents, repeatKey, timerArmed, timerExpired, lostKeys>>
inputVars   == <<pos, desktopSize, buttonMask, wheelScrolls, wheelDirection,
                 keysDown, keyEvents, repeatKey, timerArmed, timerExpired, lostKeys>>

Keysyms   == (Keys \cup {NoKey}) \X SUBSET Modifiers
NoSymbol  == <<NoKey, {}>>
KeyEvents == [keysym : Keysyms, pressed : BOOLEAN]

-----------------------------------------------------------------------------
(***************************************************************************)
(* The pointer                                                             *)
(***************************************************************************)

\* move_pointer keeps the pointer on the desktop, right border included.
Clamped(p, size) == IF p < 0 THEN 0 ELSE IF p > size THEN size ELSE p

PointerMove(dx) ==
  /\ pos' = Clamped(pos + dx, desktopSize)
  /\ UNCHANGED <<desktopSize, buttonMask, wheelScrolls, wheelDirection, keyVars>>

\* (mutant) The pointer is left where it was.
DesktopSizeUpdateUnclamped(size) ==
  /\ desktopSize' = size
  /\ UNCHANGED <<pos, buttonMask, wheelScrolls, wheelDirection, keyVars>>

DesktopSizeUpdate(size) ==
  /\ desktopSize' = size
  /\ pos' = Clamped(pos, size)
  /\ UNCHANGED <<buttonMask, wheelScrolls, wheelDirection, keyVars>>

\* map_pointer_button: the bit of a libinput button; other buttons have none.
MappedButton == [b \in {"BTN_LEFT", "BTN_MIDDLE", "BTN_RIGHT"} |->
                   CASE b = "BTN_LEFT" -> 0 [] b = "BTN_MIDDLE" -> 1 [] b = "BTN_RIGHT" -> 2]

PointerButton(button, pressed) ==
  /\ buttonMask' = IF button \notin DOMAIN MappedButton THEN buttonMask
                   ELSE IF pressed THEN buttonMask \cup {MappedButton[button]}
                   ELSE buttonMask \ {MappedButton[button]}
  /\ UNCHANGED <<pos, desktopSize, wheelScrolls, wheelDirection, keyVars>>

\* Whole wheel steps in a v120 value; a rest below 120 is forgotten.
WheelSteps(v120) == (IF v120 < 0 THEN -v120 ELSE v120) \div 120

PointerWheelScroll(v120) ==
  /\ wheelScrolls + WheelSteps(v120) <= MaxWheelScrolls
  /\ wheelDirection' = IF v120 > 0 THEN "UP" ELSE "DOWN"
  /\ wheelScrolls' = wheelScrolls + WheelSteps(v120)
  /\ UNCHANGED <<pos, desktopSize, buttonMask, keyVars>>

PointerResetWheelScrolls ==
  /\ wheelScrolls' = 0
  /\ UNCHANGED <<pos, desktopSize, buttonMask, wheelDirection, keyVars>>

-----------------------------------------------------------------------------
(***************************************************************************)
(* The keyboard and the key repeat timer                                   *)
(***************************************************************************)

\* xkb_state_key_get_one_sym: the level of a key depends on the modifiers
\* that are down, the keysym of a modifier on nothing; keycode 0 has none.
KeysymOf(key) ==
  IF key \in Keys \ Modifiers THEN <<key, keysDown \cap Modifiers>> ELSE <<key, {}>>

\* timerfd_settime with a value (arms) or with zero (disarms); either way the
\* expirations counted so far are forgotten.
SetTimer(armed) ==
  /\ timerArmed' = armed
  /\ timerExpired' = FALSE

\* (mutant) Any release disarms the timer.
UpdateKeyRepeatDisarmsAlways(key, pressed) ==
  /\ repeatKey' = IF pressed THEN key ELSE IF repeatKey = key THEN NoKey ELSE repeatKey
  /\ IF ~pressed \/ repeatKey # key THEN SetTimer(pressed) ELSE UNCHANGED timerVars

\* (mutant) A release is not looked at.
UpdateKeyRepeatOnPress(key, pressed) ==
  IF pressed
  THEN /\ repeatKey' = key
       /\ IF repeatKey # key THEN SetTimer(TRUE) ELSE UNCHANGED timerVars
  ELSE UNCHANGED <<repeatKey, timerVars>>

UpdateKeyRepeat(key, pressed) ==
  /\ repeatKey' = IF pressed THEN key ELSE NoKey
  /\ IF (pressed /\ repeatKey # key) \/ (~pressed /\ repeatKey = key)
     THEN SetTimer(pressed)
     ELSE UNCHANGED timerVars

KeyboardKeyQueued(key, pressed) ==
  /\ Len(keyEvents) < MaxKeyEvents
  /\ keyEvents' = Append(keyEvents, [keysym |-> KeysymOf(key), pressed |-> pressed])
  /\ IF key \in RepeatingKeys THEN UpdateKeyRepeat(key, pressed)
     ELSE UNCHANGED <<repeatKey, timerVars>>
  /\ lostKeys' = lostKeys \ {key}

\* "key events full, dropping event": the xkb state has already advanced.
KeyboardKeyDropped(key) ==
  /\ Len(keyEvents) >= MaxKeyEvents
  /\ lostKeys' = lostKeys \cup {key}
  /\ UNCHANGED <<keyEvents, repeatKey, timerVars>>

KeyboardKey(key, pressed) ==
  /\ keysDown' = IF pressed THEN keysDown \cup {key} ELSE keysDown \ {key}
  /\ KeyboardKeyQueued(key, pressed) \/ KeyboardKeyDropped(key)
  /\ UNCHANGED pointerVars

PopKeyboardKeyEvents ==
  /\ keyEvents' = <<>>
  /\ UNCHANGED <<pointerVars, keysDown, repeatKey, timerVars, lostKeys>>

\* (mutant) The modifiers are not looked at.
RepeatKeyEventUnmodified == [keysym |-> <<repeatKey, {}>>, pressed |-> TRUE]

\* What the main loop sends when the timer has fired.
RepeatKeyEvent == [keysym |-> KeysymOf(repeatKey), pressed |-> TRUE]

\* read(key_repeat_tfd): a blocking read, so it waits for an expiry.
ResetKeyRepeatTfd ==
  /\ timerExpired
  /\ timerExpired' = FALSE
  /\ UNCHANGED <<pointerVars, keysDown, keyEvents, repeatKey, timerArmed, lostKeys>>

\* The kernel: an armed timer is periodic and stays armed when it expires.
TimerExpires ==
  /\ timerArmed
  /\ ~timerExpired
  /\ timerExpired' = TRUE
  /\ UNCHANGED <<pointerVars, keysDown, keyEvents, repeatKey, timerArmed, lostKeys>>

-----------------------------------------------------------------------------
InputInit ==
  /\ pos = 0
  /\ desktopSize = 0
  /\ buttonMask = {}
  /\ wheelScrolls = 0
  /\ wheelDirection = "UP"
  /\ keysDown = {}
  /\ keyEvents = <<>>
  /\ repeatKey = NoKey
  /\ timerArmed = FALSE
  /\ timerExpired = FALSE
  /\ lostKeys = {}

(* Any order of calls, and any order of key events: two keyboards may press  *)
(* the same key twice.                                                       *)
InputNext ==
  \/ \E dx \in Deltas : PointerMove(dx)
  \/ \E size \in DesktopSizes : DesktopSizeUpdate(size)
  \/ \E button \in Buttons, pressed \in BOOLEAN : PointerButton(button, pressed)
  \/ \E v120 \in WheelValues : PointerWheelScroll(v120)
  \/ PointerResetWheelScrolls
  \/ \E key \in Keys, pressed \in BOOLEAN : KeyboardKey(key, pressed)
  \/ PopKeyboardKeyEvents
  \/ ResetKeyRepeatTfd
  \/ TimerExpires

InputSpec == InputInit /\ [][InputNext]_inputVars

-----------------------------------------------------------------------------
InputTypeOK ==
  /\ pos \in Nat
  /\ desktopSize \in Nat
  /\ buttonMask \subseteq {0, 1, 2}
  /\ wheelScrolls \in 0 .. MaxWheelScrolls
  /\ wheelDirection \in {"UP", "DOWN"}
  /\ keysDown \subseteq Keys
  /\ keyEvents \in Seq(KeyEvents) /\ Len(keyEvents) <= MaxKeyEvents
  /\ repeatKey \in RepeatingKeys \cup {NoKey}
  /\ timerArmed \in BOOLEAN
  /\ timerExpired \in BOOLEAN
  /\ lostKeys \subseteq Keys

(* The pointer never leaves the desktop, not even when the server shrinks    *)
(* the desktop under it: vnc_input_state_desktop_size_update re-clamps.      *)
PointerOnDesktop == pos <= desktopSize

(* While a key is remembered for repetition its timer runs: no sequence of   *)
(* presses and releases of several keys leaves a remembered key without the  *)
(* timer that repeats it (vnc_input_state_keyboard_key).                     *)
RepeatingKeyHasTimer == repeatKey # NoKey => timerArmed

(* The key remembered for repetition is held down, unless its release was    *)
(* dropped for a full key_events array and no event of it was queued since:  *)
(* the next press and release of the key end the repetition.                 *)
RepeatingKeyIsHeld == repeatKey # NoKey => repeatKey \in keysDown \cup lostKeys
=============================================================================
