------------------------------ MODULE DesktopSize ------------------------------
(***************************************************************************)
(* The hand-off of the desktop size from the session thread to the main    *)
(* loop, at the grain of the mutex and of the fields.                      *)
(*                                                                         *)
(* session thread (handle_rect, set_event): lock, write width, write       *)
(* height, unlock, lock, set the bit and write the event descriptor,       *)
(* unlock.  main loop (main, vnc_session_get_server_settings): read the    *)
(* event descriptor, lock, copy the settings, unlock, update the input     *)
(* state with the copy.  The main loop takes the settings once before its  *)
(* first poll, when the session thread is already running.                 *)
(***************************************************************************)
EXTENDS Integers

CONSTANTS Widths, Heights

ASSUME SizesAssumption == Widths \subseteq Nat /\ Heights \subseteq Nat

Sizes  == [width : Widths, height : Heights]
NoSize == [width |-> 0, height |-> 0]

VARIABLES
  mutex,          \* who holds event_mutex: "session", "main" or "nobody"
  settings,       \* width and height of session->server_settings
  eventBitmask,   \* session->event_bitmask, as the set of its bits
  eventFd,        \* the counter behind event_fd is positive
  sessionPc,      \* where the session thread is
  rect,           \* the size in the ExtendedDesktopSize rectangle being handled
  mainPc,         \* where the main loop is
  copy,           \* main's local server_settings
  desktop         \* input_state.desktop_size

sessionVars == <<settings, eventBitmask, sessionPc, rect>>
mainVars    == <<mainPc, copy, desktop>>
vars == <<mutex, settings, eventBitmask, eventFd, sessionPc, rect, mainPc, copy, desktop>>

SetDesktopSizeBit == 1      \* VNC_SESSION_EVENT_SET_DESKTOP_SIZE

-----------------------------------------------------------------------------
Acquire(thread) == mutex = "nobody" /\ mutex' = thread
Release         == mutex' = "nobody"

SessionStep(from, to) == sessionPc = from /\ sessionPc' = to
MainStep(from, to)    == mainPc = from /\ mainPc' = to

\* A rectangle with status 0 has been received, screens included.
SizeReceived(s) ==
  /\ SessionStep("idle", "lock")
  /\ rect' = s
  /\ UNCHANGED <<mutex, settings, eventBitmask, eventFd, mainVars>>

LockSettings ==
  /\ SessionStep("lock", "width")
  /\ Acquire("session")
  /\ UNCHANGED <<settings, eventBitmask, eventFd, rect, mainVars>>

\* (mutant) The fields are mixed up.
WriteWidthSwapped ==
  /\ SessionStep("width", "height")
  /\ settings' = [settings EXCEPT !.width = rect.height]
  /\ UNCHANGED <<mutex, eventBitmask, eventFd, rect, mainVars>>

WriteWidth ==
  /\ SessionStep("width", "height")
  /\ settings' = [settings EXCEPT !.width = rect.width]
  /\ UNCHANGED <<mutex, eventBitmask, eventFd, rect, mainVars>>

WriteHeight ==
  /\ SessionStep("height", "unlock")
  /\ settings' = [settings EXCEPT !.height = rect.height]
  /\ UNCHANGED <<mutex, eventBitmask, eventFd, rect, mainVars>>

UnlockSettings ==
  /\ SessionStep("unlock", "lockEvent")
  /\ Release
  /\ UNCHANGED <<settings, eventBitmask, eventFd, rect, mainVars>>

\* (mutant) set_event goes without the lock.
LockEventWithoutLock ==
  /\ SessionStep("lockEvent", "setEvent")
  /\ UNCHANGED <<mutex, settings, eventBitmask, eventFd, rect, mainVars>>

LockEvent ==
  /\ SessionStep("lockEvent", "setEvent")
  /\ Acquire("session")
  /\ UNCHANGED <<settings, eventBitmask, eventFd, rect, mainVars>>

\* (mutant) Only a bit that was not set yet is announced.
SetEventIfNew ==
  /\ SessionStep("setEvent", "unlockEvent")
  /\ eventBitmask' = eventBitmask \cup {SetDesktopSizeBit}
  /\ eventFd' = (eventFd \/ SetDesktopSizeBit \notin eventBitmask)
  /\ UNCHANGED <<mutex, settings, rect, mainVars>>

\* event_bitmask is written to the descriptor, whose counter grows by it; no
\* bit of it is ever cleared (vnc_session_get_events has no caller).
SetEvent ==
  /\ SessionStep("setEvent", "unlockEvent")
  /\ eventBitmask' = eventBitmask \cup {SetDesktopSizeBit}
  /\ eventFd' = TRUE
  /\ UNCHANGED <<mutex, settings, rect, mainVars>>

UnlockEvent ==
  /\ SessionStep("unlockEvent", "idle")
  /\ Release
  /\ UNCHANGED <<settings, eventBitmask, eventFd, rect, mainVars>>

-----------------------------------------------------------------------------
\* poll has reported the descriptor; reading it resets its counter.
ReadEventFd ==
  /\ MainStep("poll", "lock")
  /\ eventFd
  /\ eventFd' = FALSE
  /\ UNCHANGED <<mutex, sessionVars, copy, desktop>>

\* (mutant) The settings are copied without the lock.
LockForCopyWithoutLock ==
  /\ MainStep("lock", "width")
  /\ UNCHANGED <<mutex, sessionVars, eventFd, copy, desktop>>

LockForCopy ==
  /\ MainStep("lock", "width")
  /\ Acquire("main")
  /\ UNCHANGED <<sessionVars, eventFd, copy, desktop>>

CopyWidth ==
  /\ MainStep("width", "height")
  /\ copy' = [copy EXCEPT !.width = settings.width]
  /\ UNCHANGED <<mutex, sessionVars, eventFd, desktop>>

CopyHeight ==
  /\ MainStep("height", "unlock")
  /\ copy' = [copy EXCEPT !.height = settings.height]
  /\ UNCHANGED <<mutex, sessionVars, eventFd, desktop>>

UnlockAfterCopy ==
  /\ MainStep("unlock", "update")
  /\ Release
  /\ UNCHANGED <<sessionVars, eventFd, copy, desktop>>

\* (mutant) The event descriptor is read after the settings.
UpdateDesktopSizeAndReadFd ==
  /\ MainStep("update", "poll")
  /\ desktop' = copy
  /\ eventFd' = FALSE
  /\ UNCHANGED <<mutex, sessionVars, copy>>

UpdateDesktopSize ==
  /\ MainStep("update", "poll")
  /\ desktop' = copy
  /\ UNCHANGED <<mutex, sessionVars, eventFd, copy>>

-----------------------------------------------------------------------------
(* Copying starts before the first poll, with whatever the handshake or a    *)
(* quick server has put into the settings.                                   *)
Init ==
  /\ mutex = "nobody"
  /\ settings \in Sizes
  /\ eventBitmask = {}
  /\ eventFd = FALSE
  /\ sessionPc = "idle"
  /\ rect = settings
  /\ mainPc = "lock"
  /\ copy = NoSize
  /\ desktop = NoSize

SessionGoesOn ==
  \/ LockSettings \/ WriteWidth \/ WriteHeight \/ UnlockSettings
  \/ LockEvent \/ SetEvent \/ UnlockEvent

MainGoesOn ==
  \/ ReadEventFd \/ LockForCopy \/ CopyWidth \/ CopyHeight
  \/ UnlockAfterCopy \/ UpdateDesktopSize

Next ==
  \/ \E s \in Sizes : SizeReceived(s)
  \/ SessionGoesOn
  \/ MainGoesOn

Spec == Init /\ [][Next]_vars

(* Both threads are scheduled, and neither holds the mutex forever; nothing  *)
(* is assumed of the server, which may stop resizing or go on.               *)
FairSpec == Spec /\ WF_vars(SessionGoesOn) /\ WF_vars(MainGoesOn)

-----------------------------------------------------------------------------
TypeOK ==
  /\ mutex \in {"nobody", "session", "main"}
  /\ settings \in Sizes
  /\ eventBitmask \subseteq {SetDesktopSizeBit}
  /\ eventFd \in BOOLEAN
  /\ sessionPc \in {"idle", "lock", "width", "height", "unlock",
                    "lockEvent", "setEvent", "unlockEvent"}
  /\ rect \in Sizes
  /\ mainPc \in {"poll", "lock", "width", "height", "unlock", "update"}
  /\ copy \in [width : Nat, height : Nat]
  /\ desktop \in [width : Nat, height : Nat]

(* The mutex is held exactly by the thread that is between its lock and its  *)
(* unlock.                                                                   *)
SessionInSection == sessionPc \in {"width", "height", "unlock", "setEvent", "unlockEvent"}
MainInSection    == mainPc \in {"width", "height", "unlock"}

Locking ==
  /\ SessionInSection <=> mutex = "session"
  /\ MainInSection <=> mutex = "main"

(* The mailbox the hand-off implements: a size is published when its writer  *)
(* has the lock, and taken when the last field of it is copied.              *)
published == IF sessionPc \in {"width", "height"} THEN rect ELSE settings
copied    == IF mainPc \in {"unlock", "update"} THEN copy ELSE desktop
announced ==
  \/ eventFd
  \/ sessionPc \in {"width", "height", "unlock", "lockEvent", "setEvent"}
  \/ mainPc \in {"lock", "width", "height"}

Mailbox == INSTANCE SizeMailbox WITH size <- published, taken <- copied, pending <- announced

(* The hand-off implements the mailbox: the main loop never works with the   *)
(* width of one size and the height of another, nor with a size nobody       *)
(* published, and a size published while it copies is announced again.       *)
ImplementsMailbox == Mailbox!MailboxSpec

(* When the session thread is idle, the main loop is back in poll and the    *)
(* event descriptor is not readable, the input state has the size the server *)
(* gave last: no wake-up is lost between the write of the settings and the   *)
(* write of the event (handle_rect, set_event, the read in main).            *)
AtRestInAgreement ==
  sessionPc = "idle" /\ mainPc = "poll" /\ ~eventFd => desktop = settings

(* Once the server stops resizing, the main loop ends up with the size the   *)
(* server gave last, however the two threads interleave.                     *)
LastSizeArrives ==
  \A s \in Sizes :
    <>[](sessionPc = "idle" /\ settings = s) => <>[](desktop = s)
=============================================================================
