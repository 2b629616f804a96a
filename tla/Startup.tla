-------------------------------- MODULE Startup --------------------------------
(***************************************************************************)
(* The whole life of the main thread (src/src/main.c): the event loop and  *)
(* the signal handlers, the connection and the handshake (module           *)
(* Handshake), the password prompt (src/src/util.c), the login session     *)
(* (logind.c), the screen (drm.c) and the input devices (input.c), the     *)
(* rest of the handshake, the session thread and the loop (module Viewer)  *)
(* up to the return.  Any step may fail, and signals come at any time.     *)
(***************************************************************************)
EXTENDS Handshake

CONSTANTS
  Lines,            \* what the user may type at the prompt
  BufferLen,        \* ARRAY_COUNT(password_buf), 128 in the source
  KeyLen,           \* bytes of the password that make the key, 8 in the source
  ConnectorLists    \* what the driver may say of the connectors of the screen

(* A line has a number of bytes before its first NUL, and a newline, a NUL   *)
(* or the end of the input after them.                                       *)
ASSUME StartupAssumption ==
  /\ BufferLen \in Nat /\ KeyLen \in Nat \ {0} /\ KeyLen + 1 < BufferLen
  /\ Lines \subseteq [length : Nat, ends : {"newline", "NUL", "end"}]
  /\ ConnectorLists \subseteq Seq({"modes", "no modes", "error"})

HandledSignals == {"SIGINT", "SIGTERM"}

\* "other" is any signal that ends a process and has no handler, such as SIGHUP
\* and SIGQUIT, which the terminal still sends for its key at the prompt.
Signals == HandledSignals \cup {"other"}

VARIABLES
  handlers,         \* signals whose handler is set
  exitRequested,    \* the event descriptor of vnc_event_loop_exit is readable
  echo,             \* the terminal shows what is typed
  line,             \* history: what was typed, until the key is made
  kept,             \* bytes in password_buf
  connectors,       \* resources of the screen
  connector,        \* index of the connector looked at last, 0 if none
  inputReady,       \* vnc_input_state_init has set up input_state
  threadRuns,       \* the session thread was started
  cause             \* history: what ended the process early

startVars == <<handlers, exitRequested>>
promptVars == <<echo, line, kept>>
screenVars == <<connectors, connector>>
runVars == <<inputReady, threadRuns>>
localVars == <<startVars, promptVars, screenVars, runVars, cause>>
vars == <<toViewer, toServer, conn, server, offer, place, typesLeft, best, security, settings,
          misread, choiceLost, noneConfirmed, handlers, exitRequested, echo, line, kept,
          connectors, connector, inputReady, threadRuns, cause>>

NoLine == [length |-> 0, ends |-> "newline"]

Crash(why) ==
  /\ Goto("crashed")
  /\ cause' = why

\* A call that returns nothing of interest, or fails and makes main return 1.
Try(from, next) ==
  /\ place = from
  /\ \/ Goto(next)
     \/ Goto("failed")
  /\ UNCHANGED <<remoteVars, localVars>>

-----------------------------------------------------------------------------
(* The log file is written to whether it could be opened or not.             *)
OpenLog ==
  /\ place = "log"
  /\ \/ Goto("event loop") /\ UNCHANGED cause
     \/ Crash("log")
  /\ UNCHANGED <<remoteVars, startVars, promptVars, screenVars, runVars>>

InitEventLoop == Try("event loop", "signals")

\* A handler that cannot be set is only logged.
SetHandlers ==
  /\ place = "signals"
  /\ handlers' \in SUBSET HandledSignals
  /\ Goto("session")
  /\ UNCHANGED <<remoteVars, exitRequested, promptVars, screenVars, runVars, cause>>

InitSession == Try("session", "connect")

Connect ==
  /\ place = "connect"
  /\ \/ conn' = "open" /\ Goto("version")
     \/ UNCHANGED conn /\ Goto("failed")
  /\ UNCHANGED <<toViewer, toServer, server, offer, chosenVars, settings, historyVars, localVars>>

-----------------------------------------------------------------------------
(***************************************************************************)
(* read_password                                                           *)
(***************************************************************************)
EchoOff ==
  /\ place = "prepare"
  /\ \/ echo' = FALSE /\ Goto("prompt")
     \/ UNCHANGED echo /\ Goto("failed")
  /\ UNCHANGED <<remoteVars, startVars, line, kept, screenVars, runVars, cause>>

AtMost(n, bound) == IF n < bound THEN n ELSE bound

\* What fgets stores, up to the first NUL.
Stored(l) ==
  AtMost(l.length + (IF l.ends = "newline" THEN 1 ELSE 0), BufferLen - 1)

\* (mutant) Nothing is cut off.
KeptAll(l) == Stored(l)

\* The last byte, taken for the newline, is cut off; without a byte there is
\* nothing to cut.
Kept(l) == IF Stored(l) = 0 THEN 0 ELSE Stored(l) - 1

\* (mutant) No line is an error of the prompt.
ReadLineOrFail(l) ==
  /\ place = "prompt"
  /\ l \in Lines
  /\ line' = l
  /\ kept' = Kept(l)
  /\ \/ Goto(IF Stored(l) = 0 /\ l.ends = "end" THEN "failed" ELSE "restore") /\ UNCHANGED cause
     \/ Stored(l) = 0 /\ l.ends = "NUL" /\ Crash("NUL")
  /\ UNCHANGED <<remoteVars, startVars, echo, screenVars, runVars>>

\* With a NUL at the beginning dest[strlen(dest) - 1] is before the buffer.
ReadLine(l) ==
  /\ place = "prompt"
  /\ l \in Lines
  /\ line' = l
  /\ kept' = Kept(l)
  /\ \/ Goto("restore") /\ UNCHANGED cause
     \/ Stored(l) = 0 /\ l.ends = "NUL" /\ Crash("NUL")
  /\ UNCHANGED <<remoteVars, startVars, echo, screenVars, runVars>>

EchoOn ==
  /\ place = "restore"
  /\ \/ echo' = TRUE /\ Goto("login session") /\ UNCHANGED cause
     \/ UNCHANGED echo /\ Goto("failed") /\ cause' = "echo"
  /\ UNCHANGED <<remoteVars, startVars, line, kept, screenVars, runVars>>

-----------------------------------------------------------------------------
(***************************************************************************)
(* vnc_logind_init, vnc_logind_take_control, vnc_drm_init, vnc_input_init  *)
(***************************************************************************)
InitLogind == Try("login session", "control")

TakeControl == Try("control", "open screen")

OpenScreen == Try("open screen", "resources")

GetResources ==
  /\ place = "resources"
  /\ \/ connectors' \in ConnectorLists /\ Goto("connectors")
     \/ UNCHANGED connectors /\ Goto("failed")
  /\ UNCHANGED <<remoteVars, startVars, promptVars, connector, runVars, cause>>

\* (mutant) The first connector that is connected at all is taken.
GetConnectorWithoutMode ==
  /\ place = "connectors"
  /\ connector < Len(connectors)
  /\ connector' = connector + 1
  /\ \/ connectors[connector'] = "error" /\ Goto("failed")
     \/ connectors[connector'] # "error" /\ Goto("master")
  /\ UNCHANGED <<remoteVars, startVars, promptVars, connectors, runVars, cause>>

GetConnector ==
  /\ place = "connectors"
  /\ connector < Len(connectors)
  /\ connector' = connector + 1
  /\ \/ connectors[connector'] = "error"    /\ Goto("failed")
     \/ connectors[connector'] = "modes"    /\ Goto("master")
     \/ connectors[connector'] = "no modes" /\ Goto("connectors")
  /\ UNCHANGED <<remoteVars, startVars, promptVars, connectors, runVars, cause>>

\* connector is the last one, not NULL, and its modes[0] does not exist.
ConnectorsDone ==
  /\ place = "connectors"
  /\ connector = Len(connectors)
  /\ IF connector = 0 THEN Goto("failed") /\ UNCHANGED cause ELSE Crash("connector")
  /\ UNCHANGED <<remoteVars, startVars, promptVars, screenVars, runVars>>

SetMaster == Try("master", "buffers")

\* The results of drmModeAddFB and drmModeSetCrtc are not looked at, nor whether
\* the card has a CRTC.
CreateBuffers ==
  /\ place = "buffers"
  /\ \/ Goto("udev") /\ connectors' = <<>> /\ connector' = 0 /\ UNCHANGED cause
     \/ Goto("failed") /\ UNCHANGED <<screenVars, cause>>
     \/ Crash("CRTC") /\ UNCHANGED screenVars
  /\ UNCHANGED <<remoteVars, startVars, promptVars, runVars>>

InitUdev == Try("udev", "libinput")

CreateContext == Try("libinput", "seat")

AssignSeat == Try("seat", "send choice")

-----------------------------------------------------------------------------
\* password_buf is cleared when vnc_session_send_auth has returned.
Authenticating == {"challenge", "send response", "result", "reason"}

Exchange ==
  /\ HandshakeGoesOn
  /\ IF place \in {"send choice"} \cup Authenticating /\ place' \notin Authenticating
     THEN line' = NoLine /\ kept' = 0
     ELSE UNCHANGED <<line, kept>>
  /\ UNCHANGED <<startVars, echo, screenVars, runVars, cause>>

\* The results of calloc and pthread_create are not looked at.
StartThread ==
  /\ place = "running"
  /\ \/ threadRuns' \in BOOLEAN /\ Goto("input state") /\ UNCHANGED cause
     \/ Crash("memory") /\ UNCHANGED threadRuns
  /\ UNCHANGED <<remoteVars, startVars, promptVars, screenVars, inputReady>>

\* (mutant) What was asked for during the start is not for the loop.
InitInputStateAnew ==
  /\ place = "input state"
  /\ inputReady' \in BOOLEAN
  /\ exitRequested' = FALSE
  /\ Goto("loop")
  /\ UNCHANGED <<remoteVars, handlers, promptVars, screenVars, threadRuns, cause>>

\* Nor is the one of vnc_input_state_init; input_state is garbage when it fails.
InitInputState ==
  /\ place = "input state"
  /\ inputReady' \in BOOLEAN
  /\ Goto("loop")
  /\ UNCHANGED <<remoteVars, startVars, promptVars, screenVars, threadRuns, cause>>

\* The loop handles input and timer events before the exit request.
HandleEvents ==
  /\ place = "loop"
  /\ ~inputReady
  /\ Crash("input state")
  /\ UNCHANGED <<remoteVars, startVars, promptVars, screenVars, runVars>>

LeaveLoop ==
  /\ place = "loop"
  /\ exitRequested
  /\ Goto("deinit")
  /\ UNCHANGED <<remoteVars, localVars>>

PollFails ==
  /\ place = "loop"
  /\ Goto("deinit")
  /\ UNCHANGED <<remoteVars, localVars>>

DeinitScreen ==
  /\ place = "deinit"
  /\ Goto("over")
  /\ UNCHANGED <<remoteVars, localVars>>

Ended == {"failed", "over", "crashed", "killed"}

\* The default action of a signal is to end the process.
Signal(signo) ==
  /\ place \notin Ended
  /\ IF signo \in handlers
     THEN exitRequested' = TRUE /\ UNCHANGED <<place, cause>>
     ELSE Goto("killed") /\ cause' = signo /\ UNCHANGED exitRequested
  /\ UNCHANGED <<remoteVars, handlers, promptVars, screenVars, runVars>>

-----------------------------------------------------------------------------
Init ==
  /\ HandshakeInit
  /\ place = "log"
  /\ handlers = {} /\ exitRequested = FALSE
  /\ echo = TRUE /\ line = NoLine /\ kept = 0
  /\ connectors = <<>> /\ connector = 0
  /\ inputReady = FALSE /\ threadRuns = FALSE
  /\ cause = "none"

MainGoesOn ==
  \/ OpenLog \/ InitEventLoop \/ SetHandlers \/ InitSession \/ Connect
  \/ EchoOff \/ EchoOn \/ InitLogind \/ TakeControl
  \/ OpenScreen \/ GetResources \/ GetConnector \/ ConnectorsDone \/ SetMaster \/ CreateBuffers
  \/ InitUdev \/ CreateContext \/ AssignSeat
  \/ Exchange \/ StartThread \/ InitInputState \/ LeaveLoop \/ DeinitScreen

Next ==
  \/ MainGoesOn
  \/ \E l \in Lines : ReadLine(l)
  \/ HandleEvents \/ PollFails
  \/ \E signo \in Signals : Signal(signo)
  \/ ServerNext /\ UNCHANGED localVars

Spec == Init /\ [][Next]_vars

(* The main thread is scheduled, and its reads time out; the user may leave  *)
(* the prompt as it is.                                                      *)
FairSpec == Spec /\ WF_vars(MainGoesOn)

-----------------------------------------------------------------------------
StartPlaces ==
  {"log", "event loop", "signals", "session", "connect", "prepare", "prompt", "restore",
   "login session", "control", "open screen", "resources", "connectors", "master", "buffers",
   "udev", "libinput", "seat", "running", "input state", "loop", "deinit"}

TypeOK ==
  /\ HandshakeTypeOK
  /\ place \in StartPlaces \cup Reading \cup Sending \cup Ended \cup {"spinning"}
  /\ handlers \subseteq HandledSignals /\ exitRequested \in BOOLEAN
  /\ echo \in BOOLEAN
  /\ line \in Lines \cup {NoLine} /\ kept \in 0 .. BufferLen - 1
  /\ connectors \in ConnectorLists \cup {<<>>} /\ connector \in 0 .. Len(connectors)
  /\ inputReady \in BOOLEAN /\ threadRuns \in BOOLEAN
  /\ cause \in {"none", "log", "NUL", "echo", "connector", "CRTC", "memory", "input state"}
               \cup Signals

(* The process does not leave the terminal silent when SIGINT or SIGTERM     *)
(* comes at the prompt or any step after it fails: the handlers are set      *)
(* before echo is turned off, and they do not end the process.  Three things *)
(* leave it silent: a signal without a handler (SIGHUP, SIGQUIT, or one      *)
(* whose handler could not be set), a call that fails to turn echo on again, *)
(* and a line that begins with a NUL.                                        *)
EchoRestored ==
  ~echo => place \in {"prompt", "restore"} \/ cause \in {"echo", "NUL"} \cup (Signals \ handlers)

(* The key is made of what was typed: cutting off the last byte is right for *)
(* a line with its newline, and does no harm to one that was too long for    *)
(* the buffer; only input that ends early loses a byte of a short password.  *)
ShortAndOpen == line.ends # "newline" /\ line.length \in 1 .. KeyLen

KeyIsTyped == AtMost(kept, KeyLen) = AtMost(line.length, KeyLen) \/ ShortAndOpen

(* The screen is the first connector with a mode, whatever comes before it   *)
(* and behind it.  Without one the start does not always fail: the connector *)
(* looked at last is taken for one, and the mode that is then read is not    *)
(* there (vnc_drm_init); a list with a mode never comes to that.             *)
HasMode(i) == connectors[i] = "modes"

FirstModeTaken ==
  /\ place \in {"master", "buffers"} =>
       HasMode(connector) /\ \A i \in 1 .. connector - 1 : ~HasMode(i)
  /\ cause = "connector" => connectors # <<>> /\ \A i \in DOMAIN connectors : ~HasMode(i)

(* The start ends: in the loop, with a failure, or, at the end of the        *)
(* stream, in recv that returns 0 over and over; or the prompt waits.        *)
StartEnds == []<>(place \in Ended \cup {"loop", "prompt", "spinning"})

(* A signal that comes during the start is not lost: it ends the process     *)
(* when the loop is reached, unless the start ends before.                   *)
ExitIsTaken == exitRequested ~> place \in Ended \cup {"prompt", "spinning"}
=============================================================================
