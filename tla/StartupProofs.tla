----------------------------- MODULE StartupProofs -----------------------------
(***************************************************************************)
(* The start of the viewer, for every server, every line at the prompt,    *)
(* every size of the buffer and of the key, and any number of connectors:  *)
(* the terminal's echo, the key, and the connector that is taken; then the *)
(* handshake within it, for every list of security types, and failures and *)
(* an end of the connection anywhere: the type that is chosen, and whether *)
(* the viewer stays in step with the server.                               *)
(***************************************************************************)
EXTENDS Startup, SequenceTheorems, TLAPS

(* The exchange with the server is done at places of its own.                *)
LEMMA ExchangePlaces ==
  ASSUME HandshakeGoesOn
  PROVE  /\ place \in Reading \cup Sending
         /\ place' \in Reading \cup Sending \cup {"failed", "spinning", "prepare", "running"}
<1> USE DEF Reading, Sending, Goto
<1>1. CASE ReceiveVersion \/ ReceiveCount \/ ReceiveType \/ ReceiveChallenge
  BY <1>1 DEF ReceiveVersion, ReceiveCount, ReceiveType, ReceiveChallenge, Reads
<1>2. CASE ReceiveSecurityResult \/ ReceiveReason \/ ReceiveServerInit \/ ReceiveName
  BY <1>2 DEF ReceiveSecurityResult, ReceiveReason, ReceiveServerInit, ReceiveName, Reads
<1>3. CASE ReadFails \/ Spin \/ BrokenPipe
  BY <1>3 DEF ReadFails, Spin, BrokenPipe
<1>4. CASE \E ok \in BOOLEAN :
             \/ SendVersion(ok) \/ SendChoice(ok) \/ SendResponse(ok)
             \/ SendClientInit(ok) \/ SendEncodings(ok) \/ SendDesktopSize(ok)
  BY <1>4 DEF SendVersion, SendChoice, SendResponse, SendClientInit, SendEncodings,
              SendDesktopSize, Sends
<1> QED
  BY <1>1, <1>2, <1>3, <1>4 DEF HandshakeGoesOn

LEMMA ServerKeepsPlace ==
  ASSUME ServerNext
  PROVE  UNCHANGED place
BY DEF ServerNext, ServerGreets, ServerOffers, ServerTakesChoice, ServerTakesResponse,
       ServerInits, ServerReads, ConnectionEnded, Answers

\* The steps of main that can do nothing but go on or fail.
PlainSteps ==
  \/ InitEventLoop \/ InitSession \/ InitLogind \/ TakeControl \/ OpenScreen
  \/ SetMaster \/ InitUdev \/ CreateContext \/ AssignSeat

PlainPlaces ==
  {"event loop", "signals", "session", "connect", "login session", "control", "open screen",
   "resources", "master", "buffers", "udev", "libinput", "seat", "send choice", "failed"}

LEMMA PlainStepPlaces ==
  ASSUME PlainSteps
  PROVE  /\ place \in PlainPlaces \ {"failed"}
         /\ place' \in PlainPlaces
         /\ UNCHANGED <<handlers, exitRequested, echo, line, kept, connectors, connector,
                        inputReady, threadRuns, cause>>
BY DEF PlainSteps, PlainPlaces, InitEventLoop, InitSession, InitLogind, TakeControl, OpenScreen,
       SetMaster, InitUdev, CreateContext, AssignSeat, Try, Goto, localVars, startVars,
       promptVars, screenVars, runVars

-----------------------------------------------------------------------------
(* What ended the process is remembered only when it has ended.              *)
CauseOfTheEnd == cause # "none" => place \in Ended

LEMMA CauseStep ==
  ASSUME CauseOfTheEnd, [Next]_vars
  PROVE  CauseOfTheEnd'
<1> USE DEF CauseOfTheEnd, Ended, Goto, Crash, startVars, promptVars, screenVars, runVars
<1>1. CASE PlainSteps
  BY <1>1, PlainStepPlaces DEF PlainPlaces
<1>2. CASE Exchange
  BY <1>2, ExchangePlaces DEF Exchange, Reading, Sending
<1>3. CASE \/ OpenLog \/ SetHandlers \/ Connect \/ EchoOff \/ EchoOn \/ GetResources
           \/ GetConnector \/ ConnectorsDone \/ CreateBuffers \/ StartThread
           \/ InitInputState \/ LeaveLoop \/ DeinitScreen \/ HandleEvents \/ PollFails
           \/ \E l \in Lines : ReadLine(l)
  BY <1>3 DEF OpenLog, SetHandlers, Connect, EchoOff, EchoOn, GetResources, GetConnector,
     ConnectorsDone, CreateBuffers, StartThread, InitInputState, LeaveLoop, DeinitScreen,
     HandleEvents, PollFails, ReadLine, localVars
<1>4. CASE \E signo \in Signals : Signal(signo)
  BY <1>4 DEF Signal
<1>5. CASE UNCHANGED vars \/ (ServerNext /\ UNCHANGED localVars)
  BY <1>5, ServerKeepsPlace DEF vars, localVars
<1> QED
  BY <1>1, <1>2, <1>3, <1>4, <1>5 DEF Next, MainGoesOn, PlainSteps

EchoInv == CauseOfTheEnd /\ EchoRestored

LEMMA EchoStep ==
  ASSUME EchoInv, [Next]_vars
  PROVE  EchoRestored'
<1> USE DEF EchoInv, CauseOfTheEnd, EchoRestored, HandledSignals, Signals, Ended, Goto, Crash, startVars, promptVars,
            screenVars, runVars
<1>1. CASE OpenLog \/ SetHandlers \/ Connect
  BY <1>1 DEF OpenLog, SetHandlers, Connect, localVars
<1>2. CASE EchoOff \/ EchoOn \/ \E l \in Lines : ReadLine(l)
  BY <1>2 DEF EchoOff, EchoOn, ReadLine
<1>3. CASE GetResources \/ GetConnector \/ ConnectorsDone \/ CreateBuffers
  BY <1>3 DEF GetResources, GetConnector, ConnectorsDone, CreateBuffers
<1>4. CASE PlainSteps
  BY <1>4, PlainStepPlaces DEF PlainPlaces
<1>5. CASE Exchange
  BY <1>5, ExchangePlaces DEF Exchange, Reading, Sending
<1>6. CASE StartThread \/ InitInputState \/ LeaveLoop \/ DeinitScreen \/ HandleEvents \/ PollFails
  BY <1>6 DEF StartThread, InitInputState, LeaveLoop, DeinitScreen, HandleEvents, PollFails,
              localVars
<1>7. CASE \E signo \in Signals : Signal(signo)
  BY <1>7 DEF Signal, Signals
<1>8. CASE UNCHANGED vars \/ (ServerNext /\ UNCHANGED localVars)
  BY <1>8, ServerKeepsPlace DEF vars, localVars
<1> QED
  BY <1>1, <1>2, <1>3, <1>4, <1>5, <1>6, <1>7, <1>8 DEF Next, MainGoesOn, PlainSteps

(* SIGINT and SIGTERM, whose handlers are set before echo is turned off, and *)
(* every failure from the prompt on find the terminal's echo on again at the *)
(* end of the process; what leaves it off is a signal without a handler, the *)
(* call that should have turned it on, and a line that begins with a NUL     *)
(* (read_password, vnc_event_loop_exit).                                     *)
THEOREM EchoComesBack == Spec => []EchoRestored
<1>1. Init => EchoInv
  BY DEF Init, EchoInv, CauseOfTheEnd, EchoRestored
<1>2. EchoInv /\ [Next]_vars => EchoInv'
  BY CauseStep, EchoStep DEF EchoInv
<1>3. EchoInv => EchoRestored
  BY DEF EchoInv
<1> QED
  BY <1>1, <1>2, <1>3, PTL DEF Spec
-----------------------------------------------------------------------------
(* What fgets stores of a line that is longer than the key is, without its   *)
(* last byte, still as long as the key.                                      *)
LEMMA KeptIsTyped ==
  ASSUME NEW l \in Lines
  PROVE  \/ AtMost(Kept(l), KeyLen) = AtMost(l.length, KeyLen)
         \/ l.ends # "newline" /\ l.length \in 1 .. KeyLen
<1>1. l.length \in Nat
  BY StartupAssumption
<1>2. BufferLen \in Nat /\ KeyLen \in Nat /\ KeyLen + 1 < BufferLen
  BY StartupAssumption
<1> DEFINE n == l.length
<1>3. CASE l.ends = "newline"
  <2>1. Stored(l) = IF n + 1 < BufferLen - 1 THEN n + 1 ELSE BufferLen - 1
    BY <1>3 DEF Stored, AtMost
  <2>2. Kept(l) = IF n + 1 < BufferLen - 1 THEN n ELSE BufferLen - 2
    BY <1>1, <1>2, <2>1 DEF Kept
  <2> QED
    BY <1>1, <1>2, <2>2 DEF AtMost
<1>4. CASE l.ends # "newline"
  <2>1. Stored(l) = IF n + 0 < BufferLen - 1 THEN n + 0 ELSE BufferLen - 1
    BY <1>4 DEF Stored, AtMost
  <2>2. Kept(l) = IF n = 0 THEN 0 ELSE IF n < BufferLen - 1 THEN n - 1 ELSE BufferLen - 2
    BY <1>1, <1>2, <2>1 DEF Kept
  <2> QED
    BY <1>1, <1>2, <1>4, <2>2 DEF AtMost
<1> QED
  BY <1>3, <1>4

LEMMA KeyStep ==
  ASSUME KeyIsTyped, [Next]_vars
  PROVE  KeyIsTyped'
<1>1. CASE UNCHANGED <<line, kept>>
  BY <1>1 DEF KeyIsTyped, ShortAndOpen
<1>2. CASE line' = NoLine /\ kept' = 0
  BY <1>2 DEF KeyIsTyped, NoLine
<1>3. CASE \E l \in Lines : ReadLine(l)
  BY <1>3, KeptIsTyped DEF ReadLine, KeyIsTyped, ShortAndOpen
<1>4. PlainSteps => UNCHANGED <<line, kept>>
  BY PlainStepPlaces
<1>5. Exchange => UNCHANGED <<line, kept>> \/ (line' = NoLine /\ kept' = 0)
  BY DEF Exchange
<1>6. ASSUME \/ OpenLog \/ SetHandlers \/ Connect \/ EchoOff \/ EchoOn
             \/ GetResources \/ GetConnector \/ ConnectorsDone \/ CreateBuffers
             \/ StartThread \/ InitInputState \/ LeaveLoop \/ DeinitScreen
             \/ HandleEvents \/ PollFails
             \/ \E signo \in Signals : Signal(signo)
             \/ UNCHANGED vars \/ (ServerNext /\ UNCHANGED localVars)
      PROVE  UNCHANGED <<line, kept>>
  BY <1>6 DEF OpenLog, SetHandlers, Connect, EchoOff, EchoOn, GetResources, GetConnector,
              ConnectorsDone, CreateBuffers, StartThread, InitInputState, LeaveLoop,
              DeinitScreen, HandleEvents, PollFails, Signal, localVars, promptVars, vars
<1> QED
  BY <1>1, <1>2, <1>3, <1>4, <1>5, <1>6 DEF Next, MainGoesOn, PlainSteps

(* Whatever the sizes of the buffer and of the key, cutting off the last     *)
(* byte of the line loses a byte of the key only when the input ended early  *)
(* (read_password).                                                          *)
THEOREM KeyIsWhatWasTyped == Spec => []KeyIsTyped
<1>1. Init => KeyIsTyped
  BY DEF Init, NoLine, KeyIsTyped
<1>2. KeyIsTyped /\ [Next]_vars => KeyIsTyped'
  BY KeyStep
<1> QED
  BY <1>1, <1>2, PTL DEF Spec

-----------------------------------------------------------------------------
(* The loop over the connectors goes on only past those without a mode.      *)
ConnectorsSeen ==
  /\ connectors \in Seq({"modes", "no modes", "error"})
  /\ connector \in 0 .. Len(connectors)
  /\ connector # 0 => place \in {"connectors", "master", "buffers"} \cup Ended
  /\ place = "connectors" => \A i \in 1 .. connector : connectors[i] = "no modes"

LEMMA Lengths ==
  ASSUME NEW S, NEW s \in Seq(S)
  PROVE  Len(s) \in Nat /\ DOMAIN s = 1 .. Len(s)
OBVIOUS

LEMMA ConnectorsStep ==
  ASSUME ConnectorsSeen, [Next]_vars
  PROVE  ConnectorsSeen'
<1> DEFINE Kinds == {"modes", "no modes", "error"}
<1>1. connectors \in Seq(Kinds)
  BY DEF ConnectorsSeen
<1>2. Len(connectors) \in Nat
  BY <1>1, Lengths
<1>3. Len(connectors) \in Nat /\ connector \in Nat /\ connector <= Len(connectors)
  <2>1. connector \in 0 .. Len(connectors)
    BY DEF ConnectorsSeen
  <2> QED
    BY <1>2, <2>1
<1>4. CASE GetResources
  <2>1. connector = 0 /\ connector' = 0
    BY <1>4 DEF GetResources, ConnectorsSeen, Ended
  <2>2. connectors' \in Seq(Kinds)
    BY <1>1, <1>4, StartupAssumption DEF GetResources
  <2>3. Len(connectors') \in Nat
    BY <2>2, Lengths
  <2>4. connector' \in 0 .. Len(connectors')
    BY <2>1, <2>3
  <2>5. \A i \in 1 .. connector' : FALSE
    BY <2>1
  <2> QED
    BY <2>1, <2>2, <2>4, <2>5 DEF ConnectorsSeen
<1>5. CASE GetConnector
  <2>1. connector < Len(connectors) /\ connector' = connector + 1 /\ UNCHANGED connectors
    BY <1>5 DEF GetConnector
  <2>2. place = "connectors" /\ place' \in {"connectors", "master", "failed"}
    BY <1>5 DEF GetConnector, Goto
  <2>3. place' = "connectors" => connectors[connector'] = "no modes"
    BY <1>5 DEF GetConnector, Goto
  <2>4. connector' \in 0 .. Len(connectors)
    BY <1>3, <2>1
  <2>5. \A i \in 1 .. connector' : i \in 1 .. connector \/ i = connector'
    BY <1>3, <2>1
  <2>6. \A i \in 1 .. connector : connectors[i] = "no modes"
    BY <2>2 DEF ConnectorsSeen
  <2>7. place' = "connectors" => \A i \in 1 .. connector' : connectors'[i] = "no modes"
    BY <2>1, <2>3, <2>5, <2>6
  <2> QED
    BY <1>1, <2>1, <2>2, <2>4, <2>7 DEF ConnectorsSeen, Ended
<1>6. CASE ConnectorsDone
  BY <1>6 DEF ConnectorsDone, ConnectorsSeen, Ended, Goto, Crash, screenVars
<1>7. CASE CreateBuffers
  <2>1. CASE connectors' = <<>> /\ connector' = 0
    <3>1. place' \in {"udev", "failed", "crashed"}
      BY <1>7 DEF CreateBuffers, Goto, Crash
    <3>2. <<>> \in Seq(Kinds) /\ 0 \in 0 .. Len(<<>>)
      OBVIOUS
    <3> QED
      BY <2>1, <3>1, <3>2 DEF ConnectorsSeen
  <2>2. CASE UNCHANGED <<connectors, connector>> /\ place' \in {"failed", "crashed"}
    BY <2>2 DEF ConnectorsSeen, Ended
  <2> QED
    BY <1>7, <2>1, <2>2 DEF CreateBuffers, Goto, Crash, screenVars
<1> USE DEF ConnectorsSeen, Ended, Goto, Crash, screenVars
<1>8. CASE PlainSteps
  BY <1>8, PlainStepPlaces DEF PlainSteps, PlainPlaces, SetMaster, InitEventLoop, InitSession,
     InitLogind, TakeControl, OpenScreen, InitUdev, CreateContext, AssignSeat, Try
<1>9. CASE Exchange
  BY <1>9, ExchangePlaces DEF Exchange, Reading, Sending
<1>10. CASE \/ OpenLog \/ SetHandlers \/ Connect \/ EchoOff \/ EchoOn \/ StartThread
           \/ InitInputState \/ LeaveLoop \/ DeinitScreen \/ HandleEvents \/ PollFails
           \/ \E l \in Lines : ReadLine(l)
  BY <1>10 DEF OpenLog, SetHandlers, Connect, EchoOff, EchoOn, StartThread, InitInputState,
              LeaveLoop, DeinitScreen, HandleEvents, PollFails, ReadLine, localVars
<1>11. CASE \E signo \in Signals : Signal(signo)
  BY <1>11 DEF Signal
<1>12. CASE UNCHANGED vars \/ (ServerNext /\ UNCHANGED localVars)
  BY <1>12, ServerKeepsPlace DEF vars, localVars
<1> QED
  BY <1>4, <1>5, <1>6, <1>8, <1>9, <1>10, <1>11, <1>12, <1>7 DEF Next, MainGoesOn, PlainSteps

ConnectorInv == ConnectorsSeen /\ CauseOfTheEnd /\ FirstModeTaken

LEMMA FirstModeStep ==
  ASSUME ConnectorInv, [Next]_vars
  PROVE  FirstModeTaken'
<1> DEFINE Kinds == {"modes", "no modes", "error"}
<1>1. connectors \in Seq(Kinds) /\ connector \in 0 .. Len(connectors)
  BY DEF ConnectorInv, ConnectorsSeen
<1>2. Len(connectors) \in Nat /\ DOMAIN connectors = 1 .. Len(connectors)
  BY <1>1, Lengths
<1> USE DEF ConnectorInv, FirstModeTaken, HasMode, CauseOfTheEnd, Ended, Goto, Crash, startVars,
            promptVars, screenVars, runVars
<1>3. CASE GetConnector
  <2>1. /\ place = "connectors" /\ cause' = cause /\ UNCHANGED connectors
        /\ connector' = connector + 1
        /\ place' = "master" => connectors[connector'] = "modes"
        /\ place' # "buffers"
    BY <1>3 DEF GetConnector
  <2>2. \A i \in 1 .. connector : connectors[i] = "no modes"
    BY <2>1 DEF ConnectorsSeen
  <2>3. connector' - 1 = connector
    <3>1. connector \in 0 .. Len(connectors)
      BY <1>1
    <3>2. Len(connectors) \in Nat
      BY <1>2
    <3>3. connector' = connector + 1
      BY <2>1
    <3> QED
      BY ONLY <3>1, <3>2, <3>3
  <2>4. cause' # "connector"
    BY <2>1
  <2>5. \A i \in 1 .. connector' - 1 : connectors'[i] # "modes"
    BY <2>1, <2>2, <2>3
  <2> QED
    BY <2>1, <2>4, <2>5
<1>4. CASE ConnectorsDone
  <2>1. place = "connectors" /\ connector = Len(connectors) /\ UNCHANGED <<connectors, connector>>
    BY <1>4 DEF ConnectorsDone
  <2>2. \A i \in DOMAIN connectors : connectors[i] = "no modes"
    BY <1>2, <2>1 DEF ConnectorsSeen
  <2>3. cause' = "connector" => connectors # <<>>
    <3>1. cause # "connector"
      BY <2>1
    <3>2. Len(<<>>) = 0
      OBVIOUS
    <3> QED
      BY <1>4, <2>1, <3>1, <3>2 DEF ConnectorsDone
  <2>4. place' \in {"failed", "crashed"}
    BY <1>4 DEF ConnectorsDone
  <2> QED
    BY <2>1, <2>2, <2>3, <2>4
<1>5. CASE SetMaster
  BY <1>5 DEF SetMaster, Try, localVars
<1>6. CASE PlainSteps
  <2>1. CASE place = "master"
    BY <2>1, <1>6, PlainStepPlaces, <1>5 DEF PlainSteps, InitEventLoop, InitSession, InitLogind,
       TakeControl, OpenScreen, InitUdev, CreateContext, AssignSeat, Try
  <2>2. CASE place # "master"
    <3>1. place' \notin {"master", "buffers"} /\ UNCHANGED <<connectors, cause>>
      BY <2>2, <1>6 DEF PlainSteps, InitEventLoop, InitSession, InitLogind, TakeControl,
         OpenScreen, SetMaster, InitUdev, CreateContext, AssignSeat, Try, localVars
    <3> QED
      BY <3>1
  <2> QED
    BY <2>1, <2>2
<1>7. CASE Exchange
  BY <1>7, ExchangePlaces DEF Exchange, Reading, Sending
<1>8. CASE \/ OpenLog \/ SetHandlers \/ Connect \/ EchoOff \/ EchoOn \/ GetResources
           \/ CreateBuffers \/ StartThread \/ InitInputState \/ LeaveLoop \/ DeinitScreen
           \/ HandleEvents \/ PollFails \/ \E l \in Lines : ReadLine(l)
  <2>1. /\ place' \notin {"master", "buffers"} /\ place \notin Ended
        /\ cause' # "connector"
    BY <1>8 DEF OpenLog, SetHandlers, Connect, EchoOff, EchoOn, GetResources, CreateBuffers,
       StartThread, InitInputState, LeaveLoop, DeinitScreen, HandleEvents, PollFails, ReadLine,
       localVars
  <2> QED
    BY <2>1
<1>9. CASE \E signo \in Signals : Signal(signo)
  <2>1. PICK signo \in Signals : Signal(signo)
    BY <1>9
  <2>2. signo # "connector"
    BY <2>1 DEF Signals, HandledSignals
  <2> QED
    BY <2>1, <2>2 DEF Signal
<1>10. CASE UNCHANGED vars \/ (ServerNext /\ UNCHANGED localVars)
  BY <1>10, ServerKeepsPlace DEF vars, localVars
<1> QED
  BY <1>3, <1>4, <1>5, <1>6, <1>7, <1>8, <1>9, <1>10 DEF Next, MainGoesOn, PlainSteps

(* Of any list of connectors the first with a mode is taken, and a list with *)
(* one never leads to a mode that is not there (vnc_drm_init).               *)
THEOREM FirstModeIsTaken == Spec => []FirstModeTaken
<1>1. Init => ConnectorInv
  BY DEF Init, ConnectorInv, FirstModeTaken, ConnectorsSeen, CauseOfTheEnd, Ended
<1>2. ConnectorInv /\ [Next]_vars => ConnectorInv'
  BY ConnectorsStep, CauseStep, FirstModeStep DEF ConnectorInv
<1>3. ConnectorInv => FirstModeTaken
  BY DEF ConnectorInv
<1> QED
  BY <1>1, <1>2, <1>3, PTL DEF Spec

-----------------------------------------------------------------------------
(* The places before the connection, and those between the choice of the     *)
(* security type and its sending.                                            *)
BeforeConnection == {"log", "event loop", "signals", "session", "connect"}

ChoiceMade ==
  {"prepare", "prompt", "restore", "login session", "control", "open screen", "resources",
   "connectors", "master", "buffers", "udev", "libinput", "seat", "send choice"}

TypesUnknown == BeforeConnection \cup {"version", "send version", "count", "types"}

\* The parts of an offer that are left when n of its types have been read.
TypeParts(types, n) == [i \in 1 .. Len(types) - n |-> Part("type", types[n + i])]

\* A message sent at this place is on its way, or was lost with the connection.
OnItsWay(message) ==
  toServer = <<message>> \/ (toServer = <<>> /\ conn # "open")

\* The index of the best of a set of types, -1 if none is acceptable.
BestOf(types) == IF "NONE" \in types THEN 0 ELSE IF "VNCAUTH" \in types THEN 1 ELSE -1

InitParts(size, length) == <<Part("init", <<size, length>>), Part("name", 0)>>

-----------------------------------------------------------------------------
(* For each place of the viewer, how far the server is and what is under way *)
(* between the two.                                                          *)
Quiet == toViewer = <<>> /\ toServer = <<>>

AtStart == conn = "none" /\ server = "greet" /\ Quiet

AtVersion ==
  /\ toServer = <<>>
  /\ \/ server = "greet" /\ toViewer = <<>>
     \/ server = "version" /\ \E version \in Versions : toViewer = <<Part("version", version)>>

AtSendVersion == server = "version" /\ Quiet

AtCount ==
  \/ server = "version" /\ toViewer = <<>> /\ OnItsWay("version")
  \/ /\ server = "choice" /\ toServer = <<>>
     /\ offer \in Offers \ {<<>>}
     /\ toViewer = <<Part("count", Len(offer))>> \o TypeParts(offer, 0)
  \/ /\ server = "gone" /\ toServer = <<>>
     /\ toViewer = <<Part("count", 0), Part("reason", 0)>>

AtTypes ==
  /\ server = "choice" /\ toServer = <<>>
  /\ offer \in Offers
  /\ typesLeft \in 1 .. Len(offer)
  /\ toViewer = TypeParts(offer, Len(offer) - typesLeft)
  /\ best = BestOf({offer[i] : i \in 1 .. Len(offer) - typesLeft})

AtSendChoice == server = "choice" /\ Quiet

AtChallenge ==
  \/ server = "choice" /\ toViewer = <<>> /\ OnItsWay("VNCAUTH")
  \/ server = "response" /\ toServer = <<>> /\ toViewer = <<Part("challenge", 0)>>

AtSendResponse == server = "response" /\ Quiet

AtResult ==
  \/ server = "response" /\ toViewer = <<>> /\ OnItsWay("response")
  \/ server = "shared" /\ toServer = <<>> /\ toViewer = <<Part("result", 0)>>
  \/ server = "gone" /\ toServer = <<>> /\ toViewer = <<Part("result", 1), Part("reason", 0)>>

AtReason == server = "gone" /\ toViewer = <<Part("reason", 0)>>

\* The choice may have been lost, or be on its way; the result of NONE, if the
\* server sends it, is before whatever comes.
AtSendShared ==
  \/ /\ server = "choice" /\ toViewer = <<>> /\ ~noneConfirmed
     /\ \/ choiceLost /\ toServer = <<>>
        \/ OnItsWay("NONE") /\ security = "NONE"
  \/ server = "shared" /\ toServer = <<>> /\ toViewer = <<>> /\ ~noneConfirmed
  \/ server = "shared" /\ toServer = <<>> /\ toViewer = <<Part("result", 0)>> /\ noneConfirmed

AtInit ==
  \/ /\ server = "choice" /\ toViewer = <<>> /\ ~noneConfirmed
     /\ \/ toServer = <<"NONE", "shared">> /\ security = "NONE"
        \/ toServer = <<"shared">> /\ choiceLost
        \/ conn # "open"
  \/ /\ server = "shared" /\ toViewer = <<>> /\ ~noneConfirmed
     /\ toServer \in {<<>>, <<"shared">>}
  \/ /\ server = "shared" /\ toViewer = <<Part("result", 0)>> /\ noneConfirmed
     /\ toServer \in {<<>>, <<"shared">>}
  \/ /\ server = "running" /\ toServer = <<>> /\ ~noneConfirmed
     /\ \E size \in DesktopSizes, length \in NameLengths : toViewer = InitParts(size, length)
  \/ /\ server = "running" /\ noneConfirmed /\ toServer = <<>>
     /\ toViewer # <<>> /\ Head(toViewer) = Part("result", 0)
  \/ /\ server = "gone" /\ choiceLost /\ toServer = <<>>
     /\ toViewer # <<>> /\ Head(toViewer) = Part("result", 1)

AtName == server = "running" /\ toViewer = <<Part("name", 0)>>

AtRunning == server = "running" /\ toViewer = <<>>

InStep ==
  /\ place \in BeforeConnection => AtStart
  /\ place = "version" => AtVersion
  /\ place = "send version" => AtSendVersion
  /\ place = "count" => AtCount
  /\ place = "types" => AtTypes
  /\ place \in ChoiceMade => AtSendChoice
  /\ place = "challenge" => AtChallenge
  /\ place = "send response" => AtSendResponse
  /\ place = "result" => AtResult
  /\ place = "reason" => AtReason
  /\ place = "send shared" => AtSendShared
  /\ place = "init" => AtInit
  /\ place = "name" => AtName
  /\ place \in {"send encodings", "send desktop size", "running"} => AtRunning

NothingWrong == ~misread /\ ~choiceLost /\ ~noneConfirmed

\* Until the choice is answered nothing is wrong that was not its sending.
SafeSoFar ==
  /\ place \in TypesUnknown \cup ChoiceMade => NothingWrong
  /\ place \in {"challenge", "send response", "result", "reason"} => ~choiceLost /\ ~noneConfirmed

\* The type is that of the offer as it was, which does not change any more.
ChoiceOK ==
  /\ offer \in Offers \cup {<<>>}
  /\ place \in TypesUnknown => security = "none yet"
  /\ security # "none yet" =>
       /\ server \notin {"greet", "version"}
       /\ security \in Offered
       /\ BestTypeChosen
  /\ place \in {"challenge", "send response", "result", "reason"} => security = "VNCAUTH"
  /\ place \in ChoiceMade \cup {"send shared"} => security # "none yet"

HandshakeInv ==
  /\ MisreadOnlyAfter
  /\ ~misread => InStep
  /\ SafeSoFar
  /\ ChoiceOK

-----------------------------------------------------------------------------
(* What is sent and read of the short sequences under way.                   *)
LEMMA OneAndOne ==
  ASSUME NEW a, NEW b
  PROVE  <<a>> \o <<b>> = <<a, b>> /\ Append(<<a>>, b) = <<a, b>>
<1> DEFINE S == {a, b}
<1>1. <<a>> \in Seq(S) /\ <<b>> \in Seq(S) /\ <<a, b>> \in Seq(S) /\ b \in S
  OBVIOUS
<1>2. Len(<<a>>) = 1 /\ Len(<<b>>) = 1 /\ Len(<<a, b>>) = 2
  OBVIOUS
<1>3. <<a>>[1] = a /\ <<b>>[1] = b /\ <<a, b>>[1] = a /\ <<a, b>>[2] = b
  OBVIOUS
<1> HIDE DEF S
<1>4. <<a>> \o <<b>> \in Seq(S) /\ Len(<<a>> \o <<b>>) = 2
  BY <1>1, <1>2, ConcatProperties
<1>5. \A i \in 1 .. 2 : (<<a>> \o <<b>>)[i] = <<a, b>>[i]
  <2>1. \A i \in 1 .. 1 + 1 : (<<a>> \o <<b>>)[i] = IF i <= 1 THEN <<a>>[i] ELSE <<b>>[i - 1]
    BY <1>1, <1>2, ConcatProperties
  <2>2. (<<a>> \o <<b>>)[1] = a /\ (<<a>> \o <<b>>)[2] = b
    BY <1>3, <2>1
  <2>3. \A i \in 1 .. 2 : i = 1 \/ i = 2
    OBVIOUS
  <2> QED
    BY <1>3, <2>2, <2>3
<1>6. <<a>> \o <<b>> = <<a, b>>
  BY <1>1, <1>2, <1>4, <1>5, SeqEqual
<1>7. Append(<<a>>, b) = <<a>> \o <<b>>
  BY <1>1, AppendIsConcat
<1> QED
  BY <1>6, <1>7

LEMMA ShortSequences ==
  /\ \A a : Head(<<a>>) = a /\ Tail(<<a>>) = <<>> /\ <<a>> # <<>>
  /\ \A a, b : Head(<<a, b>>) = a /\ Tail(<<a, b>>) = <<b>> /\ <<a, b>> # <<>>
  /\ \A a : <<>> \o <<a>> = <<a>> /\ <<a>> \o <<>> = <<a>> /\ Append(<<>>, a) = <<a>>
  /\ \A a, b : <<>> \o <<a, b>> = <<a, b>>
  /\ <<>> \o <<>> = <<>>
<1>1. \A a : Head(<<a>>) = a /\ Tail(<<a>>) = <<>> /\ <<a>> # <<>>
  OBVIOUS
<1>2. \A a, b : Head(<<a, b>>) = a /\ Tail(<<a, b>>) = <<b>> /\ <<a, b>> # <<>>
  OBVIOUS
<1>3. \A a : <<>> \o <<a>> = <<a>> /\ <<a>> \o <<>> = <<a>> /\ Append(<<>>, a) = <<a>>
  OBVIOUS
<1>4. \A a, b : <<>> \o <<a, b>> = <<a, b>>
  OBVIOUS
<1> QED
  BY <1>1, <1>2, <1>3, <1>4

LEMMA ThreeParts ==
  ASSUME NEW a, NEW b, NEW c
  PROVE  <<a>> \o <<b, c>> # <<>> /\ Head(<<a>> \o <<b, c>>) = a
<1> DEFINE S == {a, b, c}
<1>1. <<a>> \in Seq(S) /\ <<b, c>> \in Seq(S) /\ Len(<<a>>) = 1 /\ Len(<<b, c>>) = 2
  OBVIOUS
<1> HIDE DEF S
<1>2. /\ <<a>> \o <<b, c>> \in Seq(S) /\ Len(<<a>> \o <<b, c>>) = 3
      /\ \A i \in 1 .. 3 : (<<a>> \o <<b, c>>)[i] = IF i <= 1 THEN <<a>>[i] ELSE <<b, c>>[i - 1]
  BY <1>1, ConcatProperties
<1>3. (<<a>> \o <<b, c>>)[1] = a
  BY <1>2
<1> QED
  BY <1>2, <1>3

TypePart == [kind : {"type"}, value : {"NONE", "VNCAUTH", "other"}]

LEMMA PartsOfOffer ==
  ASSUME NEW types \in Offers
  PROVE  /\ Len(types) \in Nat
         /\ DOMAIN types = 1 .. Len(types)
         /\ types # <<>> => Len(types) # 0
         /\ TypeParts(types, Len(types)) = <<>>
         /\ TypeParts(types, 0) = [i \in DOMAIN types |-> Part("type", types[i])]
<1>1. types \in Seq({"NONE", "VNCAUTH", "other"})
  BY HandshakeAssumption
<1>2. Len(types) \in Nat /\ DOMAIN types = 1 .. Len(types)
  BY <1>1, Lengths
<1>3. types # <<>> => Len(types) # 0
  BY <1>1
<1>4. TypeParts(types, Len(types)) = <<>>
  <2>1. Len(types) - Len(types) = 0
    BY <1>2
  <2> QED
    BY <2>1 DEF TypeParts
<1>5. TypeParts(types, 0) = [i \in DOMAIN types |-> Part("type", types[i])]
  <2>1. Len(types) - 0 = Len(types) /\ \A i \in 1 .. Len(types) : 0 + i = i
    BY <1>2
  <2> QED
    BY <1>2, <2>1 DEF TypeParts
<1> QED
  BY <1>2, <1>3, <1>4, <1>5

LEMMA PartsLeft ==
  ASSUME NEW types \in Offers, NEW n \in 0 .. Len(types)
  PROVE  /\ TypeParts(types, n) \in Seq(TypePart)
         /\ Len(TypeParts(types, n)) = Len(types) - n
         /\ \A i \in 1 .. Len(types) - n : TypeParts(types, n)[i] = Part("type", types[n + i])
<1>1. types \in Seq({"NONE", "VNCAUTH", "other"}) /\ Len(types) \in Nat
  BY HandshakeAssumption, PartsOfOffer
<1> DEFINE m == Len(types) - n
           s == [i \in 1 .. m |-> Part("type", types[n + i])]
<1>2. m \in Nat /\ \A i \in 1 .. m : n + i \in 1 .. Len(types)
  BY <1>1
<1>3. \A i \in 1 .. m : Part("type", types[n + i]) \in TypePart
  <2> TAKE i \in 1 .. m
  <2>1. types[n + i] \in {"NONE", "VNCAUTH", "other"}
    BY <1>1, <1>2, ElementOfSeq
  <2> QED
    BY <2>1 DEF Part, TypePart
<1>4. s \in [1 .. m -> TypePart]
  BY <1>3
<1>5. s \in Seq(TypePart) /\ Len(s) = m
  <2> HIDE DEF s, m
  <2> QED
    BY <1>2, <1>4
<1> QED
  BY <1>5 DEF TypeParts

LEMMA CountAndParts ==
  ASSUME NEW types \in Offers, NEW n
  PROVE  LET s == <<Part("count", n)>> \o TypeParts(types, 0)
         IN  /\ <<>> \o s = s
             /\ s # <<>> /\ Head(s) = Part("count", n) /\ Tail(s) = TypeParts(types, 0)
<1> DEFINE a == Part("count", n)
           t == TypeParts(types, 0)
           s == <<a>> \o t
           S == TypePart \cup {a}
<1>1. t \in Seq(TypePart)
  <2>1. 0 \in 0 .. Len(types)
    BY PartsOfOffer
  <2> QED
    BY <2>1, PartsLeft
<1>2. TypePart \subseteq S /\ a \in S
  OBVIOUS
<1> HIDE DEF a, t, S
<1>3. <<a>> \in Seq(S) /\ t \in Seq(S) /\ Len(<<a>>) = 1 /\ Len(t) \in Nat
  BY <1>1, <1>2, SeqMonotonic
<1>4. /\ s \in Seq(S) /\ Len(s) = 1 + Len(t)
      /\ \A i \in 1 .. 1 + Len(t) : s[i] = IF i <= 1 THEN <<a>>[i] ELSE t[i - 1]
  BY <1>3, ConcatProperties
<1>5. <<>> \o s = s
  BY <1>4, ConcatEmptySeq
<1>6. Len(s) # 0 /\ s # <<>> /\ Head(s) = s[1] /\ 1 \in 1 .. 1 + Len(t)
  BY <1>3, <1>4
<1>7. Head(s) = a
  BY <1>4, <1>6
<1>8. /\ Tail(s) \in Seq(S) /\ Len(Tail(s)) = Len(t)
      /\ \A i \in 1 .. Len(t) : Tail(s)[i] = s[i + 1]
  <2>1. /\ Tail(s) \in Seq(S) /\ Len(Tail(s)) = Len(s) - 1
        /\ \A i \in 1 .. Len(Tail(s)) : Tail(s)[i] = s[i + 1]
    BY <1>4, <1>6, HeadTailProperties
  <2> QED
    BY <1>3, <1>4, <2>1
<1>9. \A i \in 1 .. Len(t) : Tail(s)[i] = t[i]
  <2> TAKE i \in 1 .. Len(t)
  <2>1. i + 1 \in 1 .. 1 + Len(t) /\ ~(i + 1 <= 1) /\ (i + 1) - 1 = i
    BY <1>3
  <2> QED
    BY <1>4, <1>8, <2>1
<1>10. Tail(s) = t
  BY <1>3, <1>8, <1>9, SeqEqual
<1> QED
  BY <1>5, <1>6, <1>7, <1>10 DEF a, t

LEMMA NextPart ==
  ASSUME NEW types \in Offers, NEW n \in 0 .. Len(types) - 1
  PROVE  /\ TypeParts(types, n) # <<>>
         /\ Head(TypeParts(types, n)) = Part("type", types[n + 1])
         /\ Tail(TypeParts(types, n)) = TypeParts(types, n + 1)
<1>1. /\ Len(types) \in Nat /\ n \in Nat /\ n \in 0 .. Len(types) /\ n + 1 \in 0 .. Len(types)
      /\ Len(types) - n > 0 /\ 1 \in 1 .. Len(types) - n
      /\ Len(types) - (n + 1) = (Len(types) - n) - 1
  BY PartsOfOffer
<1> DEFINE s == TypeParts(types, n)
           t == TypeParts(types, n + 1)
           m == Len(types) - n
<1>2. /\ s \in Seq(TypePart) /\ Len(s) = m
      /\ \A i \in 1 .. m : s[i] = Part("type", types[n + i])
  BY <1>1, PartsLeft
<1>3. /\ t \in Seq(TypePart) /\ Len(t) = m - 1
      /\ \A i \in 1 .. m - 1 : t[i] = Part("type", types[n + 1 + i])
  BY <1>1, PartsLeft
<1> HIDE DEF s, t
<1>4. s # <<>> /\ Head(s) = s[1]
  BY <1>1, <1>2
<1>5. /\ Tail(s) \in Seq(TypePart) /\ Len(Tail(s)) = m - 1
      /\ \A i \in 1 .. m - 1 : Tail(s)[i] = s[i + 1]
  BY <1>2, <1>4, HeadTailProperties
<1>6. \A i \in 1 .. m - 1 : Tail(s)[i] = t[i]
  <2> TAKE i \in 1 .. m - 1
  <2>1. i + 1 \in 1 .. m /\ n + (i + 1) = n + 1 + i
    BY <1>1
  <2> QED
    BY <1>2, <1>3, <1>5, <2>1
<1>7. Tail(s) = t
  BY <1>3, <1>5, <1>6, SeqEqual
<1> QED
  BY <1>1, <1>2, <1>4, <1>7 DEF s, t

(* What vnc_rfb_has_desired_security_type computes of one more type.         *)
LEMMA BetterIsBest ==
  ASSUME NEW S, best = BestOf(S), NEW type
  PROVE  Better(type) = BestOf(S \cup {type})
<1>1. DOMAIN Acceptable = {1, 2} /\ Acceptable[1] = "NONE" /\ Acceptable[2] = "VNCAUTH"
  BY DEF Acceptable
<1>2. best \in {-1, 0, 1}
  BY DEF BestOf
<1>3. CASE type = "NONE"
  <2>1. (CHOOSE j \in DOMAIN Acceptable : Acceptable[j] = type) = 1
    BY <1>1, <1>3
  <2>2. best = 0 \/ 0 < best \/ best = -1
    BY <1>2
  <2>3. (\E j \in DOMAIN Acceptable : Acceptable[j] = type /\ (j - 1 < best \/ best = -1))
          <=> 0 < best \/ best = -1
    BY <1>1, <1>3
  <2> QED
    BY <1>3, <2>1, <2>2, <2>3 DEF Better, BestOf
<1>4. CASE type = "VNCAUTH"
  <2>1. (CHOOSE j \in DOMAIN Acceptable : Acceptable[j] = type) = 2
    BY <1>1, <1>4
  <2>2. (\E j \in DOMAIN Acceptable : Acceptable[j] = type /\ (j - 1 < best \/ best = -1))
          <=> best = -1
    BY <1>1, <1>2, <1>4
  <2>3. Better(type) = IF best = -1 THEN 1 ELSE best
    <3>1. Better(type) = IF best = -1 THEN 2 - 1 ELSE best
      BY <2>1, <2>2, Zenon DEF Better
    <3> QED
      BY <3>1
  <2>4. BestOf(S \cup {type}) = IF "NONE" \in S THEN 0 ELSE 1
    BY <1>4 DEF BestOf
  <2> QED
    BY <2>3, <2>4 DEF BestOf
<1>5. CASE type \notin {"NONE", "VNCAUTH"}
  BY <1>1, <1>5 DEF Better, BestOf
<1> QED
  BY <1>3, <1>4, <1>5

-----------------------------------------------------------------------------
(* Steps of main that do not concern the server keep what is known of it.    *)
NowhereInParticular == Ended \cup {"spinning", "input state", "loop", "deinit"}

SameStretch ==
  \/ UNCHANGED place
  \/ place \in BeforeConnection /\ place' \in BeforeConnection
  \/ place \in ChoiceMade /\ place' \in ChoiceMade
  \/ place' \in NowhereInParticular

LEMMA LocalStep ==
  ASSUME HandshakeInv, UNCHANGED remoteVars, SameStretch
  PROVE  HandshakeInv'
<1> USE DEF remoteVars, netVars, chosenVars, historyVars, SameStretch, NowhereInParticular, Ended,
            BeforeConnection, ChoiceMade
<1>1. MisreadOnlyAfter'
  BY DEF HandshakeInv, MisreadOnlyAfter
<1>2. SafeSoFar'
  BY DEF HandshakeInv, SafeSoFar, NothingWrong, TypesUnknown
<1>3. ChoiceOK'
  BY DEF HandshakeInv, ChoiceOK, TypesUnknown, BestTypeChosen, Offered
<1>4. ASSUME ~misread PROVE InStep'
  <2>1. InStep
    BY <1>4 DEF HandshakeInv
  <2> QED
    BY <2>1 DEF InStep, AtStart, AtVersion, AtSendVersion, AtCount, AtTypes, AtSendChoice,
       AtChallenge, AtSendResponse, AtResult, AtReason, AtSendShared, AtInit, AtName, AtRunning,
       Quiet, OnItsWay
<1> QED
  BY <1>1, <1>2, <1>3, <1>4 DEF HandshakeInv

LEMMA StartSteps ==
  ASSUME \/ OpenLog \/ SetHandlers \/ EchoOff \/ EchoOn \/ PlainSteps
         \/ GetResources \/ GetConnector \/ ConnectorsDone \/ CreateBuffers
         \/ StartThread \/ InitInputState \/ LeaveLoop \/ DeinitScreen
         \/ HandleEvents \/ PollFails
         \/ \E l \in Lines : ReadLine(l)
         \/ \E signo \in Signals : Signal(signo)
         \/ UNCHANGED vars
  PROVE  UNCHANGED remoteVars /\ SameStretch
<1> USE DEF SameStretch, NowhereInParticular, Ended, BeforeConnection, ChoiceMade, Goto, Crash
<1>1. CASE PlainSteps
  BY <1>1 DEF PlainSteps, InitEventLoop, InitSession, InitLogind, TakeControl, OpenScreen,
       SetMaster, InitUdev, CreateContext, AssignSeat, Try
<1>2. CASE OpenLog \/ SetHandlers \/ EchoOff \/ EchoOn \/ \E l \in Lines : ReadLine(l)
  BY <1>2 DEF OpenLog, SetHandlers, EchoOff, EchoOn, ReadLine
<1>3. CASE GetResources \/ GetConnector \/ ConnectorsDone \/ CreateBuffers
  BY <1>3 DEF GetResources, GetConnector, ConnectorsDone, CreateBuffers
<1>4. CASE \/ StartThread \/ InitInputState \/ LeaveLoop \/ DeinitScreen
           \/ HandleEvents \/ PollFails
  BY <1>4 DEF StartThread, InitInputState, LeaveLoop, DeinitScreen, HandleEvents, PollFails
<1>5. CASE \E signo \in Signals : Signal(signo)
  BY <1>5 DEF Signal
<1>6. CASE UNCHANGED vars
  BY <1>6 DEF vars, remoteVars, netVars, chosenVars, historyVars
<1> QED
  BY <1>1, <1>2, <1>3, <1>4, <1>5, <1>6

LEMMA ConnectStep ==
  ASSUME HandshakeInv, Connect
  PROVE  HandshakeInv'
<1> USE DEF Connect, Goto, chosenVars, historyVars, BeforeConnection, ChoiceMade
<1>1. ~misread /\ ~choiceLost /\ ~noneConfirmed
  BY DEF HandshakeInv, SafeSoFar, NothingWrong, TypesUnknown
<1>2. AtStart
  BY <1>1 DEF HandshakeInv, InStep
<1>3. InStep'
  BY <1>2 DEF InStep, AtStart, AtVersion, Quiet
<1>4. MisreadOnlyAfter' /\ SafeSoFar'
  BY <1>1 DEF MisreadOnlyAfter, SafeSoFar, NothingWrong
<1>5. ChoiceOK'
  BY DEF HandshakeInv, ChoiceOK, TypesUnknown, BestTypeChosen, Offered
<1> QED
  BY <1>3, <1>4, <1>5 DEF HandshakeInv

-----------------------------------------------------------------------------
(* The server moves only where the viewer waits for it.                      *)
LEMMA GreetsStep ==
  ASSUME HandshakeInv, ServerGreets
  PROVE  HandshakeInv'
<1> USE DEF ServerGreets, Says, chosenVars, historyVars, BeforeConnection, ChoiceMade
<1>1. MisreadOnlyAfter' /\ SafeSoFar'
  BY DEF HandshakeInv, MisreadOnlyAfter, SafeSoFar, NothingWrong
<1>2. ChoiceOK'
  BY DEF HandshakeInv, ChoiceOK, TypesUnknown, BestTypeChosen, Offered
<1>3. ASSUME ~misread PROVE InStep'
  <2>1. InStep
    BY <1>3 DEF HandshakeInv
  <2>2. PICK version \in Versions : toViewer' = toViewer \o <<Part("version", version)>>
    OBVIOUS
  <2>3. place = "version" => AtVersion'
    BY <2>1, <2>2, ShortSequences DEF InStep, AtVersion
  <2>4. place \in {"version"} \/ place \notin TypesUnknown \cup ChoiceMade \cup
          {"challenge", "send response", "result", "reason", "send shared", "init", "name",
           "send encodings", "send desktop size", "running"}
    BY <2>1 DEF InStep, TypesUnknown, AtStart, AtSendVersion, AtCount, AtTypes, AtSendChoice,
       AtChallenge, AtSendResponse, AtResult, AtReason, AtSendShared, AtInit, AtName, AtRunning,
       Quiet
  <2> QED
    BY <2>3, <2>4 DEF InStep, TypesUnknown
<1> QED
  BY <1>1, <1>2, <1>3 DEF HandshakeInv

LEMMA OffersStep ==
  ASSUME HandshakeInv, ServerOffers
  PROVE  HandshakeInv'
<1> USE DEF Answers, Says, chosenVars, historyVars, BeforeConnection, ChoiceMade
<1>1. PICK types \in Offers :
        /\ offer' = types
        /\ UNCHANGED noneConfirmed
        /\ Answers("version",
               <<Part("count", Len(types))>> \o
               (IF types = <<>> THEN <<Part("reason", 0)>>
                ELSE [i \in DOMAIN types |-> Part("type", types[i])]),
               IF types = <<>> THEN "gone" ELSE "choice")
  BY DEF ServerOffers
<1>2. MisreadOnlyAfter' /\ SafeSoFar'
  BY <1>1 DEF HandshakeInv, MisreadOnlyAfter, SafeSoFar, NothingWrong
<1>3. security = "none yet"
  BY <1>1 DEF HandshakeInv, ChoiceOK
<1>4. ChoiceOK'
  BY <1>1, <1>3 DEF HandshakeInv, ChoiceOK, TypesUnknown, BestTypeChosen
<1>5. ASSUME ~misread PROVE InStep'
  <2>1. InStep
    BY <1>5 DEF HandshakeInv
  <2>2. place = "count" => AtCount'
    <3> SUFFICES ASSUME place = "count" PROVE AtCount'
      OBVIOUS
    <3>1. toViewer = <<>> /\ toServer = <<"version">>
      BY <1>1, <2>1 DEF InStep, AtCount, OnItsWay
    <3>2. toServer' = <<>>
      BY <1>1, <3>1, ShortSequences
    <3>3. CASE types = <<>>
      <4>1. toViewer' = <<>> \o (<<Part("count", Len(types))>> \o <<Part("reason", 0)>>)
        BY <1>1, <3>1, <3>3
      <4>2. toViewer' = <<Part("count", 0), Part("reason", 0)>>
        BY <3>3, <4>1, OneAndOne, ShortSequences
      <4> QED
        BY <1>1, <3>2, <3>3, <4>2 DEF AtCount
    <3>4. CASE types # <<>>
      <4>1. toViewer' = <<>> \o (<<Part("count", Len(types))>> \o TypeParts(types, 0))
        BY <1>1, <3>1, <3>4, PartsOfOffer
      <4>2. toViewer' = <<Part("count", Len(types))>> \o TypeParts(types, 0)
        BY <4>1, CountAndParts
      <4> QED
        BY <1>1, <3>2, <3>4, <4>2 DEF AtCount
    <3> QED
      BY <3>3, <3>4
  <2>3. place = "count" \/ place \notin TypesUnknown \cup ChoiceMade \cup
          {"challenge", "send response", "result", "reason", "send shared", "init", "name",
           "send encodings", "send desktop size", "running"}
    BY <1>1, <2>1 DEF InStep, TypesUnknown, AtStart, AtVersion, AtSendVersion, AtTypes,
       AtSendChoice, AtChallenge, AtSendResponse, AtResult, AtReason, AtSendShared, AtInit, AtName,
       AtRunning, Quiet
  <2> QED
    BY <1>1, <2>2, <2>3 DEF InStep, TypesUnknown
<1> QED
  BY <1>1, <1>2, <1>4, <1>5 DEF HandshakeInv

LEMMA TakesChoiceStep ==
  ASSUME HandshakeInv, ServerTakesChoice
  PROVE  HandshakeInv'
<1> USE DEF Answers, Says, chosenVars, historyVars, BeforeConnection, ChoiceMade
<1> DEFINE choice == IF Head(toServer) = "shared" THEN "NONE" ELSE Head(toServer)
           offered == choice \in {offer[i] : i \in DOMAIN offer}
<1>1. /\ conn = "open" /\ server = "choice" /\ toServer # <<>> /\ toServer' = Tail(toServer)
      /\ UNCHANGED <<offer, conn, place, typesLeft, best, security, settings, misread, choiceLost>>
  BY DEF ServerTakesChoice
<1>2. \/ /\ offered /\ choice = "NONE" /\ server' = "shared"
         /\ \/ toViewer' = toViewer \o <<>> /\ (noneConfirmed' <=> noneConfirmed)
            \/ toViewer' = toViewer \o <<Part("result", 0)>> /\ noneConfirmed'
      \/ /\ offered /\ choice = "VNCAUTH" /\ server' = "response"
         /\ toViewer' = toViewer \o <<Part("challenge", 0)>> /\ (noneConfirmed' <=> noneConfirmed)
      \/ /\ ~offered /\ server' = "gone"
         /\ toViewer' = toViewer \o <<Part("result", 1), Part("reason", 0)>>
         /\ (noneConfirmed' <=> noneConfirmed)
  <2>1. ASSUME NEW parts \in {<<>>, <<Part("result", 0)>>},
               Answers("choice", parts, "shared"), noneConfirmed' = (noneConfirmed \/ parts # <<>>)
        PROVE  \/ toViewer' = toViewer \o <<>> /\ (noneConfirmed' <=> noneConfirmed)
               \/ toViewer' = toViewer \o <<Part("result", 0)>> /\ noneConfirmed'
    BY <2>1, ShortSequences
  <2> QED
    BY <2>1 DEF ServerTakesChoice
<1>3. MisreadOnlyAfter'
  BY <1>1, <1>2 DEF HandshakeInv, MisreadOnlyAfter
<1>4. ChoiceOK'
  BY <1>1, <1>2 DEF HandshakeInv, ChoiceOK, TypesUnknown, BestTypeChosen, Offered
<1>5. ASSUME InStep
      PROVE  place \notin TypesUnknown \cup ChoiceMade \cup
               {"send response", "result", "reason", "name", "send encodings",
                "send desktop size", "running"}
  BY <1>1, <1>5 DEF InStep, TypesUnknown, AtStart, AtVersion, AtSendVersion, AtCount, AtTypes,
     AtSendChoice, AtSendResponse, AtResult, AtReason, AtName, AtRunning, Quiet
<1>6. ASSUME InStep, place = "challenge"
      PROVE  /\ server' = "response" /\ toServer' = <<>> /\ toViewer' = <<Part("challenge", 0)>>
             /\ (noneConfirmed' <=> noneConfirmed)
  <2>1. toViewer = <<>> /\ toServer = <<"VNCAUTH">>
    BY <1>1, <1>6 DEF InStep, AtChallenge, OnItsWay
  <2>2. choice = "VNCAUTH" /\ toServer' = <<>>
    BY <1>1, <2>1, ShortSequences
  <2>3. offered
    BY <1>6, <2>2 DEF HandshakeInv, ChoiceOK, Offered
  <2> QED
    BY <1>2, <2>1, <2>2, <2>3, ShortSequences
<1>7. ASSUME InStep, place = "send shared"
      PROVE  AtSendShared'
  <2>1. /\ toViewer = <<>> /\ toServer = <<"NONE">> /\ security = "NONE" /\ ~noneConfirmed
    BY <1>1, <1>7 DEF InStep, AtSendShared, OnItsWay
  <2>2. choice = "NONE" /\ toServer' = <<>>
    BY <1>1, <2>1, ShortSequences
  <2>3. offered
    BY <2>1, <2>2 DEF HandshakeInv, ChoiceOK, Offered
  <2> QED
    BY <1>2, <2>1, <2>2, <2>3, ShortSequences DEF AtSendShared
<1>8. ASSUME InStep, place = "init"
      PROVE  AtInit'
  <2>1. toViewer = <<>> /\ ~noneConfirmed
    BY <1>1, <1>8 DEF InStep, AtInit
  <2>2. CASE toServer = <<"NONE", "shared">> /\ security = "NONE"
    <3>1. choice = "NONE" /\ toServer' = <<"shared">>
      BY <1>1, <2>2, ShortSequences
    <3>2. offered
      BY <2>2, <3>1 DEF HandshakeInv, ChoiceOK, Offered
    <3> QED
      BY <1>2, <2>1, <3>1, <3>2, ShortSequences DEF AtInit
  <2>3. CASE toServer = <<"shared">> /\ choiceLost
    <3>1. choice = "NONE" /\ toServer' = <<>>
      BY <1>1, <2>3, ShortSequences
    <3> QED
      BY <1>1, <1>2, <2>1, <2>3, <3>1, ShortSequences DEF AtInit
  <2> QED
    BY <1>1, <1>8, <2>2, <2>3 DEF InStep, AtInit
<1>9. ASSUME ~misread PROVE InStep'
  <2>1. InStep
    BY <1>9 DEF HandshakeInv
  <2> QED
    BY <1>1, <1>5, <1>6, <1>7, <1>8, <2>1 DEF InStep, TypesUnknown, AtChallenge
<1>10. SafeSoFar'
  <2>1. SafeSoFar /\ (~misread => InStep) /\ MisreadOnlyAfter
    BY DEF HandshakeInv
  <2>2. place \in TypesUnknown \cup ChoiceMade \cup {"send response", "result", "reason"} => FALSE
    BY <1>5, <2>1 DEF SafeSoFar, NothingWrong, MisreadOnlyAfter
  <2>3. place = "challenge" => ~choiceLost /\ ~noneConfirmed'
    BY <1>6, <2>1 DEF SafeSoFar, MisreadOnlyAfter
  <2> QED
    BY <1>1, <2>2, <2>3 DEF SafeSoFar
<1> QED
  BY <1>1, <1>3, <1>4, <1>9, <1>10 DEF HandshakeInv

LEMMA TakesResponseStep ==
  ASSUME HandshakeInv, ServerTakesResponse
  PROVE  HandshakeInv'
<1> USE DEF Answers, Says, chosenVars, historyVars, BeforeConnection, ChoiceMade
<1>1. /\ conn = "open" /\ server = "response" /\ toServer # <<>> /\ toServer' = Tail(toServer)
      /\ UNCHANGED <<offer, conn, place, typesLeft, best, security, settings, misread, choiceLost,
                     noneConfirmed>>
  BY DEF ServerTakesResponse
<1>2. \/ toViewer' = toViewer \o <<Part("result", 0)>> /\ server' = "shared"
      \/ toViewer' = toViewer \o <<Part("result", 1), Part("reason", 0)>> /\ server' = "gone"
  <2>1. PICK status \in Statuses :
          /\ toViewer' = toViewer \o (<<Part("result", status)>> \o
                           (IF status = 0 THEN <<>> ELSE <<Part("reason", 0)>>))
          /\ server' = IF status = 0 THEN "shared" ELSE "gone"
    BY DEF ServerTakesResponse
  <2>2. status = 0 \/ status = 1
    BY HandshakeAssumption
  <2> QED
    BY <2>1, <2>2, OneAndOne, ShortSequences
<1>3. MisreadOnlyAfter' /\ SafeSoFar'
  BY <1>1 DEF HandshakeInv, MisreadOnlyAfter, SafeSoFar, NothingWrong
<1>4. ChoiceOK'
  BY <1>1, <1>2 DEF HandshakeInv, ChoiceOK, TypesUnknown, BestTypeChosen, Offered
<1>5. ASSUME ~misread PROVE InStep'
  <2>1. InStep
    BY <1>5 DEF HandshakeInv
  <2>2. place \in {"result"} \/ place \notin TypesUnknown \cup ChoiceMade \cup
          {"challenge", "send response", "result", "reason", "send shared", "init", "name",
           "send encodings", "send desktop size", "running"}
    BY <1>1, <2>1 DEF InStep, TypesUnknown, AtStart, AtVersion, AtSendVersion, AtCount, AtTypes,
       AtSendChoice, AtChallenge, AtSendResponse, AtReason, AtSendShared, AtInit, AtName,
       AtRunning, Quiet
  <2>3. place = "result" => AtResult'
    <3> SUFFICES ASSUME place = "result" PROVE AtResult'
      OBVIOUS
    <3>1. toViewer = <<>> /\ toServer = <<"response">>
      BY <1>1, <2>1 DEF InStep, AtResult, OnItsWay
    <3> QED
      BY <1>1, <1>2, <3>1, ShortSequences DEF AtResult
  <2> QED
    BY <1>1, <2>2, <2>3 DEF InStep, TypesUnknown
<1> QED
  BY <1>1, <1>3, <1>4, <1>5 DEF HandshakeInv

LEMMA InitsStep ==
  ASSUME HandshakeInv, ServerInits
  PROVE  HandshakeInv'
<1> USE DEF Answers, Says, chosenVars, historyVars, BeforeConnection, ChoiceMade
<1>1. /\ conn = "open" /\ server = "shared" /\ toServer # <<>> /\ toServer' = Tail(toServer)
      /\ server' = "running"
      /\ UNCHANGED <<offer, conn, place, typesLeft, best, security, settings, misread, choiceLost,
                     noneConfirmed>>
  BY DEF ServerInits
<1>2. PICK size \in DesktopSizes, length \in NameLengths :
        toViewer' = toViewer \o InitParts(size, length)
  BY DEF ServerInits, InitParts
<1>3. MisreadOnlyAfter' /\ SafeSoFar'
  BY <1>1 DEF HandshakeInv, MisreadOnlyAfter, SafeSoFar, NothingWrong
<1>4. ChoiceOK'
  BY <1>1 DEF HandshakeInv, ChoiceOK, TypesUnknown, BestTypeChosen, Offered
<1>5. ASSUME ~misread PROVE InStep'
  <2>1. InStep
    BY <1>5 DEF HandshakeInv
  <2>2. place \in {"init"} \/ place \notin TypesUnknown \cup ChoiceMade \cup
          {"challenge", "send response", "result", "reason", "send shared", "init", "name",
           "send encodings", "send desktop size", "running"}
    BY <1>1, <2>1 DEF InStep, TypesUnknown, AtStart, AtVersion, AtSendVersion, AtCount, AtTypes,
       AtSendChoice, AtChallenge, AtSendResponse, AtResult, AtReason, AtSendShared, AtName,
       AtRunning, Quiet
  <2>3. place = "init" => AtInit'
    <3> SUFFICES ASSUME place = "init" PROVE AtInit'
      OBVIOUS
    <3>1. toServer = <<"shared">>
      BY <1>1, <2>1 DEF InStep, AtInit
    <3>2. toServer' = <<>>
      BY <1>1, <3>1, ShortSequences
    <3>3. CASE toViewer = <<>> /\ ~noneConfirmed
      <4>1. toViewer' = InitParts(size, length)
        BY <1>2, <3>3, ShortSequences DEF InitParts
      <4> QED
        BY <1>1, <3>2, <3>3, <4>1 DEF AtInit
    <3>4. CASE toViewer = <<Part("result", 0)>> /\ noneConfirmed
      <4>1. toViewer' # <<>> /\ Head(toViewer') = Part("result", 0)
        BY <1>2, <3>4, ThreeParts DEF InitParts
      <4> QED
        BY <1>1, <3>2, <3>4, <4>1 DEF AtInit
    <3> QED
      BY <1>1, <2>1, <3>3, <3>4 DEF InStep, AtInit
  <2> QED
    BY <1>1, <2>2, <2>3 DEF InStep, TypesUnknown
<1> QED
  BY <1>1, <1>3, <1>4, <1>5 DEF HandshakeInv

LEMMA ReadsStep ==
  ASSUME HandshakeInv, ServerReads
  PROVE  HandshakeInv'
<1> USE DEF Answers, Says, chosenVars, historyVars, BeforeConnection, ChoiceMade
<1>1. /\ conn = "open" /\ server = "running" /\ toServer # <<>> /\ toServer' = Tail(toServer)
      /\ server' = "running" /\ toViewer' = toViewer \o <<>>
      /\ UNCHANGED <<offer, conn, place, typesLeft, best, security, settings, misread, choiceLost,
                     noneConfirmed>>
  BY DEF ServerReads
<1>2. MisreadOnlyAfter' /\ SafeSoFar'
  BY <1>1 DEF HandshakeInv, MisreadOnlyAfter, SafeSoFar, NothingWrong
<1>3. ChoiceOK'
  BY <1>1 DEF HandshakeInv, ChoiceOK, TypesUnknown, BestTypeChosen, Offered
<1>4. ASSUME ~misread PROVE InStep'
  <2>1. InStep
    BY <1>4 DEF HandshakeInv
  <2>2. place \in {"name", "send encodings", "send desktop size", "running"} \/
        place \notin TypesUnknown \cup ChoiceMade \cup
          {"challenge", "send response", "result", "reason", "send shared", "init", "name",
           "send encodings", "send desktop size", "running"}
    BY <1>1, <2>1 DEF InStep, TypesUnknown, AtStart, AtVersion, AtSendVersion, AtCount, AtTypes,
       AtSendChoice, AtChallenge, AtSendResponse, AtResult, AtReason, AtSendShared, AtInit, Quiet
  <2>3. place = "name" => AtName'
    BY <1>1, <2>1, ShortSequences DEF InStep, AtName
  <2>4. place \in {"send encodings", "send desktop size", "running"} => AtRunning'
    BY <1>1, <2>1, ShortSequences DEF InStep, AtRunning
  <2> QED
    BY <1>1, <2>2, <2>3, <2>4 DEF InStep, TypesUnknown
<1> QED
  BY <1>1, <1>2, <1>3, <1>4 DEF HandshakeInv

\* What is under way is still, or lost.
LEMMA ConnectionEndedStep ==
  ASSUME HandshakeInv, NEW how \in {"eof", "reset"}, ConnectionEnded(how)
  PROVE  HandshakeInv'
<1> USE DEF ConnectionEnded, chosenVars, historyVars, BeforeConnection, ChoiceMade
<1>1. MisreadOnlyAfter' /\ SafeSoFar'
  BY DEF HandshakeInv, MisreadOnlyAfter, SafeSoFar, NothingWrong
<1>2. ChoiceOK'
  BY DEF HandshakeInv, ChoiceOK, TypesUnknown, BestTypeChosen, Offered
<1>3. ASSUME ~misread PROVE InStep'
  <2>1. InStep
    BY <1>3 DEF HandshakeInv
  <2>2. place \notin BeforeConnection
    BY <2>1 DEF InStep, AtStart
  <2> QED
    BY <2>1, <2>2 DEF InStep, AtVersion, AtSendVersion, AtCount, AtTypes, AtSendChoice,
       AtChallenge, AtSendResponse, AtResult, AtReason, AtSendShared, AtInit, AtName, AtRunning,
       Quiet, OnItsWay
<1> QED
  BY <1>1, <1>2, <1>3 DEF HandshakeInv

LEMMA ServerStep ==
  ASSUME HandshakeInv, ServerNext
  PROVE  HandshakeInv'
BY GreetsStep, OffersStep, TakesChoiceStep, TakesResponseStep, InitsStep, ReadsStep,
   ConnectionEndedStep DEF ServerNext

-----------------------------------------------------------------------------
(* The viewer.  A part that is of the kind that is read is taken for what it *)
(* is; until the choice is answered every part is.                           *)
LEMMA ReadsRight ==
  ASSUME NEW from, NEW kind, NEW value, NEW sent, Reads(from, kind, value),
         ~misread, Head(toViewer) = Part(kind, sent)
  PROVE  ~misread' /\ value = sent /\ toViewer' = Tail(toViewer)
<1>1. Head(toViewer).kind = kind /\ Head(toViewer).value = sent
  BY DEF Part
<1>2. misread' = (misread \/ Head(toViewer).kind # kind)
  BY DEF Reads
<1>3. ~misread'
  BY <1>1, <1>2
<1> QED
  BY <1>1, <1>3 DEF Reads

LEMMA VersionStep ==
  ASSUME HandshakeInv, ReceiveVersion
  PROVE  HandshakeInv'
<1> USE DEF Goto, chosenVars, BeforeConnection, ChoiceMade, TypesUnknown
<1>1. PICK version \in Values("version") :
        /\ Reads("version", "version", version)
        /\ Goto(IF version = "RFB 003.008" THEN "send version" ELSE "failed")
  BY DEF ReceiveVersion
<1>2. /\ place = "version" /\ toViewer # <<>> /\ place' \in {"send version", "failed"}
      /\ UNCHANGED <<toServer, conn, server, offer, typesLeft, best, security, choiceLost,
                     noneConfirmed>>
  BY <1>1 DEF ReceiveVersion, Reads
<1>3. NothingWrong /\ AtVersion
  BY <1>2 DEF HandshakeInv, SafeSoFar, InStep, NothingWrong
<1>4. PICK version2 \in Versions : toViewer = <<Part("version", version2)>> /\ server = "version"
  BY <1>2, <1>3 DEF AtVersion
<1>5. ~misread' /\ toViewer' = <<>>
  BY <1>1, <1>3, <1>4, ReadsRight, ShortSequences DEF NothingWrong
<1>6. InStep'
  BY <1>2, <1>3, <1>4, <1>5 DEF InStep, AtVersion, AtSendVersion, Quiet
<1>7. MisreadOnlyAfter' /\ SafeSoFar'
  BY <1>2, <1>3, <1>5 DEF MisreadOnlyAfter, SafeSoFar, NothingWrong
<1>8. ChoiceOK'
  BY <1>2 DEF HandshakeInv, ChoiceOK, BestTypeChosen, Offered
<1> QED
  BY <1>6, <1>7, <1>8 DEF HandshakeInv

LEMMA CountStep ==
  ASSUME HandshakeInv, ReceiveCount
  PROVE  HandshakeInv'
<1> USE DEF Goto, BeforeConnection, ChoiceMade, TypesUnknown
<1>1. PICK count \in Values("count") :
        /\ Reads("count", "count", count)
        /\ Goto(IF count = 0 THEN "failed" ELSE "types")
        /\ typesLeft' = count
  BY DEF ReceiveCount
<1>2. /\ place = "count" /\ toViewer # <<>> /\ place' \in {"types", "failed"} /\ best' = -1
      /\ UNCHANGED <<toServer, conn, server, offer, security, choiceLost, noneConfirmed>>
  BY <1>1 DEF ReceiveCount, Reads
<1>3. NothingWrong /\ AtCount
  BY <1>2 DEF HandshakeInv, SafeSoFar, InStep, NothingWrong
<1>4. ASSUME server = "choice", toServer = <<>>, offer \in Offers \ {<<>>},
             toViewer = <<Part("count", Len(offer))>> \o TypeParts(offer, 0)
      PROVE  InStep' /\ ~misread'
  <2>1. Head(toViewer) = Part("count", Len(offer)) /\ Tail(toViewer) = TypeParts(offer, 0)
    BY <1>4, CountAndParts
  <2>2. ~misread' /\ count = Len(offer) /\ toViewer' = TypeParts(offer, 0)
    BY <1>1, <1>3, <2>1, ReadsRight DEF NothingWrong
  <2>3. Len(offer) \in Nat \ {0}
    BY <1>4, PartsOfOffer
  <2>4. AtTypes'
    <3>1. typesLeft' \in 1 .. Len(offer) /\ Len(offer) - typesLeft' = 0
      BY <1>1, <2>2, <2>3
    <3>2. {offer[i] : i \in 1 .. 0} = {}
      OBVIOUS
    <3>3. best' = BestOf({offer[i] : i \in 1 .. Len(offer) - typesLeft'})
      BY <1>2, <3>1, <3>2 DEF BestOf
    <3> QED
      BY <1>2, <1>4, <2>2, <3>1, <3>3 DEF AtTypes
  <2> QED
    BY <1>2, <2>2, <2>4 DEF InStep
<1>5. ASSUME toViewer = <<Part("count", 0), Part("reason", 0)>>
      PROVE  InStep' /\ ~misread'
  <2>1. ~misread' /\ count = 0
    BY <1>1, <1>3, <1>5, ReadsRight, ShortSequences DEF NothingWrong
  <2> QED
    BY <1>1, <2>1 DEF InStep
<1>6. InStep' /\ ~misread'
  BY <1>2, <1>3, <1>4, <1>5 DEF AtCount
<1>7. MisreadOnlyAfter' /\ SafeSoFar'
  BY <1>2, <1>3, <1>6 DEF MisreadOnlyAfter, SafeSoFar, NothingWrong
<1>8. ChoiceOK'
  BY <1>2 DEF HandshakeInv, ChoiceOK, BestTypeChosen, Offered
<1> QED
  BY <1>6, <1>7, <1>8 DEF HandshakeInv

(* Only of types that are acceptable is there a best.                        *)
LEMMA BestIsOffered ==
  ASSUME NEW S, BestOf(S) # -1
  PROVE  /\ Acceptable[BestOf(S) + 1] = IF "NONE" \in S THEN "NONE" ELSE "VNCAUTH"
         /\ Acceptable[BestOf(S) + 1] \in S
         /\ Acceptable[BestOf(S) + 1] # "none yet"
<1>1. Acceptable[0 + 1] = "NONE" /\ Acceptable[1 + 1] = "VNCAUTH"
  BY DEF Acceptable
<1>2. CASE "NONE" \in S
  BY <1>1, <1>2 DEF BestOf
<1>3. CASE "NONE" \notin S
  <2>1. "VNCAUTH" \in S /\ BestOf(S) = 1
    BY <1>3 DEF BestOf
  <2> QED
    BY <1>1, <1>3, <2>1
<1> QED
  BY <1>2, <1>3

LEMMA TypeStep ==
  ASSUME HandshakeInv, ReceiveType
  PROVE  HandshakeInv'
<1> USE DEF Goto, BeforeConnection, ChoiceMade, TypesUnknown
<1>1. PICK type \in Values("type") : Reads("types", "type", type) /\ best' = Better(type)
  BY DEF ReceiveType
<1>2. /\ place = "types" /\ toViewer # <<>>
      /\ typesLeft' = typesLeft - 1
      /\ place' = (IF typesLeft' > 0 THEN "types" ELSE IF best' = -1 THEN "failed" ELSE "prepare")
      /\ security' = (IF place' = "prepare" THEN Acceptable[best' + 1] ELSE security)
      /\ UNCHANGED <<toServer, conn, server, offer, choiceLost, noneConfirmed>>
  BY <1>1 DEF ReceiveType, Reads
<1>3. NothingWrong /\ AtTypes /\ security = "none yet"
  BY <1>2 DEF HandshakeInv, SafeSoFar, InStep, NothingWrong, ChoiceOK
<1> DEFINE n == Len(offer) - typesLeft
<1>4. /\ server = "choice" /\ toServer = <<>> /\ offer \in Offers
      /\ typesLeft \in 1 .. Len(offer) /\ Len(offer) \in Nat
      /\ n \in 0 .. Len(offer) - 1 /\ n \in Nat
      /\ Len(offer) - typesLeft' = n + 1
      /\ toViewer = TypeParts(offer, n) /\ best = BestOf({offer[i] : i \in 1 .. n})
  <2>1. /\ server = "choice" /\ toServer = <<>> /\ offer \in Offers
        /\ typesLeft \in 1 .. Len(offer)
        /\ toViewer = TypeParts(offer, n) /\ best = BestOf({offer[i] : i \in 1 .. n})
    BY <1>3 DEF AtTypes
  <2>2. Len(offer) \in Nat
    BY <2>1, PartsOfOffer
  <2>3. /\ n \in 0 .. Len(offer) - 1 /\ n \in Nat /\ Len(offer) - typesLeft' = n + 1
    BY <1>2, <2>1, <2>2
  <2> QED
    BY <2>1, <2>2, <2>3
<1>5. Head(toViewer) = Part("type", offer[n + 1]) /\ Tail(toViewer) = TypeParts(offer, n + 1)
  BY <1>4, NextPart
<1>6. ~misread' /\ type = offer[n + 1] /\ toViewer' = TypeParts(offer, n + 1)
  <2> HIDE DEF n
  <2>1. Reads("types", "type", type) /\ ~misread
    BY <1>1, <1>3 DEF NothingWrong
  <2>2. ~misread' /\ type = offer[n + 1] /\ toViewer' = Tail(toViewer)
    BY <1>5, <2>1, ReadsRight
  <2> QED
    BY <1>5, <2>2
<1>7. best' = BestOf({offer[i] : i \in 1 .. n + 1})
  <2>1. {offer[i] : i \in 1 .. n + 1} = {offer[i] : i \in 1 .. n} \cup {offer[n + 1]}
    <3>1. 1 .. n + 1 = (1 .. n) \cup {n + 1}
      BY <1>4
    <3> QED
      BY <3>1
  <2> HIDE DEF n
  <2> QED
    BY <1>1, <1>4, <1>6, <2>1, BetterIsBest
<1>8. CASE typesLeft' > 0
  <2>1. AtTypes'
    <3>1. typesLeft' \in 1 .. Len(offer)
      BY <1>2, <1>4, <1>8
    <3> QED
      BY <1>2, <1>4, <1>6, <1>7, <3>1 DEF AtTypes
  <2>2. InStep'
    BY <1>2, <1>8, <2>1 DEF InStep
  <2>3. ChoiceOK'
    BY <1>2, <1>3, <1>8 DEF HandshakeInv, ChoiceOK
  <2>4. MisreadOnlyAfter' /\ SafeSoFar'
    BY <1>2, <1>3, <1>6, <1>8 DEF MisreadOnlyAfter, SafeSoFar, NothingWrong
  <2> QED
    BY <2>2, <2>3, <2>4 DEF HandshakeInv
<1>9. CASE ~(typesLeft' > 0) /\ best' = -1
  <2>1. place' = "failed" /\ security' = security
    BY <1>2, <1>9
  <2> QED
    BY <1>2, <1>3, <1>6, <2>1 DEF HandshakeInv, InStep, ChoiceOK, MisreadOnlyAfter, SafeSoFar
<1>10. CASE ~(typesLeft' > 0) /\ best' # -1
  <2>1. n + 1 = Len(offer)
    BY <1>2, <1>4, <1>10
  <2>2. place' = "prepare" /\ security' = Acceptable[best' + 1]
    BY <1>2, <1>10
  <2>3. best' = BestOf(Offered)
    BY <1>4, <1>7, <2>1, PartsOfOffer DEF Offered
  <2>4. /\ security' = IF "NONE" \in Offered THEN "NONE" ELSE "VNCAUTH"
        /\ security' \in Offered /\ security' # "none yet"
    BY <1>10, <2>2, <2>3, BestIsOffered
  <2>5. ChoiceOK'
    BY <1>2, <1>4, <2>2, <2>4 DEF ChoiceOK, BestTypeChosen, Offered
  <2>6. toViewer' = <<>>
    BY <1>4, <1>6, <2>1, PartsOfOffer
  <2>7. InStep'
    BY <1>2, <1>4, <2>2, <2>6 DEF InStep, AtSendChoice, Quiet
  <2>8. MisreadOnlyAfter' /\ SafeSoFar'
    BY <1>2, <1>3, <1>6, <2>2 DEF MisreadOnlyAfter, SafeSoFar, NothingWrong
  <2> QED
    BY <2>5, <2>7, <2>8 DEF HandshakeInv
<1> QED
  BY <1>8, <1>9, <1>10

LEMMA ChallengeStep ==
  ASSUME HandshakeInv, ReceiveChallenge
  PROVE  HandshakeInv'
<1> USE DEF Goto, chosenVars, BeforeConnection, ChoiceMade, TypesUnknown
<1>1. /\ place = "challenge" /\ toViewer # <<>> /\ place' = "send response"
      /\ Reads("challenge", "challenge", 0)
      /\ UNCHANGED <<toServer, conn, server, offer, typesLeft, best, security, choiceLost,
                     noneConfirmed>>
  BY DEF ReceiveChallenge, Reads
<1>2. ~misread /\ ~choiceLost /\ ~noneConfirmed
  BY <1>1 DEF HandshakeInv, SafeSoFar, MisreadOnlyAfter
<1>3. server = "response" /\ toServer = <<>> /\ toViewer = <<Part("challenge", 0)>>
  BY <1>1, <1>2 DEF HandshakeInv, InStep, AtChallenge
<1>4. ~misread' /\ toViewer' = <<>>
  BY <1>1, <1>2, <1>3, ReadsRight, ShortSequences
<1>5. InStep' /\ MisreadOnlyAfter' /\ SafeSoFar'
  BY <1>1, <1>2, <1>3, <1>4 DEF InStep, AtSendResponse, Quiet, MisreadOnlyAfter, SafeSoFar
<1>6. ChoiceOK'
  BY <1>1 DEF HandshakeInv, ChoiceOK, BestTypeChosen, Offered
<1> QED
  BY <1>5, <1>6 DEF HandshakeInv

LEMMA ResultStep ==
  ASSUME HandshakeInv, ReceiveSecurityResult
  PROVE  HandshakeInv'
<1> USE DEF Goto, chosenVars, BeforeConnection, ChoiceMade, TypesUnknown
<1>1. PICK status \in Values("result") :
        /\ Reads("result", "result", status)
        /\ Goto(IF status = 1 THEN "reason" ELSE "send shared")
  BY DEF ReceiveSecurityResult
<1>2. /\ place = "result" /\ toViewer # <<>> /\ place' \in {"reason", "send shared"}
      /\ UNCHANGED <<toServer, conn, server, offer, typesLeft, best, security, choiceLost,
                     noneConfirmed>>
  BY <1>1 DEF ReceiveSecurityResult, Reads
<1>3. ~misread /\ ~choiceLost /\ ~noneConfirmed
  BY <1>2 DEF HandshakeInv, SafeSoFar, MisreadOnlyAfter
<1>4. \/ server = "shared" /\ toServer = <<>> /\ toViewer = <<Part("result", 0)>>
      \/ server = "gone" /\ toServer = <<>> /\ toViewer = <<Part("result", 1), Part("reason", 0)>>
  BY <1>2, <1>3 DEF HandshakeInv, InStep, AtResult
<1>5. InStep' /\ ~misread'
  <2>1. CASE server = "shared" /\ toServer = <<>> /\ toViewer = <<Part("result", 0)>>
    <3>1. Head(toViewer) = Part("result", 0) /\ Tail(toViewer) = <<>>
      BY <2>1, ShortSequences
    <3>2. ~misread' /\ status = 0 /\ toViewer' = <<>>
      BY <1>1, <1>3, <3>1, ReadsRight
    <3>3. place' = "send shared"
      <4>1. status # 1
        BY <3>2
      <4> QED
        BY <1>1, <4>1
    <3>4. AtSendShared'
      BY <1>2, <1>3, <2>1, <3>2 DEF AtSendShared
    <3> QED
      BY <3>2, <3>3, <3>4 DEF InStep
  <2>2. CASE server = "gone" /\ toServer = <<>>
               /\ toViewer = <<Part("result", 1), Part("reason", 0)>>
    <3>1. Head(toViewer) = Part("result", 1) /\ Tail(toViewer) = <<Part("reason", 0)>>
      BY <2>2, ShortSequences
    <3>2. ~misread' /\ status = 1 /\ toViewer' = <<Part("reason", 0)>>
      BY <1>1, <1>3, <3>1, ReadsRight
    <3>3. place' = "reason"
      BY <1>1, <3>2
    <3> QED
      BY <1>2, <2>2, <3>2, <3>3 DEF InStep, AtReason
  <2> QED
    BY <1>4, <2>1, <2>2
<1>6. MisreadOnlyAfter' /\ SafeSoFar'
  BY <1>2, <1>3, <1>5 DEF MisreadOnlyAfter, SafeSoFar
<1>7. ChoiceOK'
  BY <1>2 DEF HandshakeInv, ChoiceOK, BestTypeChosen, Offered
<1> QED
  BY <1>5, <1>6, <1>7 DEF HandshakeInv

LEMMA ReasonStep ==
  ASSUME HandshakeInv, ReceiveReason
  PROVE  HandshakeInv'
<1> USE DEF Goto, chosenVars, BeforeConnection, ChoiceMade, TypesUnknown
<1>1. /\ place = "reason" /\ place' = "failed" /\ Reads("reason", "reason", 0)
      /\ UNCHANGED <<server, offer, security, choiceLost, noneConfirmed>>
  BY DEF ReceiveReason, Reads
<1>2. ~misread
  BY <1>1 DEF HandshakeInv, SafeSoFar, MisreadOnlyAfter
<1>3. toViewer = <<Part("reason", 0)>>
  BY <1>1, <1>2 DEF HandshakeInv, InStep, AtReason
<1>4. ~misread'
  BY <1>1, <1>2, <1>3, ReadsRight, ShortSequences
<1>5. InStep' /\ MisreadOnlyAfter' /\ SafeSoFar'
  BY <1>1, <1>4 DEF InStep, MisreadOnlyAfter, SafeSoFar
<1>6. ChoiceOK'
  BY <1>1 DEF HandshakeInv, ChoiceOK, BestTypeChosen, Offered
<1> QED
  BY <1>5, <1>6 DEF HandshakeInv

(* Here the viewer may read the SecurityResult that it does not expect.      *)
LEMMA ServerInitStep ==
  ASSUME HandshakeInv, ReceiveServerInit
  PROVE  HandshakeInv'
<1> USE DEF Goto, chosenVars, BeforeConnection, ChoiceMade, TypesUnknown
<1>1. PICK value \in Values("init") : Reads("init", "init", value)
  BY DEF ReceiveServerInit
<1>2. /\ place = "init" /\ toViewer # <<>> /\ place' \in {"name", "failed"}
      /\ misread' = (misread \/ Head(toViewer).kind # "init")
      /\ UNCHANGED <<toServer, conn, server, offer, typesLeft, best, security, choiceLost,
                     noneConfirmed>>
  BY <1>1 DEF ReceiveServerInit, Reads
<1>3. CASE misread
  BY <1>2, <1>3 DEF HandshakeInv, InStep, MisreadOnlyAfter, SafeSoFar, ChoiceOK, BestTypeChosen,
     Offered
<1>4. CASE ~misread
  <2>1. AtInit
    BY <1>2, <1>4 DEF HandshakeInv, InStep
  <2>2. ASSUME ~noneConfirmed, ~choiceLost
        PROVE  ~misread' /\ AtName'
    <3>1. PICK size \in DesktopSizes, length \in NameLengths :
            server = "running" /\ toViewer = InitParts(size, length)
      BY <1>2, <2>1, <2>2 DEF AtInit
    <3>2. ~misread' /\ toViewer' = <<Part("name", 0)>>
      BY <1>1, <1>4, <3>1, ReadsRight, ShortSequences DEF InitParts
    <3> QED
      BY <1>2, <3>1, <3>2 DEF AtName
  <2>3. ASSUME ~misread' PROVE AtName'
    <3>1. Head(toViewer).kind = "init"
      BY <1>2, <2>3
    <3>2. Head(toViewer) # Part("result", 0) /\ Head(toViewer) # Part("result", 1)
      BY <3>1 DEF Part
    <3>3. toViewer # <<Part("result", 0)>>
      BY <3>2, ShortSequences
    <3>4. PICK size \in DesktopSizes, length \in NameLengths :
            server = "running" /\ toViewer = InitParts(size, length)
      BY <1>2, <2>1, <3>2, <3>3 DEF AtInit
    <3>5. toViewer' = <<Part("name", 0)>>
      BY <1>1, <1>4, <3>4, ReadsRight, ShortSequences DEF InitParts
    <3> QED
      BY <1>2, <3>4, <3>5 DEF AtName
  <2>4. ~misread' => InStep'
    BY <1>2, <2>3 DEF InStep
  <2>5. MisreadOnlyAfter' /\ SafeSoFar'
    BY <1>2, <2>2 DEF MisreadOnlyAfter, SafeSoFar
  <2>6. ChoiceOK'
    BY <1>2 DEF HandshakeInv, ChoiceOK, BestTypeChosen, Offered
  <2> QED
    BY <2>4, <2>5, <2>6 DEF HandshakeInv
<1> QED
  BY <1>3, <1>4

LEMMA NameStep ==
  ASSUME HandshakeInv, ReceiveName
  PROVE  HandshakeInv'
<1> USE DEF Goto, chosenVars, BeforeConnection, ChoiceMade, TypesUnknown
<1>1. /\ place = "name" /\ place' = "send encodings" /\ Reads("name", "name", 0)
      /\ misread' = (misread \/ Head(toViewer).kind # "name")
      /\ UNCHANGED <<server, offer, security, choiceLost, noneConfirmed>>
  BY DEF ReceiveName, Reads
<1>2. ASSUME ~misread PROVE ~misread' /\ AtRunning'
  <2>1. server = "running" /\ toViewer = <<Part("name", 0)>>
    BY <1>1, <1>2 DEF HandshakeInv, InStep, AtName
  <2>2. ~misread' /\ toViewer' = <<>>
    BY <1>1, <1>2, <2>1, ReadsRight, ShortSequences
  <2> QED
    BY <1>1, <2>1, <2>2 DEF AtRunning
<1>3. misread => misread'
  BY <1>1
<1>4. ~misread' => InStep'
  BY <1>1, <1>2, <1>3 DEF InStep
<1>5. MisreadOnlyAfter' /\ SafeSoFar'
  BY <1>1, <1>2 DEF HandshakeInv, MisreadOnlyAfter, SafeSoFar
<1>6. ChoiceOK'
  BY <1>1 DEF HandshakeInv, ChoiceOK, BestTypeChosen, Offered
<1> QED
  BY <1>4, <1>5, <1>6 DEF HandshakeInv

-----------------------------------------------------------------------------
(* What is sent is on its way, or lost with the connection.                  *)
LEMMA SentOnQuiet ==
  ASSUME NEW from, NEW message, Sends(from, message, TRUE), toServer = <<>>
  PROVE  OnItsWay(message)'
BY ShortSequences DEF Sends, OnItsWay

LEMMA SendVersionStep ==
  ASSUME HandshakeInv, NEW ok \in BOOLEAN, SendVersion(ok)
  PROVE  HandshakeInv'
<1> USE DEF Goto, chosenVars, BeforeConnection, ChoiceMade, TypesUnknown
<1>1. /\ place = "send version" /\ place' = (IF ok THEN "count" ELSE "failed")
      /\ Sends("send version", "version", ok)
      /\ UNCHANGED <<toViewer, conn, server, offer, typesLeft, best, security, misread, choiceLost,
                     noneConfirmed>>
  BY DEF SendVersion, Sends
<1>2. NothingWrong /\ AtSendVersion
  BY <1>1 DEF HandshakeInv, SafeSoFar, InStep, NothingWrong
<1>3. ok => AtCount'
  BY <1>1, <1>2, SentOnQuiet DEF AtSendVersion, Quiet, AtCount
<1>4. InStep' /\ MisreadOnlyAfter' /\ SafeSoFar'
  BY <1>1, <1>2, <1>3 DEF InStep, MisreadOnlyAfter, SafeSoFar, NothingWrong
<1>5. ChoiceOK'
  BY <1>1 DEF HandshakeInv, ChoiceOK, BestTypeChosen, Offered
<1> QED
  BY <1>4, <1>5 DEF HandshakeInv

LEMMA SendChoiceStep ==
  ASSUME HandshakeInv, NEW ok \in BOOLEAN, SendChoice(ok)
  PROVE  HandshakeInv'
<1> USE DEF Goto, chosenVars, BeforeConnection, ChoiceMade, TypesUnknown
<1>1. /\ place = "send choice"
      /\ place' = (IF security = "VNCAUTH" /\ ok THEN "challenge" ELSE "send shared")
      /\ Sends("send choice", security, ok) /\ choiceLost' = ~ok
      /\ toServer' = (IF ok /\ conn = "open" THEN Append(toServer, security) ELSE toServer)
      /\ UNCHANGED <<toViewer, conn, server, offer, typesLeft, best, security, misread,
                     noneConfirmed>>
  BY DEF SendChoice, Sends
<1>2. NothingWrong /\ AtSendChoice
  BY <1>1 DEF HandshakeInv, SafeSoFar, InStep, NothingWrong
<1>3. security \in {"NONE", "VNCAUTH"} /\ security # "none yet"
  BY <1>1 DEF HandshakeInv, ChoiceOK, BestTypeChosen
<1>4. ok => OnItsWay(security)'
  BY <1>1, <1>2, ShortSequences DEF AtSendChoice, Quiet, OnItsWay
<1>5. ~ok => choiceLost' /\ toServer' = <<>>
  BY <1>1, <1>2 DEF AtSendChoice, Quiet
<1>6. place' = "challenge" => AtChallenge' /\ security = "VNCAUTH" /\ ~choiceLost'
  BY <1>1, <1>2, <1>4 DEF AtSendChoice, Quiet, AtChallenge, OnItsWay
<1>7. place' = "send shared" => AtSendShared'
  <2>1. place' = "send shared" /\ ok => security = "NONE"
    BY <1>1, <1>3
  <2> QED
    BY <1>1, <1>2, <1>4, <1>5, <2>1 DEF NothingWrong, AtSendChoice, Quiet, AtSendShared, OnItsWay
<1>8. InStep' /\ MisreadOnlyAfter' /\ SafeSoFar'
  BY <1>1, <1>2, <1>6, <1>7 DEF InStep, MisreadOnlyAfter, SafeSoFar, NothingWrong
<1>9. ChoiceOK'
  BY <1>1, <1>3 DEF HandshakeInv, ChoiceOK, BestTypeChosen, Offered
<1> QED
  BY <1>8, <1>9 DEF HandshakeInv

LEMMA SendResponseStep ==
  ASSUME HandshakeInv, NEW ok \in BOOLEAN, SendResponse(ok)
  PROVE  HandshakeInv'
<1> USE DEF Goto, chosenVars, BeforeConnection, ChoiceMade, TypesUnknown
<1>1. /\ place = "send response" /\ place' = (IF ok THEN "result" ELSE "failed")
      /\ Sends("send response", "response", ok)
      /\ UNCHANGED <<toViewer, conn, server, offer, typesLeft, best, security, misread, choiceLost,
                     noneConfirmed>>
  BY DEF SendResponse, Sends
<1>2. ~misread /\ ~choiceLost /\ ~noneConfirmed
  BY <1>1 DEF HandshakeInv, SafeSoFar, MisreadOnlyAfter
<1>3. AtSendResponse
  BY <1>1, <1>2 DEF HandshakeInv, InStep
<1>4. ok => AtResult'
  BY <1>1, <1>3, SentOnQuiet DEF AtSendResponse, Quiet, AtResult
<1>5. InStep' /\ MisreadOnlyAfter' /\ SafeSoFar'
  BY <1>1, <1>2, <1>4 DEF InStep, MisreadOnlyAfter, SafeSoFar
<1>6. ChoiceOK'
  BY <1>1 DEF HandshakeInv, ChoiceOK, BestTypeChosen, Offered
<1> QED
  BY <1>5, <1>6 DEF HandshakeInv

LEMMA ClientInitStep ==
  ASSUME HandshakeInv, NEW ok \in BOOLEAN, SendClientInit(ok)
  PROVE  HandshakeInv'
<1> USE DEF Goto, chosenVars, BeforeConnection, ChoiceMade, TypesUnknown
<1>1. /\ place = "send shared" /\ place' = (IF ok THEN "init" ELSE "failed")
      /\ toServer' = (IF ok /\ conn = "open" THEN Append(toServer, "shared") ELSE toServer)
      /\ UNCHANGED <<toViewer, conn, server, offer, typesLeft, best, security, misread, choiceLost,
                     noneConfirmed>>
  BY DEF SendClientInit, Sends
<1>2. ASSUME ok, ~misread PROVE AtInit'
  <2>1. AtSendShared
    BY <1>1, <1>2 DEF HandshakeInv, InStep
  <2>2. CASE server = "choice" /\ toViewer = <<>> /\ ~noneConfirmed
    <3>1. CASE conn # "open"
      BY <1>1, <2>2, <3>1 DEF AtInit
    <3>2. CASE conn = "open" /\ choiceLost /\ toServer = <<>>
      BY <1>1, <1>2, <2>2, <3>2, ShortSequences DEF AtInit
    <3>3. CASE conn = "open" /\ toServer = <<"NONE">> /\ security = "NONE"
      BY <1>1, <1>2, <2>2, <3>3, OneAndOne DEF AtInit
    <3> QED
      BY <2>1, <2>2, <3>1, <3>2, <3>3 DEF AtSendShared, OnItsWay
  <2>3. CASE server = "shared" /\ toServer = <<>>
    <3>1. toServer' \in {<<>>, <<"shared">>}
      BY <1>1, <2>3, ShortSequences
    <3> QED
      BY <1>1, <2>1, <2>3, <3>1 DEF AtSendShared, AtInit
  <2> QED
    BY <2>1, <2>2, <2>3 DEF AtSendShared
<1>3. ~misread' => InStep'
  BY <1>1, <1>2 DEF InStep
<1>4. MisreadOnlyAfter' /\ SafeSoFar'
  BY <1>1 DEF HandshakeInv, MisreadOnlyAfter, SafeSoFar
<1>5. ChoiceOK'
  BY <1>1 DEF HandshakeInv, ChoiceOK, BestTypeChosen, Offered
<1> QED
  BY <1>3, <1>4, <1>5 DEF HandshakeInv

LEMMA LastSendsStep ==
  ASSUME HandshakeInv, NEW ok \in BOOLEAN, SendEncodings(ok) \/ SendDesktopSize(ok)
  PROVE  HandshakeInv'
<1> USE DEF Goto, chosenVars, BeforeConnection, ChoiceMade, TypesUnknown
<1>1. /\ place \in {"send encodings", "send desktop size"}
      /\ place' \in {"send desktop size", "running", "failed"}
      /\ UNCHANGED <<toViewer, conn, server, offer, security, misread, choiceLost, noneConfirmed>>
  BY DEF SendEncodings, SendDesktopSize, Sends
<1>2. ~misread' => InStep'
  BY <1>1 DEF HandshakeInv, InStep, AtRunning
<1>3. MisreadOnlyAfter' /\ SafeSoFar'
  BY <1>1 DEF HandshakeInv, MisreadOnlyAfter, SafeSoFar
<1>4. ChoiceOK'
  BY <1>1 DEF HandshakeInv, ChoiceOK, BestTypeChosen, Offered
<1> QED
  BY <1>2, <1>3, <1>4 DEF HandshakeInv

-----------------------------------------------------------------------------
LEMMA ViewerStep ==
  ASSUME HandshakeInv, HandshakeGoesOn
  PROVE  HandshakeInv'
<1>1. ASSUME ReadFails \/ Spin \/ BrokenPipe PROVE UNCHANGED remoteVars /\ SameStretch
  BY <1>1 DEF ReadFails, Spin, BrokenPipe, SameStretch, NowhereInParticular, Ended, Goto
<1>2. CASE \E ok \in BOOLEAN :
             \/ SendVersion(ok) \/ SendChoice(ok) \/ SendResponse(ok)
             \/ SendClientInit(ok) \/ SendEncodings(ok) \/ SendDesktopSize(ok)
  BY <1>2, SendVersionStep, SendChoiceStep, SendResponseStep, ClientInitStep, LastSendsStep
<1> QED
  BY <1>1, <1>2, LocalStep, VersionStep, CountStep, TypeStep, ChallengeStep, ResultStep,
     ReasonStep, ServerInitStep, NameStep DEF HandshakeGoesOn

LEMMA HandshakeStep ==
  ASSUME HandshakeInv, [Next]_vars
  PROVE  HandshakeInv'
<1>1. CASE Exchange
  BY <1>1, ViewerStep DEF Exchange
<1>2. CASE ServerNext
  BY <1>2, ServerStep
<1>3. CASE Connect
  BY <1>3, ConnectStep
<1>4. CASE \/ OpenLog \/ SetHandlers \/ EchoOff \/ EchoOn \/ PlainSteps
           \/ GetResources \/ GetConnector \/ ConnectorsDone \/ CreateBuffers
           \/ StartThread \/ InitInputState \/ LeaveLoop \/ DeinitScreen
           \/ HandleEvents \/ PollFails
           \/ \E l \in Lines : ReadLine(l)
           \/ \E signo \in Signals : Signal(signo)
           \/ UNCHANGED vars
  BY <1>4, StartSteps, LocalStep
<1> QED
  BY <1>1, <1>2, <1>3, <1>4 DEF Next, MainGoesOn, PlainSteps

LEMMA HandshakeStarts == Init => HandshakeInv
BY DEF Init, HandshakeInit, HandshakeInv, MisreadOnlyAfter, InStep, AtStart, Quiet, SafeSoFar,
       NothingWrong, ChoiceOK, BeforeConnection, ChoiceMade

(* Whatever fails, and whenever the connection ends: the viewer is out of    *)
(* step with a server that speaks RFB 3.8 only when the choice of the type   *)
(* was lost or NONE was answered with a SecurityResult                       *)
(* (vnc_session_send_auth).                                                  *)
THEOREM OutOfStepOnlyAfter == Spec => []MisreadOnlyAfter
<1>1. HandshakeInv /\ [Next]_vars => HandshakeInv'
  BY HandshakeStep
<1>2. HandshakeInv => MisreadOnlyAfter
  BY DEF HandshakeInv
<1> QED
  BY <1>1, <1>2, HandshakeStarts, PTL DEF Spec

(* In step, the session thread starts on an empty stream, with the server    *)
(* running (vnc_session_init, vnc_session_start).                            *)
THEOREM ThreadStartsInStep == Spec => []RunningTogether
<1>1. HandshakeInv /\ [Next]_vars => HandshakeInv'
  BY HandshakeStep
<1>2. HandshakeInv => RunningTogether
  BY DEF HandshakeInv, InStep, AtRunning, RunningTogether
<1> QED
  BY <1>1, <1>2, HandshakeStarts, PTL DEF Spec

(* Of every list of types, of whatever length and order, the first of the    *)
(* viewer's own list is chosen (vnc_rfb_has_desired_security_type).          *)
THEOREM FirstAcceptableChosen == Spec => []BestTypeChosen
<1>1. HandshakeInv /\ [Next]_vars => HandshakeInv'
  BY HandshakeStep
<1>2. HandshakeInv => BestTypeChosen
  BY DEF HandshakeInv, ChoiceOK, BestTypeChosen
<1> QED
  BY <1>1, <1>2, HandshakeStarts, PTL DEF Spec
=============================================================================
