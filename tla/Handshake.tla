------------------------------- MODULE Handshake -------------------------------
(***************************************************************************)
(* The handshake with the server (src/src/session.c and src/src/rfb.c), in *)
(* two halves: up to the choice of the security type, and, when the local  *)
(* devices are there, from the authentication to the first messages.       *)
(* Module Startup has what main does before, between and after them.  The  *)
(* server is one that speaks RFB 3.8 (external).  What it sends comes in   *)
(* parts, one for each read of the viewer; a part read as another kind     *)
(* than it is leaves the viewer with any values and anywhere in the        *)
(* stream.                                                                 *)
(***************************************************************************)
EXTENDS Integers, Sequences

CONSTANTS
  Versions,         \* versions the server may announce
  Offers,           \* lists of security types the server may offer
  Statuses,         \* statuses of a SecurityResult: 0 is success, 1 is failure
  DesktopSizes,     \* sizes the desktop of the server may have
  ScreenSize,       \* size of the screen, which the viewer wants
  NameLengths,      \* "fits" or "too long" for the array of 64 bytes
  SendsMayFail      \* whether a send may fail while the connection is open

ASSUME HandshakeAssumption ==
  /\ Offers \subseteq Seq({"NONE", "VNCAUTH", "other"})
  /\ Statuses \subseteq {0, 1}
  /\ SendsMayFail \in BOOLEAN

VARIABLES
  toViewer,         \* parts sent by the server and not received
  toServer,         \* messages sent by the viewer and not received
  conn,             \* the connection: "none", "open", "eof" or "reset"
  server,           \* what the server waits for
  offer,            \* the security types the server offers
  place,            \* where main is
  typesLeft,        \* security types that are still to be read
  best,             \* index of the best acceptable type so far; tmp, -1 if none
  security,         \* the chosen type
  settings,         \* server_settings.width and height, as one size
  misread,          \* history: a part was read as another kind
  choiceLost,       \* history: the send of the chosen type failed
  noneConfirmed     \* history: the server sent a SecurityResult for NONE

netVars    == <<toViewer, toServer, conn>>
chosenVars == <<typesLeft, best, security>>
historyVars == <<misread, choiceLost, noneConfirmed>>
remoteVars  == <<netVars, server, offer, chosenVars, settings, historyVars>>

Acceptable == <<"NONE", "VNCAUTH">>       \* acceptable_securities

Part(kind, value) == [kind |-> kind, value |-> value]

-----------------------------------------------------------------------------
(***************************************************************************)
(* The server (external)                                                   *)
(***************************************************************************)
Says(parts) == toViewer' = toViewer \o parts

\* The server's answer to a message it waited for.
Answers(waits, parts, next) ==
  /\ conn = "open"
  /\ server = waits
  /\ toServer # <<>>
  /\ toServer' = Tail(toServer)
  /\ Says(parts)
  /\ server' = next
  /\ UNCHANGED <<conn, place, chosenVars, settings, misread, choiceLost>>

ServerGreets ==
  /\ conn = "open"
  /\ server = "greet"
  /\ \E version \in Versions : Says(<<Part("version", version)>>)
  /\ server' = "version"
  /\ UNCHANGED <<toServer, conn, offer, place, chosenVars, settings, historyVars>>

\* An empty list is followed by the reason.
ServerOffers ==
  \E types \in Offers :
    /\ offer' = types
    /\ UNCHANGED noneConfirmed
    /\ Answers("version",
               <<Part("count", Len(types))>> \o
               (IF types = <<>> THEN <<Part("reason", 0)>>
                ELSE [i \in DOMAIN types |-> Part("type", types[i])]),
               IF types = <<>> THEN "gone" ELSE "choice")

\* The choice and the shared flag are one byte each: what is meant as the
\* flag (1) is NONE (1) to a server that waits for the choice.
ServerTakesChoice ==
  /\ toServer # <<>>
  /\ UNCHANGED offer
  /\ LET choice == IF Head(toServer) = "shared" THEN "NONE" ELSE Head(toServer)
         offered == choice \in {offer[i] : i \in DOMAIN offer}
         confirms(parts) == noneConfirmed' = (noneConfirmed \/ parts # <<>>)
     IN  \/ /\ offered /\ choice = "NONE"
            /\ \E parts \in {<<>>, <<Part("result", 0)>>} :
                 Answers("choice", parts, "shared") /\ confirms(parts)
         \/ /\ offered /\ choice = "VNCAUTH"
            /\ Answers("choice", <<Part("challenge", 0)>>, "response") /\ confirms(<<>>)
         \/ /\ ~offered
            /\ Answers("choice", <<Part("result", 1), Part("reason", 0)>>, "gone")
            /\ confirms(<<>>)

ServerTakesResponse ==
  /\ UNCHANGED <<offer, noneConfirmed>>
  /\ \E status \in Statuses :
       Answers("response",
               <<Part("result", status)>> \o (IF status = 0 THEN <<>> ELSE <<Part("reason", 0)>>),
               IF status = 0 THEN "shared" ELSE "gone")

ServerInits ==
  /\ UNCHANGED <<offer, noneConfirmed>>
  /\ \E size \in DesktopSizes, length \in NameLengths :
       Answers("shared", <<Part("init", <<size, length>>), Part("name", 0)>>, "running")

ServerReads ==
  /\ UNCHANGED <<offer, noneConfirmed>>
  /\ Answers("running", <<>>, "running")

ConnectionEnded(how) ==
  /\ conn = "open"
  /\ conn' = how
  /\ UNCHANGED <<toViewer, toServer, server, offer, place, chosenVars, settings, historyVars>>

-----------------------------------------------------------------------------
(***************************************************************************)
(* The viewer                                                              *)
(***************************************************************************)
Values(kind) ==
  CASE kind = "version" -> Versions
    [] kind = "count"   -> {Len(types) : types \in Offers}
    [] kind = "type"    -> {"NONE", "VNCAUTH", "other"}
    [] kind = "result"  -> Statuses
    [] kind = "init"    -> DesktopSizes \X {"fits", "too long"}
    [] kind \in {"challenge", "reason", "name"} -> {0}

\* A read of main at a place; the value is what it is taken for.
Reads(from, kind, value) ==
  /\ place = from
  /\ toViewer # <<>>
  /\ misread' = (misread \/ Head(toViewer).kind # kind)
  /\ IF misread'
     THEN \E n \in 1 .. Len(toViewer) : toViewer' = SubSeq(toViewer, n + 1, Len(toViewer))
     ELSE value = Head(toViewer).value /\ toViewer' = Tail(toViewer)
  /\ UNCHANGED <<toServer, conn, server, offer, choiceLost, noneConfirmed>>

\* A send of main: the message is on its way, or the send failed.
Sends(from, message, ok) ==
  /\ place = from
  /\ ok \/ SendsMayFail \/ conn # "open"
  /\ toServer' = IF ok /\ conn = "open" THEN Append(toServer, message) ELSE toServer
  /\ UNCHANGED <<toViewer, conn, server, offer, misread, noneConfirmed>>

Goto(p) == place' = p

Reading == {"version", "count", "types", "challenge", "result", "reason", "init", "name"}
Sending == {"send version", "send choice", "send response", "send shared",
            "send encodings", "send desktop size"}

ReceiveVersion ==
  /\ \E version \in Values("version") :
       /\ Reads("version", "version", version)
       /\ Goto(IF version = "RFB 003.008" THEN "send version" ELSE "failed")
  /\ UNCHANGED <<chosenVars, settings>>

\* (mutant) A version that does not come in time is waited for.
ReadFailsRetried ==
  /\ place \in Reading
  /\ conn # "eof"
  /\ Goto(IF place = "version" THEN place ELSE "failed")
  /\ UNCHANGED remoteVars

\* A timeout, or an error of the socket, at any read: main returns 1.
ReadFails ==
  /\ place \in Reading
  /\ conn # "eof"
  /\ Goto("failed")
  /\ UNCHANGED remoteVars

\* recv returns 0 at the end of the stream, maybe in the middle of a part.
Spin ==
  /\ place \in Reading
  /\ conn = "eof"
  /\ Goto("spinning")
  /\ UNCHANGED remoteVars

\* SIGPIPE ends the process.
BrokenPipe ==
  /\ place \in Sending
  /\ conn # "open"
  /\ Goto("failed")
  /\ UNCHANGED remoteVars

SendVersion(ok) ==
  /\ Sends("send version", "version", ok)
  /\ Goto(IF ok THEN "count" ELSE "failed")
  /\ UNCHANGED <<chosenVars, settings, choiceLost>>

ReceiveCount ==
  /\ \E count \in Values("count") :
       /\ Reads("count", "count", count)
       /\ Goto(IF count = 0 THEN "failed" ELSE "types")
       /\ typesLeft' = count
  /\ best' = -1
  /\ UNCHANGED <<security, settings>>

\* (mutant) The last acceptable type of the list is taken.
BetterLast(type) ==
  IF \E j \in DOMAIN Acceptable : Acceptable[j] = type
  THEN (CHOOSE j \in DOMAIN Acceptable : Acceptable[j] = type) - 1
  ELSE best

\* vnc_rfb_has_desired_security_type: the index (from 0) after one more type.
Better(type) ==
  IF \E j \in DOMAIN Acceptable : Acceptable[j] = type /\ (j - 1 < best \/ best = -1)
  THEN (CHOOSE j \in DOMAIN Acceptable : Acceptable[j] = type) - 1
  ELSE best

\* The whole list is read; then the type is chosen.
ReceiveType ==
  /\ \E type \in Values("type") :
       /\ Reads("types", "type", type)
       /\ best' = Better(type)
  /\ typesLeft' = typesLeft - 1
  /\ Goto(IF typesLeft' > 0 THEN "types" ELSE IF best' = -1 THEN "failed" ELSE "prepare")
  /\ security' = IF place' = "prepare" THEN Acceptable[best' + 1] ELSE security
  /\ UNCHANGED settings

\* (mutant) The challenge is not waited for.
SendChoiceOnly(ok) ==
  /\ Sends("send choice", security, ok)
  /\ choiceLost' = ~ok
  /\ Goto("send shared")
  /\ UNCHANGED <<chosenVars, settings>>

\* vnc_session_send_auth: a failure of this send is not reported.
SendChoice(ok) ==
  /\ Sends("send choice", security, ok)
  /\ choiceLost' = ~ok
  /\ Goto(IF security = "VNCAUTH" /\ ok THEN "challenge" ELSE "send shared")
  /\ UNCHANGED <<chosenVars, settings>>

ReceiveChallenge ==
  /\ Reads("challenge", "challenge", 0)
  /\ Goto("send response")
  /\ UNCHANGED <<chosenVars, settings>>

SendResponse(ok) ==
  /\ Sends("send response", "response", ok)
  /\ Goto(IF ok THEN "result" ELSE "failed")
  /\ UNCHANGED <<chosenVars, settings, choiceLost>>

ReceiveSecurityResult ==
  /\ \E status \in Values("result") :
       /\ Reads("result", "result", status)
       /\ Goto(IF status = 1 THEN "reason" ELSE "send shared")
  /\ UNCHANGED <<chosenVars, settings>>

ReceiveReason ==
  /\ Reads("reason", "reason", 0)
  /\ Goto("failed")
  /\ UNCHANGED <<chosenVars, settings>>

SendClientInit(ok) ==
  /\ Sends("send shared", "shared", ok)
  /\ Goto(IF ok THEN "init" ELSE "failed")
  /\ UNCHANGED <<chosenVars, settings, choiceLost>>

\* (mutant) A server without a name is expected.
ReceiveServerInitOnly ==
  /\ \E value \in Values("init") :
       /\ Reads("init", "init", value)
       /\ settings' = value[1]
       /\ Goto(IF value[2] = "fits" THEN "send encodings" ELSE "failed")
  /\ UNCHANGED chosenVars

ReceiveServerInit ==
  /\ \E value \in Values("init") :
       /\ Reads("init", "init", value)
       /\ settings' = value[1]
       /\ Goto(IF value[2] = "fits" THEN "name" ELSE "failed")
  /\ UNCHANGED chosenVars

ReceiveName ==
  /\ Reads("name", "name", 0)
  /\ Goto("send encodings")
  /\ UNCHANGED <<chosenVars, settings>>

SendEncodings(ok) ==
  /\ Sends("send encodings", "encodings", ok)
  /\ Goto(IF ~ok THEN "failed"
          ELSE IF settings # ScreenSize THEN "send desktop size" ELSE "running")
  /\ UNCHANGED <<chosenVars, settings, choiceLost>>

SendDesktopSize(ok) ==
  /\ Sends("send desktop size", "desktop size", ok)
  /\ Goto(IF ok THEN "running" ELSE "failed")
  /\ UNCHANGED <<chosenVars, settings, choiceLost>>

-----------------------------------------------------------------------------
HandshakeInit ==
  /\ toViewer = <<>>
  /\ toServer = <<>>
  /\ conn = "none"
  /\ server = "greet"
  /\ offer = <<>>
  /\ typesLeft = 0
  /\ best = -1
  /\ security = "none yet"
  /\ settings = "none yet"
  /\ misread = FALSE
  /\ choiceLost = FALSE
  /\ noneConfirmed = FALSE

HandshakeGoesOn ==
  \/ ReceiveVersion \/ ReceiveCount \/ ReceiveType \/ ReceiveChallenge
  \/ ReceiveSecurityResult \/ ReceiveReason \/ ReceiveServerInit \/ ReceiveName
  \/ ReadFails \/ Spin \/ BrokenPipe
  \/ \E ok \in BOOLEAN :
       \/ SendVersion(ok) \/ SendChoice(ok) \/ SendResponse(ok)
       \/ SendClientInit(ok) \/ SendEncodings(ok) \/ SendDesktopSize(ok)

ServerNext ==
  \/ ServerGreets \/ ServerOffers \/ ServerTakesChoice \/ ServerTakesResponse
  \/ ServerInits \/ ServerReads
  \/ \E how \in {"eof", "reset"} : ConnectionEnded(how)

-----------------------------------------------------------------------------
HandshakeTypeOK ==
  /\ \A i \in DOMAIN toViewer :
       toViewer[i] \in [kind : {toViewer[i].kind}, value : Values(toViewer[i].kind)]
  /\ toServer \in Seq({"version", "NONE", "VNCAUTH", "response", "shared", "encodings",
                       "desktop size"})
  /\ conn \in {"none", "open", "eof", "reset"}
  /\ server \in {"greet", "version", "choice", "response", "shared", "running", "gone"}
  /\ offer \in Offers \cup {<<>>}
  /\ typesLeft = 0 \/ \E types \in Offers : typesLeft \in 1 .. Len(types)
  /\ best \in -1 .. 1
  /\ security \in {"NONE", "VNCAUTH", "none yet"}
  /\ settings \in DesktopSizes \cup {"none yet"}
  /\ misread \in BOOLEAN /\ choiceLost \in BOOLEAN /\ noneConfirmed \in BOOLEAN

Offered == {offer[i] : i \in DOMAIN offer}

(* Of the types the server offers the viewer chooses the first of its own    *)
(* list, in whatever order and however often the server names them           *)
(* (vnc_rfb_has_desired_security_type).                                      *)
BestTypeChosen ==
  security # "none yet" =>
    security = IF "NONE" \in Offered THEN "NONE" ELSE "VNCAUTH"

(* Two things bring the viewer out of step with the server, and no order of  *)
(* answers, failures and early ends does otherwise: that the choice could    *)
(* not be sent, which vnc_session_send_auth does not report, and a           *)
(* SecurityResult after NONE, which it does not read.                        *)
MisreadOnlyAfter == misread => choiceLost \/ noneConfirmed

(* In step, the viewer starts its session thread when the server takes the   *)
(* session for running, and nothing of the handshake is left for the thread  *)
(* to read.                                                                  *)
RunningTogether ==
  place = "running" /\ ~misread => server = "running" /\ toViewer = <<>>
=============================================================================
