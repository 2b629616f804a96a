----------------------------- MODULE ClientStream ------------------------------
(***************************************************************************)
(* The stream from the viewer to the server.  The main loop writes pointer *)
(* and key events, the session thread fences and requests for continuous   *)
(* updates, both with RFB_TRY_WRITE of src/src/rfb.h and without a lock.   *)
(* The socket blocks, with a timeout for sends (vnc_session_connect): a    *)
(* write() waits for room in the middle of a message, the socket belongs   *)
(* to the other thread meanwhile, and a timeout or a signal ends the wait. *)
(***************************************************************************)
EXTENDS Integers, SequencesExt

CONSTANTS
  Length,           \* units of each message
  Room              \* units the stream holds: both socket buffers

MessagesOf ==
  [main    |-> {"pointer", "key"},
   session |-> {"fence", "enable", "enable for size"}]

Threads  == DOMAIN MessagesOf
Messages == MessagesOf["main"] \cup MessagesOf["session"]

ASSUME StreamAssumption ==
  /\ Length \in [Messages -> Nat \ {0}]
  /\ Room \in Nat \ {0}

VARIABLES
  sending,          \* the message each thread is sending, or "nothing"
  written,          \* total_bytes_written, with those of the write under way
  moved,            \* the write under way has copied something
  ended,            \* threads that have ended
  stream,           \* units of messages written and not read by the server
  conn,             \* "open" or "reset"
  partRead,         \* the last unit of a message the server has read in part
  received,         \* the message the server received last
  cut,              \* history: a message did not fit into the stream at once
  mixed,            \* history: a unit was put into the middle of a message
  torn              \* history: a message was given up in the middle

sendVars    == <<sending, written, moved, ended>>
serverVars  == <<partRead, received>>
historyVars == <<cut, mixed, torn>>
vars == <<sending, written, moved, ended, stream, conn, partRead, received, cut, mixed, torn>>

Unit(m, i) == <<m, i>>

-----------------------------------------------------------------------------
Busy(t) == t \notin ended /\ sending[t] # "nothing"

\* (mutant) The size counts a unit more.
RestAndOneMore(t) == Length[sending[t]] + 1 - written[t]

Rest(t) == Length[sending[t]] - written[t]

RoomLeft == Room - Len(stream)

HalfWritten(t) == Busy(t) /\ written[t] > 0 /\ written[t] < Length[sending[t]]

Begin(t, m) ==
  /\ t \notin ended
  /\ sending[t] = "nothing"
  /\ sending' = [sending EXCEPT ![t] = m]
  /\ UNCHANGED <<written, moved, ended, stream, conn, serverVars, historyVars>>

\* The variables of RFB_TRY_WRITE are gone with its block.
Returns(t) ==
  /\ sending' = [sending EXCEPT ![t] = "nothing"]
  /\ written' = [written EXCEPT ![t] = 0]
  /\ moved' = [moved EXCEPT ![t] = FALSE]

\* n units of the message go from write() into the stream.
Puts(t, n) ==
  /\ stream' = stream \o [i \in 1 .. n |-> Unit(sending[t], written[t] + i)]
  /\ written' = [written EXCEPT ![t] = @ + n]
  /\ moved' = [moved EXCEPT ![t] = TRUE]
  /\ mixed' = (mixed \/ \E other \in Threads \ {t} : HalfWritten(other))

\* (mutant) The first unit, the header, is a write of its own.
CopyHeaderFirst(t) ==
  /\ Busy(t)
  /\ conn = "open"
  /\ Rest(t) > 0
  /\ RoomLeft > 0
  /\ Puts(t, IF written[t] = 0 THEN 1 ELSE IF Rest(t) <= RoomLeft THEN Rest(t) ELSE RoomLeft)
  /\ cut' = (cut \/ Rest(t) > RoomLeft)
  /\ UNCHANGED <<sending, ended, conn, serverVars, torn>>

\* write() copies what there is room for, and waits with the rest.
Copy(t) ==
  /\ Busy(t)
  /\ conn = "open"
  /\ Rest(t) > 0
  /\ RoomLeft > 0
  /\ Puts(t, IF Rest(t) <= RoomLeft THEN Rest(t) ELSE RoomLeft)
  /\ cut' = (cut \/ Rest(t) > RoomLeft)
  /\ UNCHANGED <<sending, ended, conn, serverVars, torn>>

\* A timeout or a signal while write() waits for room.
WaitEnds(t) == Busy(t) /\ conn = "open" /\ Rest(t) > 0 /\ RoomLeft = 0

\* (mutant) The next write begins with the first byte again.
WriteReturnsPartForgotten(t) ==
  /\ WaitEnds(t)
  /\ moved[t]
  /\ moved' = [moved EXCEPT ![t] = FALSE]
  /\ written' = [written EXCEPT ![t] = 0]
  /\ UNCHANGED <<sending, ended, stream, conn, serverVars, historyVars>>

\* It has copied something: the loop of RFB_TRY_WRITE writes the rest.
WriteReturnsPart(t) ==
  /\ WaitEnds(t)
  /\ moved[t]
  /\ moved' = [moved EXCEPT ![t] = FALSE]
  /\ UNCHANGED <<sending, written, ended, stream, conn, serverVars, historyVars>>

\* What becomes of the threads when a send fails: the main loop goes on, so
\* does the session thread after the first request for updates; without an
\* answer to a fence it ends, and without updates for a new size the process.
EndedBy(m) == {t \in Threads : m = "enable for size" \/ (m = "fence" /\ t = "session")}

Fails(t) ==
  /\ Returns(t)
  /\ ended' = ended \cup EndedBy(sending[t])
  /\ torn' = (torn \/ HalfWritten(t))
  /\ UNCHANGED <<stream, conn, serverVars, cut, mixed>>

\* (mutant) A timeout is no error, as in RFB_TRY_READ a signal is none.
SendFailsRetried(t) ==
  /\ WaitEnds(t)
  /\ ~moved[t]
  /\ UNCHANGED vars

\* It has copied nothing: -1, with EAGAIN or EINTR, and the send fails.
SendFails(t) ==
  /\ WaitEnds(t)
  /\ ~moved[t]
  /\ Fails(t)

SendDone(t) ==
  /\ Busy(t)
  /\ Rest(t) = 0
  /\ Returns(t)
  /\ UNCHANGED <<ended, stream, conn, serverVars, historyVars>>

\* The socket has an error: ECONNRESET is reported once, SIGPIPE follows.
ConnectionLost(t) ==
  /\ Busy(t)
  /\ conn = "reset"
  /\ Rest(t) > 0
  /\ \/ Fails(t)
     \/ /\ ended' = Threads
        /\ UNCHANGED <<sending, written, moved, stream, conn, serverVars, historyVars>>

-----------------------------------------------------------------------------
(* The server (external) knows a message by its first unit and then takes as *)
(* many as the message has.                                                  *)
Expected ==
  IF partRead = <<>> THEN {Unit(m, 1) : m \in Messages}
  ELSE {Unit(partRead[1], partRead[2] + 1)}

IsLast(unit) == unit[2] = Length[unit[1]]

\* The messages that end within some units of the stream.
FinishedBy(unit)  == IF IsLast(unit) THEN <<unit[1]>> ELSE <<>>
FinishedIn(units) == FlattenSeq([i \in DOMAIN units |-> FinishedBy(units[i])])

ServerReads ==
  /\ conn = "open"
  /\ stream # <<>>
  /\ received # "garbage"
  /\ LET unit == Head(stream)
     IN  /\ received' = IF unit \notin Expected THEN "garbage"
                        ELSE IF IsLast(unit) THEN unit[1] ELSE received
         /\ partRead' = IF unit \notin Expected \/ IsLast(unit) THEN <<>> ELSE unit
  /\ stream' = Tail(stream)
  /\ UNCHANGED <<sendVars, conn, historyVars>>

ServerCloses ==
  /\ conn = "open"
  /\ conn' = "reset"
  /\ UNCHANGED <<sendVars, stream, serverVars, historyVars>>

-----------------------------------------------------------------------------
Init ==
  /\ sending = [t \in Threads |-> "nothing"]
  /\ written = [t \in Threads |-> 0]
  /\ moved = [t \in Threads |-> FALSE]
  /\ ended = {}
  /\ stream = <<>>
  /\ conn = "open"
  /\ partRead = <<>>
  /\ received = "nothing"
  /\ cut = FALSE
  /\ mixed = FALSE
  /\ torn = FALSE

\* A send that was begun goes on.
GoesOn(t) ==
  Copy(t) \/ WriteReturnsPart(t) \/ SendFails(t) \/ SendDone(t) \/ ConnectionLost(t)

Next ==
  \/ \E t \in Threads : GoesOn(t) \/ \E m \in MessagesOf[t] : Begin(t, m)
  \/ ServerReads \/ ServerCloses

Spec == Init /\ [][Next]_vars

(* The threads are scheduled and the timeout of a send passes; the server    *)
(* may stop reading at any time.                                             *)
FairSpec == Spec /\ \A t \in Threads : WF_vars(GoesOn(t))

-----------------------------------------------------------------------------
TypeOK ==
  /\ sending \in [Threads -> Messages \cup {"nothing"}]
  /\ written \in [Threads -> Nat]
  /\ \A t \in Threads :
       /\ sending[t] \in MessagesOf[t] \cup {"nothing"}
       /\ written[t] <= IF sending[t] = "nothing" THEN 0 ELSE Length[sending[t]]
  /\ moved \in [Threads -> BOOLEAN]
  /\ ended \subseteq Threads
  /\ stream \in Seq(Messages \X Nat) /\ Len(stream) <= Room
  /\ conn \in {"open", "reset"}
  /\ partRead \in {<<>>} \cup (Messages \X Nat)
  /\ received \in Messages \cup {"nothing", "garbage"}
  /\ cut \in BOOLEAN /\ mixed \in BOOLEAN /\ torn \in BOOLEAN

(* The stream carries whole messages, in the order in which the two threads  *)
(* finish them, however the writes are cut up: RFB_TRY_WRITE goes on where   *)
(* it was.  This ends with the first message that is mixed with one of the   *)
(* other thread or given up in the middle.                                   *)
Channel == INSTANCE MessageChannel WITH
  inTransit <- FinishedIn(stream),
  broken <- mixed \/ torn

ImplementsChannel == Channel!ChannelSpec

(* What makes it safe to do without a lock: every message is one write().    *)
(* As long as each one finds room, the threads never mix their messages and  *)
(* none is given up in the middle.                                           *)
BrokenOnlyWhenCut == mixed \/ torn => cut

(* A send returns even when the server reads nothing any more.               *)
SendsReturn == \A t \in Threads : Busy(t) ~> ~Busy(t)
=============================================================================
