---------------------------- MODULE MessageChannel -----------------------------
(***************************************************************************)
(* What a stream of bytes has to be for a protocol of messages: whatever   *)
(* is written in pieces, by however many threads, arrives as whole         *)
(* messages, each one once and in the order in which they were finished.   *)
(* A stream that was broken promises nothing.                              *)
(***************************************************************************)
EXTENDS Sequences

CONSTANT Messages

VARIABLES
  inTransit,        \* messages that were sent and not received
  received,         \* the message received last
  broken            \* the stream was broken

channelVars == <<inTransit, received, broken>>

ChannelInit ==
  /\ inTransit = <<>>
  /\ received = "nothing"
  /\ broken = FALSE

Send(m) ==
  /\ inTransit' = Append(inTransit, m)
  /\ UNCHANGED <<received, broken>>

Receive ==
  /\ inTransit # <<>>
  /\ received' = Head(inTransit)
  /\ inTransit' = Tail(inTransit)
  /\ UNCHANGED broken

Break == broken'

ChannelNext == Receive \/ Break \/ \E m \in Messages : Send(m)

ChannelSpec == ChannelInit /\ [][ChannelNext]_channelVars
=============================================================================
