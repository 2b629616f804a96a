-------------------------- MODULE ClientStreamProofs ---------------------------
(***************************************************************************)
(* The messages to the server, for every length of the messages and every  *)
(* size of the socket buffers: the stream takes no more than it holds, it  *)
(* is broken only after a message that did not fit into it at once, and    *)
(* until then it is a channel of whole messages.                           *)
(***************************************************************************)
EXTENDS ClientStream, SequenceLemmas

-----------------------------------------------------------------------------
LEMMA MessagesAreMessages ==
  /\ Threads = {"main", "session"}
  /\ \A t \in Threads : MessagesOf[t] \subseteq Messages
  /\ "nothing" \notin Messages
  /\ \A m \in Messages : Length[m] \in Nat \ {0}
<1>1. Threads = {"main", "session"}
  BY DEF Threads, MessagesOf
<1>2. \A t \in Threads : MessagesOf[t] \subseteq Messages
  BY <1>1 DEF Messages
<1>3. "nothing" \notin Messages
  BY DEF Messages, MessagesOf
<1> QED
  BY <1>1, <1>2, <1>3, StreamAssumption

(* What a thread that sends has left, and what the stream has room for.      *)
LEMMA Remaining ==
  ASSUME TypeOK, NEW t \in Threads, Busy(t)
  PROVE  /\ sending[t] \in Messages /\ sending[t] \in MessagesOf[t]
         /\ Length[sending[t]] \in Nat \ {0} /\ written[t] \in Nat
         /\ Rest(t) \in Nat /\ written[t] + Rest(t) = Length[sending[t]]
         /\ RoomLeft \in Nat /\ Len(stream) \in Nat /\ Len(stream) + RoomLeft = Room
<1>1. /\ sending[t] \in MessagesOf[t] /\ sending[t] # "nothing" /\ written[t] \in Nat
      /\ written[t] <= Length[sending[t]]
  BY DEF TypeOK, Busy
<1>2. sending[t] \in Messages /\ Length[sending[t]] \in Nat \ {0}
  BY <1>1, MessagesAreMessages
<1>3. Len(stream) \in Nat /\ Len(stream) <= Room /\ Room \in Nat
  BY LenProperties, StreamAssumption DEF TypeOK
<1>4. Rest(t) \in Nat /\ written[t] + Rest(t) = Length[sending[t]]
  BY <1>1, <1>2 DEF Rest
<1>5. RoomLeft \in Nat /\ Len(stream) + RoomLeft = Room
  BY <1>3 DEF RoomLeft
<1> QED
  BY <1>1, <1>2, <1>3, <1>4, <1>5

(* A write of n units, as many as there is room for at most.                 *)
LEMMA PutsFits ==
  ASSUME TypeOK, NEW t \in Threads, Busy(t), NEW n \in Nat, n <= Rest(t), n <= RoomLeft,
         Puts(t, n)
  PROVE  /\ stream' \in Seq(Messages \X Nat) /\ Len(stream') <= Room
         /\ written' \in [Threads -> Nat]
         /\ written'[t] = written[t] + n /\ written'[t] <= Length[sending[t]]
         /\ \A other \in Threads \ {t} : written'[other] = written[other]
         /\ moved' \in [Threads -> BOOLEAN] /\ mixed' \in BOOLEAN
<1> DEFINE units == [i \in 1 .. n |-> Unit(sending[t], written[t] + i)]
<1>1. units \in Seq(Messages \X Nat) /\ Len(units) = n
  <2>1. \A i \in 1 .. n : Unit(sending[t], written[t] + i) \in Messages \X Nat
    BY Remaining DEF Unit
  <2>2. units \in [1 .. n -> Messages \X Nat]
    BY <2>1
  <2> QED
    BY <2>2
<1>2. stream' = stream \o units
  BY DEF Puts
<1> HIDE DEF units
<1>3. stream \in Seq(Messages \X Nat)
  BY DEF TypeOK
<1>4. stream' \in Seq(Messages \X Nat) /\ Len(stream') = Len(stream) + n
  BY <1>1, <1>2, <1>3, ConcatProperties
<1>5. Len(stream') <= Room
  BY <1>4, Remaining, StreamAssumption
<1>6. written' = [written EXCEPT ![t] = @ + n] /\ written \in [Threads -> Nat]
  BY DEF Puts, TypeOK
<1>7. written' \in [Threads -> Nat] /\ written'[t] = written[t] + n
  BY <1>6
<1>8. written'[t] <= Length[sending[t]]
  BY <1>7, Remaining
<1>9. moved' \in [Threads -> BOOLEAN]
  BY DEF Puts, TypeOK
<1>10. mixed' \in BOOLEAN
  <2>1. mixed \in BOOLEAN
    BY DEF TypeOK
  <2> QED
    BY <2>1 DEF Puts
<1> QED
  BY <1>4, <1>5, <1>6, <1>7, <1>8, <1>9, <1>10

LEMMA CopyIsPuts ==
  ASSUME TypeOK, NEW t \in Threads, Copy(t)
  PROVE  /\ Busy(t) /\ Rest(t) \in Nat /\ RoomLeft \in Nat
         /\ \E n \in Nat : /\ n <= Rest(t) /\ n <= RoomLeft /\ Puts(t, n)
                           /\ ~cut' => n = Rest(t)
         /\ UNCHANGED <<sending, ended, conn, serverVars, torn>>
         /\ cut' = (cut \/ Rest(t) > RoomLeft)
<1>1. Busy(t)
  BY DEF Copy
<1>2. Rest(t) \in Nat /\ RoomLeft \in Nat
  BY <1>1, Remaining
<1>3. CASE Rest(t) <= RoomLeft
  <2>1. Puts(t, Rest(t))
    BY <1>3 DEF Copy
  <2> QED
    BY <1>1, <1>2, <1>3, <2>1 DEF Copy
<1>4. CASE ~(Rest(t) <= RoomLeft)
  <2>1. RoomLeft <= Rest(t) /\ Rest(t) > RoomLeft
    BY <1>2, <1>4
  <2>2. cut'
    BY <2>1 DEF Copy
  <2>3. Puts(t, RoomLeft)
    BY <1>4 DEF Copy
  <2> QED
    BY <1>1, <1>2, <2>1, <2>2, <2>3 DEF Copy
<1> QED
  BY <1>3, <1>4

-----------------------------------------------------------------------------
LEMMA InitType == Init => TypeOK
<1> SUFFICES ASSUME Init PROVE TypeOK
  OBVIOUS
<1>1. <<>> \in Seq(Messages \X Nat) /\ Len(<<>>) = 0
  OBVIOUS
<1>2. stream \in Seq(Messages \X Nat) /\ Len(stream) <= Room
  BY <1>1, StreamAssumption DEF Init
<1>3. /\ sending \in [Threads -> Messages \cup {"nothing"}] /\ written \in [Threads -> Nat]
      /\ moved \in [Threads -> BOOLEAN]
      /\ \A t \in Threads : sending[t] = "nothing" /\ written[t] <= 0
  BY DEF Init
<1> QED
  BY <1>2, <1>3 DEF Init, TypeOK

LEMMA NextType == TypeOK /\ [Next]_vars => TypeOK'
<1> SUFFICES ASSUME TypeOK, [Next]_vars PROVE TypeOK'
  OBVIOUS
<1>1. ASSUME NEW t \in Threads, NEW m \in MessagesOf[t], Begin(t, m) PROVE TypeOK'
  <2>1. m \in Messages /\ m # "nothing" /\ Length[m] \in Nat
    BY MessagesAreMessages
  <2>2. UNCHANGED <<written, moved, ended, stream, conn, partRead, received, cut, mixed, torn>>
        /\ sending' = [sending EXCEPT ![t] = m] /\ sending[t] = "nothing"
    BY <1>1 DEF Begin, serverVars, historyVars
  <2>3. sending' \in [Threads -> Messages \cup {"nothing"}]
    BY <2>1, <2>2 DEF TypeOK
  <2>4. written[t] \in Nat /\ written[t] <= 0
    BY <2>2 DEF TypeOK
  <2>5. ASSUME NEW u \in Threads
        PROVE  /\ sending'[u] \in MessagesOf[u] \cup {"nothing"}
               /\ written'[u] <= IF sending'[u] = "nothing" THEN 0 ELSE Length[sending'[u]]
    <3>1. CASE u = t
      <4>1. sending'[u] = m
        BY <2>2, <3>1 DEF TypeOK
      <4>2. written'[u] <= Length[m]
        BY <2>1, <2>2, <2>4, <3>1
      <4> QED
        BY <2>1, <3>1, <4>1, <4>2
    <3>2. CASE u # t
      <4>1. sending'[u] = sending[u] /\ written'[u] = written[u]
        BY <2>2, <3>2 DEF TypeOK
      <4> QED
        BY <4>1 DEF TypeOK
    <3> QED
      BY <3>1, <3>2
  <2> QED
    BY <2>2, <2>3, <2>5 DEF TypeOK
<1>2. ASSUME NEW t \in Threads, Copy(t) PROVE TypeOK'
  <2>1. PICK n \in Nat : n <= Rest(t) /\ n <= RoomLeft /\ Puts(t, n)
    BY <1>2, CopyIsPuts
  <2>2. Busy(t) /\ UNCHANGED <<sending, ended, conn, partRead, received, torn>>
    BY <1>2, CopyIsPuts DEF serverVars
  <2>3. cut' \in BOOLEAN
    BY <1>2, CopyIsPuts DEF TypeOK
  <2>4. sending[t] # "nothing"
    BY <2>2 DEF Busy
  <2>5. ASSUME NEW u \in Threads
        PROVE  written'[u] <= IF sending'[u] = "nothing" THEN 0 ELSE Length[sending'[u]]
    <3>1. CASE u = t
      BY <2>1, <2>2, <2>4, <3>1, PutsFits
    <3>2. CASE u # t
      BY <2>1, <2>2, <3>2, PutsFits DEF TypeOK
    <3> QED
      BY <3>1, <3>2
  <2>6. /\ stream' \in Seq(Messages \X Nat) /\ Len(stream') <= Room
        /\ written' \in [Threads -> Nat] /\ moved' \in [Threads -> BOOLEAN] /\ mixed' \in BOOLEAN
    BY <2>1, <2>2, PutsFits
  <2> QED
    BY <2>2, <2>3, <2>5, <2>6 DEF TypeOK
<1>3. ASSUME NEW t \in Threads, WriteReturnsPart(t) PROVE TypeOK'
  <2>1. UNCHANGED <<sending, written, ended, stream, conn, partRead, received, cut, mixed, torn>>
        /\ moved' = [moved EXCEPT ![t] = FALSE]
    BY <1>3 DEF WriteReturnsPart, serverVars, historyVars
  <2>2. moved' \in [Threads -> BOOLEAN]
    BY <2>1 DEF TypeOK
  <2> QED
    BY <2>1, <2>2 DEF TypeOK
<1>4. ASSUME NEW t \in Threads, Returns(t), Busy(t), torn' \in BOOLEAN, ended' \subseteq Threads,
             UNCHANGED <<stream, conn, partRead, received, cut, mixed>>
      PROVE  TypeOK'
  <2>1. /\ sending' = [sending EXCEPT ![t] = "nothing"]
        /\ written' = [written EXCEPT ![t] = 0] /\ moved' = [moved EXCEPT ![t] = FALSE]
    BY <1>4 DEF Returns
  <2>2. /\ sending' \in [Threads -> Messages \cup {"nothing"}]
        /\ written' \in [Threads -> Nat] /\ moved' \in [Threads -> BOOLEAN]
    BY <2>1 DEF TypeOK
  <2>3. ASSUME NEW u \in Threads
        PROVE  /\ sending'[u] \in MessagesOf[u] \cup {"nothing"}
               /\ written'[u] <= IF sending'[u] = "nothing" THEN 0 ELSE Length[sending'[u]]
    <3>1. CASE u = t
      BY <2>1, <3>1 DEF TypeOK
    <3>2. CASE u # t
      <4>1. sending'[u] = sending[u] /\ written'[u] = written[u]
        BY <2>1, <3>2 DEF TypeOK
      <4> QED
        BY <4>1 DEF TypeOK
    <3> QED
      BY <3>1, <3>2
  <2> QED
    BY <1>4, <2>2, <2>3 DEF TypeOK
<1>5. ASSUME NEW t \in Threads, Busy(t), Fails(t) PROVE TypeOK'
  <2>1. /\ Returns(t) /\ ended' = ended \cup EndedBy(sending[t])
        /\ torn' = (torn \/ HalfWritten(t))
        /\ UNCHANGED <<stream, conn, partRead, received, cut, mixed>>
    BY <1>5 DEF Fails, serverVars
  <2>2. EndedBy(sending[t]) \subseteq Threads
    BY DEF EndedBy
  <2>3. torn' \in BOOLEAN
    BY <2>1 DEF TypeOK
  <2>4. ended' \subseteq Threads
    BY <2>1, <2>2 DEF TypeOK
  <2> QED
    BY <1>4, <1>5, <2>1, <2>3, <2>4
<1>6. ASSUME NEW t \in Threads, SendFails(t) PROVE TypeOK'
  BY <1>5, <1>6 DEF SendFails, WaitEnds
<1>7. ASSUME NEW t \in Threads, SendDone(t) PROVE TypeOK'
  <2>1. /\ Returns(t) /\ Busy(t)
        /\ UNCHANGED <<ended, stream, conn, partRead, received, cut, mixed, torn>>
    BY <1>7 DEF SendDone, serverVars, historyVars
  <2>2. torn' \in BOOLEAN /\ ended' \subseteq Threads
    BY <2>1 DEF TypeOK
  <2> QED
    BY <1>4, <2>1, <2>2
<1>8. ASSUME NEW t \in Threads, ConnectionLost(t) PROVE TypeOK'
  <2>1. CASE Fails(t)
    BY <1>5, <1>8, <2>1 DEF ConnectionLost
  <2>2. CASE ~Fails(t)
    <3>1. /\ UNCHANGED <<sending, written, moved, stream, conn, partRead, received, cut, mixed, torn>>
          /\ ended' = Threads
      BY <1>8, <2>2 DEF ConnectionLost, serverVars, historyVars
    <3> QED
      BY <3>1 DEF TypeOK
  <2> QED
    BY <2>1, <2>2
<1>9. CASE ServerReads
  <2>1. /\ UNCHANGED <<sending, written, moved, ended, conn, cut, mixed, torn>>
        /\ stream # <<>> /\ stream' = Tail(stream)
    BY <1>9 DEF ServerReads, sendVars, historyVars
  <2>2. stream \in Seq(Messages \X Nat) /\ Len(stream) <= Room
    BY DEF TypeOK
  <2>3. Head(stream) \in Messages \X Nat
    BY <2>1, <2>2, HeadTailProperties
  <2>4. stream' \in Seq(Messages \X Nat) /\ Len(stream') <= Room
    BY <2>1, <2>2, HeadTailProperties, LenProperties, StreamAssumption
  <2>5. Head(stream)[1] \in Messages
    BY <2>3
  <2>6. received' \in Messages \cup {"nothing", "garbage"}
    BY <1>9, <2>5 DEF ServerReads, TypeOK
  <2>7. partRead' \in {<<>>} \cup (Messages \X Nat)
    BY <1>9, <2>3 DEF ServerReads
  <2> QED
    BY <2>1, <2>4, <2>6, <2>7 DEF TypeOK
<1>10. CASE ServerCloses
  BY <1>10 DEF ServerCloses, sendVars, serverVars, historyVars, TypeOK
<1>11. CASE UNCHANGED vars
  BY <1>11 DEF vars, TypeOK
<1> QED
  BY <1>1, <1>2, <1>3, <1>6, <1>7, <1>8, <1>9, <1>10, <1>11 DEF Next, GoesOn

-----------------------------------------------------------------------------
(* As long as every message finds room, none is seen half written: what a    *)
(* thread is sending it has not begun to write, or it has written it all.    *)
OneWriteEach ==
  ~cut => ~mixed /\ ~torn /\ \A t \in Threads : ~HalfWritten(t)

IInv == TypeOK /\ OneWriteEach

(* Nobody is half way through a message after a step that writes nothing and *)
(* begins none.                                                              *)
LEMMA StillWhole ==
  ASSUME TypeOK, \A t \in Threads : ~HalfWritten(t), ended \subseteq ended',
         \A t \in Threads : \/ sending'[t] = "nothing"
                            \/ sending'[t] = sending[t] /\ written'[t] = written[t]
  PROVE  \A t \in Threads : ~HalfWritten(t)'
BY DEF HalfWritten, Busy

LEMMA NextIInv == IInv /\ [Next]_vars => IInv'
<1> SUFFICES ASSUME IInv, [Next]_vars PROVE OneWriteEach'
  BY NextType DEF IInv
<1>1. TypeOK /\ OneWriteEach
  BY DEF IInv
<1> SUFFICES ASSUME ~cut' PROVE ~mixed' /\ ~torn' /\ \A t \in Threads : ~HalfWritten(t)'
  BY DEF OneWriteEach
<1>2. ASSUME NEW t \in Threads, NEW m \in MessagesOf[t], Begin(t, m)
      PROVE  ~mixed' /\ ~torn' /\ \A u \in Threads : ~HalfWritten(u)'
  <2>1. UNCHANGED <<written, ended, cut, mixed, torn>>
        /\ sending' = [sending EXCEPT ![t] = m] /\ sending[t] = "nothing"
    BY <1>2 DEF Begin, historyVars
  <2>2. written[t] \in Nat /\ written[t] <= 0
    BY <1>1, <2>1 DEF TypeOK
  <2>3. ASSUME NEW u \in Threads PROVE ~HalfWritten(u)'
    <3>1. CASE u = t
      BY <2>1, <2>2, <3>1 DEF HalfWritten
    <3>2. CASE u # t
      <4>1. sending'[u] = sending[u]
        BY <1>1, <2>1, <3>2 DEF TypeOK
      <4> QED
        BY <1>1, <2>1, <4>1 DEF OneWriteEach, HalfWritten, Busy
    <3> QED
      BY <3>1, <3>2
  <2> QED
    BY <1>1, <2>1, <2>3 DEF OneWriteEach
<1>3. ASSUME NEW t \in Threads, Copy(t)
      PROVE  ~mixed' /\ ~torn' /\ \A u \in Threads : ~HalfWritten(u)'
  <2>1. PICK n \in Nat : n = Rest(t) /\ n <= RoomLeft /\ Puts(t, n)
    BY <1>1, <1>3, CopyIsPuts
  <2>2. /\ Busy(t) /\ UNCHANGED <<sending, ended, torn>> /\ ~cut
    BY <1>1, <1>3, CopyIsPuts
  <2>3. \A u \in Threads : ~HalfWritten(u)
    BY <1>1, <2>2 DEF OneWriteEach
  <2>4. ~mixed'
    BY <1>1, <2>1, <2>2, <2>3 DEF Puts, OneWriteEach
  <2>5. written'[t] = Length[sending[t]]
    BY <1>1, <2>1, <2>2, PutsFits, Remaining
  <2>6. \A u \in Threads \ {t} : written'[u] = written[u]
    BY <1>1, <2>1, <2>2, PutsFits, Remaining
  <2>7. ASSUME NEW u \in Threads PROVE ~HalfWritten(u)'
    <3>1. CASE u = t
      <4>1. ~(written'[u] < Length[sending'[u]])
        BY <1>1, <2>2, <2>5, <3>1, Remaining
      <4> QED
        BY <4>1 DEF HalfWritten
    <3>2. CASE u # t
      BY <2>2, <2>3, <2>6, <3>2 DEF HalfWritten, Busy
    <3> QED
      BY <3>1, <3>2
  <2> QED
    BY <1>1, <2>2, <2>4, <2>7 DEF OneWriteEach
<1>4. ASSUME NEW t \in Threads, Returns(t), ended \subseteq ended', UNCHANGED <<cut, mixed>>,
             torn' = torn \/ torn' = (torn \/ HalfWritten(t))
      PROVE  ~mixed' /\ ~torn' /\ \A u \in Threads : ~HalfWritten(u)'
  <2>1. ~mixed /\ ~torn /\ \A u \in Threads : ~HalfWritten(u)
    BY <1>1, <1>4 DEF OneWriteEach
  <2>2. \A u \in Threads : \/ sending'[u] = "nothing"
                           \/ sending'[u] = sending[u] /\ written'[u] = written[u]
    BY <1>1, <1>4 DEF Returns, TypeOK
  <2>3. \A u \in Threads : ~HalfWritten(u)'
    BY <1>1, <1>4, <2>1, <2>2, StillWhole
  <2>4. ~torn'
    BY <1>4, <2>1
  <2> QED
    BY <1>4, <2>1, <2>3, <2>4
<1>5. ASSUME UNCHANGED <<sending, written, cut, mixed, torn>>, ended \subseteq ended'
      PROVE  ~mixed' /\ ~torn' /\ \A u \in Threads : ~HalfWritten(u)'
  BY <1>1, <1>5, StillWhole DEF OneWriteEach
<1>6. ASSUME NEW t \in Threads, Fails(t)
      PROVE  ~mixed' /\ ~torn' /\ \A u \in Threads : ~HalfWritten(u)'
  BY <1>4, <1>6 DEF Fails
<1>7. ASSUME NEW t \in Threads, GoesOn(t)
      PROVE  ~mixed' /\ ~torn' /\ \A u \in Threads : ~HalfWritten(u)'
  <2>1. CASE WriteReturnsPart(t)
    BY <1>5, <2>1 DEF WriteReturnsPart, historyVars
  <2>2. CASE SendFails(t)
    BY <1>6, <2>2 DEF SendFails
  <2>3. CASE SendDone(t)
    BY <1>4, <2>3 DEF SendDone, historyVars
  <2>4. CASE ConnectionLost(t)
    <3>1. CASE Fails(t)
      BY <1>6, <3>1
    <3>2. CASE ~Fails(t)
      <4>1. UNCHANGED <<sending, written, cut, mixed, torn>> /\ ended' = Threads
        BY <2>4, <3>2 DEF ConnectionLost, historyVars
      <4> QED
        BY <1>1, <1>5, <4>1 DEF TypeOK
    <3> QED
      BY <3>1, <3>2
  <2> QED
    BY <1>3, <1>7, <2>1, <2>2, <2>3, <2>4 DEF GoesOn
<1>8. CASE ServerReads \/ ServerCloses \/ UNCHANGED vars
  BY <1>5, <1>8 DEF ServerReads, ServerCloses, vars, sendVars, historyVars
<1> QED
  BY <1>2, <1>7, <1>8 DEF Next

LEMMA InitIInv == Init => IInv
<1> SUFFICES ASSUME Init PROVE OneWriteEach
  BY InitType DEF IInv
<1> QED
  BY DEF Init, OneWriteEach, HalfWritten, Busy

THEOREM IInvHolds == Spec => []IInv
BY InitIInv, NextIInv, PTL DEF Spec

(* No message is written beyond its end, and the stream never holds more     *)
(* than there is room for, whichever writes are cut short.                   *)
THEOREM TypeCorrect == Spec => []TypeOK
BY IInvHolds, PTL DEF IInv

(* Without a lock, what keeps the messages of the two threads apart is that  *)
(* each one is a single write that finds room.                               *)
THEOREM WholeWhileThereIsRoom == Spec => []BrokenOnlyWhenCut
<1>1. IInv => BrokenOnlyWhenCut
  BY DEF IInv, OneWriteEach, BrokenOnlyWhenCut
<1> QED
  BY <1>1, IInvHolds, PTL

-----------------------------------------------------------------------------
(* The messages that end in a part of the stream.                            *)
Units == Messages \X Nat

FinishedByUnit == [unit \in Units |-> FinishedBy(unit)]

LEMMA FinishedMapped ==
  /\ FinishedByUnit \in Maps(Units, Seq(Messages))
  /\ \A unit \in Units : FinishedByUnit[unit] = FinishedBy(unit)
  /\ \A units \in Seq(Units) : FinishedIn(units) = FlattenSeq(Mapped(FinishedByUnit, units))
<1>1. ASSUME NEW unit \in Units
      PROVE  FinishedBy(unit) \in Seq(Messages)
  <2>1. unit[1] \in Messages
    BY DEF Units
  <2>2. <<unit[1]>> \in Seq(Messages) /\ <<>> \in Seq(Messages)
    BY <2>1
  <2> QED
    BY <2>2 DEF FinishedBy
<1>2. FinishedByUnit \in [Units -> Seq(Messages)]
  BY <1>1 DEF FinishedByUnit
<1>3. \A unit \in Units : FinishedByUnit[unit] = FinishedBy(unit)
  BY DEF FinishedByUnit
<1>4. ASSUME NEW units \in Seq(Units)
      PROVE  [i \in DOMAIN units |-> FinishedBy(units[i])] = Mapped(FinishedByUnit, units)
  <2>1. \A i \in DOMAIN units : units[i] \in Units
    BY ElementOfSeq
  <2> QED
    BY <1>3, <2>1 DEF Mapped
<1> QED
  BY <1>2, <1>3, <1>4 DEF Maps, FinishedIn

LEMMA FinishedType ==
  ASSUME NEW units \in Seq(Units)
  PROVE  FinishedIn(units) \in Seq(Messages)
BY FinishedMapped, FlattenMappedType

LEMMA FinishedConcat ==
  ASSUME NEW a \in Seq(Units), NEW b \in Seq(Units)
  PROVE  FinishedIn(a \o b) = FinishedIn(a) \o FinishedIn(b)
<1>1. a \o b \in Seq(Units)
  BY ConcatProperties
<1>2. FlattenSeq(Mapped(FinishedByUnit, a \o b))
        = FlattenSeq(Mapped(FinishedByUnit, a)) \o FlattenSeq(Mapped(FinishedByUnit, b))
  BY FinishedMapped, FlattenMappedConcat
<1> QED
  BY <1>1, <1>2, FinishedMapped

LEMMA NoneFinished ==
  ASSUME NEW units \in Seq(Units), \A i \in 1 .. Len(units) : ~IsLast(units[i])
  PROVE  FinishedIn(units) = <<>>
<1>1. ASSUME NEW i \in 1 .. Len(units)
      PROVE  FinishedByUnit[units[i]] = <<>>
  <2>1. units[i] \in Units
    BY ElementOfSeq
  <2> QED
    BY <2>1, FinishedMapped DEF FinishedBy
<1> QED
  BY <1>1, FinishedMapped, FlattenMappedNothing

LEMMA OneFinished ==
  ASSUME NEW unit \in Units
  PROVE  FinishedIn(<<unit>>) = FinishedBy(unit)
<1>1. <<unit>> \in Seq(Units)
  OBVIOUS
<1> QED
  BY <1>1, FinishedMapped, FlattenMappedOne

(* The units of a message from unit k + 1 on, n of them.                     *)
Stretch(m, k, n) == [i \in 1 .. n |-> Unit(m, k + i)]

LEMMA StretchType ==
  ASSUME NEW m \in Messages, NEW k \in Nat, NEW n \in Nat
  PROVE  /\ Stretch(m, k, n) \in Seq(Units) /\ Len(Stretch(m, k, n)) = n
         /\ \A i \in 1 .. n : Stretch(m, k, n)[i] = Unit(m, k + i)
<1>1. \A i \in 1 .. n : Unit(m, k + i) \in Units
  BY DEF Unit, Units
<1>2. Stretch(m, k, n) \in [1 .. n -> Units]
  BY <1>1 DEF Stretch
<1> QED
  BY <1>2 DEF Stretch

LEMMA LastOfMessage ==
  ASSUME NEW m \in Messages, NEW i
  PROVE  IsLast(Unit(m, i)) <=> i = Length[m]
BY DEF IsLast, Unit

LEMMA PartFinishesNothing ==
  ASSUME NEW m \in Messages, NEW k \in Nat, NEW n \in Nat, k + n < Length[m]
  PROVE  FinishedIn(Stretch(m, k, n)) = <<>>
<1> DEFINE units == Stretch(m, k, n)
<1>1. units \in Seq(Units) /\ Len(units) = n /\ \A i \in 1 .. n : units[i] = Unit(m, k + i)
  BY StretchType
<1>2. \A i \in 1 .. n : k + i # Length[m]
  BY MessagesAreMessages
<1> HIDE DEF units
<1>3. \A i \in 1 .. Len(units) : ~IsLast(units[i])
  BY <1>1, <1>2, LastOfMessage
<1>4. FinishedIn(units) = <<>>
  BY <1>1, <1>3, NoneFinished
<1> QED
  BY <1>4 DEF units

LEMMA RestFinishesMessage ==
  ASSUME NEW m \in Messages, NEW k \in Nat, NEW n \in Nat, n > 0, k + n = Length[m]
  PROVE  FinishedIn(Stretch(m, k, n)) = <<m>>
<1> DEFINE units == Stretch(m, k, n)
           front == Stretch(m, k, n - 1)
           last  == <<Unit(m, k + n)>>
           both  == front \o last
<1>1. units \in Seq(Units) /\ Len(units) = n /\ \A i \in 1 .. n : units[i] = Unit(m, k + i)
  BY StretchType
<1>2. n - 1 \in Nat /\ k + (n - 1) < Length[m]
  BY MessagesAreMessages
<1>3. front \in Seq(Units) /\ Len(front) = n - 1
      /\ \A i \in 1 .. n - 1 : front[i] = Unit(m, k + i)
  BY <1>2, StretchType
<1>4. Unit(m, k + n) \in Units
  BY DEF Unit, Units
<1>5. last \in Seq(Units) /\ Len(last) = 1 /\ last[1] = Unit(m, k + n)
  BY <1>4
<1>6. FinishedIn(front) = <<>>
  BY <1>2, PartFinishesNothing
<1>7. FinishedIn(last) = <<m>>
  <2>1. FinishedIn(last) = FinishedBy(Unit(m, k + n))
    BY <1>4, OneFinished
  <2>2. IsLast(Unit(m, k + n))
    BY LastOfMessage
  <2>3. Unit(m, k + n)[1] = m
    BY DEF Unit
  <2> QED
    BY <2>1, <2>2, <2>3 DEF FinishedBy
<1> HIDE DEF units, front, last
<1>8. units = both
  <2>1. both \in Seq(Units) /\ Len(both) = n
        /\ \A i \in 1 .. n : both[i] = IF i <= n - 1 THEN front[i] ELSE last[i - (n - 1)]
    <3> DEFINE p == n - 1
    <3>1. p + 1 = n /\ p \in Nat /\ Len(front) = p
      BY <1>2, <1>3
    <3> HIDE DEF p
    <3>2. /\ both \in Seq(Units) /\ Len(both) = Len(front) + Len(last)
          /\ \A i \in 1 .. Len(front) + Len(last) :
               both[i] = IF i <= Len(front) THEN front[i] ELSE last[i - Len(front)]
      <4>1. front \in Seq(Units) /\ last \in Seq(Units)
        BY <1>3, <1>5
      <4> QED
        BY <4>1, ConcatProperties
    <3>3. Len(front) = p /\ Len(last) = 1
      BY <1>5, <3>1
    <3> HIDE DEF both
    <3>4. both \in Seq(Units) /\ Len(both) = p + 1
          /\ \A i \in 1 .. p + 1 : both[i] = IF i <= p THEN front[i] ELSE last[i - p]
      BY <3>2, <3>3
    <3> QED
      BY <3>1, <3>4 DEF p
  <2> HIDE DEF both
  <2>2. ASSUME NEW i \in 1 .. n
        PROVE  units[i] = both[i]
    <3>1. CASE i <= n - 1
      <4>1. i \in 1 .. n - 1
        BY <1>2, <3>1
      <4> QED
        BY <1>1, <1>3, <2>1, <3>1, <4>1
    <3>2. CASE ~(i <= n - 1)
      <4>1. i = n /\ i - (n - 1) = 1
        BY <1>2, <3>2
      <4>2. both[i] = last[i - (n - 1)]
        BY <2>1, <3>2
      <4> QED
        BY <1>1, <1>5, <4>1, <4>2
    <3> QED
      BY <3>1, <3>2
  <2> QED
    BY <1>1, <2>1, <2>2, SeqEqual
<1>9. FinishedIn(both) = <<>> \o <<m>>
  BY <1>3, <1>5, <1>6, <1>7, FinishedConcat
<1>10. <<>> \o <<m>> = <<m>>
  OBVIOUS
<1> QED
  BY <1>8, <1>9, <1>10 DEF units

-----------------------------------------------------------------------------
(* As long as it is not broken, the stream goes on where the server is, unit *)
(* by unit, and ends where a thread is in the middle of a message, or with   *)
(* the end of one.                                                           *)
After(unit) ==
  IF unit = <<>> \/ IsLast(unit) THEN {Unit(m, 1) : m \in Messages}
  ELSE {Unit(unit[1], unit[2] + 1)}

LastUnit == IF stream = <<>> THEN partRead ELSE stream[Len(stream)]

Continuous ==
  /\ partRead # <<>> => ~IsLast(partRead)
  /\ stream # <<>> => stream[1] \in After(partRead)
  /\ \A i \in 1 .. Len(stream) - 1 : stream[i + 1] \in After(stream[i])

EndsWithTheWriters ==
  conn = "open" /\ ended # Threads =>
    /\ \A t \in Threads : HalfWritten(t) => LastUnit = Unit(sending[t], written[t])
    /\ (\A t \in Threads : ~HalfWritten(t)) => LastUnit = <<>> \/ IsLast(LastUnit)

StreamInv == ~(mixed \/ torn) => Continuous /\ EndsWithTheWriters

LEMMA UnitsInStream ==
  ASSUME TypeOK
  PROVE  /\ stream \in Seq(Units) /\ Len(stream) \in Nat
         /\ partRead \in {<<>>} \cup Units
         /\ \A unit \in Units : unit # <<>>
<1>1. stream \in Seq(Units) /\ partRead \in {<<>>} \cup Units
  BY DEF TypeOK, Units
<1>2. Len(stream) \in Nat
  BY <1>1, LenProperties
<1>3. \A unit \in Units : unit # <<>>
  BY DEF Units
<1> QED
  BY <1>1, <1>2, <1>3

LEMMA AppendContinuous ==
  ASSUME NEW units \in Seq(Units), NEW n \in Nat \ {0}, Len(units) = n,
         stream \in Seq(Units), Continuous,
         stream' = stream \o units, UNCHANGED partRead,
         units[1] \in After(LastUnit),
         \A i \in 1 .. n - 1 : units[i + 1] \in After(units[i])
  PROVE  Continuous' /\ LastUnit' = units[n]
<1> DEFINE len == Len(stream)
<1>1. len \in Nat /\ n \in Nat /\ n >= 1
  OBVIOUS
<1>2. /\ stream' \in Seq(Units) /\ Len(stream') = len + n
      /\ \A i \in 1 .. len + n : stream'[i] = IF i <= len THEN stream[i] ELSE units[i - len]
  BY ConcatProperties
<1>3. stream' # <<>> /\ (stream = <<>> <=> len = 0)
  BY <1>1, <1>2, EmptySeq
<1>4. /\ partRead # <<>> => ~IsLast(partRead)
      /\ stream # <<>> => stream[1] \in After(partRead)
      /\ \A i \in 1 .. len - 1 : stream[i + 1] \in After(stream[i])
      /\ LastUnit = IF stream = <<>> THEN partRead ELSE stream[len]
  BY DEF Continuous, LastUnit
<1> HIDE DEF len
<1>5. stream'[1] \in After(partRead)
  <2>1. CASE len = 0
    <3>1. stream'[1] = units[1] /\ LastUnit = partRead
      BY <1>1, <1>2, <1>3, <1>4, <2>1
    <3> QED
      BY <3>1
  <2>2. CASE len # 0
    <3>1. stream'[1] = stream[1]
      BY <1>1, <1>2, <2>2
    <3> QED
      BY <1>3, <1>4, <2>2, <3>1
  <2> QED
    BY <2>1, <2>2
<1>6. ASSUME NEW i \in 1 .. (len + n) - 1
      PROVE  stream'[i + 1] \in After(stream'[i])
  <2>0. i \in 1 .. len + n /\ i + 1 \in 1 .. len + n
    BY <1>1
  <2>1. CASE i < len
    <3>1. stream'[i] = stream[i] /\ stream'[i + 1] = stream[i + 1] /\ i \in 1 .. len - 1
      BY <1>1, <1>2, <2>0, <2>1
    <3> QED
      BY <1>4, <3>1
  <2>2. CASE i = len
    <3>1. ~(i + 1 <= len) /\ (i + 1) - len = 1 /\ i <= len /\ len # 0
      BY <1>1, <2>2
    <3>2. stream'[i] = stream[len] /\ stream'[i + 1] = units[1] /\ LastUnit = stream[len]
      BY <1>2, <1>3, <1>4, <2>0, <2>2, <3>1
    <3> QED
      BY <3>2
  <2>3. CASE i > len
    <3>1. /\ ~(i <= len) /\ ~(i + 1 <= len) /\ (i + 1) - len = (i - len) + 1
          /\ i - len \in 1 .. n - 1
      BY <1>1, <2>0, <2>3
    <3>2. stream'[i] = units[i - len] /\ stream'[i + 1] = units[(i - len) + 1]
      BY <1>2, <2>0, <3>1
    <3> QED
      BY <3>1, <3>2
  <2>4. i < len \/ i = len \/ i > len
    BY <1>1, <2>0
  <2> QED
    BY <2>1, <2>2, <2>3, <2>4
<1>7. LastUnit' = units[n]
  <2>1. (len + n) \in 1 .. len + n /\ ~(len + n <= len) /\ (len + n) - len = n
    BY <1>1
  <2>2. stream'[len + n] = units[n]
    BY <1>2, <2>1
  <2> QED
    BY <1>2, <1>3, <2>2 DEF LastUnit
<1>8. Continuous'
  <2>1. \A i \in 1 .. Len(stream') - 1 : stream'[i + 1] \in After(stream'[i])
    BY <1>2, <1>6
  <2>2. partRead' # <<>> => ~IsLast(partRead')
    BY <1>4
  <2> QED
    BY <1>3, <1>5, <2>1, <2>2 DEF Continuous
<1> QED
  BY <1>7, <1>8

(* A write goes on with its message, or begins one after the end of one.     *)
LEMMA CopyStream ==
  ASSUME TypeOK, Continuous, EndsWithTheWriters, NEW t \in Threads, Copy(t), ~mixed'
  PROVE  Continuous' /\ EndsWithTheWriters'
<1> DEFINE m == sending[t]
           k == written[t]
<1>1. PICK n \in Nat : n <= Rest(t) /\ n <= RoomLeft /\ Puts(t, n) /\ n # 0
  <2>1. Rest(t) \in Nat /\ Rest(t) > 0 /\ RoomLeft \in Nat /\ RoomLeft > 0
    BY CopyIsPuts DEF Copy
  <2>2. CASE Rest(t) <= RoomLeft
    BY <2>1, <2>2 DEF Copy
  <2>3. CASE ~(Rest(t) <= RoomLeft)
    BY <2>1, <2>3 DEF Copy
  <2> QED
    BY <2>2, <2>3
<1>2. /\ Busy(t) /\ conn = "open" /\ UNCHANGED <<sending, ended, conn, partRead>>
      /\ \A other \in Threads \ {t} : ~HalfWritten(other)
  <2>1. Busy(t) /\ conn = "open" /\ UNCHANGED <<sending, ended, conn, partRead>>
    BY DEF Copy, serverVars
  <2> QED
    BY <1>1, <2>1 DEF Puts
<1>3. /\ m \in Messages /\ Length[m] \in Nat \ {0} /\ k \in Nat
      /\ Rest(t) \in Nat /\ k + Rest(t) = Length[m]
      /\ n \in Nat \ {0} /\ k + n <= Length[m] /\ k < Length[m]
  BY <1>1, <1>2, Remaining
<1>4. stream' = stream \o Stretch(m, k, n)
  BY <1>1 DEF Puts, Stretch
<1>5. written'[t] = k + n /\ \A other \in Threads \ {t} : written'[other] = written[other]
  BY <1>1, <1>2, PutsFits
<1>6. ended # Threads /\ m # "nothing"
  BY <1>2 DEF Busy
<1> DEFINE units == Stretch(m, k, n)
<1>7. units \in Seq(Units) /\ Len(units) = n /\ \A i \in 1 .. n : units[i] = Unit(m, k + i)
  BY <1>3, StretchType
<1>8. \A other \in Threads \ {t} : ~HalfWritten(other)'
  BY <1>2, <1>5 DEF HalfWritten, Busy
<1>9. HalfWritten(t) <=> k > 0
  BY <1>2, <1>3 DEF HalfWritten
<1>10. HalfWritten(t)' <=> k + n < Length[m]
  <2>1. Busy(t)'
    BY <1>2 DEF Busy
  <2>2. HalfWritten(t)' <=> (k + n > 0 /\ k + n < Length[m])
    BY <1>2, <1>5, <2>1 DEF HalfWritten
  <2> QED
    BY <1>3, <2>2
<1> HIDE DEF m, k, units
<1>11. units[1] \in After(LastUnit)
  <2>1. units[1] = Unit(m, k + 1)
    BY <1>3, <1>7
  <2>2. CASE k > 0
    <3>1. LastUnit = Unit(m, k)
      BY <1>2, <1>6, <1>9, <2>2 DEF EndsWithTheWriters, m, k
    <3>2. ~IsLast(Unit(m, k))
      BY <1>3, LastOfMessage
    <3>3. Unit(m, k) # <<>> /\ Unit(m, k)[1] = m /\ Unit(m, k)[2] = k
      BY DEF Unit
    <3> QED
      BY <2>1, <3>1, <3>2, <3>3 DEF After
  <2>3. CASE ~(k > 0)
    <3>1. k + 1 = 1
      BY <1>3, <2>3
    <3>2. LastUnit = <<>> \/ IsLast(LastUnit)
      BY <1>2, <1>6, <1>9, <2>3 DEF EndsWithTheWriters
    <3> QED
      BY <1>3, <2>1, <3>1, <3>2 DEF After
  <2> QED
    BY <2>2, <2>3
<1>12. ASSUME NEW i \in 1 .. n - 1
       PROVE  units[i + 1] \in After(units[i])
  <2>1. i \in 1 .. n /\ i + 1 \in 1 .. n /\ k + (i + 1) = (k + i) + 1 /\ k + i # Length[m]
    BY <1>3
  <2>2. units[i] = Unit(m, k + i) /\ units[i + 1] = Unit(m, (k + i) + 1)
    BY <1>7, <2>1
  <2>3. ~IsLast(Unit(m, k + i))
    BY <1>3, <2>1, LastOfMessage
  <2>4. Unit(m, k + i) # <<>> /\ Unit(m, k + i)[1] = m /\ Unit(m, k + i)[2] = k + i
    BY DEF Unit
  <2> QED
    BY <2>2, <2>3, <2>4 DEF After
<1>13. stream \in Seq(Units) /\ stream' = stream \o units
  BY <1>4, UnitsInStream DEF units
<1>14. Continuous' /\ LastUnit' = units[n]
  BY <1>2, <1>3, <1>7, <1>11, <1>12, <1>13, AppendContinuous
<1>15. units[n] = Unit(m, k + n)
  BY <1>3, <1>7
<1>16. EndsWithTheWriters'
  <2>1. ASSUME NEW u \in Threads, HalfWritten(u)'
        PROVE  LastUnit' = Unit(sending'[u], written'[u])
    <3>1. u = t
      BY <1>8, <2>1
    <3> QED
      BY <1>2, <1>5, <1>14, <1>15, <3>1 DEF m
  <2>2. ASSUME \A u \in Threads : ~HalfWritten(u)'
        PROVE  IsLast(LastUnit')
    <3>1. k + n = Length[m]
      BY <1>3, <1>10, <2>2
    <3> QED
      BY <1>3, <1>14, <1>15, <3>1, LastOfMessage
  <2> QED
    BY <2>1, <2>2 DEF EndsWithTheWriters
<1> QED
  BY <1>14, <1>16

(* What leaves the stream and the threads in the middle of a message alone.  *)
LEMMA SameWriters ==
  ASSUME EndsWithTheWriters, UNCHANGED <<stream, partRead>>,
         conn' = "open" => conn = "open", ended \subseteq ended', ended' \subseteq Threads,
         ended' # Threads => \A u \in Threads :
           /\ HalfWritten(u)' <=> HalfWritten(u)
           /\ HalfWritten(u)' => sending'[u] = sending[u] /\ written'[u] = written[u]
  PROVE  EndsWithTheWriters'
<1> SUFFICES ASSUME conn' = "open", ended' # Threads
             PROVE  /\ \A u \in Threads : HalfWritten(u)' => LastUnit' = Unit(sending'[u], written'[u])
                    /\ (\A u \in Threads : ~HalfWritten(u)') => LastUnit' = <<>> \/ IsLast(LastUnit')
  BY DEF EndsWithTheWriters
<1>1. conn = "open" /\ ended # Threads
  OBVIOUS
<1>2. LastUnit' = LastUnit
  BY DEF LastUnit
<1> QED
  BY <1>1, <1>2 DEF EndsWithTheWriters

LEMMA SameStream ==
  ASSUME Continuous, UNCHANGED <<stream, partRead>>
  PROVE  Continuous'
BY DEF Continuous

(* A message is begun with nothing written of it.                            *)
LEMMA BeginStream ==
  ASSUME TypeOK, EndsWithTheWriters, NEW t \in Threads, NEW m \in MessagesOf[t], Begin(t, m)
  PROVE  EndsWithTheWriters'
<1>1. /\ UNCHANGED <<written, ended, conn, stream, partRead>>
      /\ sending' = [sending EXCEPT ![t] = m] /\ sending[t] = "nothing"
  BY DEF Begin, serverVars
<1>2. written[t] \in Nat /\ written[t] <= 0
  BY <1>1 DEF TypeOK
<1>3. ASSUME NEW u \in Threads
      PROVE  /\ HalfWritten(u)' <=> HalfWritten(u)
             /\ HalfWritten(u)' => sending'[u] = sending[u] /\ written'[u] = written[u]
  <2>1. CASE u = t
    BY <1>1, <1>2, <2>1 DEF HalfWritten
  <2>2. CASE u # t
    <3>1. sending'[u] = sending[u]
      BY <1>1, <2>2 DEF TypeOK
    <3> QED
      BY <1>1, <3>1 DEF HalfWritten, Busy
  <2> QED
    BY <2>1, <2>2
<1>4. ended' \subseteq Threads
  BY <1>1 DEF TypeOK
<1> QED
  BY <1>1, <1>3, <1>4, SameWriters

(* A send returns between two messages, or the stream is broken.             *)
LEMMA ReturnStream ==
  ASSUME TypeOK, EndsWithTheWriters, NEW t \in Threads, Busy(t), Returns(t),
         ~HalfWritten(t), UNCHANGED <<stream, partRead, conn>>,
         ended' = ended \/ ended' = ended \cup EndedBy(sending[t])
  PROVE  EndsWithTheWriters'
<1>1. /\ sending' = [sending EXCEPT ![t] = "nothing"] /\ sending[t] \in MessagesOf[t]
      /\ written' = [written EXCEPT ![t] = 0]
  BY Remaining DEF Returns
<1>2. ended \subseteq ended' /\ ended' \subseteq Threads
  BY DEF TypeOK, EndedBy
<1>3. ASSUME ended' # Threads, NEW u \in Threads
      PROVE  /\ HalfWritten(u)' <=> HalfWritten(u)
             /\ HalfWritten(u)' => sending'[u] = sending[u] /\ written'[u] = written[u]
  <2>1. CASE u = t
    <3>1. sending'[t] = "nothing"
      BY <1>1 DEF TypeOK
    <3> QED
      BY <2>1, <3>1 DEF HalfWritten, Busy
  <2>2. CASE u # t
    <3>1. sending'[u] = sending[u] /\ written'[u] = written[u]
      BY <1>1, <2>2 DEF TypeOK
    <3>2. u \in ended' <=> u \in ended
      <4>1. CASE ended' = ended
        BY <4>1
      <4>2. CASE ended' = ended \cup EndedBy(sending[t])
        <5>1. sending[t] # "enable for size"
          BY <1>3, <4>2 DEF EndedBy, TypeOK
        <5>2. u \notin EndedBy(sending[t])
          <6>1. sending[t] = "fence" => t = "session"
            <7>1. t = "main" \/ t = "session"
              BY MessagesAreMessages
            <7>2. t = "main" => sending[t] \in {"pointer", "key"}
              BY <1>1 DEF MessagesOf
            <7> QED
              BY <7>1, <7>2
          <6> QED
            BY <2>2, <5>1, <6>1 DEF EndedBy
        <5> QED
          BY <4>2, <5>2
      <4> QED
        BY <4>1, <4>2
    <3> QED
      BY <3>1, <3>2 DEF HalfWritten, Busy
  <2> QED
    BY <2>1, <2>2
<1> QED
  BY <1>2, <1>3, SameWriters

LEMMA FailStream ==
  ASSUME TypeOK, EndsWithTheWriters, NEW t \in Threads, Busy(t), Fails(t), ~torn'
  PROVE  EndsWithTheWriters'
<1>1. ~HalfWritten(t) /\ Returns(t) /\ UNCHANGED <<stream, partRead, conn>>
      /\ ended' = ended \cup EndedBy(sending[t])
  BY DEF Fails, serverVars
<1> QED
  BY <1>1, ReturnStream

(* The server reads the unit it expects.                                     *)
LEMMA ReadStream ==
  ASSUME TypeOK, Continuous, EndsWithTheWriters, ServerReads
  PROVE  /\ Continuous' /\ EndsWithTheWriters'
         /\ Head(stream) \in Units
         /\ received' = IF IsLast(Head(stream)) THEN Head(stream)[1] ELSE received
<1> DEFINE unit == Head(stream)
<1>1. /\ stream # <<>> /\ stream' = Tail(stream) /\ UNCHANGED <<sending, written, ended, conn>>
      /\ received' = IF unit \notin Expected THEN "garbage"
                     ELSE IF IsLast(unit) THEN unit[1] ELSE received
      /\ partRead' = IF unit \notin Expected \/ IsLast(unit) THEN <<>> ELSE unit
  BY DEF ServerReads, sendVars
<1>2. /\ stream \in Seq(Units) /\ Len(stream) \in Nat /\ partRead \in {<<>>} \cup Units
      /\ Len(stream) # 0
  BY <1>1, UnitsInStream, EmptySeq
<1>3. /\ unit \in Units /\ unit = stream[1] /\ stream' \in Seq(Units)
      /\ Len(stream') = Len(stream) - 1
      /\ \A i \in 1 .. Len(stream) - 1 : stream'[i] = stream[i + 1]
  BY <1>1, <1>2, HeadTailProperties
<1>4. unit # <<>>
  BY <1>3, UnitsInStream
<1>5. unit \in After(partRead)
  BY <1>1, <1>3 DEF Continuous
<1>6. unit \in Expected
  <2>1. CASE partRead = <<>>
    BY <1>5, <2>1 DEF After, Expected
  <2>2. CASE partRead # <<>>
    <3>1. ~IsLast(partRead)
      BY <2>2 DEF Continuous
    <3> QED
      BY <1>5, <2>2, <3>1 DEF After, Expected
  <2> QED
    BY <2>1, <2>2
<1> DEFINE len == Len(stream)
<1>7. /\ \A i \in 1 .. len - 1 : stream[i + 1] \in After(stream[i])
      /\ stream' = <<>> <=> len = 1
      /\ LastUnit = stream[len]
  <2>1. stream' = <<>> <=> len = 1
    BY <1>2, <1>3, EmptySeq
  <2> QED
    BY <1>1, <2>1 DEF Continuous, LastUnit
<1>8. /\ len \in Nat \ {0} /\ Len(stream') = len - 1
      /\ \A i \in 1 .. len - 1 : stream'[i] = stream[i + 1]
  BY <1>2, <1>3
<1>9. partRead' = IF IsLast(unit) THEN <<>> ELSE unit
  BY <1>1, <1>6
<1> HIDE DEF len, unit
<1>10. After(partRead') = After(unit)
  BY <1>4, <1>9 DEF After
<1>11. Continuous'
  <2>1. partRead' # <<>> => ~IsLast(partRead')
    BY <1>9
  <2>2. ASSUME stream' # <<>>
        PROVE  stream'[1] \in After(partRead')
    <3>1. 1 \in 1 .. len - 1 /\ 1 + 1 = 2
      BY <1>7, <1>8, <2>2
    <3>2. stream'[1] = stream[2] /\ stream[2] \in After(stream[1])
      BY <1>7, <1>8, <3>1
    <3> QED
      BY <1>3, <1>10, <3>2
  <2>3. ASSUME NEW i \in 1 .. Len(stream') - 1
        PROVE  stream'[i + 1] \in After(stream'[i])
    <3>1. i \in 1 .. len - 1 /\ i + 1 \in 1 .. len - 1
      BY <1>8
    <3>2. stream'[i] = stream[i + 1] /\ stream'[i + 1] = stream[(i + 1) + 1]
      BY <1>8, <3>1
    <3> QED
      BY <1>7, <3>1, <3>2
  <2> QED
    BY <2>1, <2>2, <2>3 DEF Continuous
<1>12. LastUnit' = LastUnit \/ (IsLast(LastUnit) /\ LastUnit' = <<>>)
  <2>1. CASE len = 1
    <3>1. LastUnit = unit /\ LastUnit' = partRead'
      BY <1>3, <1>7, <2>1 DEF LastUnit
    <3> QED
      BY <1>9, <3>1
  <2>2. CASE len # 1
    <3>1. len - 1 \in 1 .. len - 1 /\ (len - 1) + 1 = len
      BY <1>8, <2>2
    <3>2. LastUnit' = stream'[len - 1] /\ stream'[len - 1] = stream[len]
      BY <1>7, <1>8, <2>2, <3>1 DEF LastUnit
    <3> QED
      BY <1>7, <3>2
  <2> QED
    BY <2>1, <2>2
<1>13. EndsWithTheWriters'
  <2> SUFFICES ASSUME conn' = "open", ended' # Threads
               PROVE  /\ \A u \in Threads : HalfWritten(u)' => LastUnit' = Unit(sending'[u], written'[u])
                      /\ (\A u \in Threads : ~HalfWritten(u)') => LastUnit' = <<>> \/ IsLast(LastUnit')
    BY DEF EndsWithTheWriters
  <2>1. conn = "open" /\ ended # Threads /\ \A u \in Threads : HalfWritten(u)' <=> HalfWritten(u)
    BY <1>1 DEF HalfWritten, Busy
  <2>2. ASSUME NEW u \in Threads, HalfWritten(u)
        PROVE  LastUnit' = Unit(sending'[u], written'[u])
    <3>1. LastUnit = Unit(sending[u], written[u])
      BY <2>1, <2>2 DEF EndsWithTheWriters
    <3>2. sending[u] \in Messages /\ written[u] \in Nat /\ written[u] # Length[sending[u]]
      BY <2>2, Remaining DEF HalfWritten
    <3>3. ~IsLast(LastUnit)
      BY <3>1, <3>2, LastOfMessage
    <3> QED
      BY <1>1, <1>12, <3>1, <3>3
  <2>3. ASSUME \A u \in Threads : ~HalfWritten(u)
        PROVE  LastUnit' = <<>> \/ IsLast(LastUnit')
    BY <1>12, <2>1, <2>3 DEF EndsWithTheWriters
  <2> QED
    BY <2>1, <2>2, <2>3
<1> QED
  BY <1>1, <1>3, <1>6, <1>11, <1>13 DEF unit

LEMMA BrokenStays ==
  ASSUME [Next]_vars, ~mixed', ~torn'
  PROVE  ~mixed /\ ~torn
<1>1. ASSUME NEW t \in Threads, GoesOn(t)
      PROVE  ~mixed /\ ~torn
  <2>1. ASSUME Fails(t) PROVE ~mixed /\ ~torn
    BY <2>1 DEF Fails
  <2>2. ASSUME Copy(t) PROVE ~mixed /\ ~torn
    <3>1. torn' = torn /\ \E n : Puts(t, n)
      BY <2>2 DEF Copy
    <3> QED
      BY <3>1 DEF Puts
  <2>3. ASSUME WriteReturnsPart(t) \/ SendDone(t) PROVE ~mixed /\ ~torn
    BY <2>3 DEF WriteReturnsPart, SendDone, historyVars
  <2>4. ASSUME ConnectionLost(t), ~Fails(t) PROVE ~mixed /\ ~torn
    BY <2>4 DEF ConnectionLost, historyVars
  <2> QED
    BY <1>1, <2>1, <2>2, <2>3, <2>4 DEF GoesOn, SendFails
<1>2. ASSUME NEW t \in Threads, NEW m \in MessagesOf[t], Begin(t, m)
      PROVE  ~mixed /\ ~torn
  BY <1>2 DEF Begin, historyVars
<1>3. CASE ServerReads \/ ServerCloses \/ UNCHANGED vars
  BY <1>3 DEF ServerReads, ServerCloses, vars, historyVars
<1> QED
  BY <1>1, <1>2, <1>3 DEF Next

LEMMA StreamInvStep ==
  ASSUME TypeOK, StreamInv, [Next]_vars
  PROVE  StreamInv'
<1> SUFFICES ASSUME ~mixed', ~torn'
             PROVE  Continuous' /\ EndsWithTheWriters'
  BY DEF StreamInv
<1>1. ~mixed /\ ~torn
  BY BrokenStays
<1>2. Continuous /\ EndsWithTheWriters
  BY <1>1 DEF StreamInv
<1>3. ASSUME NEW t \in Threads, NEW m \in MessagesOf[t], Begin(t, m)
      PROVE  Continuous' /\ EndsWithTheWriters'
  <2>1. UNCHANGED <<stream, partRead>>
    BY <1>3 DEF Begin, serverVars
  <2> QED
    BY <1>2, <1>3, <2>1, BeginStream, SameStream
<1>4. ASSUME NEW t \in Threads, Busy(t), Fails(t)
      PROVE  Continuous' /\ EndsWithTheWriters'
  <2>1. UNCHANGED <<stream, partRead>>
    BY <1>4 DEF Fails, serverVars
  <2> QED
    BY <1>2, <1>4, <2>1, FailStream, SameStream
<1>5. ASSUME UNCHANGED <<sending, written, stream, partRead>>, ended' \subseteq Threads,
             conn' = "open" => conn = "open", ended' = ended \/ ended' = Threads
      PROVE  Continuous' /\ EndsWithTheWriters'
  <2>1. ended' # Threads => \A u \in Threads : HalfWritten(u)' <=> HalfWritten(u)
    BY <1>5 DEF HalfWritten, Busy
  <2>2. ended \subseteq ended'
    BY <1>5 DEF TypeOK
  <2> QED
    BY <1>2, <1>5, <2>1, <2>2, SameWriters, SameStream
<1>6. ASSUME NEW t \in Threads, GoesOn(t)
      PROVE  Continuous' /\ EndsWithTheWriters'
  <2>1. CASE Copy(t)
    BY <1>2, <2>1, CopyStream
  <2>2. CASE WriteReturnsPart(t)
    <3>1. UNCHANGED <<sending, written, stream, partRead, conn, ended>>
      BY <2>2 DEF WriteReturnsPart, serverVars
    <3> QED
      BY <1>5, <3>1 DEF TypeOK
  <2>3. CASE SendFails(t)
    BY <1>4, <2>3 DEF SendFails, WaitEnds
  <2>4. CASE SendDone(t)
    <3>1. /\ Busy(t) /\ Returns(t) /\ Rest(t) = 0 /\ UNCHANGED <<stream, partRead, conn, ended>>
      BY <2>4 DEF SendDone, serverVars
    <3>2. ~HalfWritten(t)
      BY <3>1, Remaining DEF HalfWritten
    <3> QED
      BY <1>2, <3>1, <3>2, ReturnStream, SameStream
  <2>5. CASE ConnectionLost(t)
    <3>1. CASE Fails(t)
      BY <1>4, <2>5, <3>1 DEF ConnectionLost
    <3>2. CASE ~Fails(t)
      <4>1. UNCHANGED <<sending, written, stream, partRead, conn>> /\ ended' = Threads
        BY <2>5, <3>2 DEF ConnectionLost, serverVars
      <4> QED
        BY <1>5, <4>1
    <3> QED
      BY <3>1, <3>2
  <2> QED
    BY <1>6, <2>1, <2>2, <2>3, <2>4, <2>5 DEF GoesOn
<1>7. CASE ServerReads
  BY <1>2, <1>7, ReadStream
<1>8. CASE ServerCloses
  <2>1. UNCHANGED <<sending, written, stream, partRead, ended>> /\ conn = "open"
    BY <1>8 DEF ServerCloses, sendVars, serverVars
  <2> QED
    BY <1>5, <2>1 DEF TypeOK
<1>9. CASE UNCHANGED vars
  BY <1>5, <1>9 DEF vars, TypeOK
<1> QED
  BY <1>3, <1>6, <1>7, <1>8, <1>9 DEF Next

LEMMA InitStreamInv == Init => StreamInv
<1> SUFFICES ASSUME Init PROVE Continuous /\ EndsWithTheWriters
  BY DEF StreamInv
<1>1. stream = <<>> /\ partRead = <<>> /\ Len(stream) = 0
  BY DEF Init
<1>2. \A t \in Threads : ~HalfWritten(t)
  BY DEF Init, HalfWritten, Busy
<1> QED
  BY <1>1, <1>2 DEF Continuous, EndsWithTheWriters, LastUnit

-----------------------------------------------------------------------------
(* The steps as those of the channel.                                        *)
LEMMA CopySends ==
  ASSUME TypeOK, NEW t \in Threads, Copy(t)
  PROVE  FinishedIn(stream') \in {FinishedIn(stream), Append(FinishedIn(stream), sending[t])}
<1> DEFINE m == sending[t]
           k == written[t]
<1>1. Busy(t)
  BY CopyIsPuts
<1>2. PICK n \in Nat : n <= Rest(t) /\ Puts(t, n) /\ n # 0
  <2>1. Rest(t) \in Nat /\ Rest(t) > 0 /\ RoomLeft \in Nat /\ RoomLeft > 0
    BY CopyIsPuts DEF Copy
  <2>2. CASE Rest(t) <= RoomLeft
    BY <2>1, <2>2 DEF Copy
  <2>3. CASE ~(Rest(t) <= RoomLeft)
    BY <2>1, <2>3 DEF Copy
  <2> QED
    BY <2>2, <2>3
<1>3. /\ m \in Messages /\ Length[m] \in Nat /\ k \in Nat /\ n > 0
      /\ k + n < Length[m] \/ k + n = Length[m]
  BY <1>1, <1>2, Remaining
<1> DEFINE units == Stretch(m, k, n)
<1>4. stream' = stream \o units
  BY <1>2 DEF Puts, Stretch
<1>5. units \in Seq(Units)
  BY <1>3, StretchType
<1>6. FinishedIn(units) \in {<<>>, <<m>>}
  BY <1>3, PartFinishesNothing, RestFinishesMessage
<1>7. stream \in Seq(Units) /\ FinishedIn(stream) \in Seq(Messages)
  BY UnitsInStream, FinishedType
<1>8. FinishedIn(stream') = FinishedIn(stream) \o FinishedIn(units)
  BY <1>4, <1>5, <1>7, FinishedConcat
<1> DEFINE F == FinishedIn(stream)
           M == Messages
<1> HIDE DEF F, M, m, units
<1>9. F \in Seq(M) /\ m \in M
  BY <1>3, <1>7 DEF F, M
<1>10. F \o <<>> = F /\ F \o <<m>> = Append(F, m)
  BY <1>9, ConcatEmptySeq, AppendIsConcat
<1> QED
  BY <1>6, <1>8, <1>10 DEF F, m

LEMMA ReadReceives ==
  ASSUME TypeOK, ServerReads
  PROVE  LET unit == Head(stream)
         IN  IF IsLast(unit) THEN /\ FinishedIn(stream) # <<>>
                                  /\ unit[1] = Head(FinishedIn(stream))
                                  /\ FinishedIn(stream') = Tail(FinishedIn(stream))
             ELSE FinishedIn(stream') = FinishedIn(stream)
<1> DEFINE unit == Head(stream)
           rest == FinishedIn(stream')
<1>1. stream # <<>> /\ stream' = Tail(stream) /\ stream \in Seq(Units)
  BY UnitsInStream DEF ServerReads
<1>2. unit \in Units /\ stream' \in Seq(Units) /\ <<unit>> \in Seq(Units)
  BY <1>1, HeadTailProperties
<1>3. stream = <<unit>> \o stream'
  BY <1>1, HeadAndTail
<1>4. FinishedIn(stream) = FinishedIn(<<unit>>) \o rest
  BY <1>2, <1>3, FinishedConcat
<1>5. FinishedIn(<<unit>>) = FinishedBy(unit) /\ rest \in Seq(Messages)
  BY <1>2, OneFinished, FinishedType
<1> DEFINE S == Messages
           F == FinishedIn(stream)
<1> HIDE DEF rest, S, F
<1>6. CASE IsLast(unit)
  <2> DEFINE m == unit[1]
  <2>1. m \in S
    BY <1>2 DEF Units, S
  <2>2. F = <<m>> \o rest /\ rest \in Seq(S)
    BY <1>4, <1>5, <1>6 DEF FinishedBy, F, S
  <2> HIDE DEF m
  <2>3. F # <<>> /\ Head(F) = m /\ Tail(F) = rest
    BY <2>1, <2>2, FirstAndRest
  <2> QED
    BY <1>6, <2>3 DEF F, m, rest
<1>7. CASE ~IsLast(unit)
  <2>1. F = <<>> \o rest /\ rest \in Seq(S)
    BY <1>4, <1>5, <1>7 DEF FinishedBy, F, S
  <2>2. F = rest
    BY <2>1, ConcatEmptySeq
  <2> QED
    BY <1>7, <2>2 DEF F, rest
<1> QED
  BY <1>6, <1>7

LEMMA ChannelStep ==
  ASSUME TypeOK, StreamInv, [Next]_vars
  PROVE  [Channel!ChannelNext]_(Channel!channelVars)
<1> USE DEF Channel!ChannelNext, Channel!channelVars
<1>1. CASE (mixed \/ torn)'
  BY <1>1 DEF Channel!Break
<1>2. CASE ~(mixed \/ torn)'
  <2>1. ~mixed /\ ~torn /\ ~mixed' /\ ~torn'
    BY <1>2, BrokenStays
  <2>2. Continuous /\ EndsWithTheWriters
    BY <2>1 DEF StreamInv
  <2>3. ASSUME UNCHANGED <<stream, received>>
        PROVE  UNCHANGED Channel!channelVars
    BY <2>1, <2>3
  <2>4. ASSUME NEW t \in Threads, Copy(t)
        PROVE  [Channel!ChannelNext]_(Channel!channelVars)
    <3>1. sending[t] \in Messages /\ received' = received
      BY <2>4, CopyIsPuts, Remaining DEF serverVars
    <3>2. FinishedIn(stream') \in {FinishedIn(stream), Append(FinishedIn(stream), sending[t])}
      BY <2>4, CopySends
    <3> QED
      BY <2>1, <3>1, <3>2 DEF Channel!Send
  <2>5. CASE ServerReads
    <3>1. received' = IF IsLast(Head(stream)) THEN Head(stream)[1] ELSE received
      BY <2>2, <2>5, ReadStream
    <3> QED
      BY <2>1, <2>5, <3>1, ReadReceives DEF Channel!Receive
  <2>6. ASSUME NEW t \in Threads, GoesOn(t), ~Copy(t)
        PROVE  UNCHANGED <<stream, received>>
    BY <2>6 DEF GoesOn, WriteReturnsPart, SendFails, Fails, SendDone, ConnectionLost, serverVars
  <2>7. ASSUME NEW t \in Threads, NEW m \in MessagesOf[t], Begin(t, m)
        PROVE  UNCHANGED <<stream, received>>
    BY <2>7 DEF Begin, serverVars
  <2>8. CASE ServerCloses \/ UNCHANGED vars
    BY <2>3, <2>8 DEF ServerCloses, serverVars, vars
  <2> QED
    BY <2>3, <2>4, <2>5, <2>6, <2>7, <2>8 DEF Next
<1> QED
  BY <1>1, <1>2

(* Whatever writes are cut up, by timeouts or signals, and however the two   *)
(* threads take turns: the server receives what was sent, whole and in       *)
(* order, until the first message that is mixed or given up half way         *)
(* (RFB_TRY_WRITE).                                                          *)
THEOREM StreamIsAChannel == Spec => ImplementsChannel
<1>1. Init => Channel!ChannelInit
  <2> SUFFICES ASSUME Init PROVE Channel!ChannelInit
    OBVIOUS
  <2> DEFINE none == <<>>
  <2>1. none \in Seq(Units) /\ Len(none) = 0
    OBVIOUS
  <2> HIDE DEF none
  <2>2. FinishedIn(none) = <<>>
    <3>1. \A i \in 1 .. Len(none) : ~IsLast(none[i])
      BY <2>1
    <3> QED
      BY <2>1, <3>1, NoneFinished
  <2> USE DEF none
  <2> QED
    BY <2>2 DEF Init, Channel!ChannelInit
<1>2. TypeOK /\ StreamInv /\ [Next]_vars => TypeOK' /\ StreamInv'
  BY NextType, StreamInvStep
<1>3. TypeOK /\ StreamInv /\ [Next]_vars => [Channel!ChannelNext]_(Channel!channelVars)
  BY ChannelStep
<1> QED
  BY <1>1, <1>2, <1>3, InitType, InitStreamInv, PTL
  DEF Spec, ImplementsChannel, Channel!ChannelSpec
=============================================================================
