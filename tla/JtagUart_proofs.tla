-------------------------- MODULE JtagUart_proofs --------------------------
(***************************************************************************)
(* The driver's rings and interrupt enables, for rings and FIFOs of every  *)
(* size and for every order of calls, interrupts, alarms and acts of the   *)
(* host.  One inductive invariant carries all the results.                 *)
(***************************************************************************)
EXTENDS JtagUart, SequenceTheorems, TLAPS

(* Indices of a ring wrap at most once: what the remainders come to.       *)
LEMMA Wrapping ==
    ASSUME NEW x \in Nat, x < BufLen + BufLen
    PROVE  x % BufLen = IF x < BufLen THEN x ELSE x - BufLen
  <1>1. BufLen \in Nat /\ BufLen > 1
    BY DriverConstants
  <1>. QED BY <1>1, SMTT(30)

(* The ring arithmetic of init.c, read.c and write.c, without remainders.  *)
LEMMA RingArithmetic ==
    ASSUME NEW in \in Index, NEW out \in Index
    PROVE  /\ Next1(in) = IF in = BufLen - 1 THEN 0 ELSE in + 1
           /\ Used(in, out) = IF in >= out THEN in - out ELSE in + BufLen - out
           /\ \A i \in Index :
                 Holds(in, out, i) <=>
                     IF out <= in THEN out <= i /\ i < in ELSE out <= i \/ i < in
           /\ \A k \in 0 .. BufLen - in :
                 (in + k) % BufLen = IF in + k = BufLen THEN 0 ELSE in + k
  <1>. USE DriverConstants DEF Index
  <1>1. Next1(in) = IF in = BufLen - 1 THEN 0 ELSE in + 1
    BY Wrapping DEF Next1
  <1>2. Used(in, out) = IF in >= out THEN in - out ELSE in + BufLen - out
    BY Wrapping DEF Used
  <1>3. ASSUME NEW i \in Index
        PROVE  Holds(in, out, i) <=>
                   IF out <= in THEN out <= i /\ i < in ELSE out <= i \/ i < in
    <2>1. (i + BufLen - out) % BufLen = IF i >= out THEN i - out ELSE i + BufLen - out
      BY Wrapping
    <2>. QED BY <1>2, <2>1 DEF Holds
  <1>4. ASSUME NEW k \in 0 .. BufLen - in
        PROVE  (in + k) % BufLen = IF in + k = BufLen THEN 0 ELSE in + k
    BY Wrapping
  <1>. QED BY <1>1, <1>2, <1>3, <1>4

(* A function on 1 .. k is a sequence.                                     *)
LEMMA FunctionIsSeq ==
    ASSUME NEW S, NEW k \in Nat, NEW f \in [1 .. k -> S]
    PROVE  f \in Seq(S) /\ Len(f) = k
  OBVIOUS

-----------------------------------------------------------------------------
(* The inductive invariant.                                                *)

(* The chunk in hand: it fits, and its cells belong to the task.           *)
WriterOwnsChunk ==
    pc \in {"w_copy", "w_publish"} =>
        /\ n \in 1 .. Len(data) /\ tx_in + n <= BufLen
        /\ \A i \in tx_in .. tx_in + n - 1 : ~Holds(tx_in, tx_out, i)
ReaderOwnsChunk ==
    pc \in {"r_copy", "r_take"} =>
        /\ n \in 1 .. space /\ rx_out + n <= BufLen
        /\ \A i \in rx_out .. rx_out + n - 1 : Holds(rx_in, rx_out, i)

(* The driver's copy of the enables is what the core has.                  *)
EnablesAgree == ien = irq_enable

(* The handler's room is there from the moment it reads CONTROL.           *)
RoomIsKept ==
    /\ Len(wfifo) <= WriteDepth
    /\ isr.at \in {"rx", "tx"} => isr.room <= WriteDepth - Len(wfifo)

IInv ==
    /\ TypeOK
    /\ WriterOwnsChunk /\ ReaderOwnsChunk
    /\ EnablesAgree /\ RoomIsKept
    /\ NoLostKick /\ ReceiverComesBack

LEMMA InitIInv == Init => IInv
  <1>. SUFFICES ASSUME Init PROVE IInv
    OBVIOUS
  <1>. USE CoreConstants, DriverConstants DEF Init, CoreInit
  <1>1. TypeOK
    <2>1. CoreType
      <3>1. host \in [next : Bytes, got : Bytes]
        <4>1. PICK b \in Bytes, g \in Bytes : host = [next |-> b, got |-> g]
          OBVIOUS
        <4>. QED BY <4>1
      <3>2. rfifo \in Seq(Bytes) /\ wfifo \in Seq(Bytes)
        OBVIOUS
      <3>3. ien \in SUBSET Enables
        BY DEF Enables
      <3>. QED BY <3>1, <3>2, <3>3 DEF CoreType
    <2>2. RingType
      BY DEF RingType, Index
    <2>3. DriverType
      BY DEF DriverType, Handler, Rest, Enables
    <2>4. CallType
      BY DEF CallType, Index
    <2>. QED BY <2>1, <2>2, <2>3, <2>4 DEF TypeOK
  <1>2. WriterOwnsChunk /\ ReaderOwnsChunk /\ EnablesAgree /\ RoomIsKept
    BY DEF WriterOwnsChunk, ReaderOwnsChunk, EnablesAgree, RoomIsKept, Rest
  <1>3. NoLostKick /\ ReceiverComesBack
    BY DEF NoLostKick, ReceiverComesBack
  <1>. QED BY <1>1, <1>2, <1>3 DEF IInv

LEMMA InvariantsFollow ==
    IInv => TypeOK /\ CopiesOwnCells /\ NoLostKick /\ ReceiverComesBack /\ RoomIsThere
  <1>. SUFFICES ASSUME IInv PROVE CopiesOwnCells /\ RoomIsThere
    BY DEF IInv
  <1>1. CopiesOwnCells
    BY DEF IInv, TypeOK, RingType, CallType, WriterOwnsChunk, ReaderOwnsChunk, CopiesOwnCells
  <1>2. RoomIsThere
    BY DEF IInv, RoomIsKept, RoomIsThere
  <1>. QED BY <1>1, <1>2

(* The chunk in hand, cell by cell.                                        *)
LEMMA ChunkCells ==
    ASSUME IInv, NEW i
    PROVE  /\ pc \in {"w_copy", "w_publish"} /\ i \in tx_in .. tx_in + n - 1 =>
                  i \in Index /\ ~Holds(tx_in, tx_out, i)
           /\ pc \in {"r_copy", "r_take"} /\ i \in rx_out .. rx_out + n - 1 =>
                  i \in Index /\ Holds(rx_in, rx_out, i)
  <1>1. /\ tx_in \in Nat /\ rx_out \in Nat /\ BufLen \in Nat /\ n \in Nat
    BY DriverConstants DEF IInv, TypeOK, RingType, CallType, Index
  <1>2. ASSUME NEW from \in Nat, from + n <= BufLen, i \in from .. from + n - 1
        PROVE  i \in Index
    BY <1>1, <1>2 DEF Index
  <1>3. ASSUME pc \in {"w_copy", "w_publish"}, i \in tx_in .. tx_in + n - 1
        PROVE  i \in Index /\ ~Holds(tx_in, tx_out, i)
    <2>1. tx_in + n <= BufLen /\ ~Holds(tx_in, tx_out, i)
      BY <1>3 DEF IInv, WriterOwnsChunk
    <2>. QED BY <1>1, <1>2, <1>3, <2>1
  <1>4. ASSUME pc \in {"r_copy", "r_take"}, i \in rx_out .. rx_out + n - 1
        PROVE  i \in Index /\ Holds(rx_in, rx_out, i)
    <2>1. rx_out + n <= BufLen /\ Holds(rx_in, rx_out, i)
      BY <1>4 DEF IInv, ReaderOwnsChunk
    <2>. QED BY <1>1, <1>2, <1>4, <2>1
  <1>. QED BY <1>3, <1>4
-----------------------------------------------------------------------------
(* The handler                                                             *)

(* The handler moves one ring index past its own end, and only that: the   *)
(* cells of the task's chunk stay the task's, interrupts stay accounted    *)
(* for, and the room it counts is there.                                   *)
LEMMA HandlerKeepsIInv ==
    ASSUME IInv, Interrupted \/ HandlerStep
    PROVE  IInv'
  <1>. USE DEF vars, coreVars, ringVars, callVars, taskVars
  <1>t. /\ TypeOK /\ CoreType /\ RingType /\ DriverType /\ CallType
        /\ BufLen \in Nat /\ BufLen > 1 /\ WriteDepth \in Nat
    BY CoreConstants, DriverConstants DEF IInv, TypeOK
  <1>i. /\ rx_in \in Index /\ rx_out \in Index /\ tx_in \in Index /\ tx_out \in Index
        /\ Next1(rx_in) = (IF rx_in = BufLen - 1 THEN 0 ELSE rx_in + 1)
        /\ Next1(tx_out) = (IF tx_out = BufLen - 1 THEN 0 ELSE tx_out + 1)
    BY <1>t, RingArithmetic DEF RingType
  <1>1. CASE Interrupted
    <2>1. TypeOK'
      <3>1. isr' \in Handler
        <4>1. isr' = [at |-> "poll", pending |-> {}, ravail |-> FALSE, room |-> 0]
          BY <1>1 DEF Interrupted, Rest
        <4>. QED BY <1>t, <4>1 DEF Handler
      <3>. QED BY <1>1, <1>t, <3>1 DEF Interrupted, TypeOK, CoreType, RingType,
                                       DriverType, CallType
    <2>2. WriterOwnsChunk' /\ ReaderOwnsChunk' /\ EnablesAgree' /\ RoomIsKept'
      BY <1>1 DEF Interrupted, IInv, WriterOwnsChunk, ReaderOwnsChunk, EnablesAgree,
                  RoomIsKept, Holds, Used, Rest
    <2>3. NoLostKick' /\ ReceiverComesBack'
      BY <1>1 DEF Interrupted, IInv, NoLostKick, ReceiverComesBack
    <2>. QED BY <2>1, <2>2, <2>3 DEF IInv
  <1>2. CASE Poll
    <2>1. WSpace \in 0 .. WriteDepth
      BY <1>t, <1>2 DEF IInv, RoomIsKept, WSpace, CoreType
    <2>2. isr' \in Handler
      <3>. DEFINE ri == {b \in {"RI"} : ipen_AF}
                  wi == {b \in {"WI"} : ipen_AE}
      <3>1. ri \cup wi \in SUBSET {"RI", "WI"}
        OBVIOUS
      <3>. HIDE DEF ri, wi
      <3>2. CASE isr' = Rest
        BY <1>t, <3>2 DEF Handler, Rest
      <3>3. CASE isr' = [at |-> IF ri # {} THEN "rx" ELSE "tx", pending |-> ri \cup wi,
                         ravail |-> TRUE, room |-> WSpace]
        BY <2>1, <3>1, <3>3 DEF Handler
      <3>. QED BY <1>2, <3>2, <3>3 DEF Poll, ri, wi
    <2>3. TypeOK'
      BY <1>2, <1>t, <2>2 DEF Poll, TypeOK, CoreType, RingType, DriverType, CallType
    <2>4. WriterOwnsChunk' /\ ReaderOwnsChunk' /\ EnablesAgree'
      BY <1>2 DEF Poll, IInv, WriterOwnsChunk, ReaderOwnsChunk, EnablesAgree, Holds, Used
    <2>5. RoomIsKept'
      BY <1>2, <1>t DEF Poll, IInv, RoomIsKept, Rest, WSpace, CoreType
    <2>6. NoLostKick' /\ ReceiverComesBack'
      BY <1>2 DEF Poll, IInv, NoLostKick, ReceiverComesBack
    <2>. QED BY <2>3, <2>4, <2>5, <2>6 DEF IInv
  <1>3. CASE ReceiveChar
    <2>. USE <1>3 DEF ReceiveChar, ReadData
    <2>1. /\ rx_in' \in Index /\ rx_in' = (IF rx_in = BufLen - 1 THEN 0 ELSE rx_in + 1)
          /\ rx_in' # rx_out
      BY <1>t, <1>i DEF RingFull, Index
    <2>2. rfifo' \in Seq(Bytes) /\ Head(rfifo) \in Bytes
      BY <1>t, HeadTailProperties DEF CoreType, RValid
    <2>3. isr' \in Handler /\ isr'.at = "rx" /\ isr'.room = isr.room
      <3>1. RAvail \in BOOLEAN
        BY DEF RAvail
      <3>. QED BY <1>t, <3>1 DEF Handler, DriverType
    <2>4. TypeOK'
      <3>1. CoreType'
        BY <1>t, <2>2 DEF CoreType
      <3>2. RingType'
        BY <1>t, <2>1, <2>2 DEF RingType
      <3>. QED BY <1>t, <2>3, <3>1, <3>2 DEF TypeOK, DriverType, CallType
    <2>5. WriterOwnsChunk' /\ EnablesAgree' /\ RoomIsKept'
      BY <2>3 DEF IInv, WriterOwnsChunk, EnablesAgree, RoomIsKept, Holds, Used
    <2>6. ReaderOwnsChunk'
      <3>. SUFFICES ASSUME pc \in {"r_copy", "r_take"},
                           NEW i \in rx_out .. rx_out + n - 1
                    PROVE  Holds(rx_in', rx_out, i)
        BY DEF IInv, ReaderOwnsChunk
      <3>1. Holds(rx_in, rx_out, i) /\ i \in Index
        BY ChunkCells
      <3>2. Holds(rx_in, rx_out, i) <=>
               IF rx_out <= rx_in THEN rx_out <= i /\ i < rx_in ELSE rx_out <= i \/ i < rx_in
        BY <1>i, <3>1, RingArithmetic
      <3>3. Holds(rx_in', rx_out, i) <=>
               IF rx_out <= rx_in' THEN rx_out <= i /\ i < rx_in' ELSE rx_out <= i \/ i < rx_in'
        BY <1>i, <2>1, <3>1, RingArithmetic
      <3>. QED BY <1>t, <1>i, <2>1, <3>1, <3>2, <3>3 DEF Index
    <2>7. NoLostKick' /\ ReceiverComesBack'
      BY <2>1 DEF IInv, NoLostKick, ReceiverComesBack
    <2>. QED BY <2>4, <2>5, <2>6, <2>7 DEF IInv
  <1>4. CASE ReceiveNothing
    <2>. USE <1>4 DEF ReceiveNothing, ReadData
    <2>1. isr' \in Handler /\ isr'.room = isr.room /\ isr.at = "rx"
      BY <1>t DEF Handler, DriverType, AfterReceive
    <2>2. rfifo' = rfifo
      BY DEF RValid
    <2>3. TypeOK'
      BY <1>t, <2>1, <2>2 DEF TypeOK, CoreType, RingType, DriverType, CallType
    <2>4. WriterOwnsChunk' /\ ReaderOwnsChunk' /\ EnablesAgree' /\ RoomIsKept'
      BY <2>1 DEF IInv, WriterOwnsChunk, ReaderOwnsChunk, EnablesAgree, RoomIsKept,
                  Holds, Used
    <2>5. NoLostKick' /\ ReceiverComesBack'
      BY DEF IInv, NoLostKick, ReceiverComesBack
    <2>. QED BY <2>3, <2>4, <2>5 DEF IInv
  <1>5. CASE StopReceiving
    <2>. USE <1>5 DEF StopReceiving, SetEnables, WriteControl
    <2>1. isr' \in Handler /\ isr'.room = isr.room /\ isr.at = "rx"
      BY <1>t DEF Handler, DriverType, AfterReceive
    <2>2. ien' \subseteq ien /\ ("WE" \in ien => "WE" \in ien') /\ ien' = irq_enable'
      BY DEF IInv, EnablesAgree
    <2>3. TypeOK'
      <3>1. CoreType'
        BY <1>t, <2>2 DEF CoreType
      <3>2. DriverType'
        BY <1>t, <2>1, <2>2 DEF DriverType, IInv, EnablesAgree
      <3>. QED BY <1>t, <3>1, <3>2 DEF TypeOK, RingType, CallType
    <2>4. WriterOwnsChunk' /\ ReaderOwnsChunk' /\ EnablesAgree' /\ RoomIsKept'
      BY <2>1, <2>2 DEF IInv, WriterOwnsChunk, ReaderOwnsChunk, EnablesAgree, RoomIsKept,
                        Holds, Used
    <2>5. NoLostKick'
      BY <2>2 DEF IInv, NoLostKick
    <2>6. rx_in # rx_out
      BY <1>t, <1>i DEF RingFull, Index
    <2>7. ReceiverComesBack'
      BY <2>6 DEF ReceiverComesBack
    <2>. QED BY <2>3, <2>4, <2>5, <2>7 DEF IInv
  <1>6. CASE TransmitChar
    <2>. USE <1>6 DEF TransmitChar, WriteData
    <2>1. tx_out' \in Index /\ tx_out' = (IF tx_out = BufLen - 1 THEN 0 ELSE tx_out + 1)
      BY <1>t, <1>i DEF Index
    <2>2. tx_buf[tx_out] \in Bytes
      BY <1>t DEF RingType
    <2>3. isr.room \in 1 .. WriteDepth /\ isr.room <= WriteDepth - Len(wfifo)
      BY <1>t DEF IInv, RoomIsKept, DriverType, Handler
    <2>4. wfifo' \in Seq(Bytes) /\ Len(wfifo') = Len(wfifo) + 1
      BY <1>t, <2>2, <2>3, AppendProperties DEF CoreType
    <2>5. isr' \in Handler /\ isr'.room = isr.room - 1
      <3>. DEFINE room == isr.room - 1
      <3>1. room \in 0 .. WriteDepth
        BY <1>t, <2>3
      <3>2. isr \in Handler /\ isr' = [isr EXCEPT !.room = room]
        BY <1>t DEF DriverType
      <3>. HIDE DEF room
      <3>3. isr' \in Handler /\ isr'.room = room
        BY <3>1, <3>2 DEF Handler
      <3>. QED BY <3>3 DEF room
    <2>6. TypeOK'
      <3>1. CoreType'
        BY <1>t, <2>4 DEF CoreType
      <3>2. RingType'
        BY <1>t, <2>1 DEF RingType
      <3>. QED BY <1>t, <2>5, <3>1, <3>2 DEF TypeOK, DriverType, CallType
    <2>7. WriterOwnsChunk'
      <3>. SUFFICES ASSUME pc \in {"w_copy", "w_publish"},
                           NEW i \in tx_in .. tx_in + n - 1
                    PROVE  ~Holds(tx_in, tx_out', i)
        BY DEF IInv, WriterOwnsChunk
      <3>1. ~Holds(tx_in, tx_out, i) /\ i \in Index
        BY ChunkCells
      <3>2. Holds(tx_in, tx_out, i) <=>
               IF tx_out <= tx_in THEN tx_out <= i /\ i < tx_in ELSE tx_out <= i \/ i < tx_in
        BY <1>i, <3>1, RingArithmetic
      <3>3. Holds(tx_in, tx_out', i) <=>
               IF tx_out' <= tx_in THEN tx_out' <= i /\ i < tx_in ELSE tx_out' <= i \/ i < tx_in
        BY <1>i, <2>1, <3>1, RingArithmetic
      <3>. QED BY <1>t, <1>i, <2>1, <3>1, <3>2, <3>3 DEF Index
    <2>8. ReaderOwnsChunk' /\ EnablesAgree'
      BY DEF IInv, ReaderOwnsChunk, EnablesAgree, Holds, Used
    <2>9. RoomIsKept'
      BY <1>t, <2>3, <2>4, <2>5, LenProperties DEF RoomIsKept, CoreType
    <2>10. NoLostKick' /\ ReceiverComesBack'
      BY DEF IInv, NoLostKick, ReceiverComesBack
    <2>. QED BY <2>6, <2>7, <2>8, <2>9, <2>10 DEF IInv
  <1>7. CASE StopTransmitting
    <2>. USE <1>7 DEF StopTransmitting, SetEnables, WriteControl
    <2>1. isr' \in Handler /\ isr'.room = isr.room /\ isr'.at = "poll"
      BY <1>t DEF Handler, DriverType
    <2>2. ien' \subseteq ien /\ ("RE" \in ien => "RE" \in ien') /\ ien' = irq_enable'
      BY DEF IInv, EnablesAgree
    <2>3. TypeOK'
      <3>1. CoreType'
        BY <1>t, <2>2 DEF CoreType
      <3>2. DriverType'
        BY <1>t, <2>1, <2>2 DEF DriverType, IInv, EnablesAgree
      <3>. QED BY <1>t, <3>1, <3>2 DEF TypeOK, RingType, CallType
    <2>4. WriterOwnsChunk' /\ ReaderOwnsChunk' /\ EnablesAgree' /\ RoomIsKept'
      BY <2>1, <2>2 DEF IInv, WriterOwnsChunk, ReaderOwnsChunk, EnablesAgree, RoomIsKept,
                        Holds, Used
    <2>5. NoLostKick'
      BY <1>t DEF IInv, NoLostKick, DriverType, Handler
    <2>6. ReceiverComesBack'
      BY <2>2 DEF IInv, ReceiverComesBack
    <2>. QED BY <2>3, <2>4, <2>5, <2>6 DEF IInv
  <1>. QED BY <1>1, <1>2, <1>3, <1>4, <1>5, <1>6, <1>7 DEF HandlerStep
-----------------------------------------------------------------------------
(* The task                                                                *)

(* A task's step that leaves the core, the rings, the enables and the      *)
(* handler alone keeps the invariant when its own variables keep theirs.   *)
LEMMA OwnVariablesOnly ==
    ASSUME IInv, UNCHANGED <<coreVars, ringVars, irq_enable, isr>>,
           DriverType', CallType', WriterOwnsChunk', ReaderOwnsChunk',
           tx_in # tx_out /\ "WE" \notin ien =>
               pc' \in {"w_look", "w_copy", "w_publish", "w_kick"},
           rx_in = rx_out /\ "RE" \notin ien =>
               (pc' \in {"r_look", "r_copy"} /\ moved') \/ pc' = "r_enable"
    PROVE  IInv'
  <1>. USE DEF coreVars, ringVars
  <1>1. CoreType' /\ RingType'
    BY DEF IInv, TypeOK, CoreType, RingType
  <1>2. EnablesAgree' /\ RoomIsKept'
    BY DEF IInv, EnablesAgree, RoomIsKept
  <1>3. NoLostKick' /\ ReceiverComesBack'
    BY DEF NoLostKick, ReceiverComesBack
  <1>. QED BY <1>1, <1>2, <1>3 DEF IInv, TypeOK

(* A call that returns leaves its locals at rest.                          *)
LEMMA ReturnsAtRest ==
    ASSUME CallType, NEW r \in {"count", "0", "EWOULDBLOCK", "EIO"}, Return(r)
    PROVE  CallType' /\ pc' = "idle"
  <1>1. data' \in Seq(Bytes) /\ copied' \in Seq(Bytes)
    BY DEF Return, CallType
  <1>2. space' \in 0 .. MaxCount /\ seen' \in Index /\ n' \in 0 .. BufLen - 1
    BY CoreConstants, DriverConstants DEF Return, Index
  <1>3. nonblock' \in BOOLEAN /\ moved' \in BOOLEAN /\ pc' = "idle" /\ result' = r
    BY DEF Return
  <1>. QED BY <1>1, <1>2, <1>3 DEF CallType

(* The writer copies into cells that are free and stay free, publishes     *)
(* them, and never leaves characters in the ring without having set WE.    *)
LEMMA WriterKeepsIInv ==
    ASSUME IInv, WriteLook \/ WriteCopy \/ WritePublish \/ WriteKick \/ WriteWait \/ WriteCheck
    PROVE  IInv'
  <1>. USE DEF coreVars, ringVars, callVars, shared, Goto, TaskRuns
  <1>t. /\ TypeOK /\ CoreType /\ RingType /\ DriverType /\ CallType
        /\ BufLen \in Nat /\ BufLen > 1 /\ WriteDepth \in Nat
    BY CoreConstants, DriverConstants DEF IInv, TypeOK
  <1>i. tx_in \in Index /\ tx_out \in Index
    BY <1>t DEF RingType
  <1>1. CASE WriteLook
    <2>. USE <1>1 DEF WriteLook
    <2>. DEFINE room == Smaller(TxRoom(tx_in, tx_out), Len(data))
    <2>1. Len(data) \in Nat
      BY <1>t DEF CallType
    <2>2. /\ room \in 0 .. Len(data) /\ room <= BufLen - 1 /\ tx_in + room <= BufLen
          /\ tx_in < tx_out => tx_in + room < tx_out
          /\ tx_out = 0 => tx_in + room < BufLen
      BY <1>t, <1>i, <2>1 DEF Smaller, TxRoom, Index
    <2>3. ASSUME room > 0, NEW i \in tx_in .. tx_in + room - 1
          PROVE  ~Holds(tx_in, tx_out, i)
      <3>1. i \in Index
        BY <1>t, <1>i, <2>1, <2>2 DEF Index
      <3>2. Holds(tx_in, tx_out, i) <=>
               IF tx_out <= tx_in THEN tx_out <= i /\ i < tx_in ELSE tx_out <= i \/ i < tx_in
        BY <1>i, <3>1, RingArithmetic
      <3>. QED BY <1>t, <1>i, <2>1, <2>2, <3>1, <3>2 DEF Index
    <2>. HIDE DEF room
    <2>4. /\ data = <<>> => pc' = "w_kick" /\ n' = n /\ seen' = seen
          /\ data # <<>> => /\ seen' = tx_out /\ n' = room
                            /\ pc' = IF room = 0 THEN "w_kick" ELSE "w_copy"
      BY DEF room
    <2>5. CallType'
      BY <1>t, <1>i, <2>1, <2>2, <2>4 DEF CallType, Index, Writing
    <2>6. WriterOwnsChunk'
      <3>. SUFFICES ASSUME pc' = "w_copy"
                    PROVE  WriterOwnsChunk'
        BY <2>4 DEF WriterOwnsChunk
      <3>1. n' = room /\ room > 0
        BY <2>1, <2>2, <2>4
      <3>2. n' \in 1 .. Len(data') /\ tx_in' + n' <= BufLen
        BY <2>1, <2>2, <3>1
      <3>3. \A i \in tx_in' .. tx_in' + n' - 1 : ~Holds(tx_in', tx_out', i)
        BY <2>3, <3>1
      <3>. QED BY <3>2, <3>3 DEF WriterOwnsChunk
    <2>7. DriverType' /\ ReaderOwnsChunk'
      BY <1>t, <2>4 DEF DriverType, ReaderOwnsChunk
    <2>. QED BY <2>4, <2>5, <2>6, <2>7, OwnVariablesOnly DEF IInv, NoLostKick, ReceiverComesBack
  <1>2. CASE WriteCopy
    <2>. USE <1>2 DEF WriteCopy
    <2>1. tx_buf' \in [Index -> Bytes]
      <3>1. ASSUME NEW i \in Index, i \in tx_in .. tx_in + n - 1
            PROVE  data[i - tx_in + 1] \in Bytes
        <4>1. n \in 1 .. Len(data)
          BY DEF IInv, WriterOwnsChunk
        <4>2. i - tx_in + 1 \in 1 .. Len(data)
          BY <1>t, <1>i, <3>1, <4>1 DEF Index, CallType
        <4>. QED BY <1>t, <4>2 DEF CallType
      <3>. QED BY <1>t, <3>1 DEF RingType
    <2>2. CoreType' /\ RingType' /\ DriverType'
      BY <1>t, <2>1 DEF CoreType, RingType, DriverType
    <2>3. CallType'
      BY <1>t DEF CallType, Writing
    <2>4. WriterOwnsChunk'
      BY DEF IInv, WriterOwnsChunk, Holds, Used
    <2>5. ReaderOwnsChunk' /\ EnablesAgree' /\ RoomIsKept' /\ NoLostKick' /\ ReceiverComesBack'
      BY DEF IInv, ReaderOwnsChunk, EnablesAgree, RoomIsKept, NoLostKick, ReceiverComesBack
    <2>. QED BY <2>2, <2>3, <2>4, <2>5 DEF IInv, TypeOK
  <1>3. CASE WritePublish
    <2>. USE <1>3 DEF WritePublish
    <2>1. n \in 1 .. Len(data) /\ tx_in + n <= BufLen /\ n \in 0 .. BufLen - tx_in
      BY <1>t, <1>i DEF IInv, WriterOwnsChunk, CallType, Index
    <2>2. tx_in' \in Index
      <3>1. (tx_in + n) % BufLen = IF tx_in + n = BufLen THEN 0 ELSE tx_in + n
        BY <1>i, <2>1, RingArithmetic
      <3>. QED BY <1>t, <1>i, <2>1, <3>1 DEF Index
    <2>3. data' \in Seq(Bytes)
      <3>1. \A k \in n + 1 .. Len(data) : data[k] \in Bytes
        BY <1>t, <2>1 DEF CallType
      <3>. QED BY <1>t, <2>1, <3>1, SubSeqProperties DEF CallType
    <2>4. CoreType' /\ RingType' /\ DriverType'
      BY <1>t, <2>2 DEF CoreType, RingType, DriverType
    <2>5. CallType'
      BY <1>t, <2>3 DEF CallType, Writing, Index
    <2>6. WriterOwnsChunk' /\ ReaderOwnsChunk' /\ EnablesAgree' /\ RoomIsKept'
      BY DEF IInv, WriterOwnsChunk, ReaderOwnsChunk, EnablesAgree, RoomIsKept
    <2>7. NoLostKick' /\ ReceiverComesBack'
      BY DEF IInv, NoLostKick, ReceiverComesBack
    <2>. QED BY <2>4, <2>5, <2>6, <2>7 DEF IInv, TypeOK
  <1>4. CASE WriteKick
    <2>. USE <1>4 DEF WriteKick, SetEnables, WriteControl
    <2>1. /\ CallType' /\ pc' \in {"idle", "w_wait"}
      <3>1. CASE data = <<>> \/ nonblock
        BY <1>t, <3>1, ReturnsAtRest DEF Outcome
      <3>2. CASE ~(data = <<>> \/ nonblock)
        BY <1>t, <3>2 DEF CallType, Writing
      <3>. QED BY <3>1, <3>2
    <2>2. ien' = irq_enable' /\ ien' \in SUBSET Enables /\ "WE" \in ien'
          /\ ("RE" \in ien => "RE" \in ien')
      BY <1>t DEF IInv, EnablesAgree, CoreType, Enables
    <2>3. CoreType' /\ RingType' /\ DriverType'
      BY <1>t, <2>2 DEF CoreType, RingType, DriverType
    <2>4. WriterOwnsChunk' /\ ReaderOwnsChunk' /\ EnablesAgree' /\ RoomIsKept'
      BY <2>1, <2>2 DEF IInv, WriterOwnsChunk, ReaderOwnsChunk, EnablesAgree, RoomIsKept
    <2>5. NoLostKick' /\ ReceiverComesBack'
      BY <2>2 DEF IInv, NoLostKick, ReceiverComesBack
    <2>. QED BY <2>1, <2>3, <2>4, <2>5 DEF IInv, TypeOK
  <1>5. CASE WriteWait \/ WriteCheck
    <2>. USE <1>5 DEF WriteWait, WriteCheck
    <2>1. CallType' /\ pc' \in {"w_check", "idle", "w_look"}
      <3>1. CASE WriteWait
        BY <1>t, <3>1 DEF CallType, Writing
      <3>2. CASE WriteCheck /\ host_inactive # 0
        BY <1>t, <3>2, ReturnsAtRest DEF Outcome
      <3>3. CASE WriteCheck /\ host_inactive = 0
        BY <1>t, <3>3 DEF CallType, Writing
      <3>. QED BY <3>1, <3>2, <3>3
    <2>2. pc' = "w_look" \/ "WE" \in ien \/ tx_in = tx_out
      BY DEF IInv, NoLostKick
    <2>3. DriverType' /\ ReaderOwnsChunk' /\ WriterOwnsChunk'
      BY <1>t, <2>1 DEF DriverType, ReaderOwnsChunk, WriterOwnsChunk
    <2>. QED BY <2>1, <2>2, <2>3, OwnVariablesOnly DEF IInv, ReceiverComesBack
  <1>. QED BY <1>1, <1>2, <1>3, <1>4, <1>5

(* The reader copies cells the handler has filled and gives them up only   *)
(* afterwards; it turns receiving on after it has made room.               *)
LEMMA ReaderKeepsIInv ==
    ASSUME IInv, ReadLook \/ ReadCopy \/ ReadTake \/ ReadEnable \/ ReadWait \/ ReadCheck
    PROVE  IInv'
  <1>. USE DEF coreVars, ringVars, callVars, shared, Goto, TaskRuns
  <1>t. /\ TypeOK /\ CoreType /\ RingType /\ DriverType /\ CallType
        /\ BufLen \in Nat /\ BufLen > 1 /\ MaxCount \in Nat
    BY CoreConstants, DriverConstants DEF IInv, TypeOK
  <1>i. rx_in \in Index /\ rx_out \in Index
    BY <1>t DEF RingType
  <1>1. CASE ReadLook
    <2>. USE <1>1 DEF ReadLook
    <2>. DEFINE chunk == Smaller(RxChunk(rx_in, rx_out), space)
    <2>1. /\ chunk \in 0 .. space /\ chunk <= BufLen - 1 /\ rx_out + chunk <= BufLen
          /\ rx_out <= rx_in => rx_out + chunk <= rx_in
      BY <1>t, <1>i DEF Smaller, RxChunk, CallType, Index
    <2>2. ASSUME chunk > 0, NEW i \in rx_out .. rx_out + chunk - 1
          PROVE  Holds(rx_in, rx_out, i)
      <3>1. i \in Index
        BY <1>t, <1>i, <2>1 DEF CallType, Index
      <3>2. Holds(rx_in, rx_out, i) <=>
               IF rx_out <= rx_in THEN rx_out <= i /\ i < rx_in ELSE rx_out <= i \/ i < rx_in
        BY <1>i, <3>1, RingArithmetic
      <3>. QED BY <1>t, <1>i, <2>1, <3>1, <3>2 DEF CallType, Index
    <2>. HIDE DEF chunk
    <2>3. CASE chunk = 0 /\ ~moved /\ (nonblock \/ space = 0)
      <3>1. CallType' /\ pc' = "idle"
        BY <1>t, <2>3, ReturnsAtRest DEF Outcome, chunk
      <3>2. DriverType' /\ ReaderOwnsChunk' /\ WriterOwnsChunk'
        BY <1>t, <3>1 DEF DriverType, ReaderOwnsChunk, WriterOwnsChunk
      <3>. QED BY <2>3, <3>1, <3>2, OwnVariablesOnly DEF IInv, NoLostKick, ReceiverComesBack
    <2>4. CASE ~(chunk = 0 /\ ~moved /\ (nonblock \/ space = 0))
      <3>1. /\ pc' = (IF chunk > 0 THEN "r_copy" ELSE IF moved THEN "r_enable" ELSE "r_wait")
            /\ seen' = rx_in /\ n' = chunk
            /\ UNCHANGED <<data, space, copied, nonblock, moved, result>>
        BY <2>4 DEF chunk
      <3>2. CallType'
        BY <1>t, <1>i, <2>1, <3>1 DEF CallType, Reading
      <3>3. ReaderOwnsChunk'
        <4>. SUFFICES ASSUME pc' = "r_copy"
                      PROVE  ReaderOwnsChunk'
          BY <3>1 DEF ReaderOwnsChunk
        <4>1. n' = chunk /\ chunk > 0
          BY <3>1
        <4>2. n' \in 1 .. space' /\ rx_out' + n' <= BufLen
          BY <1>t, <2>1, <3>1, <4>1 DEF CallType
        <4>3. \A i \in rx_out' .. rx_out' + n' - 1 : Holds(rx_in', rx_out', i)
          BY <2>2, <4>1 DEF Holds, Used
        <4>. QED BY <4>2, <4>3 DEF ReaderOwnsChunk
      <3>4. DriverType' /\ WriterOwnsChunk'
        BY <1>t, <3>1 DEF DriverType, WriterOwnsChunk
      <3>. QED BY <3>1, <3>2, <3>3, <3>4, OwnVariablesOnly
               DEF IInv, NoLostKick, ReceiverComesBack
    <2>. QED BY <2>3, <2>4
  <1>2. CASE ReadCopy
    <2>. USE <1>2 DEF ReadCopy
    <2>1. /\ n \in 1 .. space /\ rx_out + n <= BufLen
          /\ \A i \in rx_out .. rx_out + n - 1 : Holds(rx_in, rx_out, i)
      BY DEF IInv, ReaderOwnsChunk
    <2>2. copied' \in Seq(Bytes)
      <3>1. copied' \in [1 .. n -> Bytes]
        <4>1. ASSUME NEW k \in 1 .. n PROVE rx_buf[rx_out + k - 1] \in Bytes
          BY <1>t, <1>i, <2>1 DEF RingType, Index, CallType
        <4>. QED BY <4>1
      <3>. QED BY <1>t, <3>1, FunctionIsSeq DEF CallType
    <2>3. CallType'
      BY <1>t, <2>2 DEF CallType, Reading
    <2>4. rx_in # rx_out
      <3>1. rx_out \in rx_out .. rx_out + n - 1
        BY <1>t, <1>i, <2>1 DEF CallType, Index
      <3>2. Holds(rx_in, rx_out, rx_out)
        BY <2>1, <3>1
      <3>. QED BY <1>t, <1>i, <3>2, RingArithmetic DEF Index
    <2>5. DriverType' /\ ReaderOwnsChunk' /\ WriterOwnsChunk'
      BY <1>t, <2>1 DEF DriverType, ReaderOwnsChunk, WriterOwnsChunk, Holds, Used
    <2>. QED BY <2>3, <2>4, <2>5, OwnVariablesOnly DEF IInv, NoLostKick
  <1>3. CASE ReadTake
    <2>. USE <1>3 DEF ReadTake
    <2>1. n \in 1 .. space /\ rx_out + n <= BufLen /\ n \in 0 .. BufLen - rx_out
      BY <1>t, <1>i DEF IInv, ReaderOwnsChunk, CallType, Index
    <2>2. rx_out' \in Index
      <3>1. (rx_out + n) % BufLen = IF rx_out + n = BufLen THEN 0 ELSE rx_out + n
        BY <1>i, <2>1, RingArithmetic
      <3>. QED BY <1>t, <1>i, <2>1, <3>1 DEF Index, CallType
    <2>3. CoreType' /\ RingType' /\ DriverType'
      BY <1>t, <2>2 DEF CoreType, RingType, DriverType
    <2>4. pc' \in {"r_look", "r_enable"} /\ CallType'
      BY <1>t, <2>1 DEF CallType, Reading, Index
    <2>5. WriterOwnsChunk' /\ ReaderOwnsChunk' /\ EnablesAgree' /\ RoomIsKept'
      BY <2>4 DEF IInv, WriterOwnsChunk, ReaderOwnsChunk, EnablesAgree, RoomIsKept
    <2>6. NoLostKick' /\ ReceiverComesBack'
      BY <2>4 DEF IInv, NoLostKick, ReceiverComesBack
    <2>. QED BY <2>3, <2>4, <2>5, <2>6 DEF IInv, TypeOK
  <1>4. CASE ReadEnable
    <2>. USE <1>4 DEF ReadEnable, SetEnables, WriteControl
    <2>1. CallType' /\ pc' = "idle"
      BY <1>t, ReturnsAtRest DEF Outcome
    <2>2. ien' = irq_enable' /\ ien' \in SUBSET Enables /\ "RE" \in ien'
          /\ ("WE" \in ien => "WE" \in ien')
      BY <1>t DEF IInv, EnablesAgree, CoreType, Enables
    <2>3. CoreType' /\ RingType' /\ DriverType'
      BY <1>t, <2>2 DEF CoreType, RingType, DriverType
    <2>4. WriterOwnsChunk' /\ ReaderOwnsChunk' /\ EnablesAgree' /\ RoomIsKept'
      BY <2>1, <2>2 DEF IInv, WriterOwnsChunk, ReaderOwnsChunk, EnablesAgree, RoomIsKept
    <2>5. NoLostKick' /\ ReceiverComesBack'
      BY <2>2 DEF IInv, NoLostKick, ReceiverComesBack
    <2>. QED BY <2>1, <2>3, <2>4, <2>5 DEF IInv, TypeOK
  <1>5. CASE ReadWait \/ ReadCheck
    <2>. USE <1>5 DEF ReadWait, ReadCheck
    <2>1. CallType' /\ pc' \in {"r_check", "idle", "r_look"}
      <3>1. CASE ReadWait
        BY <1>t, <3>1 DEF CallType, Reading
      <3>2. CASE ReadCheck /\ seen = rx_in
        BY <1>t, <3>2, ReturnsAtRest DEF Outcome
      <3>3. CASE ReadCheck /\ seen # rx_in
        BY <1>t, <3>3 DEF CallType, Reading
      <3>. QED BY <3>1, <3>2, <3>3
    <2>2. DriverType' /\ ReaderOwnsChunk' /\ WriterOwnsChunk'
      BY <1>t, <2>1 DEF DriverType, ReaderOwnsChunk, WriterOwnsChunk
    <2>. QED BY <2>1, <2>2, OwnVariablesOnly DEF IInv, NoLostKick, ReceiverComesBack
  <1>. QED BY <1>1, <1>2, <1>3, <1>4, <1>5

-----------------------------------------------------------------------------
(* Calls, the alarm and the host                                           *)

(* A call begins with the locals it was given.                             *)
LEMMA CallsKeepIInv ==
    ASSUME IInv, Begin \/ CloseWait
    PROVE  IInv'
  <1>. USE DEF coreVars, ringVars, callVars, shared, Goto, TaskRuns
  <1>t. /\ TypeOK /\ CoreType /\ RingType /\ DriverType /\ CallType
        /\ MaxCount \in Nat /\ IntMax \in Nat /\ IntMax >= 4
    BY CoreConstants, DriverConstants DEF IInv, TypeOK
  <1>1. ASSUME NEW place \in {"w_look", "r_look", "c_wait"}, NEW d \in Seq(Bytes),
               NEW s \in 0 .. MaxCount, NEW flag \in BOOLEAN, Call(place, d, s, flag)
        PROVE  IInv'
    <2>. USE <1>1 DEF Call
    <2>1. CallType' /\ pc = "idle" /\ pc' \in {"w_look", "r_look", "c_wait"}
      BY <1>t DEF CallType, Writing, Reading
    <2>2. DriverType' /\ ReaderOwnsChunk' /\ WriterOwnsChunk'
      BY <1>t, <2>1 DEF DriverType, ReaderOwnsChunk, WriterOwnsChunk
    <2>. QED BY <2>1, <2>2, OwnVariablesOnly DEF IInv, NoLostKick, ReceiverComesBack
  <1>2. ASSUME NEW k \in 0 .. MaxCount, NEW flag \in BOOLEAN, NEW d \in [1 .. k -> Bytes],
               Write(d, flag)
        PROVE  IInv'
    <2>1. d \in Seq(Bytes)
      BY <1>t, FunctionIsSeq
    <2>. QED BY <1>t, <1>1, <1>2, <2>1 DEF Write
  <1>3. ASSUME NEW k \in 0 .. MaxCount, NEW flag \in BOOLEAN, Read(k, flag) \/ Close(flag)
        PROVE  IInv'
    <2>1. <<>> \in Seq(Bytes) /\ 0 \in 0 .. MaxCount
      BY <1>t
    <2>2. CASE Read(k, flag)
      BY <1>1, <2>1, <2>2 DEF Read
    <2>3. CASE Close(flag)
      BY <1>1, <2>1, <2>3 DEF Close
    <2>. QED BY <1>3, <2>2, <2>3
  <1>4. ASSUME NEW t \in 0 .. IntMax, SetTimeout(t)
        PROVE  IInv'
    <2>. USE <1>4 DEF SetTimeout
    <2>1. CallType' /\ pc' = "idle" /\ pc = "idle"
      BY <1>t DEF CallType
    <2>2. DriverType' /\ ReaderOwnsChunk' /\ WriterOwnsChunk'
      BY <1>t, <2>1 DEF DriverType, ReaderOwnsChunk, WriterOwnsChunk
    <2>. QED BY <2>1, <2>2, OwnVariablesOnly DEF IInv, NoLostKick, ReceiverComesBack
  <1>5. CASE CloseWait
    <2>. USE <1>5 DEF CloseWait
    <2>1. CallType' /\ pc' = "idle" /\ pc = "c_wait"
      BY <1>t, ReturnsAtRest
    <2>2. DriverType' /\ ReaderOwnsChunk' /\ WriterOwnsChunk'
      BY <1>t, <2>1 DEF DriverType, ReaderOwnsChunk, WriterOwnsChunk
    <2>. QED BY <2>1, <2>2, OwnVariablesOnly DEF IInv, NoLostKick, ReceiverComesBack
  <1>6. 0 \in 0 .. MaxCount
    BY <1>t
  <1>. QED BY <1>2, <1>3, <1>4, <1>5, <1>6 DEF Begin

(* The alarm rewrites the enables the driver already has; the host changes *)
(* only its own ends of the FIFOs.                                         *)
LEMMA OutsideKeepsIInv ==
    ASSUME IInv, Timeout \/ Host
    PROVE  IInv'
  <1>. USE DEF coreVars, ringVars, callVars, taskVars
  <1>t. /\ TypeOK /\ CoreType /\ RingType /\ DriverType /\ CallType
        /\ IntMax \in Nat /\ IntMax >= 4 /\ WriteDepth \in Nat
    BY CoreConstants, DriverConstants DEF IInv, TypeOK
  <1>1. /\ UNCHANGED <<ringVars, irq_enable, timeout, isr, taskVars>>
        /\ host_inactive' \in 0 .. IntMax - 2
        /\ ien' = ien
    BY <1>t DEF Timeout, Host, HostStep, HostSends, HostPauses, HostTakes, WriteControl,
                IInv, EnablesAgree, DriverType
  <1>2. CoreType' /\ Len(wfifo') <= Len(wfifo)
    <2>1. CASE Timeout
      <3>1. UNCHANGED <<rfifo, wfifo, pause_irq, host>> /\ ac' \in BOOLEAN
        <4>1. CASE ac
          BY <2>1, <4>1 DEF Timeout, WriteControl
        <4>2. CASE ~ac
          BY <1>t, <2>1, <4>2 DEF Timeout, CoreType
        <4>. QED BY <4>1, <4>2
      <3>. QED BY <1>t, <1>1, <3>1, LenProperties DEF CoreType
    <2>2. CASE HostSends
      <3>1. PICK b \in Bytes : host' = [host EXCEPT !.next = b]
        BY <2>2 DEF HostSends
      <3>2. host' \in [next : Bytes, got : Bytes] /\ host.next \in Bytes
        BY <1>t, <3>1 DEF CoreType
      <3>3. rfifo' \in Seq(Bytes)
        BY <1>t, <2>2, <3>2, AppendProperties DEF CoreType, HostSends
      <3>. QED BY <1>t, <1>1, <2>2, <3>2, <3>3, LenProperties DEF CoreType, HostSends
    <2>3. CASE HostPauses
      BY <1>t, <1>1, <2>3, LenProperties DEF CoreType, HostPauses, RValid
    <2>4. CASE HostTakes
      <3>1. Head(wfifo) \in Bytes /\ wfifo' \in Seq(Bytes) /\ Len(wfifo') = Len(wfifo) - 1
        BY <1>t, <2>4, HeadTailProperties DEF CoreType, HostTakes
      <3>2. host' \in [next : Bytes, got : Bytes]
        BY <1>t, <2>4, <3>1 DEF CoreType, HostTakes
      <3>. QED BY <1>t, <1>1, <2>4, <3>1, <3>2, LenProperties DEF CoreType, HostTakes
    <2>. QED BY <2>1, <2>2, <2>3, <2>4 DEF Host, HostStep
  <1>3. TypeOK'
    BY <1>t, <1>1, <1>2 DEF TypeOK, RingType, DriverType, CallType
  <1>4. RoomIsKept'
    <2>1. Len(wfifo) \in Nat /\ Len(wfifo') \in Nat /\ isr.room \in Nat
      BY <1>t, <1>2, LenProperties DEF CoreType, DriverType, Handler
    <2>. QED BY <1>t, <1>1, <1>2, <2>1 DEF IInv, RoomIsKept
  <1>5. WriterOwnsChunk' /\ ReaderOwnsChunk' /\ EnablesAgree'
    BY <1>1 DEF IInv, WriterOwnsChunk, ReaderOwnsChunk, EnablesAgree, Holds, Used
  <1>6. NoLostKick' /\ ReceiverComesBack'
    BY <1>1 DEF IInv, NoLostKick, ReceiverComesBack
  <1>. QED BY <1>3, <1>4, <1>5, <1>6 DEF IInv

-----------------------------------------------------------------------------
(* What holds of the driver, always                                        *)

LEMMA NextKeepsIInv == IInv /\ [Next]_vars => IInv'
  <1>1. ASSUME IInv, UNCHANGED vars PROVE IInv'
    <2>. USE <1>1 DEF vars, coreVars, ringVars, callVars, taskVars
    <2>1. TypeOK'
      BY DEF IInv, TypeOK, CoreType, RingType, DriverType, CallType
    <2>2. WriterOwnsChunk' /\ ReaderOwnsChunk' /\ EnablesAgree' /\ RoomIsKept'
      BY DEF IInv, WriterOwnsChunk, ReaderOwnsChunk, EnablesAgree, RoomIsKept, Holds, Used
    <2>3. NoLostKick' /\ ReceiverComesBack'
      BY DEF IInv, NoLostKick, ReceiverComesBack
    <2>. QED BY <2>1, <2>2, <2>3 DEF IInv
  <1>2. ASSUME IInv, TaskStep PROVE IInv'
    BY <1>2, WriterKeepsIInv, ReaderKeepsIInv, CallsKeepIInv DEF TaskStep
  <1>. QED BY <1>1, <1>2, HandlerKeepsIInv, CallsKeepIInv, OutsideKeepsIInv DEF Next

LEMMA IInvAlways == Spec => []IInv
  <1>. QED BY InitIInv, NextKeepsIInv, PTL DEF Spec

(* Indices, counters and buffers keep their types for every size of ring   *)
(* and FIFO.                                                               *)
THEOREM TypesHold == Spec => []TypeOK
  <1>. QED BY IInvAlways, InvariantsFollow, PTL

(* init.c:138, write.c:105, read.c:121: the indices alone keep task and    *)
(* handler off each other's cells, with no lock and no interrupts masked   *)
(* during a copy.                                                          *)
THEOREM CopiesAreSafe == Spec => []CopiesOwnCells
  <1>. QED BY IInvAlways, InvariantsFollow, PTL

(* write.c:132, init.c:193: characters in the transmit ring are never left *)
(* without an interrupt that sends them.                                   *)
THEOREM KickIsNotLost == Spec => []NoLostKick
  <1>. QED BY IInvAlways, InvariantsFollow, PTL

(* init.c:162, read.c:186: receiving is turned off only over a ring that   *)
(* has something to read, and the reader that empties it turns it on.      *)
THEOREM ReceivingComesBack == Spec => []ReceiverComesBack
  <1>. QED BY IInvAlways, InvariantsFollow, PTL

(* init.c:173: the space the handler read stays there while it uses it.    *)
THEOREM RoomStaysThere == Spec => []RoomIsThere
  <1>. QED BY IInvAlways, InvariantsFollow, PTL
-----------------------------------------------------------------------------
(* Sequences: a queue in two parts, one before the other                   *)

(* A character goes from the second part to the first.                     *)
LEMMA MovesUp ==
    ASSUME NEW S, NEW w \in Seq(S), NEW c \in Seq(S), c # <<>>
    PROVE  Append(w, Head(c)) \o Tail(c) = w \o c
  <1>1. Head(c) \in S /\ Tail(c) \in Seq(S)
    BY HeadTailProperties
  <1>2. c = <<Head(c)>> \o Tail(c)
    <2>1. SubSeq(c, 1, Len(c)) = <<c[1]>> \o SubSeq(c, 2, Len(c)) /\ Len(c) \in Nat \ {0}
      BY SubSeqRecursiveFirst, EmptySeq
    <2>2. SubSeq(c, 1, Len(c)) = c /\ Tail(c) = SubSeq(c, 2, Len(c))
      BY SubSeqFull, TailIsSubSeq
    <2>. QED BY <2>1, <2>2
  <1>3. <<Head(c)>> \in Seq(S)
    BY <1>1
  <1>4. Append(w, Head(c)) = w \o <<Head(c)>>
    BY <1>1, AppendIsConcat
  <1>. QED BY <1>1, <1>2, <1>3, <1>4, ConcatAssociative

(* The first k characters of a queue are those of its first part, and what *)
(* follows them is what follows them there.                                *)
LEMMA FrontOfQueue ==
    ASSUME NEW S, NEW w \in Seq(S), NEW c \in Seq(S), NEW k \in 1 .. Len(w)
    PROVE  /\ SubSeq(w \o c, 1, k) = SubSeq(w, 1, k)
           /\ SubSeq(w \o c, k + 1, Len(w \o c)) = SubSeq(w, k + 1, Len(w)) \o c
           /\ k \in 1 .. Len(w \o c)
  <1>. DEFINE q == w \o c
              r == SubSeq(w, k + 1, Len(w))
  <1>1. Len(w) \in Nat /\ Len(c) \in Nat
    BY LenProperties
  <1>2. /\ q \in Seq(S) /\ Len(q) = Len(w) + Len(c)
        /\ \A i \in 1 .. Len(w) + Len(c) : q[i] = IF i <= Len(w) THEN w[i] ELSE c[i - Len(w)]
    BY ConcatProperties
  <1>3. \A i \in k + 1 .. Len(w) : w[i] \in S
    BY <1>1, ElementOfSeq
  <1>4. /\ r \in Seq(S) /\ Len(r) = Len(w) - k
        /\ \A i \in 1 .. Len(w) - k : r[i] = w[k + i]
    <2>1. /\ r \in Seq(S) /\ Len(r) = IF k + 1 <= Len(w) THEN Len(w) - (k + 1) + 1 ELSE 0
          /\ \A i \in 1 .. Len(w) - (k + 1) + 1 : r[i] = w[(k + 1) + i - 1]
      BY <1>1, <1>3, SubSeqProperties
    <2>. QED BY <1>1, <2>1
  <1>5. /\ r \o c \in Seq(S) /\ Len(r \o c) = Len(w) - k + Len(c)
        /\ \A i \in 1 .. Len(w) - k + Len(c) :
              (r \o c)[i] = IF i <= Len(w) - k THEN r[i] ELSE c[i - (Len(w) - k)]
    BY <1>4, ConcatProperties
  <1>6. \A i \in k + 1 .. Len(q) : q[i] \in S
    BY <1>1, <1>2, ElementOfSeq
  <1>. HIDE DEF q, r
  <1>7. /\ SubSeq(q, k + 1, Len(q)) \in Seq(S)
        /\ Len(SubSeq(q, k + 1, Len(q))) = Len(w) - k + Len(c)
        /\ \A i \in 1 .. Len(w) - k + Len(c) : SubSeq(q, k + 1, Len(q))[i] = q[k + i]
    <2>1. /\ SubSeq(q, k + 1, Len(q)) \in Seq(S)
          /\ Len(SubSeq(q, k + 1, Len(q))) = IF k + 1 <= Len(q) THEN Len(q) - (k + 1) + 1 ELSE 0
          /\ \A i \in 1 .. Len(q) - (k + 1) + 1 :
                SubSeq(q, k + 1, Len(q))[i] = q[(k + 1) + i - 1]
      BY <1>1, <1>2, <1>6, SubSeqProperties
    <2>. QED BY <1>1, <1>2, <2>1
  <1>8. ASSUME NEW i \in 1 .. Len(w) - k + Len(c)
        PROVE  SubSeq(q, k + 1, Len(q))[i] = (r \o c)[i]
    <2>1. k + i \in 1 .. Len(w) + Len(c)
      BY <1>1
    <2>2. SubSeq(q, k + 1, Len(q))[i] = IF k + i <= Len(w) THEN w[k + i] ELSE c[k + i - Len(w)]
      BY <1>2, <1>7, <2>1
    <2>3. (r \o c)[i] = IF i <= Len(w) - k THEN w[k + i] ELSE c[i - (Len(w) - k)]
      BY <1>1, <1>4, <1>5
    <2>4. (k + i <= Len(w) <=> i <= Len(w) - k) /\ k + i - Len(w) = i - (Len(w) - k)
      BY <1>1
    <2>5. CASE i <= Len(w) - k
      BY <2>2, <2>3, <2>4, <2>5
    <2>6. CASE ~(i <= Len(w) - k)
      BY <2>2, <2>3, <2>4, <2>6
    <2>. QED BY <2>5, <2>6
  <1>9. SubSeq(q, k + 1, Len(q)) = r \o c
    BY <1>5, <1>7, <1>8, SeqEqual
  <1>10. 1 \in 1 .. Len(w) /\ k \in 1 .. Len(q)
    BY <1>1, <1>2
  <1>11. SubSeq(q, 1, k) = SubSeq(w, 1, k)
    BY <1>10, SubSeqOfConcat1 DEF q
  <1>. QED BY <1>9, <1>10, <1>11 DEF q, r

-----------------------------------------------------------------------------
(* What a ring holds                                                       *)

(* An index moved on by k cells, and the cell of the k-th oldest character.*)
Ahead(i, k) == (i + k) % BufLen
CellAt(out, k) == (out + k - 1) % BufLen

LEMMA AheadIs ==
    ASSUME NEW i \in Index, NEW k \in 0 .. BufLen
    PROVE  /\ Ahead(i, k) \in Index
           /\ Ahead(i, k) = IF i + k < BufLen THEN i + k ELSE i + k - BufLen
  <1>. DEFINE x == i + k
  <1>1. i \in 0 .. BufLen - 1 /\ BufLen \in Nat /\ BufLen > 1
    BY DriverConstants DEF Index
  <1>2. x \in Nat /\ x < BufLen + BufLen
    BY <1>1
  <1>. HIDE DEF x
  <1>3. x % BufLen = IF x < BufLen THEN x ELSE x - BufLen
    BY <1>2, Wrapping
  <1>4. Ahead(i, k) = IF x < BufLen THEN x ELSE x - BufLen
    BY <1>3 DEF Ahead, x
  <1>5. Ahead(i, k) \in 0 .. BufLen - 1
    BY <1>1, <1>2, <1>4
  <1>6. Ahead(i, k) = IF i + k < BufLen THEN i + k ELSE i + k - BufLen
    BY <1>1, <1>4 DEF x
  <1>. QED BY <1>5, <1>6 DEF Index

LEMMA CellIs ==
    ASSUME NEW out \in Index, NEW k \in 1 .. BufLen
    PROVE  /\ CellAt(out, k) \in Index
           /\ CellAt(out, k) = IF out + k <= BufLen THEN out + k - 1
                               ELSE out + k - 1 - BufLen
  <1>1. out \in 0 .. BufLen - 1 /\ BufLen \in Nat /\ BufLen > 1
    BY DriverConstants DEF Index
  <1>2. k - 1 \in 0 .. BufLen /\ out + (k - 1) = out + k - 1
        /\ (out + (k - 1) < BufLen <=> out + k <= BufLen)
    BY <1>1
  <1>3. CellAt(out, k) = Ahead(out, k - 1)
    BY <1>2 DEF CellAt, Ahead
  <1>4. /\ Ahead(out, k - 1) \in Index
        /\ Ahead(out, k - 1) = IF out + (k - 1) < BufLen THEN out + (k - 1)
                               ELSE out + (k - 1) - BufLen
    BY <1>2, AheadIs
  <1>. QED BY <1>2, <1>3, <1>4

LEMMA UsedIs ==
    ASSUME NEW in \in Index, NEW out \in Index
    PROVE  /\ Used(in, out) \in 0 .. BufLen - 1
           /\ Used(in, out) = IF in >= out THEN in - out ELSE in + BufLen - out
  <1>1. Used(in, out) = IF in >= out THEN in - out ELSE in + BufLen - out
    BY RingArithmetic
  <1>. QED BY <1>1, DriverConstants DEF Index

(* The characters of a ring, oldest first.                                 *)
LEMMA ContentIs ==
    ASSUME NEW buf \in [Index -> Bytes], NEW in \in Index, NEW out \in Index
    PROVE  /\ Content(buf, in, out) \in Seq(Bytes)
           /\ Len(Content(buf, in, out)) = Used(in, out)
           /\ \A k \in 1 .. Used(in, out) : Content(buf, in, out)[k] = buf[CellAt(out, k)]
  <1>1. Used(in, out) \in Nat /\ \A k \in 1 .. Used(in, out) : k \in 1 .. BufLen
    BY UsedIs, DriverConstants
  <1>2. Content(buf, in, out) = [k \in 1 .. Used(in, out) |-> buf[CellAt(out, k)]]
    BY DEF Content, CellAt
  <1>3. ASSUME NEW k \in 1 .. Used(in, out) PROVE buf[CellAt(out, k)] \in Bytes
    BY <1>1, CellIs
  <1>4. Content(buf, in, out) \in [1 .. Used(in, out) -> Bytes]
    BY <1>2, <1>3
  <1>5. Content(buf, in, out) \in Seq(Bytes) /\ Len(Content(buf, in, out)) = Used(in, out)
    BY <1>1, <1>4, FunctionIsSeq
  <1>. QED BY <1>2, <1>5

(* Cells outside those in use may be written.                              *)
LEMMA FreeCellsDoNotShow ==
    ASSUME NEW buf \in [Index -> Bytes], NEW new \in [Index -> Bytes],
           NEW in \in Index, NEW out \in Index,
           \A i \in Index : Holds(in, out, i) => new[i] = buf[i]
    PROVE  Content(new, in, out) = Content(buf, in, out)
  <1>1. ASSUME NEW k \in 1 .. Used(in, out)
        PROVE  CellAt(out, k) \in Index /\ Holds(in, out, CellAt(out, k))
    <2>. DEFINE i == CellAt(out, k)
    <2>1. /\ Used(in, out) \in 0 .. BufLen - 1
          /\ Used(in, out) = IF in >= out THEN in - out ELSE in + BufLen - out
      BY UsedIs
    <2>2. k \in 1 .. BufLen
      BY <2>1, DriverConstants
    <2>3. i \in Index /\ i = IF out + k <= BufLen THEN out + k - 1 ELSE out + k - 1 - BufLen
      BY <2>2, CellIs
    <2>. HIDE DEF i
    <2>4. IF out <= in THEN out <= i /\ i < in ELSE out <= i \/ i < in
      BY <2>1, <2>2, <2>3, DriverConstants DEF Index
    <2>5. Holds(in, out, i)
      BY <2>3, <2>4, RingArithmetic
    <2>. QED BY <2>3, <2>5 DEF i
  <1>2. ASSUME NEW k \in 1 .. Used(in, out)
        PROVE  Content(new, in, out)[k] = Content(buf, in, out)[k]
    BY <1>1, ContentIs
  <1>. QED BY <1>2, ContentIs, SeqEqual

(* Taking the k oldest characters of a ring.                               *)
LEMMA RingGives ==
    ASSUME NEW buf \in [Index -> Bytes], NEW in \in Index, NEW out \in Index,
           NEW k \in 1 .. Used(in, out)
    PROVE  /\ Used(in, Ahead(out, k)) = Used(in, out) - k
           /\ Content(buf, in, Ahead(out, k)) =
                  SubSeq(Content(buf, in, out), k + 1, Used(in, out))
  <1>. DEFINE new == Ahead(out, k)
              u == Used(in, out)
              c == Content(buf, in, out)
              d == Content(buf, in, new)
              s == SubSeq(c, k + 1, u)
  <1>1. /\ u \in 0 .. BufLen - 1 /\ u = (IF in >= out THEN in - out ELSE in + BufLen - out)
        /\ BufLen \in Nat /\ BufLen > 1 /\ k \in 1 .. u /\ k \in 0 .. BufLen
    BY UsedIs, DriverConstants
  <1>2. new \in Index /\ new = IF out + k < BufLen THEN out + k ELSE out + k - BufLen
    BY <1>1, AheadIs
  <1>3. Used(in, new) = IF in >= new THEN in - new ELSE in + BufLen - new
    BY <1>2, UsedIs
  <1>4. /\ c \in Seq(Bytes) /\ Len(c) = u /\ \A i \in 1 .. u : c[i] = buf[CellAt(out, i)]
        /\ d \in Seq(Bytes) /\ Len(d) = Used(in, new)
        /\ \A i \in 1 .. Used(in, new) : d[i] = buf[CellAt(new, i)]
    BY <1>2, ContentIs
  <1>. HIDE DEF new, u, c, d
  <1>5. Used(in, new) = u - k
    BY <1>1, <1>2, <1>3 DEF Index
  <1>6. /\ s \in Seq(Bytes) /\ Len(s) = u - k
        /\ \A i \in 1 .. u - k : s[i] = c[k + i]
    <2>1. \A i \in k + 1 .. u : c[i] \in Bytes
      BY <1>1, <1>4, ElementOfSeq
    <2>2. /\ s \in Seq(Bytes)
          /\ Len(s) = IF k + 1 <= u THEN u - (k + 1) + 1 ELSE 0
          /\ \A i \in 1 .. u - (k + 1) + 1 : s[i] = c[(k + 1) + i - 1]
      BY <1>1, <2>1, SubSeqProperties
    <2>. QED BY <1>1, <2>2
  <1>. HIDE DEF s
  <1>7. ASSUME NEW i \in 1 .. u - k
        PROVE  d[i] = s[i]
    <2>1. k + i \in 1 .. u /\ i \in 1 .. Used(in, new)
          /\ k + i \in 1 .. BufLen /\ i \in 1 .. BufLen
      BY <1>1, <1>5
    <2>2. CellAt(new, i) = IF new + i <= BufLen THEN new + i - 1 ELSE new + i - 1 - BufLen
      BY <1>2, <2>1, CellIs
    <2>3. CellAt(out, k + i) = IF out + (k + i) <= BufLen THEN out + (k + i) - 1
                               ELSE out + (k + i) - 1 - BufLen
      BY <2>1, CellIs
    <2>4. CellAt(new, i) = CellAt(out, k + i)
      BY <1>1, <1>2, <2>1, <2>2, <2>3 DEF Index
    <2>. QED BY <1>4, <1>6, <2>1, <2>4
  <1>8. d = s
    BY <1>4, <1>5, <1>6, <1>7, SeqEqual
  <1>. QED BY <1>5, <1>8 DEF new, u, c, d, s

(* Adding the characters t to a ring that keeps a cell free.               *)
LEMMA RingAccepts ==
    ASSUME NEW buf \in [Index -> Bytes], NEW new \in [Index -> Bytes],
           NEW in \in Index, NEW out \in Index, NEW t \in Seq(Bytes),
           Used(in, out) + Len(t) < BufLen, in + Len(t) <= BufLen,
           Content(new, in, out) = Content(buf, in, out),
           \A i \in 1 .. Len(t) : new[in + i - 1] = t[i]
    PROVE  /\ Used(Ahead(in, Len(t)), out) = Used(in, out) + Len(t)
           /\ Content(new, Ahead(in, Len(t)), out) = Content(buf, in, out) \o t
  <1>. DEFINE l == Len(t)
              next == Ahead(in, l)
              u == Used(in, out)
              c == Content(buf, in, out)
              d == Content(new, next, out)
              e == c \o t
  <1>1. /\ u \in 0 .. BufLen - 1 /\ u = (IF in >= out THEN in - out ELSE in + BufLen - out)
        /\ BufLen \in Nat /\ BufLen > 1 /\ l \in 0 .. BufLen /\ u + l < BufLen
        /\ in + l <= BufLen
    <2>1. l \in Nat
      BY LenProperties
    <2>2. u \in 0 .. BufLen - 1 /\ u = (IF in >= out THEN in - out ELSE in + BufLen - out)
      BY UsedIs
    <2>3. BufLen \in Nat /\ BufLen > 1
      BY DriverConstants
    <2>. HIDE DEF l, u
    <2>4. u + l < BufLen /\ in + l <= BufLen
      BY DEF l, u
    <2>. QED BY <2>1, <2>2, <2>3, <2>4
  <1>2. next \in Index /\ next = IF in + l < BufLen THEN in + l ELSE in + l - BufLen
    BY <1>1, AheadIs
  <1>3. Used(next, out) = IF next >= out THEN next - out ELSE next + BufLen - out
    BY <1>2, UsedIs
  <1>4. /\ c \in Seq(Bytes) /\ Len(c) = u /\ \A i \in 1 .. u : c[i] = new[CellAt(out, i)]
        /\ d \in Seq(Bytes) /\ Len(d) = Used(next, out)
        /\ \A i \in 1 .. Used(next, out) : d[i] = new[CellAt(out, i)]
    <2>1. c = Content(new, in, out)
      OBVIOUS
    <2>. HIDE DEF next, c
    <2>2. /\ d \in Seq(Bytes) /\ Len(d) = Used(next, out)
          /\ \A i \in 1 .. Used(next, out) : d[i] = new[CellAt(out, i)]
      BY <1>2, ContentIs
    <2>3. /\ c \in Seq(Bytes) /\ Len(c) = u /\ \A i \in 1 .. u : c[i] = new[CellAt(out, i)]
      BY <2>1, ContentIs
    <2>. QED BY <2>2, <2>3
  <1>5. /\ e \in Seq(Bytes) /\ Len(e) = Len(c) + l
        /\ \A i \in 1 .. Len(c) + l : e[i] = IF i <= Len(c) THEN c[i] ELSE t[i - Len(c)]
    BY <1>4, ConcatProperties
  <1>6. \A i \in 1 .. l : new[in + i - 1] = t[i]
    OBVIOUS
  <1>. HIDE DEF l, next, u, c, d, e
  <1>7. Used(next, out) = u + l
    BY <1>1, <1>2, <1>3 DEF Index
  <1>8. ASSUME NEW i \in 1 .. u + l
        PROVE  d[i] = e[i]
    <2>1. i \in 1 .. BufLen /\ i \in 1 .. Used(next, out)
      BY <1>1, <1>7
    <2>2. CellAt(out, i) = IF out + i <= BufLen THEN out + i - 1 ELSE out + i - 1 - BufLen
      BY <2>1, CellIs
    <2>3. CASE i <= u
      <3>1. i \in 1 .. u /\ i \in 1 .. Len(c) + l /\ i <= Len(c)
        BY <1>1, <1>4, <2>3
      <3>2. e[i] = c[i]
        BY <1>5, <3>1
      <3>3. c[i] = new[CellAt(out, i)] /\ d[i] = new[CellAt(out, i)]
        BY <1>4, <2>1, <3>1
      <3>. QED BY <3>2, <3>3
    <2>4. CASE ~(i <= u)
      <3>1. i - u \in 1 .. l
        BY <1>1, <2>4
      <3>2. CellAt(out, i) = in + (i - u) - 1
        BY <1>1, <2>2, <2>4 DEF Index
      <3>3. new[in + (i - u) - 1] = t[i - u]
        BY <1>6, <3>1
      <3>4. e[i] = t[i - u]
        BY <1>4, <1>5, <2>4
      <3>5. d[i] = new[CellAt(out, i)]
        BY <1>4, <2>1
      <3>. QED BY <3>2, <3>3, <3>4, <3>5
    <2>. QED BY <2>3, <2>4
  <1>9. d = e
    BY <1>4, <1>5, <1>7, <1>8, SeqEqual
  <1>. QED BY <1>7, <1>9 DEF l, next, u, c, d, e

-----------------------------------------------------------------------------
(* The chunk a writer publishes                                            *)

(* What a writer has in hand leaves one cell of the ring free, so that a   *)
(* ring it fills does not look empty; and what it is about to publish is   *)
(* what it was given.                                                      *)
WriterLeavesCell ==
    pc \in {"w_copy", "w_publish"} => Used(tx_in, tx_out) + n < BufLen
ChunkIsThere ==
    pc = "w_publish" => \A k \in 1 .. n : tx_buf[tx_in + k - 1] = data[k]

PipeInv == IInv /\ WriterLeavesCell /\ ChunkIsThere

LEMMA IndicesAndBuffers ==
    ASSUME IInv
    PROVE  /\ rx_in \in Index /\ rx_out \in Index /\ rx_buf \in [Index -> Bytes]
           /\ tx_in \in Index /\ tx_out \in Index /\ tx_buf \in [Index -> Bytes]
           /\ rfifo \in Seq(Bytes) /\ wfifo \in Seq(Bytes)
           /\ host \in [next : Bytes, got : Bytes]
           /\ data \in Seq(Bytes) /\ copied \in Seq(Bytes)
           /\ n \in 0 .. BufLen - 1 /\ space \in Nat
           /\ BufLen \in Nat /\ BufLen > 1
  <1>. QED BY CoreConstants, DriverConstants DEF IInv, TypeOK, CoreType, RingType, CallType

(* Sending a character takes the oldest one out of the ring.               *)
LEMMA TransmitTakes ==
    ASSUME IInv, TransmitChar
    PROVE  /\ tx_out' = Ahead(tx_out, 1) /\ 1 \in 1 .. Used(tx_in, tx_out)
           /\ Used(tx_in, tx_out') = Used(tx_in, tx_out) - 1
  <1>1. tx_out' = Ahead(tx_out, 1) /\ tx_out # tx_in
    BY DEF TransmitChar, Next1, Ahead
  <1>2. 1 \in 1 .. Used(tx_in, tx_out)
    <2>1. /\ Used(tx_in, tx_out) \in 0 .. BufLen - 1
          /\ Used(tx_in, tx_out) = IF tx_in >= tx_out THEN tx_in - tx_out
                                   ELSE tx_in + BufLen - tx_out
      BY IndicesAndBuffers, UsedIs
    <2>. QED BY <1>1, <2>1, IndicesAndBuffers DEF Index
  <1>3. Used(tx_in, Ahead(tx_out, 1)) = Used(tx_in, tx_out) - 1
    BY <1>2, IndicesAndBuffers, RingGives
  <1>. QED BY <1>1, <1>2, <1>3

LEMMA PipeInvKept ==
    ASSUME PipeInv, [Next]_vars
    PROVE  PipeInv'
  <1>1. IInv /\ IInv'
    BY NextKeepsIInv DEF PipeInv
  <1>2. \/ pc' \notin {"w_copy", "w_publish"}
        \/ WriteLook
        \/ WriteCopy
        \/ TransmitChar
        \/ UNCHANGED <<tx_in, tx_out, tx_buf, data, n, pc>>
    <2>1. CASE UNCHANGED vars
      BY <2>1 DEF vars, ringVars, taskVars, callVars
    <2>2. CASE Begin
      BY <2>2 DEF Begin, Write, Read, Close, Call, SetTimeout, Goto, callVars
    <2>3. CASE TaskStep
      BY <2>3 DEF TaskStep, WritePublish, WriteKick, WriteWait, WriteCheck, ReadLook, ReadCopy,
                  ReadTake, ReadEnable, ReadWait, ReadCheck, CloseWait, Return, Goto
    <2>4. CASE Interrupted \/ Poll \/ ReceiveChar \/ ReceiveNothing \/ StopReceiving
               \/ StopTransmitting
      BY <2>4 DEF Interrupted, Poll, ReceiveChar, ReceiveNothing, StopReceiving,
                  StopTransmitting, ringVars, taskVars, callVars
    <2>5. CASE Timeout \/ Host
      BY <2>5 DEF Timeout, Host, ringVars, taskVars, callVars
    <2>. QED BY <2>1, <2>2, <2>3, <2>4, <2>5 DEF Next, HandlerStep
  <1>3. CASE pc' \notin {"w_copy", "w_publish"}
    BY <1>1, <1>3 DEF PipeInv, WriterLeavesCell, ChunkIsThere
  <1>4. CASE WriteLook
    <2>. DEFINE room == Smaller(TxRoom(tx_in, tx_out), Len(data))
    <2>1. Len(data) \in Nat
      BY <1>1, IndicesAndBuffers, LenProperties
    <2>2. /\ Used(tx_in, tx_out) \in 0 .. BufLen - 1
          /\ Used(tx_in, tx_out) = IF tx_in >= tx_out THEN tx_in - tx_out
                                   ELSE tx_in + BufLen - tx_out
      BY <1>1, IndicesAndBuffers, UsedIs
    <2>3. room \in Nat /\ room + Used(tx_in, tx_out) < BufLen
      <3>. DEFINE r == TxRoom(tx_in, tx_out)
      <3>0. tx_in \in 0 .. BufLen - 1 /\ tx_out \in 0 .. BufLen - 1 /\ BufLen \in Nat
        BY <1>1, IndicesAndBuffers DEF Index
      <3>1. r \in Nat /\ r + Used(tx_in, tx_out) < BufLen
        BY ONLY <2>2, <3>0 DEF TxRoom
      <3>2. Used(tx_in, tx_out) \in Nat /\ BufLen \in Nat
        BY <2>2, DriverConstants
      <3>. HIDE DEF r
      <3>3. Smaller(r, Len(data)) \in Nat /\ Smaller(r, Len(data)) <= r
        BY <2>1, <3>1 DEF Smaller
      <3>. QED BY <3>1, <3>2, <3>3 DEF r
    <2>4. Used(tx_in, tx_out)' = Used(tx_in, tx_out)
      BY <1>4 DEF WriteLook, shared, ringVars
    <2>5. pc' = "w_copy" => n' = room
      BY <1>4 DEF WriteLook, Goto
    <2>6. pc' # "w_publish"
      BY <1>4 DEF WriteLook, Goto
    <2>. HIDE DEF room
    <2>7. Used(tx_in, tx_out)' + n' < BufLen \/ pc' # "w_copy"
      BY <1>1, <2>2, <2>3, <2>4, <2>5, IndicesAndBuffers
    <2>. QED BY <1>1, <2>6, <2>7 DEF PipeInv, WriterLeavesCell, ChunkIsThere
  <1>5. CASE WriteCopy
    <2>. USE <1>5 DEF WriteCopy, callVars
    <2>1. UNCHANGED <<tx_in, tx_out, n, data>> /\ pc = "w_copy"
      OBVIOUS
    <2>2. WriterLeavesCell'
      BY <2>1 DEF PipeInv, WriterLeavesCell, Used
    <2>3. ASSUME NEW k \in 1 .. n
          PROVE  tx_buf'[tx_in + k - 1] = data[k]
      <3>. DEFINE i == tx_in + k - 1
      <3>0. tx_in \in Nat /\ n \in Nat /\ k \in 1 .. n
        BY <1>1, IndicesAndBuffers DEF Index
      <3>1. i \in tx_in .. tx_in + n - 1
        BY ONLY <3>0
      <3>2. i \in Index
        BY <1>1, <2>1, <3>1, ChunkCells
      <3>3. i - tx_in + 1 = k
        BY ONLY <3>0
      <3>. HIDE DEF i
      <3>4. tx_buf'[i] = data[i - tx_in + 1]
        BY <3>1, <3>2
      <3>. QED BY <3>3, <3>4 DEF i
    <2>4. ChunkIsThere'
      BY <2>1, <2>3 DEF ChunkIsThere
    <2>. QED BY <1>1, <2>2, <2>4 DEF PipeInv
  <1>6. CASE TransmitChar
    <2>1. UNCHANGED <<tx_in, tx_buf, data, n, pc>>
      BY <1>6 DEF TransmitChar, taskVars, callVars
    <2>2. Used(tx_in, tx_out') = Used(tx_in, tx_out) - 1
      BY <1>1, <1>6, TransmitTakes
    <2>3. Used(tx_in, tx_out) \in 0 .. BufLen - 1
      BY <1>1, IndicesAndBuffers, UsedIs
    <2>4. Used(tx_in, tx_out)' = Used(tx_in, tx_out) - 1
      BY <2>1, <2>2 DEF Used
    <2>5. WriterLeavesCell'
      BY <1>1, <2>1, <2>3, <2>4, IndicesAndBuffers DEF PipeInv, WriterLeavesCell
    <2>6. ChunkIsThere'
      BY <2>1 DEF PipeInv, ChunkIsThere
    <2>. QED BY <1>1, <2>5, <2>6 DEF PipeInv
  <1>7. CASE UNCHANGED <<tx_in, tx_out, tx_buf, data, n, pc>>
    BY <1>1, <1>7 DEF PipeInv, WriterLeavesCell, ChunkIsThere, Used
  <1>. QED BY <1>2, <1>3, <1>4, <1>5, <1>6, <1>7

LEMMA PipeInvAlways == Spec => []PipeInv
  <1>1. Init => PipeInv
    BY InitIInv DEF Init, PipeInv, WriterLeavesCell, ChunkIsThere
  <1>2. PipeInv /\ [Next]_vars => PipeInv'
    BY PipeInvKept
  <1>. QED BY <1>1, <1>2, PTL DEF Spec

-----------------------------------------------------------------------------
(* The transmit ring as a pipe                                             *)

LEMMA TxTypes ==
    ASSUME IInv
    PROVE  /\ Content(tx_buf, tx_in, tx_out) \in Seq(Bytes)
           /\ Len(Content(tx_buf, tx_in, tx_out)) = Used(tx_in, tx_out)
           /\ TxOffer \in Seq(Bytes) /\ <<host.got>> \in Seq(Bytes)
  <1>1. host.got \in Bytes
    BY IndicesAndBuffers
  <1>2. TxOffer \in Seq(Bytes)
    BY IndicesAndBuffers DEF TxOffer
  <1>3. <<host.got>> \in Seq(Bytes)
    BY <1>1
  <1>4. tx_in \in Index /\ tx_out \in Index /\ tx_buf \in [Index -> Bytes]
    BY IndicesAndBuffers
  <1>. QED BY <1>2, <1>3, <1>4, ContentIs

(* What is under way does not change: the sender may have a new offer.     *)
LEMMA TxStutters ==
    ASSUME IInv', TxQueue' = TxQueue, host'.got = host.got
    PROVE  TxPipe!Next
  <1>1. TxOffer' \in Seq(Bytes)
    <2>1. (IInv => TxOffer \in Seq(Bytes))'
      BY TxTypes, PTL
    <2>. QED BY <2>1
  <1>. QED BY <1>1 DEF TxPipe!Next, TxPipe!Offer

(* A character sent goes from the ring to the FIFO, which has room for it. *)
LEMMA TransmitMovesUp ==
    ASSUME IInv, TransmitChar
    PROVE  TxQueue' = TxQueue /\ host' = host
  <1>. DEFINE c == Content(tx_buf, tx_in, tx_out)
  <1>1. /\ UNCHANGED <<tx_in, tx_buf, host>>
        /\ wfifo' = Append(wfifo, tx_buf[tx_out])
    <2>1. Len(wfifo) \in Nat /\ isr.room \in Nat /\ WriteDepth \in Nat
      BY CoreConstants, IndicesAndBuffers, LenProperties
         DEF IInv, TypeOK, DriverType, Handler
    <2>2. Len(wfifo) < WriteDepth
      BY <2>1 DEF TransmitChar, IInv, RoomIsKept
    <2>. QED BY <2>2 DEF TransmitChar, WriteData
  <1>2. /\ tx_out' = Ahead(tx_out, 1) /\ 1 \in 1 .. Used(tx_in, tx_out)
        /\ Used(tx_in, tx_out) \in 0 .. BufLen - 1
    BY TransmitTakes, IndicesAndBuffers, UsedIs
  <1>3. c \in Seq(Bytes) /\ Len(c) = Used(tx_in, tx_out)
    BY TxTypes
  <1>4. c # <<>>
    BY <1>2, <1>3, EmptySeq
  <1>5. Content(tx_buf, tx_in, Ahead(tx_out, 1)) = Tail(c)
    <2>1. Content(tx_buf, tx_in, Ahead(tx_out, 1)) = SubSeq(c, 1 + 1, Used(tx_in, tx_out))
      BY <1>2, IndicesAndBuffers, RingGives
    <2>. HIDE DEF c
    <2>. QED BY <1>3, <1>4, <2>1, TailIsSubSeq
  <1>6. Head(c) = tx_buf[tx_out]
    <2>1. 1 \in 1 .. BufLen
      BY IndicesAndBuffers
    <2>2. CellAt(tx_out, 1) = tx_out
      <3>1. CellAt(tx_out, 1) = IF tx_out + 1 <= BufLen THEN tx_out + 1 - 1
                                ELSE tx_out + 1 - 1 - BufLen
        BY <2>1, IndicesAndBuffers, CellIs
      <3>. QED BY <3>1, IndicesAndBuffers DEF Index
    <2>3. c[1] = tx_buf[CellAt(tx_out, 1)]
      BY <1>2, IndicesAndBuffers, ContentIs
    <2>4. Head(c) = c[1]
      OBVIOUS
    <2>. QED BY <2>2, <2>3, <2>4
  <1>7. TxQueue' = Append(wfifo, tx_buf[tx_out]) \o Content(tx_buf, tx_in, Ahead(tx_out, 1))
    BY <1>1, <1>2 DEF TxQueue, Content, Used
  <1>8. TxQueue = wfifo \o c
    BY DEF TxQueue
  <1>. HIDE DEF c
  <1>. QED BY <1>1, <1>3, <1>4, <1>5, <1>6, <1>7, <1>8, IndicesAndBuffers, MovesUp

(* memcpy fills free cells: nothing is under way that was not.             *)
LEMMA CopyDoesNotShow ==
    ASSUME IInv, WriteCopy
    PROVE  TxQueue' = TxQueue /\ host' = host
  <1>1. /\ UNCHANGED <<coreVars, tx_in, tx_out>> /\ pc = "w_copy"
        /\ tx_buf' = [i \in Index |-> IF i \in tx_in .. tx_in + n - 1
                                      THEN data[i - tx_in + 1] ELSE tx_buf[i]]
    BY DEF WriteCopy
  <1>2. ASSUME NEW i \in Index, Holds(tx_in, tx_out, i)
        PROVE  tx_buf'[i] = tx_buf[i]
    <2>1. i \notin tx_in .. tx_in + n - 1
      BY <1>1, <1>2, ChunkCells
    <2>. QED BY <1>1, <2>1
  <1>3. tx_buf' \in [Index -> Bytes]
    <2>1. ASSUME NEW i \in Index, i \in tx_in .. tx_in + n - 1
          PROVE  data[i - tx_in + 1] \in Bytes
      <3>1. n \in 1 .. Len(data)
        BY <1>1 DEF IInv, WriterOwnsChunk
      <3>2. tx_in \in Nat /\ n \in Nat /\ data \in Seq(Bytes) /\ Len(data) \in Nat
        BY IndicesAndBuffers, LenProperties DEF Index
      <3>3. i - tx_in + 1 \in 1 .. Len(data)
        BY ONLY <2>1, <3>1, <3>2
      <3>. QED BY <3>2, <3>3, ElementOfSeq
    <2>2. tx_buf \in [Index -> Bytes]
      BY IndicesAndBuffers
    <2>. QED BY ONLY <1>1, <2>1, <2>2
  <1>4. Content(tx_buf', tx_in, tx_out) = Content(tx_buf, tx_in, tx_out)
    BY <1>2, <1>3, IndicesAndBuffers, FreeCellsDoNotShow
  <1>5. TxQueue' = wfifo \o Content(tx_buf', tx_in, tx_out)
    BY <1>1 DEF TxQueue, Content, Used, coreVars
  <1>. QED BY <1>1, <1>4, <1>5 DEF TxQueue, coreVars

(* Publishing an index puts the chunk under way, and nothing else.         *)
LEMMA PublishPuts ==
    ASSUME PipeInv, WritePublish
    PROVE  TxPipe!Next
  <1>. DEFINE t == SubSeq(data, 1, n)
              c == Content(tx_buf, tx_in, tx_out)
  <1>1. /\ UNCHANGED <<wfifo, host, tx_out, tx_buf>> /\ pc = "w_publish" /\ pc' = "w_look"
        /\ tx_in' = Ahead(tx_in, n) /\ data' = SubSeq(data, n + 1, Len(data))
    BY DEF WritePublish, Goto, Ahead, coreVars
  <1>2. IInv /\ n \in 1 .. Len(data) /\ tx_in + n <= BufLen /\ Used(tx_in, tx_out) + n < BufLen
    BY <1>1 DEF PipeInv, IInv, WriterOwnsChunk, WriterLeavesCell
  <1>3. Len(data) \in Nat
    BY <1>2, IndicesAndBuffers, LenProperties
  <1>4. /\ t \in Seq(Bytes) /\ Len(t) = n
        /\ \A i \in 1 .. n : t[i] = data[i]
    <2>1. \A i \in 1 .. n : data[i] \in Bytes
      BY <1>2, <1>3, IndicesAndBuffers, ElementOfSeq
    <2>2. /\ t \in Seq(Bytes)
          /\ Len(t) = IF 1 <= n THEN n - 1 + 1 ELSE 0
          /\ \A i \in 1 .. n - 1 + 1 : t[i] = data[1 + i - 1]
      BY <1>2, <1>3, <2>1, SubSeqProperties
    <2>. QED BY <1>2, <1>3, <2>2
  <1>. HIDE DEF t
  <1>5. \A i \in 1 .. Len(t) : tx_buf[tx_in + i - 1] = t[i]
    BY <1>1, <1>4 DEF PipeInv, ChunkIsThere
  <1>6. Content(tx_buf, Ahead(tx_in, Len(t)), tx_out) = c \o t
    <2>1. Used(tx_in, tx_out) + Len(t) < BufLen /\ tx_in + Len(t) <= BufLen
      BY <1>2, <1>4
    <2>2. /\ tx_in \in Index /\ tx_out \in Index /\ tx_buf \in [Index -> Bytes]
          /\ t \in Seq(Bytes)
      BY <1>2, <1>4, IndicesAndBuffers
    <2>. QED BY ONLY <1>5, <2>1, <2>2, RingAccepts
  <1>7. TxQueue' = wfifo \o (c \o t)
    <2>1. TxQueue' = wfifo \o Content(tx_buf, Ahead(tx_in, n), tx_out)
      BY <1>1 DEF TxQueue, Content, Used
    <2>. QED BY <1>4, <1>6, <2>1
  <1>8. TxQueue' = TxQueue \o t
    <2>1. c \in Seq(Bytes) /\ wfifo \in Seq(Bytes)
      BY <1>2, TxTypes, IndicesAndBuffers
    <2>2. TxQueue = wfifo \o c
      BY DEF TxQueue
    <2>. HIDE DEF c
    <2>3. (wfifo \o c) \o t = wfifo \o (c \o t)
      BY <1>4, <2>1, ConcatAssociative
    <2>. QED BY <1>7, <2>2, <2>3
  <1>9. TxOffer = data /\ TxOffer' = SubSeq(data, n + 1, Len(data))
    BY <1>1 DEF TxOffer, Writing
  <1>10. TxPipe!Put(n)
    BY <1>1, <1>8, <1>9 DEF TxPipe!Put, t
  <1>. QED BY <1>2, <1>9, <1>10 DEF TxPipe!Next

(* The host takes the oldest character under way.                          *)
LEMMA HostTakesOne ==
    ASSUME IInv, Host, HostTakes
    PROVE  TxPipe!Next
  <1>. DEFINE c == Content(tx_buf, tx_in, tx_out)
  <1>1. /\ UNCHANGED <<pc, data, tx_in, tx_out, tx_buf>>
        /\ wfifo # <<>> /\ wfifo' = Tail(wfifo) /\ host' = [host EXCEPT !.got = Head(wfifo)]
    BY DEF Host, HostTakes, ringVars, taskVars, callVars
  <1>2. c \in Seq(Bytes) /\ wfifo \in Seq(Bytes) /\ host'.got = Head(wfifo)
    BY <1>1, TxTypes, IndicesAndBuffers
  <1>3. Len(wfifo) \in Nat \ {0}
    BY <1>1, <1>2, EmptySeq
  <1>4. Tail(wfifo) = SubSeq(wfifo, 1 + 1, Len(wfifo)) /\ <<Head(wfifo)>> = SubSeq(wfifo, 1, 1)
    <2>1. Tail(wfifo) = SubSeq(wfifo, 2, Len(wfifo))
      BY <1>1, <1>2, TailIsSubSeq
    <2>2. SubSeq(wfifo, 1, 1) = <<wfifo[1]>> \o SubSeq(wfifo, 2, 1)
      BY <1>2, <1>3, SubSeqRecursiveFirst
    <2>3. SubSeq(wfifo, 2, 1) = <<>>
      BY SubSeqEmpty
    <2>4. <<wfifo[1]>> \in Seq(Bytes) /\ Head(wfifo) = wfifo[1]
      BY <1>1, <1>2, <1>3, HeadTailProperties
    <2>. QED BY <2>1, <2>2, <2>3, <2>4, ConcatEmptySeq
  <1>5. TxQueue = wfifo \o c /\ TxQueue' = Tail(wfifo) \o c
    BY <1>1 DEF TxQueue, Content, Used
  <1>6. TxOffer' = TxOffer
    BY <1>1 DEF TxOffer
  <1>. HIDE DEF c
  <1>7. 1 \in 1 .. Len(wfifo)
    BY <1>3
  <1>8. /\ SubSeq(TxQueue, 1, 1) = SubSeq(wfifo, 1, 1)
        /\ SubSeq(TxQueue, 1 + 1, Len(TxQueue)) = SubSeq(wfifo, 1 + 1, Len(wfifo)) \o c
        /\ 1 \in 1 .. Len(TxQueue)
    BY <1>2, <1>5, <1>7, FrontOfQueue
  <1>9. TxPipe!Take(1)
    BY <1>2, <1>4, <1>5, <1>6, <1>8 DEF TxPipe!Take
  <1>. QED BY <1>8, <1>9 DEF TxPipe!Next

-----------------------------------------------------------------------------
(* The receive ring as a pipe                                              *)

(* The chunk a reader copies, and has copied, is the front of the ring.    *)
LEMMA ReaderHasFront ==
    ASSUME IInv, pc \in {"r_copy", "r_take"}
    PROVE  n \in 1 .. Used(rx_in, rx_out) /\ rx_out + n <= BufLen
  <1>1. n \in 1 .. space /\ rx_out + n <= BufLen
    BY DEF IInv, ReaderOwnsChunk
  <1>2. /\ Used(rx_in, rx_out) \in 0 .. BufLen - 1
        /\ Used(rx_in, rx_out) = IF rx_in >= rx_out THEN rx_in - rx_out
                                 ELSE rx_in + BufLen - rx_out
    BY IndicesAndBuffers, UsedIs
  <1>. DEFINE i == rx_out + n - 1
  <1>3. rx_in \in 0 .. BufLen - 1 /\ rx_out \in 0 .. BufLen - 1 /\ BufLen \in Nat
        /\ n \in Nat /\ n >= 1
    BY <1>1, IndicesAndBuffers DEF Index
  <1>4. i \in rx_out .. rx_out + n - 1
    BY <1>3
  <1>5. i \in Index /\ Holds(rx_in, rx_out, i)
    BY <1>4, ChunkCells
  <1>6. IF rx_out <= rx_in THEN rx_out <= i /\ i < rx_in ELSE rx_out <= i \/ i < rx_in
    BY <1>5, IndicesAndBuffers, RingArithmetic
  <1>. QED BY ONLY <1>1, <1>2, <1>3, <1>6

LEMMA RxTypes ==
    ASSUME IInv
    PROVE  /\ Content(rx_buf, rx_in, rx_out) \in Seq(Bytes)
           /\ Len(Content(rx_buf, rx_in, rx_out)) = Used(rx_in, rx_out)
           /\ Used(rx_in, rx_out) \in 0 .. BufLen - 1
           /\ RxLeft \in Seq(Bytes) /\ RxOffer \in Seq(Bytes)
  <1>. DEFINE c == Content(rx_buf, rx_in, rx_out)
              u == Used(rx_in, rx_out)
              m == IF pc = "r_take" THEN n + 1 ELSE 1
  <1>1. c \in Seq(Bytes) /\ Len(c) = u /\ u \in 0 .. BufLen - 1
    BY IndicesAndBuffers, ContentIs, UsedIs
  <1>2. m \in Nat /\ m >= 1
    BY IndicesAndBuffers
  <1>3. RxLeft = SubSeq(c, m, u)
    BY DEF RxLeft
  <1>. HIDE DEF c, u, m
  <1>4. RxLeft \in Seq(Bytes)
    <2>1. u \in Nat
      BY <1>1, DriverConstants
    <2>2. \A i \in m .. u : c[i] \in Bytes
      BY <1>1, <1>2, <2>1, ElementOfSeq
    <2>. QED BY <1>2, <1>3, <2>1, <2>2, SubSeqProperties
  <1>5. RxOffer \in Seq(Bytes)
    BY IndicesAndBuffers DEF RxOffer
  <1>. QED BY <1>1, <1>4, <1>5 DEF c, u

LEMMA RxStutters ==
    ASSUME IInv', RxQueue' = RxQueue, copied' = copied
    PROVE  RxPipe!Next
  <1>1. RxOffer' \in Seq(Bytes)
    <2>1. (IInv => RxOffer \in Seq(Bytes))'
      BY RxTypes, PTL
    <2>. QED BY <2>1
  <1>. QED BY <1>1 DEF RxPipe!Next, RxPipe!Offer

(* A character received goes from the FIFO to the ring, which has room for *)
(* it, also while a reader holds a chunk.                                  *)
LEMMA ReceiveMovesUp ==
    ASSUME IInv, ReceiveChar
    PROVE  RxQueue' = RxQueue /\ copied' = copied
  <1>. DEFINE c == Content(rx_buf, rx_in, rx_out)
              u == Used(rx_in, rx_out)
              m == IF pc = "r_take" THEN n + 1 ELSE 1
              b == Head(rfifo)
              new == [rx_buf EXCEPT ![rx_in] = b]
              d == Content(new, Ahead(rx_in, 1), rx_out)
  <1>1. /\ rx_buf' = new /\ rx_in' = Ahead(rx_in, 1) /\ rfifo' = Tail(rfifo)
        /\ rfifo # <<>> /\ Ahead(rx_in, 1) # rx_out
        /\ UNCHANGED <<rx_out, pc, n, copied>>
    BY DEF ReceiveChar, ReadData, RValid, RingFull, Next1, Ahead, taskVars, callVars
  <1>2. /\ rx_in \in 0 .. BufLen - 1 /\ rx_out \in 0 .. BufLen - 1 /\ BufLen \in Nat
        /\ BufLen > 1 /\ n \in Nat
    BY IndicesAndBuffers DEF Index
  <1>3. b \in Bytes /\ rfifo \in Seq(Bytes) /\ Tail(rfifo) \in Seq(Bytes)
    BY <1>1, IndicesAndBuffers, HeadTailProperties
  <1>4. c \in Seq(Bytes) /\ Len(c) = u /\ u \in 0 .. BufLen - 1
    BY RxTypes
  <1>5. u = IF rx_in >= rx_out THEN rx_in - rx_out ELSE rx_in + BufLen - rx_out
    BY IndicesAndBuffers, UsedIs
  <1>6. Ahead(rx_in, 1) = IF rx_in + 1 < BufLen THEN rx_in + 1 ELSE rx_in + 1 - BufLen
    <2>1. 1 \in 0 .. BufLen
      BY <1>2
    <2>. QED BY <2>1, IndicesAndBuffers, AheadIs
  <1>7. m \in 1 .. u + 1
    <2>1. pc = "r_take" => n \in 1 .. u
      BY ReaderHasFront
    <2>. HIDE DEF u
    <2>. QED BY <1>2, <1>4, <2>1
  <1>8. new \in [Index -> Bytes]
    BY <1>3, IndicesAndBuffers
  <1>9. Content(new, rx_in, rx_out) = c
    <2>1. ASSUME NEW i \in Index, Holds(rx_in, rx_out, i)
          PROVE  new[i] = rx_buf[i]
      <3>1. IF rx_out <= rx_in THEN rx_out <= i /\ i < rx_in ELSE rx_out <= i \/ i < rx_in
        BY <2>1, IndicesAndBuffers, RingArithmetic
      <3>2. i # rx_in
        BY <1>2, <3>1
      <3>. QED BY <3>2, IndicesAndBuffers
    <2>2. rx_in \in Index /\ rx_out \in Index /\ rx_buf \in [Index -> Bytes]
      BY IndicesAndBuffers
    <2>. HIDE DEF new
    <2>. QED BY <1>8, <2>1, <2>2, FreeCellsDoNotShow
  <1>10. /\ Used(Ahead(rx_in, 1), rx_out) = u + 1
         /\ d = c \o <<b>>
    <2>. DEFINE t == <<b>>
    <2>1. t \in Seq(Bytes) /\ Len(t) = 1 /\ t[1] = b
      BY <1>3
    <2>2. new[rx_in] = b
      BY IndicesAndBuffers
    <2>3. u + 1 < BufLen /\ rx_in + 1 <= BufLen
      BY <1>1, <1>2, <1>4, <1>5, <1>6
    <2>. HIDE DEF t, new
    <2>4. \A i \in 1 .. Len(t) : new[rx_in + i - 1] = t[i]
      <3>1. rx_in + 1 - 1 = rx_in
        BY <1>2
      <3>2. \A i \in 1 .. Len(t) : i = 1
        BY <2>1
      <3>. QED BY <2>1, <2>2, <3>1, <3>2
    <2>5. u + Len(t) < BufLen /\ rx_in + Len(t) <= BufLen
      BY <2>1, <2>3
    <2>6. /\ Used(Ahead(rx_in, Len(t)), rx_out) = u + Len(t)
          /\ Content(new, Ahead(rx_in, Len(t)), rx_out) = c \o t
      <3>1. /\ rx_in \in Index /\ rx_out \in Index /\ rx_buf \in [Index -> Bytes]
            /\ Content(new, rx_in, rx_out) = Content(rx_buf, rx_in, rx_out)
        BY <1>9, IndicesAndBuffers
      <3>. QED BY ONLY <1>8, <2>1, <2>4, <2>5, <3>1, RingAccepts
    <2>. QED BY <2>1, <2>6 DEF t
  <1>11. RxQueue = SubSeq(c, m, u) \o rfifo
    BY DEF RxQueue, RxLeft
  <1>12. RxQueue' = SubSeq(c \o <<b>>, m, u + 1) \o Tail(rfifo)
    <2>1. RxQueue' = SubSeq(d, m, Used(Ahead(rx_in, 1), rx_out)) \o Tail(rfifo)
      BY <1>1 DEF RxQueue, RxLeft, Content, Used
    <2>. QED BY <1>10, <2>1
  <1>. HIDE DEF c, u, m, b, new, d
  <1>13. SubSeq(c \o <<b>>, m, u + 1) = SubSeq(c, m, u) \o <<b>>
    <2>. DEFINE e == c \o <<b>>
    <2>1. u \in Nat /\ m \in 1 .. u + 1
      BY <1>2, <1>4, <1>7
    <2>2. e = Append(c, b)
      BY <1>3, <1>4, AppendIsConcat
    <2>3. /\ e \in Seq(Bytes) /\ Len(e) = u + 1 /\ e[u + 1] = b
          /\ \A i \in 1 .. u : e[i] = c[i]
      BY <1>3, <1>4, <2>2, AppendProperties
    <2>. HIDE DEF e
    <2>4. m \in 1 .. Len(e) /\ u + 1 \in m .. Len(e)
      BY <2>1, <2>3
    <2>5. SubSeq(e, m, u + 1) = SubSeq(e, m, (u + 1) - 1) \o <<e[u + 1]>>
      BY ONLY <2>3, <2>4, SubSeqRecursiveSecond
    <2>6. (u + 1) - 1 = u
      BY <2>1
    <2>7. SubSeq(e, m, u) = SubSeq(c, m, u)
      <3>1. \A i \in m .. u : e[i] = c[i] /\ c[i] \in Bytes
        BY <1>4, <2>1, <2>3, ElementOfSeq
      <3>2. /\ SubSeq(c, m, u) \in Seq(Bytes)
            /\ Len(SubSeq(c, m, u)) = (IF m <= u THEN u - m + 1 ELSE 0)
            /\ \A i \in 1 .. u - m + 1 : SubSeq(c, m, u)[i] = c[m + i - 1]
        BY <2>1, <3>1, SubSeqProperties
      <3>3. /\ SubSeq(e, m, u) \in Seq(Bytes)
            /\ Len(SubSeq(e, m, u)) = (IF m <= u THEN u - m + 1 ELSE 0)
            /\ \A i \in 1 .. u - m + 1 : SubSeq(e, m, u)[i] = e[m + i - 1]
        BY <2>1, <3>1, SubSeqProperties
      <3>4. ASSUME NEW i \in 1 .. Len(SubSeq(c, m, u))
            PROVE  SubSeq(e, m, u)[i] = SubSeq(c, m, u)[i]
        <4>1. i \in 1 .. u - m + 1 /\ m + i - 1 \in m .. u
          BY <2>1, <3>2
        <4>. QED BY <3>1, <3>2, <3>3, <4>1
      <3>. QED BY <3>2, <3>3, <3>4, SeqEqual
    <2>. QED BY <2>3, <2>5, <2>6, <2>7 DEF e
  <1>14. SubSeq(c, m, u) \in Seq(Bytes)
    <2>1. u \in Nat /\ m \in Nat /\ m >= 1
      BY <1>2, <1>4, <1>7
    <2>2. \A i \in m .. u : c[i] \in Bytes
      BY <1>4, <2>1, ElementOfSeq
    <2>. QED BY <2>1, <2>2, SubSeqProperties
  <1>15. SubSeq(c, m, u) \o <<b>> = Append(SubSeq(c, m, u), b)
    BY <1>3, <1>14, AppendIsConcat
  <1>16. RxQueue' = RxQueue
    BY <1>1, <1>3, <1>11, <1>12, <1>13, <1>14, <1>15, MovesUp DEF b
  <1>. QED BY <1>1, <1>16

(* A reader that has copied a chunk has taken it.                          *)
LEMMA CopyTakes ==
    ASSUME IInv, ReadCopy
    PROVE  RxPipe!Next
  <1>. DEFINE c == Content(rx_buf, rx_in, rx_out)
              u == Used(rx_in, rx_out)
  <1>1. /\ UNCHANGED <<rx_in, rx_out, rx_buf, rfifo, host, n>>
        /\ pc = "r_copy" /\ pc' = "r_take"
        /\ copied' = [k \in 1 .. n |-> rx_buf[rx_out + k - 1]]
    BY DEF ReadCopy, Goto, shared, coreVars, ringVars
  <1>2. n \in 1 .. u /\ rx_out + n <= BufLen
    BY <1>1, ReaderHasFront
  <1>3. c \in Seq(Bytes) /\ Len(c) = u /\ u \in 0 .. BufLen - 1 /\ rfifo \in Seq(Bytes)
    BY RxTypes, IndicesAndBuffers
  <1>4. \A k \in 1 .. u : c[k] = rx_buf[CellAt(rx_out, k)]
    BY IndicesAndBuffers, ContentIs
  <1>5. RxQueue = c \o rfifo
    <2>1. RxQueue = SubSeq(c, 1, u) \o rfifo
      BY <1>1 DEF RxQueue, RxLeft
    <2>. HIDE DEF c, u
    <2>. QED BY <1>3, <2>1, SubSeqFull
  <1>6. RxQueue' = SubSeq(c, n + 1, u) \o rfifo
    BY <1>1 DEF RxQueue, RxLeft, Content, Used
  <1>. HIDE DEF c, u
  <1>7. u \in Nat /\ n \in Nat /\ BufLen \in Nat /\ n <= BufLen /\ rx_out \in Nat
    BY <1>2, <1>3, IndicesAndBuffers DEF Index
  <1>8. copied' = SubSeq(c, 1, n)
    <2>1. ASSUME NEW k \in 1 .. n
          PROVE  rx_buf[rx_out + k - 1] = c[k] /\ c[k] \in Bytes
      <3>1. k \in 1 .. u /\ k \in 1 .. BufLen /\ rx_out + k <= BufLen
        BY <1>2, <1>7
      <3>2. CellAt(rx_out, k) = rx_out + k - 1
        BY <3>1, IndicesAndBuffers, CellIs
      <3>. QED BY <1>3, <1>4, <3>1, <3>2, ElementOfSeq
    <2>2. copied' \in [1 .. n -> Bytes]
      BY <1>1, <2>1
    <2>3. copied' \in Seq(Bytes) /\ Len(copied') = n
      BY <1>7, <2>2, FunctionIsSeq
    <2>4. /\ SubSeq(c, 1, n) \in Seq(Bytes)
          /\ Len(SubSeq(c, 1, n)) = (IF 1 <= n THEN n - 1 + 1 ELSE 0)
          /\ \A i \in 1 .. n - 1 + 1 : SubSeq(c, 1, n)[i] = c[1 + i - 1]
      BY <1>7, <2>1, SubSeqProperties
    <2>5. Len(SubSeq(c, 1, n)) = n
      BY <1>2, <1>7, <2>4
    <2>6. ASSUME NEW k \in 1 .. n
          PROVE  copied'[k] = SubSeq(c, 1, n)[k]
      <3>1. k \in 1 .. n - 1 + 1 /\ 1 + k - 1 = k
        BY <1>7
      <3>. QED BY <1>1, <2>1, <2>4, <3>1
    <2>. QED BY <2>3, <2>4, <2>5, <2>6, SeqEqual
  <1>9. /\ SubSeq(RxQueue, 1, n) = SubSeq(c, 1, n)
        /\ SubSeq(RxQueue, n + 1, Len(RxQueue)) = SubSeq(c, n + 1, u) \o rfifo
        /\ n \in 1 .. Len(RxQueue)
    BY <1>2, <1>3, <1>5, FrontOfQueue
  <1>10. RxOffer' = RxOffer
    BY <1>1 DEF RxOffer
  <1>11. RxPipe!Take(n)
    BY <1>6, <1>8, <1>9, <1>10 DEF RxPipe!Take
  <1>. QED BY <1>9, <1>11 DEF RxPipe!Next

(* Giving up the cells of a chunk afterwards changes nothing.              *)
LEMMA TakeDoesNotShow ==
    ASSUME IInv, ReadTake
    PROVE  RxQueue' = RxQueue /\ copied' = copied
  <1>. DEFINE c == Content(rx_buf, rx_in, rx_out)
              u == Used(rx_in, rx_out)
              d == Content(rx_buf, rx_in, Ahead(rx_out, n))
  <1>1. /\ UNCHANGED <<rx_in, rx_buf, rfifo, copied>>
        /\ pc = "r_take" /\ pc' # "r_take" /\ rx_out' = Ahead(rx_out, n)
    BY DEF ReadTake, Goto, Ahead, coreVars
  <1>2. n \in 1 .. u
    BY <1>1, ReaderHasFront
  <1>3. n \in 0 .. BufLen
    BY IndicesAndBuffers
  <1>4. /\ Used(rx_in, Ahead(rx_out, n)) = u - n
        /\ d = SubSeq(c, n + 1, u)
    BY <1>2, IndicesAndBuffers, RingGives
  <1>5. Ahead(rx_out, n) \in Index
    BY <1>3, IndicesAndBuffers, AheadIs
  <1>6. d \in Seq(Bytes) /\ Len(d) = u - n
    BY <1>4, <1>5, IndicesAndBuffers, ContentIs
  <1>7. RxQueue = SubSeq(c, n + 1, u) \o rfifo
    BY <1>1 DEF RxQueue, RxLeft
  <1>8. RxQueue' = SubSeq(d, 1, Used(rx_in, Ahead(rx_out, n))) \o rfifo
    BY <1>1 DEF RxQueue, RxLeft, Content, Used
  <1>. HIDE DEF c, u, d
  <1>9. SubSeq(d, 1, u - n) = d
    BY <1>6, SubSeqFull
  <1>. QED BY <1>1, <1>4, <1>7, <1>8, <1>9

(* What the host sends is put at the end.                                  *)
LEMMA HostSendPuts ==
    ASSUME IInv, IInv', Host, HostSends
    PROVE  RxPipe!Next
  <1>1. /\ UNCHANGED <<rx_in, rx_out, rx_buf, pc, n, copied>>
        /\ rfifo' = Append(rfifo, host.next)
    BY DEF Host, HostSends, ringVars, taskVars, callVars
  <1>2. host.next \in Bytes /\ rfifo \in Seq(Bytes) /\ RxLeft \in Seq(Bytes)
    BY RxTypes, IndicesAndBuffers
  <1>3. <<host.next>> \in Seq(Bytes) /\ Len(<<host.next>>) = 1
    BY <1>2
  <1>4. rfifo' = rfifo \o RxOffer
    BY <1>1, <1>2, AppendIsConcat DEF RxOffer
  <1>5. RxLeft' = RxLeft
    BY <1>1 DEF RxLeft, Content, Used
  <1>6. RxQueue' = RxQueue \o RxOffer
    BY <1>2, <1>3, <1>4, <1>5, ConcatAssociative DEF RxQueue, RxOffer
  <1>7. RxOffer \in Seq(Bytes) /\ Len(RxOffer) = 1
    BY <1>3 DEF RxOffer
  <1>8. SubSeq(RxOffer, 1, 1) = RxOffer
    BY <1>7, SubSeqFull
  <1>9. SubSeq(RxOffer, 1 + 1, Len(RxOffer)) = <<>>
    BY <1>7, SubSeqEmpty
  <1>10. RxOffer' \in Seq(Bytes)
    <2>1. (IInv => RxOffer \in Seq(Bytes))'
      BY RxTypes, PTL
    <2>. QED BY <2>1
  <1>11. RxPipe!Put(1)
    BY <1>1, <1>6, <1>8, <1>9, <1>10 DEF RxPipe!Put
  <1>12. 1 \in 1 .. Len(RxOffer)
    BY <1>7
  <1>. QED BY <1>11, <1>12 DEF RxPipe!Next

-----------------------------------------------------------------------------
(* Both rings                                                              *)

LEMMA StepsArePipeSteps ==
    ASSUME PipeInv, [Next]_vars
    PROVE  TxPipe!Next /\ RxPipe!Next
  <1>1. IInv /\ IInv'
    BY NextKeepsIInv DEF PipeInv
  <1>2. host \in [next : Bytes, got : Bytes]
    BY <1>1, IndicesAndBuffers
  <1>3. TxPipe!Next
    <2>1. \/ TransmitChar \/ WriteCopy \/ WritePublish \/ (Host /\ HostTakes)
          \/ UNCHANGED <<wfifo, tx_in, tx_out, tx_buf, host>>
          \/ UNCHANGED <<wfifo, tx_in, tx_out, tx_buf>> /\ HostSends
      <3>1. CASE UNCHANGED vars
        BY <3>1 DEF vars, coreVars, ringVars
      <3>2. CASE Begin
        BY <3>2 DEF Begin, Write, Read, Close, Call, SetTimeout, shared, coreVars, ringVars
      <3>3. CASE TaskStep
        BY <3>3 DEF TaskStep, WriteLook, WriteKick, WriteWait, WriteCheck, ReadLook, ReadCopy,
                    ReadTake, ReadEnable, ReadWait, ReadCheck, CloseWait, SetEnables,
                    WriteControl, shared, coreVars, ringVars
      <3>4. CASE Interrupted \/ Poll \/ ReceiveChar \/ ReceiveNothing \/ StopReceiving
                 \/ StopTransmitting
        BY <3>4 DEF Interrupted, Poll, ReceiveChar, ReceiveNothing, StopReceiving,
                    StopTransmitting, ReadData, SetEnables, WriteControl, coreVars, ringVars
      <3>5. CASE Timeout
        BY <3>5 DEF Timeout, WriteControl, coreVars, ringVars
      <3>6. CASE Host
        BY <3>6 DEF Host, HostStep, HostSends, HostPauses, ringVars
      <3>. QED BY <3>1, <3>2, <3>3, <3>4, <3>5, <3>6 DEF Next, HandlerStep
    <2>2. CASE UNCHANGED <<wfifo, tx_in, tx_out, tx_buf>> /\ HostSends
      <3>1. host'.got = host.got
        BY <1>2, <2>2 DEF HostSends
      <3>2. TxQueue' = TxQueue
        BY <2>2 DEF TxQueue, Content, Used
      <3>. QED BY <1>1, <3>1, <3>2, TxStutters
    <2>3. CASE UNCHANGED <<wfifo, tx_in, tx_out, tx_buf, host>>
      <3>1. TxQueue' = TxQueue
        BY <2>3 DEF TxQueue, Content, Used
      <3>. QED BY <1>1, <2>3, <3>1, TxStutters
    <2>. QED BY <1>1, <2>1, <2>2, <2>3, TransmitMovesUp, CopyDoesNotShow, PublishPuts,
                HostTakesOne, TxStutters
  <1>4. RxPipe!Next
    <2>1. \/ ReceiveChar \/ ReadCopy \/ ReadTake \/ (Host /\ HostSends)
          \/ /\ UNCHANGED <<rfifo, rx_in, rx_out, rx_buf, copied>>
             /\ pc = "r_take" <=> pc' = "r_take"
             /\ pc = "r_take" => n' = n
      <3>1. CASE UNCHANGED vars
        BY <3>1 DEF vars, coreVars, ringVars, taskVars, callVars
      <3>2. CASE Begin
        BY <3>2 DEF Begin, Write, Read, Close, Call, SetTimeout, Goto, shared, coreVars,
                    ringVars, callVars
      <3>3. CASE TaskStep
        BY <3>3 DEF TaskStep, WriteLook, WriteCopy, WritePublish, WriteKick, WriteWait,
                    WriteCheck, ReadLook, ReadEnable, ReadWait, ReadCheck, CloseWait,
                    SetEnables, WriteControl, Return, Goto, shared, coreVars, ringVars, callVars
      <3>4. CASE Interrupted \/ Poll \/ TransmitChar \/ ReceiveNothing \/ StopReceiving
                 \/ StopTransmitting
        BY <3>4 DEF Interrupted, Poll, TransmitChar, ReceiveNothing, StopReceiving,
                    StopTransmitting, ReadData, WriteData, SetEnables, WriteControl,
                    coreVars, ringVars, taskVars, callVars
      <3>5. CASE Timeout
        BY <3>5 DEF Timeout, WriteControl, coreVars, ringVars, taskVars, callVars
      <3>6. CASE Host
        BY <3>6 DEF Host, HostStep, HostPauses, HostTakes, ringVars, taskVars, callVars
      <3>. QED BY <3>1, <3>2, <3>3, <3>4, <3>5, <3>6 DEF Next, HandlerStep
    <2>2. CASE /\ UNCHANGED <<rfifo, rx_in, rx_out, rx_buf, copied>>
               /\ pc = "r_take" <=> pc' = "r_take"
               /\ pc = "r_take" => n' = n
      <3>1. RxQueue' = RxQueue
        BY <2>2 DEF RxQueue, RxLeft, Content, Used
      <3>. QED BY <1>1, <2>2, <3>1, RxStutters
    <2>. QED BY <1>1, <2>1, <2>2, ReceiveMovesUp, CopyTakes, TakeDoesNotShow, HostSendPuts,
                RxStutters
  <1>. QED BY <1>3, <1>4

(* init.c, read.c and write.c with the core's FIFOs implement a pipe in    *)
(* each direction: no character is lost, doubled or overtaken between the  *)
(* host and a caller, whatever the interrupts, chunks and ring sizes.      *)
THEOREM RingsImplementPipes == Spec => RingsArePipes
  <1>1. Init => TxPipe!Init /\ RxPipe!Init
    <2>. SUFFICES ASSUME Init PROVE TxPipe!Init /\ RxPipe!Init
      OBVIOUS
    <2>1. IInv
      BY InitIInv
    <2>2. /\ wfifo = <<>> /\ rfifo = <<>> /\ pc = "idle" /\ copied = <<>>
          /\ tx_in = 0 /\ tx_out = 0 /\ rx_in = 0 /\ rx_out = 0
      BY DEF Init, CoreInit
    <2>3. Used(0, 0) = 0
      BY <2>1, <2>2, IndicesAndBuffers, UsedIs DEF Index
    <2>4. Content(tx_buf, 0, 0) = <<>>
      BY <2>1, <2>2, <2>3, TxTypes, EmptySeq
    <2>5. TxQueue = <<>>
      BY <2>2, <2>4, EmptySeq, ConcatEmptySeq DEF TxQueue
    <2>6. RxLeft = <<>>
      BY <2>2, <2>3, SubSeqEmpty DEF RxLeft
    <2>7. RxQueue = <<>>
      BY <2>2, <2>6, EmptySeq, ConcatEmptySeq DEF RxQueue
    <2>8. TxPipe!Init
      BY <2>1, <2>5, TxTypes DEF TxPipe!Init
    <2>9. RxPipe!Init
      BY <2>1, <2>7, RxTypes, IndicesAndBuffers DEF RxPipe!Init
    <2>. QED BY <2>8, <2>9
  <1>2. PipeInv /\ [Next]_vars =>
            /\ [TxPipe!Next]_<<TxOffer, TxQueue, <<host.got>>>>
            /\ [RxPipe!Next]_<<RxOffer, RxQueue, copied>>
    BY StepsArePipeSteps
  <1>. QED BY <1>1, <1>2, PipeInvAlways, PTL
           DEF Spec, RingsArePipes, TxPipe!Spec, RxPipe!Spec
=============================================================================
