---------------------------- MODULE TopV2_proofs -----------------------------
(***************************************************************************)
(* Proofs about topv2: in every state of the machine the counter says how  *)
(* many pulses the transaction has had and what the shift register and the *)
(* read pipe hold; between transactions, the edges since CS# rose say what *)
(* the recovery block does.                                                *)
(***************************************************************************)
EXTENDS TopV2, TLAPS

-----------------------------------------------------------------------------
(* The invariant                                                           *)

Bit == {0, 1}
Half == Slots \cup {Nothing}
SendCa == {"RD_REG0", "MEM_WR0", "MEM_RD0"}
Transfer == {"RD_REG1", "MEM_WR1", "MEM_RD1"}

State == {"IDLE"} \cup SendCa \cup Transfer

Pipe == Nat \X Nat \X Nat

FsmRecord ==
    [state : State, counter : 0..63,
     csn : Bit, oe : Bit, clken : Bit, rwds_oe : Bit, buffer_out : [Slots -> Half],
     prev : SUBSET Strobe, dataout_reg : Pipe,
     captured : Nat, datavalid : Bit]

RwrRecord ==
    [d0 : Bit, d1 : Bit, counter : 0..RecoveryTime, stall : Bit, ca : Bit \X Bit \X Bit]

BusRecord ==
    [pulses : Nat, gap : 0..LongGap, half : Half, cut : BOOLEAN, edges : 0..CaDelay,
     early : BOOLEAN]

USE DEF RwrRecord, BusRecord

Registers ==
    /\ fsm \in FsmRecord
    /\ rwr \in RwrRecord
    /\ bus \in BusRecord

\* The counter at which a state of transfer ends.
Last(state) == CASE state = "RD_REG1" -> 16 [] state = "MEM_WR1" -> 28 [] state = "MEM_RD1" -> 32

\* The clock pulses there have been in a state.
Counted ==
    /\ fsm.state = "IDLE" =>
          fsm.counter = 0 /\ fsm.clken = 0 /\ (fsm.csn = 0 => bus.pulses = 0)
    /\ fsm.state \in SendCa =>
          /\ fsm.csn = 0 /\ fsm.counter \in 0..4
          /\ fsm.clken = (IF fsm.counter > 1 THEN 1 ELSE 0)
          /\ bus.pulses = (IF fsm.counter = 0 THEN 0 ELSE fsm.counter - 1)
    /\ fsm.state \in Transfer =>
          /\ fsm.csn = 0 /\ fsm.counter \in 0..Last(fsm.state) /\ fsm.clken = 1
          /\ bus.pulses = fsm.counter + 4
          /\ fsm.oe = (IF fsm.state = "MEM_WR1" /\ fsm.counter > 13 THEN 1 ELSE 0)

\* How far the shift register has moved, and how many slots are filled.
Moved ==
    CASE fsm.state \in SendCa -> IF fsm.counter = 0 THEN 0 ELSE fsm.counter - 1
      [] OTHER -> IF fsm.counter > 13 THEN fsm.counter - 10 ELSE 3
Filled == IF fsm.state \in {"MEM_WR0", "MEM_WR1"} THEN 18 ELSE 2

\* What the transaction has loaded: the command/address once it is through.
Wanted == [i \in Slots |-> IF i < 3 /\ bus.early THEN Nothing ELSE i]

Loads == \A i \in Slots : i + Moved <= Filled => fsm.buffer_out[i] = Wanted[i + Moved]

Loaded ==
    /\ fsm.state \in SendCa \cup {"MEM_WR1"} => Loads
    /\ fsm.csn = 0 /\ fsm.clken = 1 => bus.half = Halves[bus.pulses]
    /\ fsm.clken = 0 => bus.half = Nothing

\* How far the command/address has come since the reset.
Through ==
    /\ rwr.ca[1] = 1 <=> bus.edges > 2
    /\ rwr.ca[2] = 1 <=> bus.edges > 1
    /\ rwr.ca[3] = 1 <=> bus.edges > 0

\* The pipe lags three edges behind the pulses.
Piped ==
    /\ fsm.datavalid = 1 =>
          fsm.state = "MEM_RD1" /\ fsm.counter > 18 /\ fsm.captured = fsm.counter
    /\ fsm.state = "MEM_RD1" =>
          /\ fsm.counter > 0 => fsm.dataout_reg[3] = fsm.counter + 3
          /\ fsm.counter > 1 => fsm.dataout_reg[2] = fsm.counter + 2
          /\ fsm.counter > 2 => fsm.dataout_reg[1] = fsm.counter + 1

TransferInv == Registers /\ Counted /\ Loaded /\ Piped /\ Through

\* The edges of a transaction without those it waits for RWDS.
Progress == fsm.counter + (IF fsm.state \in Transfer THEN 5 ELSE 0)
Quiet == rwr.counter = 0 /\ rwr.stall = 0
Seen(d0, d1) == rwr.d0 = d0 /\ rwr.d1 = d1

Recovers ==
    /\ fsm.state # "IDLE" =>
          /\ bus.gap = 0
          /\ rwr.d0 = 1 => Progress = 0
          /\ rwr.d1 = 1 => Progress < 2
          /\ ~Quiet => rwr.counter + Progress <= RecoveryTime + 1
    /\ fsm.state = "IDLE" /\ fsm.csn = 0 => bus.gap = 0 /\ Quiet /\ Seen(0, 0)
    /\ fsm.state = "IDLE" /\ fsm.csn = 1 =>
          \/ bus.gap = 1 /\ Quiet /\ Seen(0, 0)
          \/ bus.gap = 2 /\ Quiet /\ Seen(1, 0)
          \/ bus.gap = 3 /\ rwr.counter = RecoveryTime /\ rwr.stall = 0 /\ Seen(1, 1)
          \/ /\ bus.gap > 3 /\ rwr.counter = RecoveryTime + 3 - bus.gap
             /\ rwr.stall = 1 /\ Seen(1, 1)
          \/ bus.gap >= RecoveryTime + 4 /\ Quiet /\ Seen(1, 1)

TopInv == TransferInv /\ Recovers

-----------------------------------------------------------------------------
(* What an edge does to the machine's registers in each state              *)

LEMMA Ranges ==
    0 \in Bit /\ 1 \in Bit /\ 0 \in 0..63 /\ 1 \in 0..63 /\ "IDLE" \in State
  BY DEF Bit, State

(* The edge also takes the strobes down for the next one.                  *)
LEMMA WithStrobes ==
    ASSUME NEW n \in FsmRecord, NEW strobes \in SUBSET Strobe,
           fsm' = [n EXCEPT !.prev = strobes]
    PROVE  /\ fsm' \in FsmRecord
           /\ fsm'.state = n.state /\ fsm'.counter = n.counter /\ fsm'.csn = n.csn
           /\ fsm'.oe = n.oe /\ fsm'.clken = n.clken /\ fsm'.buffer_out = n.buffer_out
           /\ fsm'.dataout_reg = n.dataout_reg /\ fsm'.captured = n.captured
           /\ fsm'.datavalid = n.datavalid
  BY DEF FsmRecord

\* IDLE: CS# is high, or a transaction starts with its register loaded.
Rests(n) ==
    /\ n.state = "IDLE" /\ n.counter = fsm.counter /\ n.csn = 1 /\ n.clken = fsm.clken
    /\ n.datavalid = fsm.datavalid

Starts(n) ==
    /\ rwr.stall # 1
    /\ n.state \in SendCa /\ n.counter = 0 /\ n.csn = 0 /\ n.oe = 0 /\ n.clken = 0
    /\ n.buffer_out[0] = Ca(0) /\ n.buffer_out[1] = Ca(1) /\ n.buffer_out[2] = Ca(2)
    /\ n.state = "MEM_WR0" => \A i \in Slots : i > 2 => n.buffer_out[i] = i
    /\ n.datavalid = fsm.datavalid

LEMMA BeginsMove ==
    ASSUME fsm \in FsmRecord, fsm.state = "IDLE", NEW strobes \in SUBSET Strobe
    PROVE  /\ Begins(strobes) \in FsmRecord
           /\ Rests(Begins(strobes)) \/ Starts(Begins(strobes))
  <1>. DEFINE up == IF rwr.stall = 1 THEN {} ELSE strobes \ fsm.prev
              b == [fsm.buffer_out EXCEPT ![0] = Ca(0), ![1] = Ca(1), ![2] = Ca(2)]
              all == [i \in Slots |-> IF i < 3 THEN b[i] ELSE i]
              next == IF "memr" \in up THEN "MEM_RD0"
                      ELSE IF "memw" \in up THEN "MEM_WR0" ELSE "RD_REG0"
              load == IF "memw" \in up THEN all ELSE b
  <1>0. Ca(0) \in Half /\ Ca(1) \in Half /\ Ca(2) \in Half
    BY DEF Ca, Slots, Half
  <1>1. b \in [Slots -> Half] /\ b[0] = Ca(0) /\ b[1] = Ca(1) /\ b[2] = Ca(2)
    BY <1>0 DEF FsmRecord, Slots
  <1>2. /\ all \in [Slots -> Half] /\ all[0] = Ca(0) /\ all[1] = Ca(1) /\ all[2] = Ca(2)
        /\ \A i \in Slots : i > 2 => all[i] = i
    <2>. HIDE DEF b
    <2>. QED BY <1>1 DEF Slots, Half
  <1>3. CASE up = {}
    <2>1. Begins(strobes) = [fsm EXCEPT !.csn = 1, !.buffer_out = b]
      BY <1>3 DEF Begins
    <2>. HIDE DEF b
    <2>. QED BY ZenonT(60), <1>1, <2>1, Ranges DEF FsmRecord, Rests
  <1>4. CASE up # {}
    <2>1. Begins(strobes) = [fsm EXCEPT !.state = next, !.counter = 0, !.csn = 0, !.oe = 0,
                                        !.clken = 0, !.buffer_out = load]
      BY <1>4 DEF Begins
    <2>2. rwr.stall # 1
      BY <1>4
    <2>. HIDE DEF b, all
    <2>3. /\ load \in [Slots -> Half]
          /\ load[0] = Ca(0) /\ load[1] = Ca(1) /\ load[2] = Ca(2)
          /\ next \in SendCa /\ next \in State /\ (next = "MEM_WR0" => load = all)
      BY <1>1, <1>2 DEF SendCa, State
    <2>. HIDE DEF load, next
    <2>4. Begins(strobes) \in FsmRecord
      BY ZenonT(60), <2>1, <2>3, Ranges DEF FsmRecord
    <2>5. /\ Begins(strobes).state = next /\ Begins(strobes).buffer_out = load
          /\ Begins(strobes).counter = 0 /\ Begins(strobes).csn = 0
          /\ Begins(strobes).oe = 0 /\ Begins(strobes).clken = 0
          /\ Begins(strobes).datavalid = fsm.datavalid
      BY <2>1 DEF FsmRecord
    <2>. QED BY <1>2, <2>2, <2>3, <2>4, <2>5 DEF Starts
  <1>. QED BY <1>3, <1>4

\* The bus's own value of the shift register, after a shift.
ShiftedBy(n, top) == \A i \in 0 .. top - 1 : n.buffer_out[i] = fsm.buffer_out[i + 1]

\* Command/address: wait for RWDS, raise CK's enable, three pulses, go on.
Waits(n) ==
    /\ fsm.counter = 0 /\ n.state = fsm.state /\ n.counter = fsm.counter /\ n.csn = fsm.csn
    /\ n.clken = fsm.clken /\ n.buffer_out = fsm.buffer_out

Enables(n) ==
    /\ fsm.counter = 0 /\ n.state = fsm.state /\ n.counter = 1 /\ n.csn = fsm.csn
    /\ n.clken = 0 /\ n.buffer_out = fsm.buffer_out

SendsHalf(n, keeps) ==
    /\ fsm.counter \in 1..3 /\ n.state = fsm.state /\ n.counter = fsm.counter + 1
    /\ n.csn = fsm.csn /\ n.oe = 1 /\ n.clken = 1
    /\ ShiftedBy(n, 2) /\ (~keeps => ShiftedBy(n, 18))

GoesOn(n, next) ==
    /\ fsm.counter = 4 /\ n.state = next /\ n.counter = 0 /\ n.csn = fsm.csn
    /\ n.oe = 0 /\ n.clken = fsm.clken /\ n.buffer_out = fsm.buffer_out

Sends(n, next, keeps) ==
    /\ Waits(n) \/ Enables(n) \/ SendsHalf(n, keeps) \/ GoesOn(n, next)
    /\ n.datavalid = fsm.datavalid

LEMMA Shifts ==
    ASSUME NEW b \in [Slots -> Half], NEW keeps \in BOOLEAN
    PROVE  /\ Shifted(b, keeps) \in [Slots -> Half]
           /\ \A i \in 0 .. 2 - 1 : Shifted(b, keeps)[i] = b[i + 1]
           /\ ~keeps => \A i \in 0 .. 18 - 1 : Shifted(b, keeps)[i] = b[i + 1]
  <1>1. CASE keeps
    BY <1>1 DEF Shifted, ShiftCa, Slots, Half
  <1>2. CASE ~keeps
    BY <1>2 DEF Shifted, ShiftAll, Slots, Half
  <1>. QED BY <1>1, <1>2

LEMMA SendsMove ==
    ASSUME fsm \in FsmRecord, NEW next \in Transfer, NEW keeps \in BOOLEAN,
           NEW in \in Bit, fsm.counter \in 0..4
    PROVE  /\ SendsCa(next, keeps, in) \in FsmRecord
           /\ Sends(SendsCa(next, keeps, in), next, keeps)
  <1>. DEFINE n == SendsCa(next, keeps, in)
              b == Shifted(fsm.buffer_out, keeps)
  <1>1. fsm.buffer_out \in [Slots -> Half] /\ b \in [Slots -> Half]
    BY Shifts DEF FsmRecord
  <1>2. /\ \A i \in 0 .. 2 - 1 : b[i] = fsm.buffer_out[i + 1]
        /\ ~keeps => \A i \in 0 .. 18 - 1 : b[i] = fsm.buffer_out[i + 1]
    BY <1>1, Shifts
  <1>. next \in State
    BY DEF State
  <1>3. CASE fsm.counter = 4
    <2>1. n = [Enters(next) EXCEPT !.oe = 0]
      BY <1>3 DEF SendsCa
    <2>2. n \in FsmRecord
      BY ZenonT(60), <2>1, Ranges DEF Enters, FsmRecord
    <2>3. GoesOn(n, next) /\ n.datavalid = fsm.datavalid
      BY <1>3, <2>1 DEF Enters, FsmRecord, GoesOn
    <2>. QED BY <2>2, <2>3 DEF Sends
  <1>4. CASE fsm.counter \in 1..3
    <2>1. n = [Counts EXCEPT !.buffer_out = b, !.oe = 1, !.clken = 1]
      BY <1>4 DEF SendsCa, Counts, FsmRecord
    <2>. HIDE DEF b
    <2>c. fsm.counter + 1 \in 0..63
      BY <1>4
    <2>2. n \in FsmRecord
      BY ZenonT(60), <1>1, <2>1, <2>c, Ranges DEF Counts, FsmRecord
    <2>3. /\ n.buffer_out = b /\ n.datavalid = fsm.datavalid /\ n.state = fsm.state /\ n.counter = fsm.counter + 1
          /\ n.csn = fsm.csn /\ n.oe = 1 /\ n.clken = 1
      BY <1>1, <1>4, <2>1 DEF Counts, FsmRecord
    <2>. HIDE DEF n
    <2>4. ShiftedBy(n, 2) /\ (~keeps => ShiftedBy(n, 18))
      BY <1>2, <2>3 DEF ShiftedBy
    <2>5. SendsHalf(n, keeps)
      BY <1>4, <2>3, <2>4 DEF SendsHalf
    <2>. QED BY <2>2, <2>3, <2>5 DEF Sends, n
  <1>5. CASE fsm.counter = 0 /\ in = 1
    <2>1. n = [fsm EXCEPT !.counter = 1, !.oe = 1, !.clken = 0]
      BY <1>5 DEF SendsCa
    <2>2. n \in FsmRecord
      BY ZenonT(60), <2>1, Ranges DEF FsmRecord
    <2>3. Enables(n) /\ n.datavalid = fsm.datavalid
      BY ZenonT(60), <1>5, <2>1 DEF Enables, FsmRecord
    <2>. QED BY <2>2, <2>3 DEF Sends
  <1>6. CASE fsm.counter = 0 /\ in # 1
    <2>1. n = fsm
      BY <1>6 DEF SendsCa
    <2>. QED BY <1>6, <2>1 DEF Sends, Waits
  <1>7. fsm.counter = 4 \/ fsm.counter \in 1..3 \/ fsm.counter = 0
    OBVIOUS
  <1>. QED BY <1>3, <1>4, <1>5, <1>6, <1>7

\* Transfer: another edge of it, or its end.
Continues(n) ==
    /\ n.state = fsm.state /\ n.counter = fsm.counter + 1 /\ n.csn = fsm.csn
    /\ n.clken = fsm.clken

Ends(n) ==
    n.state = "IDLE" /\ n.counter = 0 /\ n.csn = 1 /\ n.clken = 0

LEMMA ReadsRegisterMove ==
    ASSUME fsm \in FsmRecord, bus.pulses \in Nat, fsm.counter \in 0..16
    PROVE  /\ ReadsRegister \in FsmRecord /\ ReadsRegister.datavalid = fsm.datavalid
           /\ \/ fsm.counter = 16 /\ Ends(ReadsRegister)
              \/ fsm.counter < 16 /\ Continues(ReadsRegister) /\ ReadsRegister.oe = fsm.oe
  <1>. DEFINE pipe == Sampled(fsm.dataout_reg)
  <1>c. fsm.counter + 1 \in 0..63
    OBVIOUS
  <1>1. pipe \in Pipe
    BY DEF FsmRecord, Sampled, Pipe
  <1>2. CASE fsm.counter = 16
    <2>1. ReadsRegister = [Enters("IDLE") EXCEPT !.csn = 1, !.clken = 0]
      BY <1>2 DEF ReadsRegister, Finishes
    <2>. QED BY <1>2, <2>1, Ranges DEF Enters, FsmRecord, Ends
  <1>3. CASE fsm.counter < 16 /\ fsm.counter > 12
    <2>1. ReadsRegister = [Counts EXCEPT !.dataout_reg = pipe]
      BY <1>3 DEF ReadsRegister, Counts, FsmRecord
    <2>. HIDE DEF pipe
    <2>. QED BY <1>c, <1>1, <1>3, <2>1, Ranges DEF Counts, FsmRecord, Continues
  <1>4. CASE ~(fsm.counter > 12)
    <2>1. ReadsRegister = Counts /\ fsm.counter < 16
      BY <1>4 DEF ReadsRegister
    <2>. QED BY <1>c, <2>1, Ranges DEF Counts, FsmRecord, Continues
  <1>. QED BY <1>2, <1>3, <1>4

LEMMA WritesMemoryMove ==
    ASSUME fsm \in FsmRecord, fsm.counter \in 0..28
    PROVE  /\ WritesMemory \in FsmRecord /\ WritesMemory.datavalid = fsm.datavalid
           /\ \/ fsm.counter = 28 /\ Ends(WritesMemory)
              \/ /\ fsm.counter <= 12 /\ Continues(WritesMemory)
                 /\ WritesMemory.oe = fsm.oe /\ WritesMemory.buffer_out = fsm.buffer_out
              \/ /\ fsm.counter \in 13 .. 27
                 /\ WritesMemory.state = fsm.state /\ WritesMemory.counter = fsm.counter + 1
                 /\ WritesMemory.csn = fsm.csn /\ WritesMemory.oe = 1
                 /\ WritesMemory.clken = 1 /\ ShiftedBy(WritesMemory, 18)
  <1>. DEFINE b == ShiftAll(fsm.buffer_out)
              n == WritesMemory
  <1>c. fsm.counter + 1 \in 0..63
    OBVIOUS
  <1>1. b \in [Slots -> Half] /\ \A i \in 0 .. 18 - 1 : b[i] = fsm.buffer_out[i + 1]
    BY DEF FsmRecord, ShiftAll, Slots, Half
  <1>2. CASE fsm.counter = 28
    <2>1. n = [Enters("IDLE") EXCEPT !.csn = 1, !.clken = 0, !.oe = 0, !.rwds_oe = 0]
      BY <1>2 DEF WritesMemory, WriteEnds, Finishes, Enters
    <2>. QED BY <1>2, <2>1, Ranges DEF Enters, FsmRecord, Ends
  <1>3. CASE fsm.counter \in 13 .. 27
    <2>1. n = [Counts EXCEPT !.buffer_out = b, !.oe = 1, !.clken = 1, !.rwds_oe = 1]
      BY <1>3 DEF WritesMemory, Writes, Counts, FsmRecord
    <2>. HIDE DEF b
    <2>2. /\ n \in FsmRecord /\ n.datavalid = fsm.datavalid /\ n.buffer_out = b
          /\ n.state = fsm.state /\ n.counter = fsm.counter + 1
          /\ n.csn = fsm.csn /\ n.oe = 1 /\ n.clken = 1
      BY <1>c, <1>1, <2>1, Ranges DEF Counts, FsmRecord
    <2>. HIDE DEF n
    <2>3. ShiftedBy(n, 18)
      BY <1>1, <2>2 DEF ShiftedBy
    <2>. QED BY <1>3, <2>2, <2>3 DEF n
  <1>4. CASE fsm.counter <= 12
    <2>1. n = Counts
      BY <1>4 DEF WritesMemory, Writes
    <2>. QED BY <1>4, <1>c, <2>1, Ranges DEF Counts, FsmRecord, Continues
  <1>. QED BY <1>2, <1>3, <1>4

LEMMA ReadsMemoryMove ==
    ASSUME fsm \in FsmRecord, bus.pulses \in Nat, fsm.counter \in 0..32
    PROVE  /\ ReadsMemory \in FsmRecord
           /\ ReadsMemory.dataout_reg = Sampled(fsm.dataout_reg)
           /\ \/ fsm.counter = 32 /\ Ends(ReadsMemory) /\ ReadsMemory.datavalid = 0
              \/ /\ fsm.counter < 32 /\ Continues(ReadsMemory) /\ ReadsMemory.oe = fsm.oe
                 /\ fsm.counter > 17 => ReadsMemory.captured = fsm.dataout_reg[1]
                 /\ fsm.counter <= 17 => ReadsMemory.datavalid = 0
  <1>. DEFINE pipe == Sampled(fsm.dataout_reg)
              n == ReadsMemory
              now == [fsm EXCEPT !.dataout_reg = pipe]
              got == IF fsm.counter > 17 THEN fsm.dataout_reg[1] ELSE 0
              valid == IF fsm.counter > 17 THEN 1 ELSE 0
  <1>c. fsm.counter + 1 \in 0..63
    OBVIOUS
  <1>1. pipe \in Pipe /\ got \in Nat /\ valid \in Bit
    BY Ranges DEF FsmRecord, Sampled, Pipe
  <1>2. now = [fsm EXCEPT !.dataout_reg = Sampled(@)]
    BY DEF FsmRecord
  <1>3. CASE fsm.counter = 32
    <2>1. n = [now EXCEPT !.state = "IDLE", !.counter = 0, !.csn = 1, !.clken = 0,
                          !.captured = 0, !.datavalid = 0]
      BY <1>2, <1>3 DEF ReadsMemory
    <2>. HIDE DEF pipe
    <2>. QED BY <1>1, <1>3, <2>1, Ranges DEF FsmRecord, Ends, pipe
  <1>4. CASE fsm.counter < 32
    <2>1. n = [now EXCEPT !.counter = fsm.counter + 1, !.captured = got, !.datavalid = valid]
      BY <1>2, <1>4 DEF ReadsMemory, FsmRecord
    <2>. HIDE DEF pipe, got, valid
    <2>2. /\ n \in FsmRecord /\ n.dataout_reg = pipe /\ n.captured = got
          /\ n.datavalid = valid /\ n.oe = fsm.oe /\ Continues(n)
      BY <1>c, <1>1, <2>1, Ranges DEF FsmRecord, Continues
    <2>. HIDE DEF n
    <2>. QED BY <1>4, <2>2 DEF n, pipe, got, valid
  <1>. QED BY <1>3, <1>4

-----------------------------------------------------------------------------
(* What an edge does, state by state                                       *)

LEMMA EdgeMoves ==
    ASSUME Registers, Counted, NEW strobes \in SUBSET Strobe, NEW rwds \in Bit,
           Machine(strobes, rwds)
    PROVE  /\ fsm' \in FsmRecord
           /\ fsm.state = "IDLE" => Rests(fsm') \/ Starts(fsm')
           /\ fsm.state = "RD_REG0" => Sends(fsm', "RD_REG1", TRUE)
           /\ fsm.state = "MEM_WR0" => Sends(fsm', "MEM_WR1", FALSE)
           /\ fsm.state = "MEM_RD0" => Sends(fsm', "MEM_RD1", TRUE)
           /\ fsm.state = "RD_REG1" =>
                 /\ fsm'.datavalid = fsm.datavalid
                 /\ \/ fsm.counter = 16 /\ Ends(fsm')
                    \/ fsm.counter < 16 /\ Continues(fsm') /\ fsm'.oe = fsm.oe
           /\ fsm.state = "MEM_WR1" =>
                 /\ fsm'.datavalid = fsm.datavalid
                 /\ \/ fsm.counter = 28 /\ Ends(fsm')
                    \/ /\ fsm.counter <= 12 /\ Continues(fsm')
                       /\ fsm'.oe = fsm.oe /\ fsm'.buffer_out = fsm.buffer_out
                    \/ /\ fsm.counter \in 13 .. 27
                       /\ fsm'.state = fsm.state /\ fsm'.counter = fsm.counter + 1
                       /\ fsm'.csn = fsm.csn /\ fsm'.oe = 1
                       /\ fsm'.clken = 1 /\ ShiftedBy(fsm', 18)
           /\ fsm.state = "MEM_RD1" =>
                 /\ fsm'.dataout_reg = Sampled(fsm.dataout_reg)
                 /\ \/ fsm.counter = 32 /\ Ends(fsm') /\ fsm'.datavalid = 0
                    \/ /\ fsm.counter < 32 /\ Continues(fsm') /\ fsm'.oe = fsm.oe
                       /\ fsm.counter > 17 => fsm'.captured = fsm.dataout_reg[1]
                       /\ fsm.counter <= 17 => fsm'.datavalid = 0
  <1>. DEFINE n == AfterEdge(strobes, rwds)
  <1>1. fsm \in FsmRecord /\ bus.pulses \in Nat /\ RwdsIn(rwds) \in Bit
    BY Ranges DEF Registers, RwdsIn
  <1>2. /\ fsm.state \in SendCa => fsm.counter \in 0..4
        /\ fsm.state = "RD_REG1" => fsm.counter \in 0..16
        /\ fsm.state = "MEM_WR1" => fsm.counter \in 0..28
        /\ fsm.state = "MEM_RD1" => fsm.counter \in 0..32
    BY DEF Counted, Last, Transfer
  <1>3. fsm.state \in State
    BY <1>1 DEF FsmRecord
  <1>4. fsm' = [n EXCEPT !.prev = strobes]
    BY DEF Machine
  <1>5. n \in FsmRecord => 
           /\ fsm' \in FsmRecord
           /\ fsm'.state = n.state /\ fsm'.counter = n.counter /\ fsm'.csn = n.csn
           /\ fsm'.oe = n.oe /\ fsm'.clken = n.clken /\ fsm'.buffer_out = n.buffer_out
           /\ fsm'.dataout_reg = n.dataout_reg /\ fsm'.captured = n.captured
           /\ fsm'.datavalid = n.datavalid
    <2>. HIDE DEF n
    <2>. QED BY <1>4, WithStrobes
  <1>6. CASE fsm.state = "IDLE"
    <2>1. n = Begins(strobes)
      BY <1>6 DEF AfterEdge
    <2>2. n \in FsmRecord /\ (Rests(n) \/ Starts(n))
      BY <1>1, <1>6, <2>1, BeginsMove
    <2>. HIDE DEF n
    <2>. QED BY <1>5, <1>6, <2>2 DEF Rests, Starts
  <1>7. CASE fsm.state = "RD_REG0"
    <2>1. n = SendsCa("RD_REG1", TRUE, RwdsIn(rwds)) /\ fsm.state \in SendCa
      BY <1>7 DEF AfterEdge, SendCa
    <2>2. n \in FsmRecord /\ Sends(n, "RD_REG1", TRUE)
      BY <1>1, <1>2, <2>1, SendsMove DEF Transfer
    <2>. HIDE DEF n
    <2>. QED BY <1>5, <1>7, <2>2 DEF Sends, Waits, Enables, SendsHalf, GoesOn, ShiftedBy
  <1>8. CASE fsm.state = "MEM_WR0"
    <2>1. n = SendsCa("MEM_WR1", FALSE, RwdsIn(rwds)) /\ fsm.state \in SendCa
      BY <1>8 DEF AfterEdge, SendCa
    <2>2. n \in FsmRecord /\ Sends(n, "MEM_WR1", FALSE)
      BY <1>1, <1>2, <2>1, SendsMove DEF Transfer
    <2>. HIDE DEF n
    <2>. QED BY <1>5, <1>8, <2>2 DEF Sends, Waits, Enables, SendsHalf, GoesOn, ShiftedBy
  <1>9. CASE fsm.state = "MEM_RD0"
    <2>1. n = SendsCa("MEM_RD1", TRUE, RwdsIn(rwds)) /\ fsm.state \in SendCa
      BY <1>9 DEF AfterEdge, SendCa
    <2>2. n \in FsmRecord /\ Sends(n, "MEM_RD1", TRUE)
      BY <1>1, <1>2, <2>1, SendsMove DEF Transfer
    <2>. HIDE DEF n
    <2>. QED BY <1>5, <1>9, <2>2 DEF Sends, Waits, Enables, SendsHalf, GoesOn, ShiftedBy
  <1>10. CASE fsm.state = "RD_REG1"
    <2>1. n = ReadsRegister
      BY <1>10 DEF AfterEdge
    <2>. HIDE DEF n
    <2>. QED BY <1>1, <1>2, <1>5, <1>10, <2>1, ReadsRegisterMove DEF Ends, Continues
  <1>11. CASE fsm.state = "MEM_WR1"
    <2>1. n = WritesMemory
      BY <1>11 DEF AfterEdge
    <2>. HIDE DEF n
    <2>. QED BY <1>1, <1>2, <1>5, <1>11, <2>1, WritesMemoryMove DEF Ends, Continues, ShiftedBy
  <1>12. CASE fsm.state = "MEM_RD1"
    <2>1. n = ReadsMemory
      BY <1>12 DEF AfterEdge
    <2>. HIDE DEF n
    <2>. QED BY <1>1, <1>2, <1>5, <1>12, <2>1, ReadsMemoryMove DEF Ends, Continues
  <1>13. fsm.state \in {"IDLE", "RD_REG0", "MEM_WR0", "MEM_RD0", "RD_REG1", "MEM_WR1", "MEM_RD1"}
    BY <1>3 DEF State, SendCa, Transfer
  <1>. QED BY <1>6, <1>7, <1>8, <1>9, <1>10, <1>11, <1>12, <1>13

LEMMA SendsInThem ==
    ASSUME Registers, Counted, NEW strobes \in SUBSET Strobe, NEW rwds \in Bit,
           Machine(strobes, rwds), fsm.state \in SendCa
    PROVE  \E next \in Transfer, keeps \in BOOLEAN :
              /\ Sends(fsm', next, keeps)
              /\ keeps <=> fsm.state # "MEM_WR0"
              /\ keeps <=> next # "MEM_WR1"
  <1>1. /\ "RD_REG1" \in Transfer /\ "MEM_WR1" \in Transfer /\ "MEM_RD1" \in Transfer
        /\ fsm.state = "RD_REG0" \/ fsm.state = "MEM_WR0" \/ fsm.state = "MEM_RD0"
    BY DEF Transfer, SendCa
  <1>2. CASE fsm.state = "RD_REG0"
    <2>1. Sends(fsm', "RD_REG1", TRUE)
      BY <1>2, EdgeMoves
    <2>. QED BY <1>1, <1>2, <2>1
  <1>3. CASE fsm.state = "MEM_WR0"
    <2>1. Sends(fsm', "MEM_WR1", FALSE)
      BY <1>3, EdgeMoves
    <2>. QED BY <1>1, <1>3, <2>1
  <1>4. CASE fsm.state = "MEM_RD0"
    <2>1. Sends(fsm', "MEM_RD1", TRUE)
      BY <1>4, EdgeMoves
    <2>. QED BY <1>1, <1>4, <2>1
  <1>. QED BY <1>1, <1>2, <1>3, <1>4

LEMMA PulseFields ==
    ASSUME Registers, fsm' \in FsmRecord, Pulse(fsm')
    PROVE  /\ bus' \in BusRecord
           /\ bus'.pulses = IF fsm.csn = 1 THEN 0 ELSE bus.pulses + fsm'.clken
           /\ bus'.gap = IF fsm'.csn = 0 THEN 0
                         ELSE IF bus.gap = LongGap THEN LongGap ELSE bus.gap + 1
           /\ bus'.half = IF fsm'.clken = 1 /\ fsm'.oe = 1 THEN fsm.buffer_out[0] ELSE Nothing
           /\ bus'.edges = IF bus.edges = CaDelay THEN CaDelay ELSE bus.edges + 1
           /\ bus'.early = IF fsm.state = "IDLE" THEN bus.edges < CaDelay ELSE bus.early
  <1>1. fsm.buffer_out[0] \in Half /\ Nothing \in Half
    BY DEF Registers, FsmRecord, Slots, Half
  <1>2. fsm'.clken \in Nat /\ bus.gap \in 0 .. 15 /\ LongGap = 15
    BY DEF Registers, FsmRecord, Bit, LongGap
  <1>. DEFINE pulses == IF fsm.csn = 1 THEN 0 ELSE bus.pulses + fsm'.clken
              gap == IF fsm'.csn = 0 THEN 0
                     ELSE IF bus.gap = LongGap THEN LongGap ELSE bus.gap + 1
              half == IF fsm'.clken = 1 /\ fsm'.oe = 1 THEN fsm.buffer_out[0] ELSE Nothing
              edges == IF bus.edges = CaDelay THEN CaDelay ELSE bus.edges + 1
              early == IF fsm.state = "IDLE" THEN bus.edges < CaDelay ELSE bus.early
  <1>3. pulses \in Nat /\ gap \in 0..LongGap /\ half \in Half /\ edges \in 0..CaDelay
    BY <1>1, <1>2 DEF Registers, CaDelay
  <1>4. bus.cut \in BOOLEAN /\ early \in BOOLEAN
    <2>1. bus.cut \in BOOLEAN /\ bus.early \in BOOLEAN
      BY DEF Registers
    <2>2. CASE fsm.state = "IDLE"
      <3>1. bus.edges < CaDelay => early = TRUE
        BY Zenon, <2>2
      <3>2. ~(bus.edges < CaDelay) => early = FALSE
        BY <2>2
      <3>. QED BY <2>1, <3>1, <3>2
    <2>3. CASE fsm.state # "IDLE"
      BY <2>1, <2>3
    <2>. QED BY <2>1, <2>2, <2>3
  <1>5. bus' = [pulses |-> pulses, gap |-> gap, half |-> half, cut |-> bus.cut,
                edges |-> edges, early |-> early]
    BY DEF Pulse
  <1>. HIDE DEF pulses, gap, half, edges, early
  <1>6. bus' \in BusRecord
    BY <1>3, <1>4, <1>5
  <1>7. /\ bus'.pulses = pulses /\ bus'.gap = gap /\ bus'.half = half
        /\ bus'.edges = edges /\ bus'.early = early
    BY <1>5
  <1>. QED BY <1>6, <1>7 DEF pulses, gap, half, edges, early

LEMMA StallFields ==
    ASSUME Registers, NEW rose \in BOOLEAN, Stall(rose)
    PROVE  /\ rwr' \in RwrRecord
           /\ rwr'.d1 = rwr.d0 /\ rwr'.d0 = fsm.csn
           /\ rwr'.counter = IF rose THEN RecoveryTime
                             ELSE IF rwr.counter = 0 THEN 0 ELSE rwr.counter - 1
           /\ rwr'.stall = IF rose THEN rwr.stall ELSE IF rwr.counter = 0 THEN 0 ELSE 1
           /\ rwr'.ca[1] = rwr.ca[2] /\ rwr'.ca[2] = rwr.ca[3] /\ rwr'.ca[3] = 1
  <1>. DEFINE counter == IF rose THEN RecoveryTime
                         ELSE IF rwr.counter = 0 THEN 0 ELSE rwr.counter - 1
              stall == IF rose THEN rwr.stall ELSE IF rwr.counter = 0 THEN 0 ELSE 1
              ca == <<rwr.ca[2], rwr.ca[3], 1>>
  <1>1. counter \in 0..RecoveryTime
    BY TopV2Constants DEF Registers
  <1>2. stall \in Bit /\ rwr.d0 \in Bit /\ fsm.csn \in Bit
    BY Ranges DEF Registers, FsmRecord
  <1>a. ca \in Bit \X Bit \X Bit /\ ca[1] = rwr.ca[2] /\ ca[2] = rwr.ca[3] /\ ca[3] = 1
    BY Ranges DEF Registers
  <1>3. rwr' = [d1 |-> rwr.d0, d0 |-> fsm.csn, counter |-> counter, stall |-> stall, ca |-> ca]
    BY DEF Stall
  <1>. HIDE DEF counter, stall, ca
  <1>4. rwr' \in RwrRecord
    BY <1>1, <1>2, <1>a, <1>3
  <1>5. /\ rwr'.d1 = rwr.d0 /\ rwr'.d0 = fsm.csn /\ rwr'.counter = counter
        /\ rwr'.stall = stall /\ rwr'.ca = ca
    BY <1>3
  <1>. QED BY <1>a, <1>4, <1>5 DEF counter, stall

LEMMA EdgeKeepsRegisters ==
    ASSUME Registers, Counted, NEW strobes \in SUBSET Strobe, NEW rwds \in Bit,
           Edge(strobes, rwds)
    PROVE  Registers'
  <1>1. fsm' \in FsmRecord
    BY EdgeMoves DEF Edge
  <1>. QED BY <1>1, PulseFields, StallFields DEF Edge, Registers

(* The counter of the next state counts the pulses too.                    *)
LEMMA EdgeKeepsCounted ==
    ASSUME Registers, Counted, NEW strobes \in SUBSET Strobe, NEW rwds \in Bit,
           Edge(strobes, rwds)
    PROVE  Counted'
  <1>1. Machine(strobes, rwds) /\ Pulse(fsm')
    BY DEF Edge
  <1>2. /\ fsm' \in FsmRecord
        /\ bus'.pulses = IF fsm.csn = 1 THEN 0 ELSE bus.pulses + fsm'.clken
    BY <1>1, EdgeMoves, PulseFields
  <1>3. /\ fsm.state \in State /\ bus.pulses \in Nat /\ fsm.csn \in Bit
    BY DEF Registers, FsmRecord
  <1>4. CASE fsm.state = "IDLE"
    <2>1. CASE Rests(fsm')
      BY <1>2, <1>4, <2>1 DEF Rests, Counted, SendCa, Transfer
    <2>2. CASE Starts(fsm')
      BY <1>2, <1>3, <1>4, <2>2 DEF Starts, Counted, SendCa, Transfer, Bit
    <2>. QED BY <1>1, <1>4, <2>1, <2>2, EdgeMoves
  <1>5. ASSUME NEW next \in Transfer, NEW keeps, fsm.state \in SendCa,
               Sends(fsm', next, keeps)
        PROVE  Counted'
    <2>1. /\ fsm.csn = 0 /\ fsm.counter \in 0..4
          /\ fsm.clken = (IF fsm.counter > 1 THEN 1 ELSE 0)
          /\ bus.pulses = (IF fsm.counter = 0 THEN 0 ELSE fsm.counter - 1)
      BY <1>5 DEF Counted
    <2>2. CASE Waits(fsm')
      BY <1>2, <1>5, <2>1, <2>2 DEF Waits, Counted, SendCa, Transfer
    <2>3. CASE Enables(fsm')
      BY <1>2, <1>5, <2>1, <2>3 DEF Enables, Counted, SendCa, Transfer
    <2>4. CASE SendsHalf(fsm', keeps)
      BY <1>2, <1>5, <2>1, <2>4 DEF SendsHalf, Counted, SendCa, Transfer
    <2>5. CASE GoesOn(fsm', next)
      <3>1. 0 \in 0..Last(next)
        BY DEF Last, Transfer
      <3>. QED BY <1>2, <1>5, <2>1, <2>5, <3>1 DEF GoesOn, Counted, SendCa, Transfer
    <2>. QED BY <1>5, <2>2, <2>3, <2>4, <2>5 DEF Sends
  <1>6. ASSUME fsm.state \in Transfer PROVE Counted'
    <2>1. /\ fsm.csn = 0 /\ fsm.counter \in 0..Last(fsm.state) /\ fsm.clken = 1
          /\ bus.pulses = fsm.counter + 4
          /\ fsm.oe = (IF fsm.state = "MEM_WR1" /\ fsm.counter > 13 THEN 1 ELSE 0)
      BY <1>6 DEF Counted
    <2>2. CASE Ends(fsm')
      BY <1>2, <2>1, <2>2 DEF Ends, Counted, SendCa, Transfer
    <2>3. CASE fsm.state = "RD_REG1" /\ ~Ends(fsm')
      <3>1. fsm.counter < 16 /\ Continues(fsm') /\ fsm'.oe = fsm.oe
        BY <1>1, <2>3, EdgeMoves
      <3>. QED BY <1>2, <2>1, <2>3, <3>1 DEF Continues, Counted, SendCa, Transfer, Last
    <2>4. CASE fsm.state = "MEM_RD1" /\ ~Ends(fsm')
      <3>1. fsm.counter < 32 /\ Continues(fsm') /\ fsm'.oe = fsm.oe
        BY <1>1, <2>4, EdgeMoves
      <3>. QED BY <1>2, <2>1, <2>4, <3>1 DEF Continues, Counted, SendCa, Transfer, Last
    <2>5. CASE fsm.state = "MEM_WR1" /\ ~Ends(fsm')
      <3>1. \/ fsm.counter <= 12 /\ Continues(fsm') /\ fsm'.oe = fsm.oe
            \/ /\ fsm.counter \in 13 .. 27
               /\ fsm'.state = fsm.state /\ fsm'.counter = fsm.counter + 1
               /\ fsm'.csn = fsm.csn /\ fsm'.oe = 1 /\ fsm'.clken = 1
        BY <1>1, <2>5, EdgeMoves
      <3>. QED BY <1>2, <2>1, <2>5, <3>1 DEF Continues, Counted, SendCa, Transfer, Last
    <2>. QED BY <1>6, <2>2, <2>3, <2>4, <2>5 DEF Transfer
  <1>7. CASE fsm.state \in SendCa
    <2>1. \E next \in Transfer, keeps \in BOOLEAN : Sends(fsm', next, keeps)
      BY <1>1, <1>7, SendsInThem
    <2>. QED BY <1>5, <1>7, <2>1
  <1>. QED BY <1>3, <1>4, <1>6, <1>7 DEF State

(* One shift more moves what is loaded one slot down.                      *)
OneDown(before, after, top) == \A i \in 0 .. top - 1 : after[i] = before[i + 1]
LoadedBy(b, want, s, top) == \A i \in Slots : i + s <= top => b[i] = want[i + s]

LEMMA LoadShifts ==
    ASSUME NEW before, NEW after, NEW want, NEW top \in {2, 18}, NEW s \in 0 .. 17,
           OneDown(before, after, top), LoadedBy(before, want, s, top)
    PROVE  LoadedBy(after, want, s + 1, top)
  <1>. USE DEF OneDown, LoadedBy
  <1>. SUFFICES ASSUME NEW i \in Slots, i + (s + 1) <= top
                PROVE  after[i] = want[i + (s + 1)]
    OBVIOUS
  <1>1. i \in 0 .. top - 1 /\ i + 1 \in Slots /\ (i + 1) + s = i + (s + 1)
    BY DEF Slots
  <1>2. before[i + 1] = want[(i + 1) + s]
    BY <1>1
  <1>. QED BY <1>1, <1>2

(* The command/address moves one stage on at each edge.                    *)
LEMMA EdgeKeepsThrough ==
    ASSUME Registers, Counted, Through, NEW strobes \in SUBSET Strobe, NEW rwds \in Bit,
           Edge(strobes, rwds)
    PROVE  Through'
  <1>1. fsm' \in FsmRecord
    BY EdgeMoves DEF Edge
  <1>2. bus'.edges = IF bus.edges = CaDelay THEN CaDelay ELSE bus.edges + 1
    BY <1>1, PulseFields DEF Edge
  <1>3. rwr'.ca[1] = rwr.ca[2] /\ rwr'.ca[2] = rwr.ca[3] /\ rwr'.ca[3] = 1
    <2>. DEFINE rose == rwr.d1 = 0 /\ rwr.d0 = 1
    <2>1. Stall(rose) /\ rose \in BOOLEAN
      BY DEF Edge
    <2>. HIDE DEF rose
    <2>. QED BY <2>1, StallFields
  <1>. QED BY <1>2, <1>3 DEF Through, Registers, CaDelay

LEMMA EdgeKeepsLoads ==
    ASSUME Registers, Counted, Through, fsm.state \in SendCa \cup {"MEM_WR1"} => Loads,
           NEW strobes \in SUBSET Strobe, NEW rwds \in Bit,
           Machine(strobes, rwds), Pulse(fsm'), fsm'.state \in SendCa \cup {"MEM_WR1"}
    PROVE  Loads'
  <1>1. fsm.state \in State
    BY DEF Registers, FsmRecord
  <1>a. /\ bus' \in BusRecord
        /\ bus'.early = IF fsm.state = "IDLE" THEN bus.edges < CaDelay ELSE bus.early
    BY EdgeMoves, PulseFields
  <1>b. fsm.state # "IDLE" => Wanted' = Wanted
    BY <1>a DEF Wanted
  <1>2. CASE fsm.state = "IDLE"
    <2>1. Starts(fsm')
      BY <1>2, EdgeMoves DEF Rests, SendCa
    <2>2. fsm'.state \in SendCa /\ fsm'.counter = 0
      BY <2>1 DEF Starts
    <2>3. Moved' = 0
      BY <2>2 DEF Moved
    <2>6. /\ fsm'.buffer_out[0] = Wanted'[0] /\ fsm'.buffer_out[1] = Wanted'[1]
          /\ fsm'.buffer_out[2] = Wanted'[2]
          /\ \A i \in Slots : i > 2 => Wanted'[i] = i
      <3>1. bus'.early <=> rwr.ca[1] # 1
        <4>1. bus'.early <=> bus.edges < 3
          BY Zenon, <1>2, <1>a DEF CaDelay
        <4>2. bus.edges < 3 <=> rwr.ca[1] # 1
          BY DEF Through, Registers, CaDelay
        <4>. QED BY Zenon, <4>1, <4>2
      <3>2. Wanted' = [i \in Slots |-> IF i < 3 /\ bus'.early THEN Nothing ELSE i]
        BY DEF Wanted
      <3>. QED BY <2>1, <3>1, <3>2 DEF Starts, Ca, Slots
    <2>4. CASE fsm'.state = "MEM_WR0"
      <3>1. \A i \in Slots : i > 2 => fsm'.buffer_out[i] = i
        BY <2>1, <2>4 DEF Starts
      <3>2. \A i \in Slots : fsm'.buffer_out[i] = Wanted'[i]
        BY <2>6, <3>1 DEF Slots
      <3>. QED BY <2>3, <3>2 DEF Loads, Slots
    <2>5. CASE fsm'.state # "MEM_WR0"
      <3>1. Filled' = 2
        BY <2>2, <2>5 DEF Filled, SendCa
      <3>2. \A i \in Slots : i <= 2 => i = 0 \/ i = 1 \/ i = 2
        BY DEF Slots
      <3>. QED BY <2>3, <2>6, <3>1, <3>2 DEF Loads, Slots
    <2>. QED BY <2>4, <2>5
  <1>3. CASE fsm.state \in SendCa
    <2>1. PICK next \in Transfer, keeps \in BOOLEAN :
              /\ Sends(fsm', next, keeps)
              /\ keeps <=> fsm.state # "MEM_WR0"
              /\ keeps <=> next # "MEM_WR1"
      BY <1>3, SendsInThem
    <2>2. /\ Moved = IF fsm.counter = 0 THEN 0 ELSE fsm.counter - 1
          /\ Filled = IF keeps THEN 2 ELSE 18
          /\ Loads
      BY <1>3, <2>1 DEF Moved, Filled, SendCa
    <2>3. CASE Waits(fsm') \/ Enables(fsm')
      <3>1. /\ fsm'.state = fsm.state /\ fsm'.buffer_out = fsm.buffer_out
            /\ fsm.counter = 0 /\ (fsm'.counter = 0 \/ fsm'.counter = 1)
        BY <2>3 DEF Waits, Enables
      <3>2. Moved' = 0 /\ Filled' = Filled /\ Moved = 0
        BY <1>3, <2>2, <3>1 DEF Moved, Filled
      <3>. QED BY <1>3, <1>b, <2>2, <3>1, <3>2 DEF Loads, SendCa
    <2>4. CASE SendsHalf(fsm', keeps)
      <3>1. /\ fsm'.state = fsm.state /\ fsm.counter \in 1..3
            /\ fsm'.counter = fsm.counter + 1
        BY <2>4 DEF SendsHalf
      <3>2. Moved' = Moved + 1 /\ Filled' = Filled /\ Moved \in 0..17 /\ Filled \in {2, 18}
        BY <1>3, <2>2, <3>1 DEF Moved, Filled
      <3>3. OneDown(fsm.buffer_out, fsm'.buffer_out, Filled)
        BY <2>2, <2>4 DEF SendsHalf, ShiftedBy, OneDown
      <3>4. \A i \in Slots :
                i + (Moved + 1) <= Filled => fsm'.buffer_out[i] = Wanted[i + (Moved + 1)]
        <4>1. LoadedBy(fsm.buffer_out, Wanted, Moved, Filled)
          BY <2>2 DEF Loads, LoadedBy
        <4>2. LoadedBy(fsm'.buffer_out, Wanted, Moved + 1, Filled)
          BY <3>2, <3>3, <4>1, LoadShifts
        <4>. QED BY <4>2 DEF LoadedBy
      <3>. QED BY <1>3, <1>b, <3>2, <3>4 DEF Loads, SendCa
    <2>5. CASE GoesOn(fsm', next)
      <3>1. /\ fsm'.state = "MEM_WR1" /\ fsm.state = "MEM_WR0" /\ ~keeps
            /\ fsm.counter = 4 /\ fsm'.counter = 0 /\ fsm'.buffer_out = fsm.buffer_out
        BY <2>1, <2>5 DEF GoesOn, SendCa, Transfer
      <3>2. Moved' = 3 /\ Moved = 3 /\ Filled' = Filled
        BY <2>2, <3>1 DEF Moved, Filled, SendCa
      <3>. QED BY <1>3, <1>b, <2>2, <3>1, <3>2 DEF Loads, SendCa
    <2>. QED BY <2>1, <2>3, <2>4, <2>5 DEF Sends
  <1>4. CASE fsm.state = "MEM_WR1"
    <2>1. Loads /\ Filled = 18 /\ Moved = (IF fsm.counter > 13 THEN fsm.counter - 10 ELSE 3)
      BY <1>4 DEF Moved, Filled, SendCa
    <2>2. /\ fsm.counter \in 0..28
          /\ ~Ends(fsm')
      BY <1>4 DEF Counted, Last, Transfer, SendCa, Ends
    <2>3. CASE fsm.counter <= 12 /\ Continues(fsm') /\ fsm'.buffer_out = fsm.buffer_out
      <3>1. Moved' = 3 /\ Filled' = 18 /\ Moved = 3
        BY <1>4, <2>1, <2>2, <2>3 DEF Moved, Filled, Continues, SendCa
      <3>. QED BY <1>4, <1>b, <2>1, <2>3, <3>1 DEF Loads
    <2>4. CASE /\ fsm.counter \in 13 .. 27 /\ ShiftedBy(fsm', 18)
               /\ fsm'.state = fsm.state /\ fsm'.counter = fsm.counter + 1
      <3>1. Moved' = Moved + 1 /\ Filled' = 18 /\ Moved \in 0..17
        BY <1>4, <2>1, <2>4 DEF Moved, Filled, SendCa
      <3>2. OneDown(fsm.buffer_out, fsm'.buffer_out, 18)
        BY <2>4 DEF ShiftedBy, OneDown
      <3>3. LoadedBy(fsm.buffer_out, Wanted, Moved, 18)
        BY <2>1 DEF Loads, LoadedBy
      <3>4. \A i \in Slots :
                i + (Moved + 1) <= 18 => fsm'.buffer_out[i] = Wanted[i + (Moved + 1)]
        <4>1. LoadedBy(fsm'.buffer_out, Wanted, Moved + 1, 18)
          BY <3>1, <3>2, <3>3, LoadShifts
        <4>. QED BY <4>1 DEF LoadedBy
      <3>. QED BY <1>4, <1>b, <3>1, <3>4 DEF Loads
    <2>. QED BY <1>4, <2>2, <2>3, <2>4, EdgeMoves
  <1>5. CASE fsm.state \in {"RD_REG1", "MEM_RD1"}
    BY <1>5, EdgeMoves DEF Ends, Continues, SendCa
  <1>. QED BY <1>1, <1>2, <1>3, <1>4, <1>5 DEF State, Transfer

(* Each pulse takes the half that was in front.                            *)
LEMMA EdgeSendsHalf ==
    ASSUME Registers, Counted, fsm.state \in SendCa \cup {"MEM_WR1"} => Loads,
           NEW strobes \in SUBSET Strobe, NEW rwds \in Bit,
           Edge(strobes, rwds), fsm'.csn = 0, fsm'.clken = 1
    PROVE  bus'.half = Halves'[bus'.pulses]
  <1>1. Machine(strobes, rwds) /\ Pulse(fsm')
    BY DEF Edge
  <1>2. /\ fsm' \in FsmRecord
        /\ bus'.pulses = IF fsm.csn = 1 THEN 0 ELSE bus.pulses + fsm'.clken
        /\ bus'.half = IF fsm'.clken = 1 /\ fsm'.oe = 1 THEN fsm.buffer_out[0] ELSE Nothing
        /\ fsm.state # "IDLE" => bus'.early = bus.early
    BY <1>1, EdgeMoves, PulseFields
  <1>3. fsm.state \in State
    BY DEF Registers, FsmRecord
  <1>4. \A pulse \in 1..36 :
            Halves'[pulse] = IF pulse <= 3 THEN IF bus'.early THEN Nothing ELSE pulse - 1
                             ELSE IF pulse >= 18 /\ fsm'.state = "MEM_WR1" THEN pulse - 15
                             ELSE Nothing
    BY DEF Halves
  <1>5. 0 \in Slots /\ (fsm.state \in SendCa \cup {"MEM_WR1"} /\ Moved <= Filled /\ Moved \in Nat
                          => fsm.buffer_out[0] = Wanted[Moved])
    BY DEF Loads, Slots
  <1>9. \A j \in Slots : Wanted[j] = IF j < 3 /\ bus.early THEN Nothing ELSE j
    BY DEF Wanted
  <1>6. CASE fsm.state = "IDLE"
    BY <1>1, <1>6, EdgeMoves DEF Rests, Starts
  <1>7. CASE fsm.state \in SendCa
    <2>1. PICK next \in Transfer, keeps \in BOOLEAN : Sends(fsm', next, keeps)
      BY <1>1, <1>7, SendsInThem
    <2>2. /\ fsm.csn = 0 /\ fsm.counter \in 0..4
          /\ fsm.clken = (IF fsm.counter > 1 THEN 1 ELSE 0)
          /\ bus.pulses = (IF fsm.counter = 0 THEN 0 ELSE fsm.counter - 1)
      BY <1>7 DEF Counted
    <2>3. CASE SendsHalf(fsm', keeps)
      <3>1. fsm.counter \in 1..3 /\ fsm'.oe = 1 /\ Moved = fsm.counter - 1
        BY <1>7, <2>3 DEF SendsHalf, Moved
      <3>2. Moved <= Filled /\ Moved \in Nat
        BY <3>1 DEF Filled
      <3>3. /\ bus'.half = (IF bus.early THEN Nothing ELSE fsm.counter - 1)
            /\ bus'.pulses = fsm.counter
        <4>1. fsm.buffer_out[0] = Wanted[Moved]
          BY <1>5, <1>7, <3>2
        <4>2. Wanted[Moved] = (IF bus.early THEN Nothing ELSE fsm.counter - 1)
          <5>1. Moved \in Slots /\ Moved < 3
            BY <3>1 DEF Slots
          <5>2. Wanted[Moved] = IF bus.early THEN Nothing ELSE Moved
            BY <1>9, <5>1
          <5>. QED BY <3>1, <5>2
        <4>3. bus'.half = fsm.buffer_out[0] /\ bus'.pulses = fsm.counter
          BY <1>2, <2>2, <2>3, <3>1 DEF SendsHalf
        <4>. QED BY <4>1, <4>2, <4>3
      <3>4. bus'.early = bus.early
        BY <1>2, <1>7 DEF SendCa
      <3>. QED BY <1>4, <3>1, <3>3, <3>4
    <2>4. CASE GoesOn(fsm', next)
      <3>1. fsm'.oe = 0 /\ fsm.counter = 4
        BY <2>4 DEF GoesOn
      <3>2. bus'.half = Nothing /\ bus'.pulses = 4
        BY <1>2, <2>2, <3>1
      <3>. QED BY <1>4, <3>2
    <2>5. ~Waits(fsm') /\ ~Enables(fsm')
      BY <2>2 DEF Waits, Enables
    <2>. QED BY <2>1, <2>3, <2>4, <2>5 DEF Sends
  <1>8. ASSUME fsm.state \in Transfer PROVE bus'.half = Halves'[bus'.pulses]
    <2>1. /\ fsm.csn = 0 /\ fsm.counter \in 0..Last(fsm.state) /\ fsm.clken = 1
          /\ bus.pulses = fsm.counter + 4
          /\ fsm.oe = (IF fsm.state = "MEM_WR1" /\ fsm.counter > 13 THEN 1 ELSE 0)
          /\ ~Ends(fsm')
      BY <1>8 DEF Counted, Ends
    <2>2. CASE fsm.state # "MEM_WR1"
      <3>1. fsm.counter \in 0 .. 31 /\ Continues(fsm') /\ fsm'.oe = fsm.oe
        <4>1. CASE fsm.state = "RD_REG1"
          BY <1>1, <2>1, <4>1, EdgeMoves DEF Last
        <4>2. CASE fsm.state = "MEM_RD1"
          BY <1>1, <2>1, <4>2, EdgeMoves DEF Last
        <4>. QED BY <1>8, <2>2, <4>1, <4>2 DEF Transfer
      <3>2. bus'.half = Nothing /\ bus'.pulses = fsm.counter + 5 /\ fsm'.state # "MEM_WR1"
        BY <1>2, <2>1, <2>2, <3>1 DEF Continues
      <3>. QED BY <1>4, <3>1, <3>2
    <2>3. CASE fsm.state = "MEM_WR1" /\ fsm.counter <= 12
      <3>1. fsm.counter \in 0 .. 12 /\ fsm'.oe = fsm.oe
        BY <1>1, <2>1, <2>3, EdgeMoves DEF Last
      <3>2. bus'.half = Nothing /\ bus'.pulses = fsm.counter + 5
        BY <1>2, <2>1, <2>3, <3>1
      <3>. QED BY <1>4, <3>1, <3>2
    <2>4. CASE fsm.state = "MEM_WR1" /\ fsm.counter > 12
      <3>1. fsm.counter \in 13 .. 27 /\ fsm'.oe = 1 /\ fsm'.state = "MEM_WR1"
        BY <1>1, <2>1, <2>4, EdgeMoves DEF Last
      <3>2. Moved = fsm.counter - 10 /\ Filled = 18
        BY <2>4, <3>1 DEF Moved, Filled, SendCa
      <3>3. bus'.half = fsm.counter - 10 /\ bus'.pulses = fsm.counter + 5
        BY <1>2, <1>5, <1>9, <2>1, <2>4, <3>1, <3>2 DEF Slots
      <3>. QED BY <1>4, <3>1, <3>3
    <2>5. fsm.counter <= 12 \/ fsm.counter > 12
      BY <1>8, <2>1 DEF Last, Transfer
    <2>. QED BY <2>2, <2>3, <2>4, <2>5
  <1>. QED BY <1>3, <1>6, <1>7, <1>8 DEF State

(* The pipe takes the pulse's number at every edge of a read.              *)
LEMMA EdgeKeepsPiped ==
    ASSUME Registers, Counted, Piped, NEW strobes \in SUBSET Strobe, NEW rwds \in Bit,
           Machine(strobes, rwds)
    PROVE  Piped'
  <1>1. fsm.state \in State /\ fsm.datavalid \in Bit
    BY DEF Registers, FsmRecord
  <1>2. CASE fsm.state = "MEM_RD1"
    <2>1. /\ fsm.counter \in 0..32 /\ bus.pulses = fsm.counter + 4
          /\ fsm.counter > 0 => fsm.dataout_reg[3] = fsm.counter + 3
          /\ fsm.counter > 1 => fsm.dataout_reg[2] = fsm.counter + 2
          /\ fsm.counter > 2 => fsm.dataout_reg[1] = fsm.counter + 1
      BY <1>2 DEF Counted, Piped, Last, Transfer
    <2>2. CASE Ends(fsm') /\ fsm'.datavalid = 0
      BY <2>2 DEF Ends, Piped
    <2>3. CASE /\ fsm.counter < 32 /\ Continues(fsm')
               /\ fsm.counter > 17 => fsm'.captured = fsm.dataout_reg[1]
               /\ fsm.counter <= 17 => fsm'.datavalid = 0
      <3>1. /\ fsm'.dataout_reg[1] = fsm.dataout_reg[2]
            /\ fsm'.dataout_reg[2] = fsm.dataout_reg[3]
            /\ fsm'.dataout_reg[3] = bus.pulses
        <4>1. fsm'.dataout_reg = Sampled(fsm.dataout_reg)
          BY <1>2, EdgeMoves
        <4>. QED BY <4>1 DEF Sampled
      <3>2. fsm'.state = "MEM_RD1" /\ fsm'.counter = fsm.counter + 1
        BY <1>2, <2>3 DEF Continues
      <3>3. /\ fsm'.counter > 0 => fsm'.dataout_reg[3] = fsm'.counter + 3
            /\ fsm'.counter > 1 => fsm'.dataout_reg[2] = fsm'.counter + 2
            /\ fsm'.counter > 2 => fsm'.dataout_reg[1] = fsm'.counter + 1
        BY <2>1, <3>1, <3>2
      <3>4. fsm'.datavalid = 1 => fsm'.counter > 18 /\ fsm'.captured = fsm'.counter
        BY <2>1, <2>3, <3>2
      <3>. QED BY <3>2, <3>3, <3>4 DEF Piped
    <2>. QED BY <1>2, <2>2, <2>3, EdgeMoves
  <1>3. CASE fsm.state # "MEM_RD1"
    <2>1. fsm.datavalid = 0
      BY <1>1, <1>3 DEF Piped, Bit
    <2>2. fsm'.datavalid = 0
      BY <1>1, <1>3, <2>1, EdgeMoves DEF State, SendCa, Transfer, Rests, Starts, Sends
    <2>3. fsm'.state = "MEM_RD1" => fsm'.counter = 0
      BY <1>1, <1>3, EdgeMoves DEF State, SendCa, Transfer, Rests, Starts, Sends, Waits,
                                 Enables, SendsHalf, GoesOn, Ends, Continues
    <2>. QED BY <2>2, <2>3 DEF Piped
  <1>. QED BY <1>2, <1>3

-----------------------------------------------------------------------------
(* The recovery block                                                      *)

(* A transaction goes on by at most one, and lasts for 21 edges.           *)
LEMMA TransactionGoesOn ==
    ASSUME Registers, Counted, NEW strobes \in SUBSET Strobe, NEW rwds \in Bit,
           Machine(strobes, rwds), fsm.state # "IDLE"
    PROVE  /\ fsm.csn = 0 /\ Progress \in Nat
           /\ \/ /\ fsm'.state # "IDLE" /\ fsm'.csn = 0
                 /\ Progress' = Progress + 1 \/ (Progress' = 0 /\ Progress = 0)
              \/ Progress >= 21 /\ Ends(fsm')
  <1>1. fsm.state \in State
    BY DEF Registers, FsmRecord
  <1>2. CASE fsm.state \in SendCa
    <2>1. PICK next \in Transfer, keeps \in BOOLEAN : Sends(fsm', next, keeps)
      BY <1>2, SendsInThem
    <2>2. fsm.csn = 0 /\ fsm.counter \in 0..4 /\ Progress = fsm.counter
      BY <1>2 DEF Counted, Progress, SendCa, Transfer
    <2>3. CASE Waits(fsm') \/ Enables(fsm') \/ SendsHalf(fsm', keeps)
      <3>1. /\ fsm'.state = fsm.state /\ fsm'.csn = 0
            /\ fsm'.counter = fsm.counter + 1 \/ (fsm'.counter = 0 /\ fsm.counter = 0)
        BY <2>2, <2>3 DEF Waits, Enables, SendsHalf
      <3>2. Progress' = fsm'.counter
        BY <1>2, <2>2, <3>1 DEF Progress, SendCa, Transfer
      <3>. QED BY <1>2, <2>2, <3>1, <3>2 DEF SendCa
    <2>4. CASE GoesOn(fsm', next)
      <3>1. Progress' = 5 /\ fsm'.state # "IDLE" /\ fsm'.csn = 0 /\ Progress = 4
        BY <2>2, <2>4 DEF Progress, GoesOn, Transfer
      <3>. QED BY <2>2, <3>1
    <2>. QED BY <2>1, <2>3, <2>4 DEF Sends
  <1>3. ASSUME fsm.state \in Transfer
        PROVE  /\ fsm.csn = 0 /\ Progress \in Nat
               /\ \/ /\ fsm'.state # "IDLE" /\ fsm'.csn = 0 /\ Progress' = Progress + 1
                  \/ Progress >= 21 /\ Ends(fsm')
    <2>1. fsm.csn = 0 /\ fsm.counter \in 0..Last(fsm.state) /\ Progress = fsm.counter + 5
      BY <1>3 DEF Counted, Progress
    <2>2. Last(fsm.state) \in Nat
      BY <1>3 DEF Last, Transfer
    <2>3. \/ fsm.counter >= 16 /\ Ends(fsm')
          \/ /\ fsm'.state = fsm.state /\ fsm'.csn = fsm.csn
             /\ fsm'.counter = fsm.counter + 1
      <3>1. CASE fsm.state = "RD_REG1"
        BY <3>1, EdgeMoves DEF Continues
      <3>2. CASE fsm.state = "MEM_RD1"
        BY <3>2, EdgeMoves DEF Continues
      <3>3. CASE fsm.state = "MEM_WR1"
        BY <3>3, EdgeMoves DEF Continues
      <3>. QED BY <1>3, <3>1, <3>2, <3>3 DEF Transfer
    <2>4. CASE /\ fsm'.state = fsm.state /\ fsm'.csn = fsm.csn
               /\ fsm'.counter = fsm.counter + 1
      <3>1. Progress' = (fsm.counter + 1) + 5
        BY <1>3, <2>4 DEF Progress
      <3>2. fsm'.state # "IDLE" /\ fsm'.csn = 0
        BY <1>3, <2>1, <2>4 DEF Transfer
      <3>. QED BY <2>1, <2>2, <3>1, <3>2
    <2>. QED BY <2>1, <2>2, <2>3, <2>4
  <1>. QED BY <1>1, <1>2, <1>3 DEF State

LEMMA EdgeKeepsRecovers ==
    ASSUME Registers, Counted, Recovers, NEW strobes \in SUBSET Strobe, NEW rwds \in Bit,
           Edge(strobes, rwds)
    PROVE  Recovers'
  <1>1. Machine(strobes, rwds) /\ Pulse(fsm') /\ fsm' \in FsmRecord
    BY EdgeMoves DEF Edge
  <1>. DEFINE rose == rwr.d1 = 0 /\ rwr.d0 = 1
  <1>2. /\ rwr'.d1 = rwr.d0 /\ rwr'.d0 = fsm.csn
        /\ rwr'.counter = IF rose THEN RecoveryTime
                          ELSE IF rwr.counter = 0 THEN 0 ELSE rwr.counter - 1
        /\ rwr'.stall = IF rose THEN rwr.stall ELSE IF rwr.counter = 0 THEN 0 ELSE 1
    <2>1. Stall(rose) /\ rose \in BOOLEAN
      BY DEF Edge
    <2>. HIDE DEF rose
    <2>. QED BY <2>1, StallFields
  <1>3. bus'.gap = IF fsm'.csn = 0 THEN 0
                   ELSE IF bus.gap = LongGap THEN LongGap ELSE bus.gap + 1
    BY <1>1, PulseFields
  <1>4. /\ RecoveryTime \in 1..7 /\ rwr.counter \in 0..RecoveryTime /\ bus.gap \in 0..15
        /\ rwr.stall = 0 \/ rwr.stall = 1
        /\ rwr.d0 = 0 \/ rwr.d0 = 1
        /\ rwr.d1 = 0 \/ rwr.d1 = 1
        /\ fsm.csn = 0 \/ fsm.csn = 1
        /\ LongGap = 15
    BY TopV2Constants DEF Registers, FsmRecord, Bit, LongGap
  <1>5. CASE fsm.state = "IDLE" /\ Rests(fsm')
    <2>1. fsm'.state = "IDLE" /\ fsm'.csn = 1
      BY <1>5 DEF Rests
    <2>2. CASE fsm.csn = 0
      <3>1. bus.gap = 0 /\ Quiet /\ Seen(0, 0)
        BY <1>5, <2>2 DEF Recovers
      <3>2. bus'.gap = 1 /\ Quiet' /\ Seen(0, 0)'
        BY <1>2, <1>3, <1>4, <2>1, <2>2, <3>1 DEF Quiet, Seen
      <3>. QED BY <2>1, <3>2 DEF Recovers
    <2>3. CASE fsm.csn = 1
      <3>1. bus'.gap = IF bus.gap = 15 THEN 15 ELSE bus.gap + 1
        BY <1>3, <1>4, <2>1
      <3>2. CASE bus.gap = 1 /\ Quiet /\ Seen(0, 0)
        <4>1. bus'.gap = 2 /\ Quiet' /\ Seen(1, 0)'
          BY <1>2, <2>3, <3>1, <3>2 DEF Quiet, Seen
        <4>. QED BY <2>1, <4>1 DEF Recovers
      <3>3. CASE bus.gap = 2 /\ Quiet /\ Seen(1, 0)
        <4>1. bus'.gap = 3 /\ rwr'.counter = RecoveryTime /\ rwr'.stall = 0 /\ Seen(1, 1)'
          BY <1>2, <2>3, <3>1, <3>3 DEF Quiet, Seen
        <4>. QED BY <2>1, <4>1 DEF Recovers
      <3>4. CASE bus.gap = 3 /\ rwr.counter = RecoveryTime /\ rwr.stall = 0 /\ Seen(1, 1)
        <4>1. /\ bus'.gap = 4 /\ rwr'.counter = RecoveryTime + 3 - bus'.gap
              /\ rwr'.stall = 1 /\ Seen(1, 1)'
          BY <1>2, <1>4, <2>3, <3>1, <3>4 DEF Seen
        <4>. QED BY <2>1, <4>1 DEF Recovers
      <3>5. CASE /\ bus.gap > 3 /\ rwr.counter = RecoveryTime + 3 - bus.gap
                 /\ rwr.stall = 1 /\ Seen(1, 1)
        <4>1. bus.gap \in 4 .. 10 /\ bus'.gap = bus.gap + 1 /\ Seen(1, 1)'
          BY <1>2, <1>4, <2>3, <3>1, <3>5 DEF Seen
        <4>2. CASE rwr.counter = 0
          <5>1. Quiet' /\ bus'.gap >= RecoveryTime + 4
            BY <1>2, <1>4, <3>5, <4>1, <4>2 DEF Quiet, Seen
          <5>. QED BY <2>1, <4>1, <5>1 DEF Recovers
        <4>3. CASE rwr.counter # 0
          <5>1. /\ rwr'.counter = RecoveryTime + 3 - bus'.gap /\ rwr'.stall = 1
                /\ bus'.gap > 3
            BY <1>2, <1>4, <3>5, <4>1, <4>3 DEF Seen
          <5>. QED BY <2>1, <4>1, <5>1 DEF Recovers
        <4>. QED BY <4>2, <4>3
      <3>6. CASE bus.gap >= RecoveryTime + 4 /\ Quiet /\ Seen(1, 1)
        <4>1. bus'.gap >= RecoveryTime + 4 /\ Quiet' /\ Seen(1, 1)'
          BY <1>2, <1>4, <2>3, <3>1, <3>6 DEF Quiet, Seen
        <4>. QED BY <2>1, <4>1 DEF Recovers
      <3>. QED BY <1>5, <2>3, <3>2, <3>3, <3>4, <3>5, <3>6 DEF Recovers
    <2>. QED BY <1>4, <2>2, <2>3
  <1>6. CASE fsm.state = "IDLE" /\ Starts(fsm')
    <2>1. fsm'.state # "IDLE" /\ fsm'.csn = 0 /\ fsm'.counter = 0 /\ fsm'.state \notin Transfer
      BY <1>6 DEF Starts, SendCa, Transfer
    <2>2. Progress' = 0
      BY <2>1 DEF Progress
    <2>3. bus'.gap = 0 /\ rwr'.counter <= RecoveryTime + 1
      BY <1>2, <1>3, <1>4, <2>1
    <2>4. rwr'.counter \in Nat
      BY <1>2, <1>4
    <2>. QED BY <1>4, <2>1, <2>2, <2>3, <2>4 DEF Recovers
  <1>7. CASE fsm.state # "IDLE"
    <2>1. /\ fsm.csn = 0 /\ Progress \in Nat
          /\ \/ /\ fsm'.state # "IDLE" /\ fsm'.csn = 0
                /\ Progress' = Progress + 1 \/ (Progress' = 0 /\ Progress = 0)
             \/ Progress >= 21 /\ Ends(fsm')
      BY <1>1, <1>7, TransactionGoesOn
    <2>2. /\ bus.gap = 0
          /\ rwr.d0 = 1 => Progress = 0
          /\ rwr.d1 = 1 => Progress < 2
          /\ ~Quiet => rwr.counter + Progress <= RecoveryTime + 1
      BY <1>7 DEF Recovers
    <2>3. CASE /\ fsm'.state # "IDLE" /\ fsm'.csn = 0
               /\ Progress' = Progress + 1 \/ (Progress' = 0 /\ Progress = 0)
      <3>1. bus'.gap = 0 /\ rwr'.d0 = 0 /\ rwr'.d1 = rwr.d0
        BY <1>2, <1>3, <2>1, <2>3
      <3>2. rwr'.d1 = 1 => Progress' < 2
        BY <2>2, <2>3, <3>1
      <3>3. ~Quiet' => rwr'.counter + Progress' <= RecoveryTime + 1
        <4>1. CASE rose
          <5>1. Progress = 0 /\ rwr'.counter = RecoveryTime
            BY <1>2, <2>2, <4>1
          <5>. QED BY <1>4, <2>3, <5>1
        <4>2. CASE ~rose /\ rwr.counter = 0
          BY <1>2, <4>2 DEF Quiet
        <4>3. CASE ~rose /\ rwr.counter # 0
          <5>1. rwr'.counter = rwr.counter - 1 /\ rwr.counter + Progress <= RecoveryTime + 1
            BY <1>2, <2>2, <4>3 DEF Quiet
          <5>. QED BY <1>4, <2>1, <2>3, <5>1
        <4>. QED BY <4>1, <4>2, <4>3
      <3>. QED BY <2>3, <3>1, <3>2, <3>3 DEF Recovers
    <2>4. CASE Progress >= 21 /\ Ends(fsm')
      <3>1. Quiet /\ Seen(0, 0)
        BY <1>4, <2>1, <2>2, <2>4 DEF Seen
      <3>2. fsm'.state = "IDLE" /\ fsm'.csn = 1
        BY <2>4 DEF Ends
      <3>3. bus'.gap = 1 /\ Quiet' /\ Seen(0, 0)'
        BY <1>2, <1>3, <1>4, <2>1, <2>2, <3>1, <3>2 DEF Quiet, Seen
      <3>. QED BY <3>2, <3>3 DEF Recovers
    <2>. QED BY <2>1, <2>3, <2>4
  <1>. QED BY <1>1, <1>5, <1>6, <1>7, EdgeMoves

-----------------------------------------------------------------------------
(* The invariant holds                                                     *)

(* A reset, and the start, leave the machine in IDLE with CS# low.         *)
Resting ==
    /\ fsm \in FsmRecord
    /\ rwr \in RwrRecord
    /\ bus \in BusRecord
    /\ fsm.state = "IDLE" /\ fsm.counter = 0 /\ fsm.csn = 0 /\ fsm.clken = 0
    /\ fsm.datavalid = 0 /\ Quiet /\ Seen(0, 0) /\ bus.pulses = 0 /\ bus.gap = 0
    /\ bus.half = Nothing /\ bus.edges = 0 /\ rwr.ca = <<0, 0, 0>>

LEMMA AtRest == Resting => TopInv
  <1>. SUFFICES ASSUME Resting PROVE TopInv
    OBVIOUS
  <1>1. fsm.state \notin SendCa /\ fsm.state \notin Transfer
        /\ fsm.state \notin SendCa \cup {"MEM_WR1"} /\ fsm.state # "MEM_RD1"
    BY DEF Resting, SendCa, Transfer
  <1>2. Registers
    BY DEF Resting, Registers
  <1>3. Counted
    BY <1>1 DEF Resting, Counted
  <1>4. Loaded /\ Piped
    BY <1>1 DEF Resting, Loaded, Piped
  <1>5. Recovers
    BY DEF Resting, Recovers
  <1>6. Through
    BY DEF Resting, Through
  <1>. QED BY <1>2, <1>3, <1>4, <1>5, <1>6 DEF TopInv, TransferInv

LEMMA TopStarts == TopV2Init => TopInv
  <1>. SUFFICES ASSUME TopV2Init PROVE TopInv
    OBVIOUS
  <1>1. Cleared \in [Slots -> Half] /\ {} \in SUBSET Strobe /\ 0 \in 0..RecoveryTime
        /\ 0 \in 0..LongGap /\ Nothing \in Half /\ <<0, 0, 0>> \in Pipe
        /\ <<0, 0, 0>> \in Bit \X Bit \X Bit /\ 0 \in 0..CaDelay
    BY TopV2Constants DEF Cleared, Slots, Half, LongGap, Pipe, Bit, CaDelay
  <1>2. fsm \in FsmRecord
    BY <1>1, Ranges DEF TopV2Init, FsmRecord
  <1>3. /\ rwr \in RwrRecord
        /\ Quiet /\ Seen(0, 0) /\ rwr.ca = <<0, 0, 0>>
    BY <1>1, Ranges DEF TopV2Init, Quiet, Seen
  <1>4. /\ bus \in BusRecord
        /\ bus.pulses = 0 /\ bus.gap = 0 /\ bus.half = Nothing /\ bus.edges = 0
    BY <1>1 DEF TopV2Init
  <1>5. fsm.state = "IDLE" /\ fsm.counter = 0 /\ fsm.csn = 0 /\ fsm.clken = 0 /\ fsm.datavalid = 0
    BY DEF TopV2Init
  <1>. QED BY <1>2, <1>3, <1>4, <1>5, AtRest DEF Resting

LEMMA ResetRests == Registers /\ TopReset => TopInv'
  <1>. SUFFICES ASSUME Registers, TopReset PROVE TopInv'
    OBVIOUS
  <1>. DEFINE b == [i \in Slots |-> IF i < 16 THEN Nothing ELSE fsm.buffer_out[i]]
              prev == fsm.prev \ {"regr"}
              cut == bus.cut \/ fsm.rwds_oe = 1
  <1>1. b \in [Slots -> Half] /\ prev \in SUBSET Strobe /\ 0 \in 0..RecoveryTime
        /\ 0 \in 0..LongGap /\ Nothing \in Half /\ cut \in BOOLEAN
        /\ <<0, 0, 0>> \in Pipe /\ <<0, 0, 0>> \in Bit \X Bit \X Bit /\ 0 \in 0..CaDelay
    BY TopV2Constants DEF Registers, FsmRecord, Slots, Half, LongGap, Pipe, Bit, CaDelay
  <1>2. fsm' = [fsm EXCEPT !.state = "IDLE", !.counter = 0, !.csn = 0, !.oe = 0, !.clken = 0,
                           !.buffer_out = b, !.prev = prev, !.dataout_reg = <<0, 0, 0>>,
                           !.captured = 0, !.datavalid = 0]
    BY DEF TopReset, Registers, FsmRecord
  <1>3. /\ fsm' \in FsmRecord /\ fsm'.state = "IDLE" /\ fsm'.counter = 0
        /\ fsm'.csn = 0 /\ fsm'.clken = 0 /\ fsm'.datavalid = 0
    <2>. HIDE DEF b, prev
    <2>. QED BY <1>1, <1>2, Ranges DEF FsmRecord, Registers
  <1>4. /\ rwr' \in RwrRecord
        /\ Quiet' /\ Seen(0, 0)' /\ rwr'.ca = <<0, 0, 0>>
    BY <1>1, Ranges DEF TopReset, Quiet, Seen
  <1>5. /\ bus' \in BusRecord
        /\ bus'.pulses = 0 /\ bus'.gap = 0 /\ bus'.half = Nothing /\ bus'.edges = 0
    <2>1. bus' = [pulses |-> 0, gap |-> 0, half |-> Nothing, cut |-> cut, edges |-> 0,
                  early |-> FALSE]
      BY DEF TopReset
    <2>. HIDE DEF cut
    <2>. QED BY <1>1, <2>1
  <1>6. Resting'
    BY <1>3, <1>4, <1>5 DEF Resting
  <1>. QED BY <1>6, AtRest, PTL

LEMMA TopStep == TopInv /\ [TopV2Next]_topVars => TopInv'
  <1>. SUFFICES ASSUME TopInv, [TopV2Next]_topVars PROVE TopInv'
    OBVIOUS
  <1>1. Registers /\ Counted /\ Loaded /\ Piped /\ Through /\ Recovers
    BY DEF TopInv, TransferInv
  <1>2. CASE TopReset
    BY <1>1, <1>2, ResetRests
  <1>3. ASSUME NEW strobes \in SUBSET Strobe, NEW rwds \in {0, 1}, Edge(strobes, rwds)
        PROVE  TopInv'
    <2>1. rwds \in Bit /\ Machine(strobes, rwds) /\ Pulse(fsm')
      BY <1>3 DEF Bit, Edge
    <2>2. Registers' /\ Counted'
      BY <1>1, <1>3, <2>1, EdgeKeepsRegisters, EdgeKeepsCounted
    <2>3. fsm.state \in SendCa \cup {"MEM_WR1"} => Loads
      BY <1>1 DEF Loaded
    <2>4. fsm'.state \in SendCa \cup {"MEM_WR1"} => Loads'
      BY <1>1, <2>1, <2>3, EdgeKeepsLoads
    <2>5. fsm'.csn = 0 /\ fsm'.clken = 1 => bus'.half = Halves'[bus'.pulses]
      BY <1>1, <1>3, <2>1, <2>3, EdgeSendsHalf
    <2>8. fsm'.clken = 0 => bus'.half = Nothing
      BY <2>1, <2>2, PulseFields, <1>1 DEF Registers
    <2>6. Loaded'
      BY <2>4, <2>5, <2>8 DEF Loaded
    <2>7. Piped' /\ Through' /\ Recovers'
      BY <1>1, <1>3, <2>1, EdgeKeepsPiped, EdgeKeepsThrough, EdgeKeepsRecovers
    <2>. QED BY <2>2, <2>6, <2>7 DEF TopInv, TransferInv
  <1>4. CASE UNCHANGED topVars
    BY <1>4 DEF TopInv, TransferInv, topVars, Registers, Counted, Loaded, Loads, Wanted,
                Moved, Filled, Halves, Piped, Through, Recovers, Progress, Quiet, Seen
  <1>. QED BY <1>2, <1>3, <1>4 DEF TopV2Next

-----------------------------------------------------------------------------
(* The theorems                                                            *)

(* A transaction ends with the pulses of its kind.                         *)
LEMMA EndsInTime ==
    ASSUME TopInv, TopV2Next, fsm.csn = 0, fsm'.csn = 1, fsm.state # "IDLE"
    PROVE  bus.pulses = Length(fsm.state)
  <1>1. Registers /\ Counted
    BY DEF TopInv, TransferInv
  <1>2. PICK strobes \in SUBSET Strobe, rwds \in Bit : Machine(strobes, rwds)
    <2>1. ~TopReset
      <3>1. ASSUME TopReset PROVE fsm'.csn = 0
        BY <1>1, <3>1 DEF TopReset, Registers, FsmRecord
      <3>. QED BY <3>1
    <2>. QED BY <2>1 DEF TopV2Next, Edge, Bit
  <1>3. fsm.state \in State
    BY <1>1 DEF Registers, FsmRecord
  <1>4. CASE fsm.state \in SendCa
    <2>1. PICK next \in Transfer, keeps \in BOOLEAN : Sends(fsm', next, keeps)
      BY <1>1, <1>2, <1>4, SendsInThem
    <2>. QED BY <2>1 DEF Sends, Waits, Enables, SendsHalf, GoesOn
  <1>5. CASE fsm.state = "RD_REG1"
    <2>1. fsm.counter = 16
      BY <1>1, <1>2, <1>5, EdgeMoves DEF Continues
    <2>. QED BY <1>1, <1>5, <2>1 DEF Counted, Transfer, Length
  <1>6. CASE fsm.state = "MEM_WR1"
    <2>1. fsm.counter = 28
      BY <1>1, <1>2, <1>6, EdgeMoves DEF Continues
    <2>. QED BY <1>1, <1>6, <2>1 DEF Counted, Transfer, Length
  <1>7. CASE fsm.state = "MEM_RD1"
    <2>1. fsm.counter = 32
      BY <1>1, <1>2, <1>7, EdgeMoves DEF Continues
    <2>. QED BY <1>1, <1>7, <2>1 DEF Counted, Transfer, Length
  <1>. QED BY <1>3, <1>4, <1>5, <1>6, <1>7 DEF State, Transfer

(* While data is valid, each capture is the pulse after the one before.    *)
LEMMA CapturesFollow ==
    ASSUME TopInv, TopInv', TopV2Next, fsm.datavalid = 1, fsm'.datavalid = 1
    PROVE  fsm'.captured = fsm.captured + 1
  <1>1. Registers /\ Counted /\ Piped /\ Piped'
    BY DEF TopInv, TransferInv
  <1>2. PICK strobes \in SUBSET Strobe, rwds \in Bit : Machine(strobes, rwds)
    <2>1. ~TopReset
      <3>1. ASSUME TopReset PROVE fsm'.datavalid = 0
        BY <1>1, <3>1 DEF TopReset, Registers, FsmRecord
      <3>. QED BY <3>1
    <2>. QED BY <2>1 DEF TopV2Next, Edge, Bit
  <1>3. /\ fsm.state = "MEM_RD1" /\ fsm.captured = fsm.counter
        /\ fsm'.state = "MEM_RD1" /\ fsm'.captured = fsm'.counter
    BY <1>1 DEF Piped
  <1>4. fsm'.counter = fsm.counter + 1
    BY <1>1, <1>2, <1>3, EdgeMoves DEF Continues, Ends
  <1>. QED BY <1>3, <1>4

(* A transaction no reset cuts short has the pulses of its kind and the    *)
(* halves of its kind in order, zeros for the command/address when it      *)
(* began within three edges of a reset; a read hands on each pulse's data  *)
(* once.                                                                   *)
THEOREM TransactionsHold == TopV2Spec => TransactionsInOrder
  <1>1. TopInv /\ [TopV2Next]_topVars =>
            [fsm.csn = 0 /\ fsm'.csn = 1 /\ fsm.state # "IDLE"
                => bus.pulses = Length(fsm.state)]_topVars
    BY EndsInTime
  <1>2. TopInv => (fsm.csn = 0 /\ fsm.clken = 1 => bus.half = Halves[bus.pulses])
    BY DEF TopInv, TransferInv, Loaded
  <1>3. TopInv /\ TopInv' /\ [TopV2Next]_topVars =>
            [fsm.datavalid = 1 /\ fsm'.datavalid = 1
                => fsm'.captured = fsm.captured + 1]_topVars
    BY CapturesFollow
  <1>. QED BY <1>1, <1>2, <1>3, TopStarts, TopStep, PTL DEF TopV2Spec, TransactionsInOrder

(* The last of the sixteen halves of a burst never gets to the wires, at   *)
(* any recovery time and whatever the strobes, RWDS and resets do.         *)
THEOREM LastHalfIsLost == TopV2Spec => []LastHalfStays
  <1>1. TopInv => LastHalfStays
    <2>. SUFFICES ASSUME TopInv PROVE bus.half # 18
      BY DEF LastHalfStays
    <2>1. Registers /\ Counted /\ Loaded
      BY DEF TopInv, TransferInv
    <2>2. /\ fsm.state \in State
          /\ fsm.clken = 0 \/ fsm.clken = 1
      BY <2>1 DEF Registers, FsmRecord, Bit
    <2>3. CASE fsm.clken = 0
      BY <2>1, <2>3 DEF Loaded, Nothing
    <2>4. CASE fsm.clken = 1
      <3>1. /\ fsm.csn = 0
            /\ bus.pulses \in 1 .. 36
            /\ fsm.state = "MEM_WR1" => bus.pulses <= 32
        <4>1. CASE fsm.state \in SendCa
          BY <2>1, <2>4, <4>1 DEF Counted, SendCa
        <4>2. CASE fsm.state \in Transfer
          BY <2>1, <4>2 DEF Counted, Transfer, Last
        <4>3. fsm.state # "IDLE"
          BY <2>1, <2>4 DEF Counted
        <4>. QED BY <2>2, <4>1, <4>2, <4>3 DEF State
      <3>2. bus.half = Halves[bus.pulses]
        BY <2>1, <2>4, <3>1 DEF Loaded
      <3>. QED BY <3>1, <3>2 DEF Halves, Nothing
    <2>. QED BY <2>2, <2>3, <2>4
  <1>. QED BY <1>1, TopStarts, TopStep, PTL DEF TopV2Spec

(* A transaction starts with the whole recovery time behind it, or at one  *)
(* of the three edges before the block has seen the last one's end.        *)
THEOREM StallHolds == TopV2Spec => StallSeparates
  <1>1. TopInv /\ [TopV2Next]_topVars =>
            [fsm.state = "IDLE" /\ fsm'.state # "IDLE" /\ fsm.csn = 1
                => bus.gap \in (1..3) \cup (RecoveryTime + 4..LongGap)]_topVars
    <2>. SUFFICES ASSUME TopInv, TopV2Next, fsm.state = "IDLE", fsm'.state # "IDLE",
                         fsm.csn = 1
                  PROVE  bus.gap \in (1..3) \cup (RecoveryTime + 4..LongGap)
      OBVIOUS
    <2>1. Registers /\ Counted /\ Recovers
      BY DEF TopInv, TransferInv
    <2>2. PICK strobes \in SUBSET Strobe, rwds \in Bit : Machine(strobes, rwds)
      <3>1. ASSUME TopReset PROVE fsm'.state = "IDLE"
        BY <2>1, <3>1 DEF TopReset, Registers, FsmRecord
      <3>. QED BY <3>1 DEF TopV2Next, Edge, Bit
    <2>3. rwr.stall # 1
      BY <2>1, <2>2, EdgeMoves DEF Rests, Starts
    <2>4. bus.gap \in 0..LongGap /\ RecoveryTime \in 1..7 /\ LongGap = 15
      BY <2>1, TopV2Constants DEF Registers, LongGap
    <2>5. bus.gap \in {1, 2, 3} \/ bus.gap >= RecoveryTime + 4
      BY <2>1, <2>3 DEF Recovers
    <2>. QED BY <2>4, <2>5
  <1>. QED BY <1>1, TopStarts, TopStep, PTL DEF TopV2Spec, StallSeparates
=============================================================================
