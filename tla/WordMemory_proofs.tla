-------------------------- MODULE WordMemory_proofs --------------------------
(***************************************************************************)
(* The s0 slave as a memory of words: the controller between its master    *)
(* and the device implements WordMemory, for the masters it can serve. The *)
(* command/address and the data of a refill are followed from the device   *)
(* through the cells and rdmem_stm into the line buffer, half by half.     *)
(***************************************************************************)
EXTENDS Pins_proofs

-----------------------------------------------------------------------------
(* The masters that are served.                                            *)

TagAtPowerUp == [row |-> 0, page |-> 0]

\* A write may be followed by no refill of another line: a missed write leaves
\* the device the old line, and an evicted one is not written back.
AddressesIn(w) == IF w = "one_line" THEN Addresses \cap {0, 32, 35} ELSE Addresses
ReadsOnly(w) == w = "reads" \/ "memw" \notin Operations
OneLine(w) == CompareTags /\ \A a, b \in AddressesIn(w) : TagOf(a) = TagOf(b)

\* One request at a time, in the eight words of a group the buffer has, with
\* tags that tell the lines and the power-up state apart.
ServedMasters ==
    /\ MaxPending = 1
    /\ Courteous \/ Workloads \subseteq {"patient"}
    /\ \A a \in Addresses : BufferAddr(a) \in Slots /\ TagOf(a) # TagAtPowerUp
    /\ \A a, b \in Addresses : TagOf(a) = TagOf(b) => a \div 32 = b \div 32
    /\ \A w \in Workloads : ReadsOnly(w) \/ OneLine(w)

-----------------------------------------------------------------------------
(* The inductive invariant.                                                *)

\* The line of an address, as the device has it from the start.
Line(a) ==
    LET line == Contents(Column(a)) IN
    [s \in Slots |-> <<line[2 * s], line[2 * s + 1]>>]

RamIsKept == ram.mem = [c \in Columns |-> Contents(c)]

\* What was issued last, on the wires and in the FSM.
IssuedInv ==
    LET i == master.issued IN
    /\ workload \in Workloads
    /\ master.address = i.address /\ master.word = i.word
    /\ i.cmd \in {"memr", "memw"} => i.address \in AddressesIn(workload)
    /\ i.cmd = "memw" => ~ReadsOnly(workload)
    /\ state = "RDMEM2" => (row = 1 <=> i.cmd = "memr")
    /\ state = "RDMEM1" => i.cmd = "memr"
    /\ state \in {"WRMEM1", "WRMEM2", "ACCDLY"} => i.cmd = "memw"
    /\ state # "IDLE" /\ i.cmd = "memw" => req["memw"] = 0

\* The first n words of a are in the last n slots of the buffer.
Entered(a, n) == \A s \in Slots : s + n >= 8 => buffer[s] = Line(a)[s + n - 8]

\* An even and an odd number of halves sampled: the last word is complete and
\* about to enter, or half of the next one is there.
WordComplete(a, k) ==
    /\ rdmem.inner_counter = 0
    /\ IF k = 0 THEN rdmem.wordvalid = 0
       ELSE /\ rdmem.wordvalid = 1
            /\ rdmem.dataoutr = Line(a)[k - 1]
            /\ Entered(a, k - 1)

WordBegun(a, k) ==
    /\ rdmem.inner_counter = 1 /\ rdmem.wordvalid = 0
    /\ rdmem.dataoutr[2] = Line(a)[k][1]
    /\ Entered(a, k)

\* rdmem_stm away from its data phase.
NoData ==
    rdmem.state # "RUN" \/ rdmem.counter < 16 =>
        rdmem.inner_counter = 0 /\ rdmem.wordvalid = 0

FillOf(a) ==
    /\ rdmem.state = "RUN" /\ rdmem.counter \in 16 .. 31 =>
           dataout = Contents(Column(a))[rdmem.counter - 16]
    /\ rdmem.state = "RUN" /\ rdmem.counter >= 16 =>
           \/ \E k \in 0 .. 8 : rdmem.counter = 16 + 2 * k /\ WordComplete(a, k)
           \/ \E k \in 0 .. 7 : rdmem.counter = 17 + 2 * k /\ WordBegun(a, k)
    /\ rdmem.state = "DONE" => Entered(a, 8)

Hit(a) == CompareTags /\ tag = TagOf(a)

\* The line buffer while the address a is being served.
BufferFor(a) ==
    /\ state = "RDMEM1" => tag = TagOf(a)
    /\ state \in {"RDMEM2", "WRMEM2"} /\ ~ReadsOnly(workload) => tag # TagOf(a)
    /\ state = "RDMEM2" => FillOf(a)
    /\ state = "WRMEM1" /\ ~Hit(a) => buffer = Line(a)
    /\ state = "WRMEM2" =>
           /\ buffer_wrmem = Halves(Line(a))
           /\ buffer = [Line(a) EXCEPT ![BufferAddr(a)] = master.issued.word]

\* Where there are only reads the buffer holds the device's line.
BufferInv ==
    /\ tag = TagAtPowerUp \/ \E b \in AddressesIn(workload) : tag = TagOf(b)
    /\ ReadsOnly(workload) /\ state # "RDMEM2" =>
           \A b \in Addresses : tag = TagOf(b) => buffer = Line(b)
    /\ \A a \in Addresses : captured.s0 = a => BufferFor(a)

MemoryInv == WaitsInv /\ Quiet /\ RamIsKept /\ IssuedInv /\ NoData /\ BufferInv

-----------------------------------------------------------------------------
(* Lines.                                                                  *)

(* Addresses of one group have one line, its halves are the device's, and  *)
(* within the group the slot tells addresses apart.                        *)
LEMMA Groups ==
    ASSUME NEW a \in Nat, NEW b \in Nat, a \div 32 = b \div 32
    PROVE  /\ Line(a) = Line(b)
           /\ BufferAddr(a) = BufferAddr(b) => a = b
  <1>1. Column(a) = Column(b)
    BY DEF Column, OutAddr, UpperColumn, TwiceGroup, DeviceRow
  <1>. QED BY <1>1 DEF Line, BufferAddr

LEMMA LinesOfDevice ==
    ASSUME NEW a \in Addresses
    PROVE  /\ a \in WordAddress /\ a \in Nat
           /\ Column(a) \in Columns /\ Contents(Column(a)) \in HalfLines
           /\ Line(a) \in Lines /\ Halves(Line(a)) = Contents(Column(a))
  <1>1. a \in WordAddress /\ a \in Nat
    BY ConstantsType DEF WordAddress
  <1>2. Column(a) \in Columns
    BY DEF Column, Columns
  <1>3. Contents(Column(a)) \in HalfLines
    BY <1>2, DeviceValues
  <1>. DEFINE line == Contents(Column(a))
  <1>4. line \in [0 .. 15 -> Half]
    BY <1>3 DEF HalfLines
  <1>. HIDE DEF line
  <1>5. /\ \A s \in Slots : 2 * s \in 0 .. 15 /\ 2 * s + 1 \in 0 .. 15
        /\ \A i \in 0 .. 15 : i \div 2 \in Slots /\ i % 2 \in 0 .. 1
                              /\ i = 2 * (i \div 2) + (i % 2)
    <2>1. \A s \in Slots : 2 * s \in 0 .. 15 /\ 2 * s + 1 \in 0 .. 15
      BY DEF Slots
    <2>2. ASSUME NEW i \in 0 .. 15
          PROVE  i \div 2 \in 0 .. 7 /\ i % 2 \in 0 .. 1 /\ i = 2 * (i \div 2) + (i % 2)
      <3>1. i \in Nat
        OBVIOUS
      <3>2. i % 2 \in 0 .. 1
        BY <3>1
      <3>3. i = 2 * (i \div 2) + (i % 2)
        BY <3>1
      <3>4. i \div 2 \in 0 .. 7
        BY <3>1, <3>2, <3>3
      <3>. QED BY <3>2, <3>3, <3>4
    <2>. QED BY <2>1, <2>2 DEF Slots
  <1>6. Line(a) = [s \in Slots |-> <<line[2 * s], line[2 * s + 1]>>]
    BY DEF Line, line
  <1>7. Line(a) \in Lines
    BY <1>4, <1>5, <1>6 DEF Lines, Word
  <1>8. ASSUME NEW i \in 0 .. 15 PROVE Line(a)[i \div 2][1 + (i % 2)] = line[i]
    <2>1. Line(a)[i \div 2] = <<line[2 * (i \div 2)], line[2 * (i \div 2) + 1]>>
      BY <1>5, <1>6
    <2>2. CASE i % 2 = 0
      BY <1>5, <2>1, <2>2
    <2>3. CASE i % 2 = 1
      BY <1>5, <2>1, <2>3
    <2>. QED BY <1>5, <2>2, <2>3
  <1>9. Halves(Line(a)) = [i \in 0 .. 15 |-> line[i]]
    BY <1>8 DEF Halves
  <1>10. Halves(Line(a)) = line
    BY <1>4, <1>9
  <1>. QED BY <1>1, <1>2, <1>3, <1>7, <1>10 DEF line

-----------------------------------------------------------------------------
(* The device keeps its lines: the only line ever written back is the one  *)
(* it was given by the device.                                             *)

LEMMA StoresLine ==
    ASSUME PatientInv, Quiet, BufferInv, IssuedInv, Stores
    PROVE  /\ state = "WRMEM2" /\ captured.s0 \in Addresses
           /\ ram.ca[2] = Column(captured.s0)
           /\ ram.pulses \in 17 .. 32
           /\ DqOnPad = Contents(Column(captured.s0))[ram.pulses - 17]
  <1>1. /\ Pulse /\ ram.pulses >= 17 /\ ~ReadCa(ram.ca)
        /\ pins.rwds_oe = 1 => pins.rwds_out = 0
    BY DEF Stores, FirstData
  <1>2. /\ PinsInv /\ SystemInv /\ IInv /\ Bus /\ BusAtRest /\ Positions
        /\ PatientMaster /\ ram.pulses \in Nat
    BY DEF PatientInv, WholeInv, PinsInv, SystemInv, Bus, DeviceType
  <1>3. ~AllIdle
    BY <1>1, <1>2 DEF BusAtRest, Pulse
  <1>4. IsTold
    BY DeviceIsTold
  <1>5. rdreg.state = "IDLE"
    <2>1. SUFFICES ASSUME rdreg.state # "IDLE" PROVE FALSE
      OBVIOUS
    <2>2. ram.ca = CsrCa(master.issued.address)
      BY <1>1, <1>2, <1>4, <2>1, OneIsStarted DEF IsTold
    <2>. QED BY <1>1, <2>2, CsrCaSpace DEF ReadCa, RegisterSpace
  <1>6. rdmem.state = "IDLE"
    <2>1. SUFFICES ASSUME rdmem.state # "IDLE" PROVE FALSE
      OBVIOUS
    <2>2. ram.ca = OutAddr(master.issued.address, 1)
      BY <1>1, <1>2, <1>4, <2>1, OneIsStarted DEF IsTold
    <2>. QED BY <1>1, <2>2 DEF ReadCa, OutAddr
  <1>7. wrmem.state # "IDLE" /\ state = "WRMEM2"
    BY <1>2, <1>3, <1>5, <1>6, OneIsStarted DEF AllIdle
  <1>8. wrmem.state \in {"CA", "RUN", "DONE"}
    BY <1>2, <1>7, SharedSets DEF IInv, TypeOK, WrMem!Registers
  <1>9. ram.pulses \in 17 .. 32
    BY <1>1, <1>2, <1>8 DEF Bus, Positions, Position, OnWires
  <1>10. DqOnPad = buffer_wrmem[ram.pulses - 17]
    <2>1. WriteBackOnPins
      BY <1>2, LineReachesPads DEF PinsInv
    <2>. QED BY <1>1, <1>7, <1>9, <2>1 DEF WriteBackOnPins, FirstData
  <1>11. captured.s0 = master.issued.address /\ captured.s0 \in Addresses
    BY <1>2, <1>7 DEF PatientMaster, Taken, IssuedInv, AddressesIn
  <1>12. buffer_wrmem = Contents(Column(captured.s0))
    BY <1>7, <1>11, LinesOfDevice DEF BufferInv, BufferFor
  <1>13. ram.ca[2] = Column(captured.s0)
    BY <1>4, <1>7, <1>9, <1>11 DEF IsTold
  <1>. QED BY <1>7, <1>9, <1>10, <1>11, <1>12, <1>13

LEMMA RamStaysKept ==
    ASSUME PatientInv, Quiet, BufferInv, IssuedInv, RamIsKept, DeviceStep
    PROVE  RamIsKept'
  <1>1. CASE ~Stores
    BY <1>1 DEF DeviceStep, RamIsKept
  <1>2. CASE Stores
    <2>1. /\ ram.ca[2] \in Columns /\ ram.pulses - 17 \in 0 .. 15
          /\ (ram.pulses - 17) % 16 = ram.pulses - 17
          /\ DqOnPad = Contents(ram.ca[2])[ram.pulses - 17]
      BY <1>2, StoresLine DEF Stores
    <2>2. ram.mem[ram.ca[2]] = Contents(ram.ca[2])
      BY <2>1 DEF RamIsKept
    <2>3. ram'.mem = [ram.mem EXCEPT ![ram.ca[2]][(ram.pulses - 17) % 16] = DqOnPad]
      BY <1>2 DEF DeviceStep, FirstData
    <2>4. Contents(ram.ca[2]) \in [0 .. 15 -> Half]
      BY <2>1, DeviceValues DEF HalfLines
    <2>. DEFINE column == ram.ca[2]
                i == ram.pulses - 17
                line == Contents(column)
    <2>5. /\ ram'.mem = [ram.mem EXCEPT ![column] = [line EXCEPT ![i] = line[i]]]
          /\ line \in [0 .. 15 -> Half] /\ i \in 0 .. 15 /\ column \in Columns
          /\ ram.mem[column] = line
      <3>1. line \in [0 .. 15 -> Half] /\ i \in 0 .. 15 /\ column \in Columns
        BY <2>1, <2>4
      <3>2. ram.mem[column] = line
        BY <2>2
      <3>3. /\ ram'.mem = [ram.mem EXCEPT ![column][i % 16] = DqOnPad]
            /\ i % 16 = i /\ DqOnPad = line[i]
        BY <2>1, <2>3
      <3>. HIDE DEF line, i, column
      <3>4. ram'.mem = [ram.mem EXCEPT ![column][i] = line[i]]
        BY <3>3
      <3>. QED BY <3>1, <3>2, <3>4
    <2>6. [line EXCEPT ![i] = line[i]] = line
      <3>. HIDE DEF line, i
      <3>. QED BY <2>5
    <2>7. ram'.mem = ram.mem
      <3>. HIDE DEF line, i, column
      <3>1. ram'.mem = [ram.mem EXCEPT ![column] = line]
        BY <2>5, <2>6
      <3>2. column \in Columns /\ ram.mem[column] = line
        BY <2>5
      <3>. QED BY <3>1, <3>2 DEF RamIsKept
    <2>. QED BY <2>7 DEF RamIsKept
  <1>. QED BY <1>1, <1>2

-----------------------------------------------------------------------------
(* A refill: from the device into the line buffer.                         *)

(* What an edge does to the data of rdmem_stm.                             *)
LEMMA RdMemData ==
    ASSUME NEW start, NEW ca, NEW rwds \in Bit, NEW d,
           rdmem \in RdMem!Registers, Position(rdmem, 32, 32),
           RdMem!Step(start, ca, rwds, d)
    PROVE  /\ rdmem.state # "RUN" =>
                 /\ rdmem'.inner_counter = rdmem.inner_counter
                 /\ rdmem'.wordvalid \in {0, rdmem.wordvalid}
                 /\ rdmem'.state = "RUN" => rdmem'.counter = 0
                 /\ rdmem'.state # "DONE"
           /\ rdmem.state = "RUN" /\ rdmem.counter < 16 =>
                 /\ rdmem'.state = "RUN" /\ rdmem'.counter = rdmem.counter + 1
                 /\ rdmem'.inner_counter = rdmem.inner_counter
                 /\ rdmem'.wordvalid = rdmem.wordvalid
           /\ rdmem.state = "RUN" /\ rdmem.counter >= 16 /\ rdmem.counter # 32 =>
                 /\ rdmem'.state = "RUN" /\ rdmem'.counter = rdmem.counter + 1
                 /\ rdmem.inner_counter = 0 =>
                       /\ rdmem'.inner_counter = 1 /\ rdmem'.wordvalid = 0
                       /\ rdmem'.dataoutr[2] = d
                 /\ rdmem.inner_counter = 1 =>
                       /\ rdmem'.inner_counter = 0 /\ rdmem'.wordvalid = 1
                       /\ rdmem'.dataoutr = <<rdmem.dataoutr[2], d>>
           /\ rdmem.state = "RUN" /\ rdmem.counter = 32 =>
                 /\ rdmem'.state = "DONE" /\ rdmem'.wordvalid = 0
                 /\ rdmem'.inner_counter = rdmem.inner_counter
  <1>. USE DEF RdMem!Registers
  <1>1. CASE RdMem!Rest(start, ca)
    BY <1>1 DEF RdMem!Rest, RdMem!Loaded
  <1>2. CASE RdMem!Start(start, ca)
    BY <1>2 DEF RdMem!Start, RdMem!Loaded
  <1>3. CASE RdMem!AwaitRwds(rwds)
    BY <1>3 DEF RdMem!AwaitRwds
  <1>4. CASE RdMem!DriveCa(rwds)
    BY <1>4 DEF RdMem!DriveCa
  <1>5. CASE RdMem!ShiftCa
    BY <1>5 DEF RdMem!ShiftCa, RdMem!InCa
  <1>6. CASE RdMem!CaSent
    BY <1>6 DEF RdMem!CaSent, RdMem!InCa
  <1>7. CASE RdMem!Latency
    BY <1>7 DEF RdMem!Latency, RdMem!FirstHalf
  <1>8. CASE RdMem!SampleUpper(d)
    BY <1>8 DEF RdMem!SampleUpper, RdMem!Sampling, RdMem!BurstEnd, RdMem!FirstHalf, Position
  <1>9. CASE RdMem!SampleLower(d)
    BY <1>9 DEF RdMem!SampleLower, RdMem!Sampling, RdMem!BurstEnd, RdMem!FirstHalf, Position
  <1>10. CASE RdMem!EndBurst
    BY <1>10 DEF RdMem!EndBurst, RdMem!BurstEnd
  <1>11. CASE RdMem!Finish
    BY <1>11 DEF RdMem!Finish
  <1>. QED
    BY <1>1, <1>2, <1>3, <1>4, <1>5, <1>6, <1>7, <1>8, <1>9, <1>10, <1>11
       DEF RdMem!Step, RdMem!SendCa

\* An edge of rdmem_stm with the value of the input cells.
RdMemEdge(rwds) == RdMem!Step(stm_start[2], CA_sigr, rwds, dataout)

LEMMA RdMemSteps ==
    ASSUME SystemInv, Bus, NEW rwds \in Bit, Tick(rwds)
    PROVE  /\ RdMemEdge(rwds) /\ rdmem \in RdMem!Registers /\ Position(rdmem, 32, 32)
           /\ OnWires(rdmem, 32, 32) /\ dataout' = DeviceData
           /\ rdmem.state \in {"IDLE", "CA", "RUN", "DONE"}
           /\ rdmem.state # "IDLE" => stm_start[2] = 1 /\ state = "RDMEM2"
           /\ rdmem'.state # "IDLE" => rdmem.state # "IDLE" \/ state = "RDMEM2"
  <1>1. /\ Clock(Wires(rwds)) /\ Wires(rwds).rwds_in = rwds /\ Wires(rwds).dataout = dataout
        /\ dataout' = DeviceData
    BY DEF Tick, CellStep, Wires
  <1>2. RdMemEdge(rwds)
    BY <1>1 DEF Clock, RdMemEdge
  <1>3. /\ rdmem \in RdMem!Registers /\ Position(rdmem, 32, 32) /\ OnWires(rdmem, 32, 32)
        /\ IInv /\ Positions
    BY DEF SystemInv, IInv, TypeOK, Bus, Positions
  <1>4. rdmem.state \in {"IDLE", "CA", "RUN", "DONE"}
    BY <1>3, SharedSets DEF RdMem!Registers
  <1>5. BurstMove(rdmem, rdmem', stm_start[2], CA_sigr, 32, 32)
    BY <1>1, <1>3, AllMove
  <1>6. rdmem'.state # "IDLE" => rdmem.state # "IDLE" \/ stm_start[2] = 1
    BY <1>5 DEF BurstMove, Resting, Starting, Waiting, Shifts, Releasing, Running,
                Ending, Finishing
  <1>. QED BY <1>1, <1>2, <1>3, <1>4, <1>6, OneIsStarted

(* The half rdmem_stm is about to sample is the one that is due.           *)
LEMMA HalfArrives ==
    ASSUME SystemInv, Bus, NEW rwds \in Bit, Tick(rwds), NEW a \in Addresses, RamIsKept,
           rdmem.state = "RUN", rdmem.counter \in 15 .. 30,
           ram.ca = OutAddr(a, 1)
    PROVE  dataout' = Contents(Column(a))[rdmem.counter - 15]
  <1>1. OnWires(rdmem, 32, 32) /\ dataout' = DeviceData
    BY RdMemSteps
  <1>2. Pulse /\ ram.pulses = rdmem.counter + 2
    BY <1>1 DEF OnWires, Pulse
  <1>3. /\ Column(a) \in Columns /\ OutAddr(a, 1)[2] = Column(a)
        /\ OutAddr(a, 1)[1] = 32768
    BY LinesOfDevice DEF Column, OutAddr
  <1>4. /\ ram.ca[2] = Column(a) /\ ram.ca[1] = 32768
        /\ ram.pulses >= 17 /\ (ram.pulses - 17) % 16 = rdmem.counter - 15
    BY <1>2, <1>3
  <1>5. DeviceData = ram.mem[Column(a)][rdmem.counter - 15]
    BY <1>2, <1>3, <1>4 DEF DeviceData, ReadCa, RegisterCa, FirstData
  <1>. QED BY <1>1, <1>3, <1>5 DEF RamIsKept


(* A complete word enters at the top, behind the words before it.          *)
LEMMA WordEnters ==
    ASSUME NEW a \in Addresses, NEW k \in 0 .. 8, WordComplete(a, k),
           buffer' = IF rdmem.wordvalid = 1 THEN ShiftIn(rdmem.dataoutr) ELSE buffer
    PROVE  Entered(a, k)'
  <1>1. Line(a)' = Line(a)
    BY DEF Line, Contents, Column
  <1>2. CASE k = 0
    BY <1>2 DEF Entered, Slots
  <1>3. CASE k # 0
    <2>1. /\ \A s \in 0 .. 7 : buffer'[s] = IF s = 7 THEN Line(a)[k - 1] ELSE buffer[s + 1]
          /\ \A s \in 0 .. 7 : s + (k - 1) >= 8 => buffer[s] = Line(a)[s + (k - 1) - 8]
      BY <1>3 DEF WordComplete, ShiftIn, Entered, Slots
    <2>2. ASSUME NEW s \in 0 .. 7, s + k >= 8 PROVE buffer'[s] = Line(a)[s + k - 8]
      <3>1. CASE s = 7
        <4>1. k - 1 = s + k - 8
          BY <3>1
        <4>. QED BY <2>1, <3>1, <4>1
      <3>2. CASE s # 7
        <4>1. s + 1 \in 0 .. 7 /\ (s + 1) + (k - 1) >= 8 /\ (s + 1) + (k - 1) - 8 = s + k - 8
          BY <1>3, <2>2, <3>2
        <4>2. buffer[s + 1] = Line(a)[(s + 1) + (k - 1) - 8]
          BY <2>1, <4>1
        <4>. QED BY <2>1, <3>2, <4>1, <4>2
      <3>. QED BY <3>1, <3>2
    <2>. QED BY <1>1, <2>2 DEF Entered, Slots
  <1>. QED BY <1>2, <1>3

(* The halves of a word are those of the device's line.                    *)
LEMMA WordOfHalves ==
    ASSUME NEW a \in Addresses, NEW k \in 0 .. 7
    PROVE  /\ Line(a)[k] = <<Contents(Column(a))[2 * k], Contents(Column(a))[2 * k + 1]>>
           /\ Line(a)[k][1] = Contents(Column(a))[2 * k]
  BY DEF Line, Slots

(* One edge takes a refill one half further.                               *)
LEMMA FillKept ==
    ASSUME SystemInv, Bus, NEW rwds \in Bit, Tick(rwds), NEW a \in Addresses, RamIsKept, NoData,
           state = "RDMEM2" => FillOf(a),
           state = "RDMEM2" /\ ram.pulses >= 3 => ram.ca = OutAddr(a, 1)
    PROVE  /\ NoData' /\ FillOf(a)'
           /\ state # "RDMEM2" => rdmem'.state = "IDLE"
           /\ state = "RDMEM2" /\ rdmem.state = "DONE" => buffer' = buffer
  <1>1. /\ RdMemEdge(rwds) /\ rdmem \in RdMem!Registers /\ Position(rdmem, 32, 32)
        /\ OnWires(rdmem, 32, 32)
        /\ rdmem.state \in {"IDLE", "CA", "RUN", "DONE"}
        /\ rdmem.state # "IDLE" => state = "RDMEM2"
        /\ rdmem'.state # "IDLE" => rdmem.state # "IDLE" \/ state = "RDMEM2"
    BY RdMemSteps
  <1>2. rdmem.state = "RUN" => rdmem.counter \in 0 .. 32
    BY <1>1 DEF Position
  <1>. DEFINE Goes(r, n) ==
          /\ r.state # "RUN" =>
                 /\ n.inner_counter = r.inner_counter
                 /\ n.wordvalid \in {0, r.wordvalid}
                 /\ n.state = "RUN" => n.counter = 0
                 /\ n.state # "DONE"
          /\ r.state = "RUN" /\ r.counter < 16 =>
                 /\ n.state = "RUN" /\ n.counter = r.counter + 1
                 /\ n.inner_counter = r.inner_counter
                 /\ n.wordvalid = r.wordvalid
          /\ r.state = "RUN" /\ r.counter >= 16 /\ r.counter # 32 =>
                 /\ n.state = "RUN" /\ n.counter = r.counter + 1
                 /\ r.inner_counter = 0 =>
                       /\ n.inner_counter = 1 /\ n.wordvalid = 0
                       /\ n.dataoutr[2] = dataout
                 /\ r.inner_counter = 1 =>
                       /\ n.inner_counter = 0 /\ n.wordvalid = 1
                       /\ n.dataoutr = <<r.dataoutr[2], dataout>>
          /\ r.state = "RUN" /\ r.counter = 32 =>
                 /\ n.state = "DONE" /\ n.wordvalid = 0
                 /\ n.inner_counter = r.inner_counter
  <1>3. Goes(rdmem, rdmem')
    BY <1>1, RdMemData DEF RdMemEdge
  <1>4. state # "RDMEM2" => rdmem'.state = "IDLE"
    BY <1>1
  <1>5. state = "RDMEM2" =>
            buffer' = IF rdmem.wordvalid = 1 THEN ShiftIn(rdmem.dataoutr) ELSE buffer
    BY DEF Tick, Clock, CommandStep, Idle, ReadRegister, WriteRegister, ReadBuffer, WriteBuffer,
           Fill, WriteBack, AccessDelay
  <1>6. ASSUME rdmem.state = "RUN", rdmem.counter \in 15 .. 30
        PROVE  dataout' = Contents(Column(a))[rdmem.counter - 15]
    <2>1. ram.pulses >= 3
      BY <1>1, <1>6 DEF OnWires
    <2>. QED BY <1>1, <1>6, <2>1, HalfArrives
  <1>7. Contents(Column(a))' = Contents(Column(a)) /\ Line(a)' = Line(a)
    BY DEF Line, Contents, Column
  <1>8. CASE rdmem.state # "RUN"
    <2>1. NoData'
      BY <1>3, <1>8 DEF NoData
    <2>2. FillOf(a)'
      BY <1>3, <1>8 DEF FillOf
    <2>3. state = "RDMEM2" => buffer' = buffer
      BY <1>5, <1>8 DEF NoData
    <2>. QED BY <1>4, <2>1, <2>2, <2>3
  <1>9. CASE rdmem.state = "RUN" /\ rdmem.counter < 16
    <2>1. /\ rdmem'.state = "RUN" /\ rdmem'.counter = rdmem.counter + 1
          /\ rdmem'.inner_counter = 0 /\ rdmem'.wordvalid = 0
          /\ rdmem.counter \in 0 .. 15
      BY <1>2, <1>3, <1>9 DEF NoData
    <2>2. rdmem'.counter = 16 => dataout' = Contents(Column(a))[0]
      BY <1>6, <1>9, <2>1
    <2>3. NoData'
      BY <2>1 DEF NoData
    <2>4. WordComplete(a, 0)'
      BY <2>1 DEF WordComplete
    <2>5. FillOf(a)'
      <3>1. rdmem'.counter >= 16 => rdmem'.counter = 16 + 2 * 0
        BY <2>1
      <3>2. rdmem'.counter \in 16 .. 31 =>
                rdmem'.counter - 16 = 0 /\ dataout' = Contents(Column(a))[rdmem'.counter - 16]
        BY <2>1, <2>2
      <3>3. 0 \in 0 .. 8
        OBVIOUS
      <3>. QED BY <1>7, <2>1, <2>4, <3>1, <3>2, <3>3 DEF FillOf
    <2>. QED BY <1>1, <1>9, <2>3, <2>5
  <1>10. CASE rdmem.state = "RUN" /\ rdmem.counter >= 16
    <2>1. state = "RDMEM2" /\ FillOf(a)
      BY <1>1, <1>10
    <2>2. \/ \E k \in 0 .. 8 : rdmem.counter = 16 + 2 * k /\ WordComplete(a, k)
          \/ \E k \in 0 .. 7 : rdmem.counter = 17 + 2 * k /\ WordBegun(a, k)
      BY <1>10, <2>1 DEF FillOf
    <2>3. rdmem.counter # 32 => dataout = Contents(Column(a))[rdmem.counter - 16]
      <3>1. rdmem.counter # 32 => rdmem.counter \in 16 .. 31
        BY <1>2, <1>10
      <3>. QED BY <1>10, <2>1, <3>1 DEF FillOf
    <2>4. ASSUME rdmem.counter # 32
          PROVE  /\ rdmem'.counter \in 16 .. 31 =>
                        dataout' = Contents(Column(a))[rdmem'.counter - 16]
                 /\ rdmem'.state = "RUN" /\ rdmem'.counter = rdmem.counter + 1
                 /\ rdmem'.counter >= 17 /\ NoData'
      <3>1. rdmem'.state = "RUN" /\ rdmem'.counter = rdmem.counter + 1
        BY <1>3, <1>10, <2>4
      <3>2. rdmem.counter \in 16 .. 31
        BY <1>2, <1>10, <2>4
      <3>3. rdmem'.counter \in 16 .. 31 =>
                rdmem.counter \in 15 .. 30 /\ rdmem'.counter - 16 = rdmem.counter - 15
        BY <3>1, <3>2
      <3>4. NoData'
        BY <3>1, <3>2 DEF NoData
      <3>5. rdmem'.counter >= 17
        BY <3>1, <3>2
      <3>. QED BY <1>6, <1>10, <3>1, <3>3, <3>4, <3>5
    <2>5. ASSUME NEW k \in 0 .. 7, rdmem.counter = 16 + 2 * k, WordComplete(a, k)
          PROVE  NoData' /\ FillOf(a)'
      <3>1. rdmem.counter # 32 /\ rdmem.counter - 16 = 2 * k /\ k \in 0 .. 8
        BY <2>5
      <3>2. Entered(a, k)'
        BY <1>5, <2>1, <2>5, <3>1, WordEnters
      <3>3. /\ rdmem'.inner_counter = 1 /\ rdmem'.wordvalid = 0
            /\ rdmem'.dataoutr[2] = Line(a)[k][1]
        BY <1>3, <1>10, <2>3, <2>5, <3>1, WordOfHalves DEF WordComplete
      <3>4. WordBegun(a, k)'
        BY <1>7, <3>2, <3>3 DEF WordBegun
      <3>5. rdmem'.counter = 17 + 2 * k
        BY <2>4, <2>5, <3>1
      <3>. QED BY <1>7, <2>4, <3>1, <3>4, <3>5 DEF FillOf
    <2>6. ASSUME rdmem.counter = 16 + 2 * 8, WordComplete(a, 8)
          PROVE  NoData' /\ FillOf(a)'
      <3>1. rdmem.counter = 32
        BY <2>6
      <3>2. Entered(a, 8)'
        BY <1>5, <2>1, <2>6, WordEnters
      <3>3. rdmem'.state = "DONE" /\ rdmem'.wordvalid = 0 /\ rdmem'.inner_counter = 0
        BY <1>3, <1>10, <2>6, <3>1 DEF WordComplete
      <3>. QED BY <3>2, <3>3 DEF FillOf, NoData
    <2>7. ASSUME NEW k \in 0 .. 7, rdmem.counter = 17 + 2 * k, WordBegun(a, k)
          PROVE  NoData' /\ FillOf(a)'
      <3>1. rdmem.counter # 32 /\ rdmem.counter - 16 = 2 * k + 1 /\ k + 1 \in 0 .. 8
        BY <2>7
      <3>2. rdmem'.inner_counter = 0 /\ rdmem'.wordvalid = 1
            /\ rdmem'.dataoutr = Line(a)[k]
        BY <1>3, <1>10, <2>3, <2>7, <3>1, WordOfHalves DEF WordBegun
      <3>3. buffer' = buffer
        BY <1>5, <2>1, <2>7 DEF WordBegun
      <3>4. WordComplete(a, k + 1)'
        <4>1. k + 1 - 1 = k /\ k + 1 # 0
          BY <2>7
        <4>2. Entered(a, k)'
          BY <1>7, <2>7, <3>3 DEF WordBegun, Entered
        <4>. QED BY <1>7, <3>2, <4>1, <4>2 DEF WordComplete
      <3>5. rdmem'.counter = 16 + 2 * (k + 1)
        BY <2>4, <2>7, <3>1
      <3>. QED BY <1>7, <2>4, <3>1, <3>4, <3>5 DEF FillOf
    <2>8. \A k \in 0 .. 8 : k \in 0 .. 7 \/ k = 8
      OBVIOUS
    <2>. QED BY <1>1, <1>10, <2>1, <2>2, <2>5, <2>6, <2>7, <2>8
  <1>. QED BY <1>8, <1>9, <1>10, <1>2


-----------------------------------------------------------------------------
(* Edges of a master that waits, and of the FSM that serves it.            *)

\* Something is issued; nothing is, and the wires stay.
IsIssued ==
    /\ AtRest /\ master.cmd = "none" /\ master.pending < MaxPending
    /\ \E c \in Operations : \E a \in AddressesOf(c), w \in WordsOf(c) :
           /\ master'.cmd = c /\ master'.address = a /\ master'.word = w
           /\ master'.issued = [cmd |-> c, address |-> a, word |-> w]

StillIssued ==
    /\ master'.issued = master.issued
    /\ master'.address = master.address /\ master'.word = master.word
    /\ master'.cmd \in {master.cmd, "none"}

LEMMA IssuesOrNot ==
    ASSUME SystemInv, Quiet, NEW rwds \in Bit, MCTick(rwds)
    PROVE  IsIssued \/ StillIssued
  <1>1. MasterStep /\ MasterType
    BY DEF MCTick, Tick, SystemInv
  <1>2. ASSUME NEW c \in Operations, NEW a \in AddressesOf(c), NEW w \in WordsOf(c),
               Issue(c, a, w)
        PROVE  IsIssued
    <2>1. c \in Command /\ c # "none"
      BY SystemConstants DEF Command
    <2>2. /\ master.cmd = "none" /\ master.pending < MaxPending
          /\ master'.cmd = c /\ master'.address = a /\ master'.word = w
          /\ master'.issued = [cmd |-> c, address |-> a, word |-> w]
      BY <1>2 DEF Issue, MayIssue
    <2>3. AtRest
      BY <2>1, <2>2, QuietIssues
    <2>. QED BY <2>2, <2>3 DEF IsIssued
  <1>3. Hold => StillIssued
    BY DEF Hold, StillIssued
  <1>4. Release => StillIssued
    BY DEF Release, StillIssued
  <1>5. Pause => StillIssued
    BY DEF Pause, StillIssued
  <1>. QED BY <1>1, <1>2, <1>3, <1>4, <1>5 DEF MasterStep

\* A controller at rest: nothing happens but an answer that is taken, or
\* something is issued.
RestEdge ==
    /\ AtEase /\ state = "IDLE" /\ state' = "IDLE"
    /\ \/ AtEase' /\ StillIssued
       \/ JustIssued' /\ IsIssued /\ Answered = 0

\* What was issued is sampled.
SampledEdge ==
    /\ JustIssued /\ state = "IDLE" /\ state' = "IDLE"
    /\ StillIssued
    /\ \E c \in Command : master.cmd = c /\ master.issued.cmd = c /\ JustSampled(c)'

\* What was sampled is accepted.
AcceptEdge(c) ==
    /\ JustSampled(c) /\ state = "IDLE" /\ state' # "IDLE"
    /\ StillIssued /\ master.issued.cmd = c
    /\ c \in {"memr", "memw"} => captured.s0 = master.issued.address
    /\ c = "regr" => state' = "RDREG"
    /\ c = "regw" => state' = "WRREG"
    /\ c = "memr" => state' = (IF buffer_hit THEN "RDMEM1" ELSE "RDMEM2") /\ row' = 1
    /\ c = "memw" => state' = (IF buffer_hit THEN "WRMEM1" ELSE "RDMEM2") /\ row' = 0

LEMMA IdleEdges ==
    ASSUME WaitsInv, Quiet, NEW rwds \in Bit, MCTick(rwds), state = "IDLE", Waits',
           MaxPending = 1
    PROVE  /\ RestEdge \/ SampledEdge \/ \E c \in Command : AcceptEdge(c)
           /\ UNCHANGED cacheVars /\ resp'.valid = 0
  <1>1. /\ SystemInv /\ IInv /\ PatientMaster /\ Waits /\ MasterType
        /\ Clock(Wires(rwds)) /\ CommandStep(Wires(rwds)) /\ prev' = req
        /\ IsIssued \/ StillIssued
    BY IssuesOrNot DEF WaitsInv, PatientInv, WholeInv, PinsInv, SystemInv, MCTick, Tick, Clock,
                       SampleRequests
  <1>2. /\ \A c \in Command : req'[c] = 1 <=> c = master.cmd
        /\ master.cmd = "none" => req' = Low
        /\ \A c \in Command : Low[c] = 0 /\ c # "none"
    BY <1>1, Samples DEF Low, Command
  <1>3. Idle
    BY <1>1 DEF CommandStep, ReadRegister, WriteRegister, ReadBuffer, WriteBuffer, Fill,
                WriteBack, AccessDelay
  <1>4. UNCHANGED cacheVars /\ resp'.valid = 0
    BY <1>1, <1>3 DEF Idle, IInv, TypeOK, Answers
  <1>5. CASE AtEase
    <2>1. state' = "IDLE" /\ req' = Low
      BY <1>1, <1>2, <1>5, RestStays DEF AtEase
    <2>2. AtEase' \/ JustIssued'
      BY <1>2, <2>1 DEF Waits, JustSampled, Rising
    <2>3. AtEase' => StillIssued
      BY <1>1, <1>2, SystemConstants DEF AtEase, IsIssued
    <2>4. JustIssued' => IsIssued
      BY <1>1, <1>2, <1>5 DEF AtEase, JustIssued, StillIssued
    <2>5. IsIssued => Answered = 0
      <3>1. resp.valid \in {0, 1} /\ rdreg.valid \in {0, 1}
        BY <1>1, SharedSets DEF IInv, TypeOK, Answers, RdReg!Registers, Bit
      <3>. QED BY <1>5, <3>1 DEF IsIssued, AtEase, Answered
    <2>. QED BY <1>4, <1>5, <2>1, <2>2, <2>3, <2>4, <2>5 DEF RestEdge
  <1>6. CASE JustIssued
    <2>1. state' = "IDLE"
      BY <1>1, <1>6, RestStays DEF JustIssued
    <2>2. StillIssued
      BY <1>1, <1>2, <1>6 DEF JustIssued, IsIssued
    <2>3. req'[master.cmd] = 1 /\ master.cmd \in Command /\ req' # Low
      BY <1>2, <1>6 DEF JustIssued
    <2>4. PICK c \in Command : JustSampled(c)'
      BY <2>1, <2>3 DEF Waits, AtEase, JustIssued
    <2>5. c = master.cmd
      BY <1>2, <2>3, <2>4 DEF JustSampled, Rising
    <2>6. master.issued.cmd = c
      BY <1>1, <1>2, <2>5 DEF PatientMaster
    <2>. QED BY <1>4, <1>6, <2>1, <2>2, <2>4, <2>5, <2>6 DEF SampledEdge
  <1>7. ASSUME NEW c \in Command, JustSampled(c)
        PROVE  AcceptEdge(c)
    <2>1. \A d \in Command : Rising(d) <=> d = c
      BY <1>7 DEF JustSampled, Rising
    <2>2. req # Low /\ req[c] = 1
      BY <1>2, <1>7 DEF JustSampled, Rising
    <2>3. StillIssued
      BY <1>1, <2>2 DEF IsIssued, AtRest
    <2>4. /\ master.issued.cmd = c
          /\ c \in {"memr", "memw"} => captured.s0 = master.issued.address
      BY <1>1, <2>2 DEF PatientMaster, Taken
    <2>5. Accept
      BY <1>3, <2>1 DEF Idle, NoCommand
    <2>6. /\ "regr" \in Command /\ "regw" \in Command /\ "memr" \in Command /\ "memw" \in Command
          /\ c \in {"regr", "regw", "memr", "memw"}
      BY DEF Command
    <2>7. \/ c = "regr" /\ state' = "RDREG"
          \/ c = "regw" /\ state' = "WRREG"
          \/ c = "memr" /\ state' = (IF buffer_hit THEN "RDMEM1" ELSE "RDMEM2") /\ row' = 1
          \/ c = "memw" /\ state' = (IF buffer_hit THEN "WRMEM1" ELSE "RDMEM2") /\ row' = 0
      BY <2>1, <2>5, <2>6 DEF Accept
    <2>8. state' # "IDLE"
      BY <2>7
    <2>. QED BY <1>7, <2>3, <2>4, <2>7, <2>8 DEF AcceptEdge
  <1>. QED BY <1>1, <1>4, <1>5, <1>6, <1>7 DEF Waits

\* A command is being served, and nothing else asked for.
BusyEdge ==
    /\ StillIssued /\ master.cmd = "none" /\ master'.cmd = "none" /\ req' = Low
    /\ captured'.s0 = captured.s0

LEMMA BusyEdges ==
    ASSUME WaitsInv, Quiet, NEW rwds \in Bit, MCTick(rwds), state # "IDLE"
    PROVE  BusyEdge
  <1>1. /\ SystemInv /\ Waits /\ Clock(Wires(rwds))
        /\ IsIssued \/ StillIssued
    BY IssuesOrNot DEF WaitsInv, PatientInv, WholeInv, PinsInv, MCTick, Tick
  <1>2. master.cmd = "none"
    BY <1>1 DEF Waits, Underway
  <1>3. req' = Low /\ captured'.s0 = captured.s0
    BY <1>1, <1>2, Samples
  <1>. QED BY <1>1, <1>2, <1>3 DEF IsIssued, AtRest, StillIssued, BusyEdge

\* The address a memory command is served at is one of the master's.
ServedAddress ==
    LET a == captured.s0 IN
    /\ a = master.issued.address
    /\ a \in AddressesIn(workload) /\ a \in Addresses
    /\ BufferAddr(a) \in Slots

LEMMA ServedAt ==
    ASSUME WaitsInv, Quiet, IssuedInv, ServedMasters, state \notin {"IDLE", "RDREG", "WRREG"}
    PROVE  ServedAddress
  BY DEF WaitsInv, PatientInv, PatientMaster, Taken, IssuedInv, AddressesIn, ServedMasters,
         ServedAddress


(* The FSM serves what was issued last, and that keeps to the workload.    *)
LEMMA IssuedKept ==
    ASSUME WaitsInv, Waits', Quiet, IssuedInv, ServedMasters, NEW rwds \in Bit, MCTick(rwds)
    PROVE  IssuedInv'
  <1>1. /\ CommandStep(Wires(rwds)) /\ Clock(Wires(rwds)) /\ workload' = workload
        /\ Keeps(master'.issued) /\ SystemInv /\ PatientMaster /\ row \in Bit
    BY DEF MCTick, Tick, Clock, WaitsInv, PatientInv, WholeInv, PinsInv, SystemInv, IInv, TypeOK
  <1>. DEFINE Wired ==
                /\ workload \in Workloads
                /\ master.address = master.issued.address /\ master.word = master.issued.word
                /\ master.issued.cmd \in {"memr", "memw"} =>
                       master.issued.address \in AddressesIn(workload)
                /\ master.issued.cmd = "memw" => ~ReadsOnly(workload)
              Served ==
                /\ state = "RDMEM2" => (row = 1 <=> master.issued.cmd = "memr")
                /\ state = "RDMEM1" => master.issued.cmd = "memr"
                /\ state \in {"WRMEM1", "WRMEM2", "ACCDLY"} => master.issued.cmd = "memw"
                /\ state # "IDLE" /\ master.issued.cmd = "memw" => req["memw"] = 0
  <1>2. StillIssued => Wired'
    BY <1>1 DEF StillIssued, IssuedInv, AddressesIn, ReadsOnly
  <1>3. IsIssued => Wired'
    <2>1. ASSUME NEW c \in Operations, NEW a \in AddressesOf(c), NEW w \in WordsOf(c),
                 master'.cmd = c, master'.address = a, master'.word = w,
                 master'.issued = [cmd |-> c, address |-> a, word |-> w]
          PROVE  Wired'
      <3>1. /\ master'.issued.cmd = c /\ master'.issued.address = a
            /\ master'.issued.word = w
        BY <2>1
      <3>2. c \in {"memr", "memw"} => a \in Addresses
        BY DEF AddressesOf
      <3>3. workload = "one_line" => a \in {0, 32, 35}
        BY <1>1, <3>1 DEF Keeps
      <3>4. workload = "reads" => c # "memw"
        BY <1>1, <3>1 DEF Keeps
      <3>. QED BY <1>1, <2>1, <3>1, <3>2, <3>3, <3>4 DEF IssuedInv, AddressesIn, ReadsOnly
    <2>. QED BY <2>1 DEF IsIssued
  <1>4. CASE state = "IDLE"
    <2>1. RestEdge \/ SampledEdge \/ \E c \in Command : AcceptEdge(c)
      BY <1>4, IdleEdges DEF ServedMasters
    <2>2. CASE RestEdge \/ SampledEdge
      <3>1. state' = "IDLE" /\ (IsIssued \/ StillIssued)
        BY <2>2 DEF RestEdge, SampledEdge
      <3>2. Wired' /\ Served'
        BY <1>2, <1>3, <3>1
      <3>. QED BY <3>2 DEF IssuedInv
    <2>3. ASSUME NEW c \in Command, AcceptEdge(c) PROVE IssuedInv'
      <3>1. /\ Wired' /\ master'.issued.cmd = c
        BY <1>2, <2>3 DEF AcceptEdge, StillIssued
      <3>2. c = "memw" => req'["memw"] = 0
        <4>1. c = "memw" => master.cmd = "none"
          BY <2>3 DEF AcceptEdge, JustSampled, IsRead
        <4>. QED BY <1>1, <4>1, Samples DEF Low, Command
      <3>3. Served'
        BY <2>3, <3>1, <3>2 DEF AcceptEdge, Command
      <3>. QED BY <3>1, <3>3 DEF IssuedInv
    <2>. QED BY <2>1, <2>2, <2>3
  <1>5. CASE state # "IDLE"
    <2>1. BusyEdge
      BY <1>5, BusyEdges
    <2>2. /\ Wired' /\ master'.issued = master.issued /\ req'["memw"] = 0
      BY <1>2, <2>1 DEF BusyEdge, StillIssued, Low, Command
    <2>3. Served
      BY DEF IssuedInv
    <2>4. CASE ReadRegister \/ WriteRegister \/ ReadBuffer \/ AccessDelay \/ Idle
      <3>1. Served'
        BY <1>5, <2>2, <2>3, <2>4
           DEF ReadRegister, WriteRegister, ReadBuffer, AccessDelay, Idle
      <3>. QED BY <2>2, <3>1 DEF IssuedInv
    <2>5. CASE WriteBuffer(Wires(rwds)) \/ WriteBack
      <3>1. Served'
        BY <2>2, <2>3, <2>5 DEF WriteBuffer, WriteBack
      <3>. QED BY <2>2, <3>1 DEF IssuedInv
    <2>6. CASE Fill
      <3>1. state = "RDMEM2" /\ row' = row /\ master.issued.cmd \in {"memr", "memw"}
        BY <1>1, <2>6 DEF Fill, PatientMaster
      <3>2. \/ state' = "RDMEM1" /\ row = 1
            \/ state' = "WRMEM1" /\ row = 0
            \/ state' = "RDMEM2"
        BY <2>6, <3>1 DEF Fill, FilledForRead, FilledForWrite, Filling
      <3>3. Served'
        BY <2>2, <2>3, <3>1, <3>2
      <3>. QED BY <2>2, <3>3 DEF IssuedInv
    <2>. QED BY <1>1, <2>4, <2>5, <2>6 DEF CommandStep
  <1>. QED BY <1>4, <1>5

(* One edge keeps the buffer as the tag, the FSM and the device have it.   *)
\* The FSM away from IDLE, with what each branch does to the buffer.
BusyMove ==
    \/ state \in {"RDREG", "WRREG"} /\ state' \in {state, "IDLE"} /\ UNCHANGED cacheVars
    \/ state = "RDMEM1" /\ state' = "IDLE" /\ UNCHANGED cacheVars
    \/ /\ state = "RDMEM2" /\ rdmem.state # "DONE" /\ state' = "RDMEM2" /\ tag' = tag
    \/ /\ state = "RDMEM2" /\ rdmem.state = "DONE" /\ master.issued.cmd = "memr"
       /\ state' = "RDMEM1" /\ tag' = TagOf(captured.s0) /\ buffer' = buffer
    \/ /\ state = "RDMEM2" /\ rdmem.state = "DONE" /\ master.issued.cmd = "memw"
       /\ state' = "WRMEM1" /\ UNCHANGED cacheVars
    \/ /\ state = "WRMEM1" /\ Hit(captured.s0) /\ state' = "IDLE" /\ tag' = tag
       /\ buffer' = [buffer EXCEPT ![BufferAddr(captured.s0)] = master.issued.word]
    \/ /\ state = "WRMEM1" /\ ~Hit(captured.s0) /\ state' = "WRMEM2" /\ tag' = tag
       /\ buffer' = [buffer EXCEPT ![BufferAddr(captured.s0)] = master.issued.word]
       /\ buffer_wrmem' = Halves(buffer)
    \/ /\ state = "WRMEM2" /\ state' = "WRMEM2" /\ UNCHANGED cacheVars
       /\ buffer_wrmem' = buffer_wrmem
    \/ /\ state = "WRMEM2" /\ state' = "ACCDLY" /\ tag' = TagOf(captured.s0)
       /\ buffer' = buffer
    \/ state = "ACCDLY" /\ state' \in {"ACCDLY", "IDLE"} /\ UNCHANGED cacheVars

LEMMA BusyMoves ==
    ASSUME WaitsInv, Quiet, IssuedInv, RamIsKept, NoData, BufferInv, ServedMasters,
           NEW rwds \in Bit, MCTick(rwds), state # "IDLE"
    PROVE  BusyMove
  <1>1. /\ CommandStep(Wires(rwds)) /\ Wires(rwds).s0_writedata = master.word
        /\ SystemInv /\ IInv /\ PatientMaster /\ row \in {0, 1} /\ Tick(rwds) /\ Bus
        /\ StmEnd(2) = rdmem.stm_end
    BY SharedSets
       DEF MCTick, Tick, Clock, WaitsInv, PatientInv, WholeInv, PinsInv, SystemInv, IInv,
           TypeOK, Wires, StmEnd, Bit
  <1>2. CASE ReadRegister \/ WriteRegister \/ ReadBuffer \/ AccessDelay \/ Idle
    BY <1>2 DEF ReadRegister, WriteRegister, ReadBuffer, AccessDelay, Idle, BusyMove
  <1>3. CASE WriteBuffer(Wires(rwds))
    <2>1. ServedAddress /\ state = "WRMEM1"
      BY <1>3, ServedAt DEF WriteBuffer
    <2>2. buffer' = [buffer EXCEPT ![BufferAddr(captured.s0)] = master.issued.word]
      BY <1>1, <1>3, <2>1 DEF WriteBuffer, BufferAfterWrite, ServedAddress, IssuedInv
    <2>3. buffer_hit <=> Hit(captured.s0)
      BY DEF buffer_hit, Hit
    <2>. QED BY <1>3, <2>1, <2>2, <2>3 DEF WriteBuffer, BusyMove
  <1>4. CASE Fill
    <2>1. state = "RDMEM2" /\ master.issued.cmd \in {"memr", "memw"}
          /\ (row = 1 <=> master.issued.cmd = "memr")
      BY <1>1, <1>4 DEF Fill, PatientMaster, IssuedInv
    <2>2. rdmem.state = "DONE" <=> StmEnd(2) = 1
      <3>1. rdmem.state \in {"IDLE", "CA", "RUN", "DONE"} /\ rdmem.stm_end \in {0, 1}
        BY <1>1, SharedSets DEF IInv, TypeOK, RdMem!Registers, Bit
      <3>. QED BY <1>1, <2>1, <3>1 DEF IInv, Handshake, HandshakeOf
    <2>3. rdmem.state = "DONE" => buffer' = buffer
      BY <1>4 DEF NoData, Fill
    <2>4. CASE FilledForRead
      BY <2>1, <2>2, <2>3, <2>4 DEF FilledForRead, BusyMove
    <2>5. CASE FilledForWrite
      <3>1. tag' = tag /\ row = 0 /\ state' = "WRMEM1" /\ rdmem.state = "DONE"
        BY <2>2, <2>5 DEF FilledForWrite
      <3>. QED BY <2>1, <2>3, <3>1 DEF BusyMove, cacheVars
    <2>6. CASE Filling
      <3>1. tag' = tag /\ state' = state /\ StmEnd(2) = 0
        BY <2>6 DEF Filling
      <3>. QED BY <2>1, <2>2, <3>1 DEF BusyMove
    <2>. QED BY <1>4, <2>4, <2>5, <2>6 DEF Fill
  <1>5. CASE WriteBack
    <2>1. state = "WRMEM2" /\ buffer' = buffer /\ buffer_wrmem' = buffer_wrmem
      BY <1>5 DEF WriteBack
    <2>2. \/ state' = "ACCDLY" /\ tag' = TagOf(captured.s0)
          \/ state' = state /\ tag' = tag
      BY <1>5 DEF WriteBack
    <2>. QED BY <2>1, <2>2 DEF BusyMove, cacheVars
  <1>. QED BY <1>1, <1>2, <1>3, <1>4, <1>5 DEF CommandStep


\* What a primed operator on constants is.
Rigid(b) ==
    /\ TagOf(b)' = TagOf(b) /\ Line(b)' = Line(b) /\ BufferAddr(b)' = BufferAddr(b)
    /\ Halves(Line(b))' = Halves(Line(b)) /\ AddressesIn(b)' = AddressesIn(b)

LEMMA RigidOperators == ASSUME NEW b PROVE Rigid(b)
  BY DEF Rigid, TagOf, RowId, PageId, TwiceGroup, Line, Contents, Column, BufferAddr, Halves,
         AddressesIn

(* The refill of what is served, one edge on.                              *)
LEMMA FillGoesOn ==
    ASSUME MemoryInv, ServedMasters, NEW rwds \in Bit, MCTick(rwds)
    PROVE  /\ NoData'
           /\ \A a \in Addresses : state = "RDMEM2" /\ a = captured.s0 => FillOf(a)'
           /\ \A a \in Addresses : state # "RDMEM2" => FillOf(a)'
           /\ state = "RDMEM2" /\ rdmem.state = "DONE" =>
                  rdmem'.state # "DONE" /\ buffer = Line(captured.s0)
  <1>1. /\ SystemInv /\ Bus /\ Tick(rwds) /\ NoData /\ RamIsKept /\ BufferInv /\ IsTold
        /\ WaitsInv /\ Quiet /\ IssuedInv
    BY DeviceIsTold DEF MemoryInv, WaitsInv, PatientInv, WholeInv, PinsInv, MCTick
  <1>2. /\ RdMemEdge(rwds) /\ rdmem \in RdMem!Registers /\ Position(rdmem, 32, 32)
        /\ rdmem.state # "IDLE" => state = "RDMEM2"
    BY <1>1, RdMemSteps
  <1>3. CASE state = "RDMEM2"
    <2>1. ServedAddress
      BY <1>1, <1>3, ServedAt
    <2>. DEFINE a == captured.s0
    <2>2. PICK b \in Addresses : b = captured.s0
      BY <2>1 DEF ServedAddress
    <2>3. FillOf(b)
      BY <1>1, <1>3, <2>2 DEF BufferInv, BufferFor
    <2>4. ram.pulses >= 3 => ram.ca = OutAddr(b, 1)
      BY <1>1, <1>3, <2>1, <2>2 DEF IsTold, ServedAddress
    <2>5. NoData' /\ FillOf(b)'
      BY <1>1, <1>3, <2>3, <2>4, FillKept
    <2>6. rdmem.state = "DONE" => rdmem'.state # "DONE"
      BY <1>2, RdMemData DEF RdMemEdge
    <2>7. rdmem.state = "DONE" => buffer = Line(b)
      <3>1. SUFFICES ASSUME rdmem.state = "DONE" PROVE buffer = Line(b)
        OBVIOUS
      <3>2. buffer \in [0 .. 7 -> Word] /\ Line(b) \in [0 .. 7 -> Word]
        BY <1>1, LinesOfDevice DEF SystemInv, IInv, TypeOK, Lines, Slots
      <3>3. \A s \in 0 .. 7 : buffer[s] = Line(b)[s + 8 - 8] /\ s + 8 - 8 = s
        BY <2>3, <3>1 DEF FillOf, Entered, Slots
      <3>. QED BY <3>2, <3>3
    <2>. QED BY <1>3, <2>2, <2>5, <2>6, <2>7
  <1>4. CASE state # "RDMEM2"
    <2>1. rdmem.state = "IDLE"
      BY <1>2, <1>4
    <2>2. rdmem'.state \notin {"RUN", "DONE"} \/ (rdmem'.state = "RUN" /\ rdmem'.counter = 0)
      BY <1>2, <2>1, RdMemData DEF RdMemEdge
    <2>3. NoData'
      BY <1>1, <1>2, <2>1, RdMemData DEF RdMemEdge, NoData
    <2>4. ASSUME NEW a \in Addresses PROVE FillOf(a)'
      BY <2>2 DEF FillOf
    <2>. QED BY <1>4, <2>3, <2>4
  <1>. QED BY <1>3, <1>4


(* One edge keeps the buffer as the tag, the FSM and the device have it.   *)
LEMMA BufferKept ==
    ASSUME MemoryInv, Waits', ServedMasters, NEW rwds \in Bit, MCTick(rwds)
    PROVE  BufferInv'
  <1>1. /\ SystemInv /\ Clock(Wires(rwds)) /\ BufferInv /\ NoData /\ RamIsKept
        /\ WaitsInv /\ Quiet /\ IssuedInv /\ PatientMaster /\ workload' = workload
        /\ \A b \in Addresses : b \in Nat
    BY LinesOfDevice
       DEF MemoryInv, WaitsInv, PatientInv, WholeInv, PinsInv, MCTick, Tick
  <1>2. /\ \A b : TagOf(b)' = TagOf(b) /\ Line(b)' = Line(b)
                  /\ BufferAddr(b)' = BufferAddr(b) /\ Halves(Line(b))' = Halves(Line(b))
        /\ AddressesIn(workload)' = AddressesIn(workload)
        /\ ReadsOnly(workload)' = ReadsOnly(workload)
        /\ TagAtPowerUp' = TagAtPowerUp
        /\ \A b : Hit(b)' = (CompareTags /\ tag' = TagOf(b))
    <2>1. \A b : Hit(b)' = (CompareTags /\ tag' = TagOf(b))
      BY RigidOperators DEF Hit, Rigid
    <2>2. /\ AddressesIn(workload)' = AddressesIn(workload)
          /\ ReadsOnly(workload)' = ReadsOnly(workload)
          /\ TagAtPowerUp' = TagAtPowerUp
      BY <1>1 DEF AddressesIn, ReadsOnly, TagAtPowerUp
    <2>. QED BY <2>1, <2>2, RigidOperators DEF Rigid
  <1>3. \A b \in Addresses :
            /\ state = "RDMEM2" /\ b = captured.s0 => FillOf(b)'
            /\ state # "RDMEM2" => FillOf(b)'
    BY FillGoesOn
  <1>4. ASSUME NEW a \in AddressesIn(workload), ~ReadsOnly(workload)
        PROVE  /\ CompareTags
               /\ tag = TagOf(a) \/ \A b \in Addresses : tag # TagOf(b)
    <2>1. OneLine(workload)
      BY <1>1, <1>4 DEF ServedMasters, IssuedInv
    <2>. QED BY <1>1, <2>1 DEF OneLine, BufferInv, ServedMasters
  <1>5. ASSUME NEW a \in Addresses, NEW b \in Addresses, TagOf(a) = TagOf(b)
        PROVE  Line(a) = Line(b)
    BY <1>1, <1>5, Groups DEF ServedMasters
  <1>6. CASE state = "IDLE"
    <2>1. /\ RestEdge \/ SampledEdge \/ \E c \in Command : AcceptEdge(c)
          /\ tag' = tag /\ buffer' = buffer
      BY <1>1, <1>6, IdleEdges DEF ServedMasters, cacheVars
    <2>2. ASSUME NEW a \in Addresses, captured'.s0 = a PROVE BufferFor(a)'
      <3>1. CASE RestEdge \/ SampledEdge
        BY <3>1 DEF RestEdge, SampledEdge, BufferFor
      <3>2. ASSUME NEW c \in {"regr", "regw"}, AcceptEdge(c) PROVE BufferFor(a)'
        BY <3>2 DEF AcceptEdge, BufferFor
      <3>3. ASSUME NEW c \in {"memr", "memw"}, AcceptEdge(c) PROVE BufferFor(a)'
        <4>1. /\ captured.s0 = a /\ a \in AddressesIn(workload)
          BY <1>1, <2>2, <3>3, Samples DEF AcceptEdge, IssuedInv, JustSampled
        <4>2. \/ state' \in {"RDMEM1", "WRMEM1"} /\ Hit(a)
              \/ state' = "RDMEM2" /\ ~Hit(a)
          BY <3>3, <4>1 DEF AcceptEdge, buffer_hit, Hit
        <4>3. state' \in {"RDMEM1", "WRMEM1"} => tag = TagOf(a) /\ Hit(a)
          BY <4>2 DEF Hit
        <4>4. state' = "RDMEM2" /\ ~ReadsOnly(workload) => tag # TagOf(a)
          BY <1>4, <4>1, <4>2 DEF Hit
        <4>5. Hit(a)' = Hit(a)
          BY <1>2, <2>1 DEF Hit
        <4>6. FillOf(a)'
          BY <1>3, <1>6
        <4>. QED BY <1>2, <2>1, <4>2, <4>3, <4>4, <4>5, <4>6 DEF BufferFor
      <3>. QED BY <2>1, <3>1, <3>2, <3>3 DEF Command
    <2>. QED BY <1>1, <1>2, <1>6, <2>1, <2>2 DEF BufferInv
  <1>7. CASE state # "IDLE"
    <2>1. BusyMove /\ BusyEdge /\ master'.issued = master.issued /\ captured'.s0 = captured.s0
      BY <1>1, <1>7, BusyMoves, BusyEdges DEF BusyEdge, StillIssued
    <2>. DEFINE a == captured.s0
    <2>2. CASE \/ state \in {"RDREG", "WRREG"} /\ state' \in {state, "IDLE"} /\ UNCHANGED cacheVars
               \/ state = "RDMEM1" /\ state' = "IDLE" /\ UNCHANGED cacheVars
               \/ state = "ACCDLY" /\ state' \in {"ACCDLY", "IDLE"} /\ UNCHANGED cacheVars
      <3>1. \A b \in Addresses : BufferFor(b)'
        BY <2>2 DEF BufferFor
      <3>2. tag' = tag /\ buffer' = buffer /\ state # "RDMEM2"
        BY <2>2 DEF cacheVars
      <3>. QED BY <1>1, <1>2, <3>1, <3>2 DEF BufferInv
    <2>3. CASE state \notin {"RDREG", "WRREG", "RDMEM1", "ACCDLY"}
      <3>1. ServedAddress
        BY <1>1, <1>7, <2>3, ServedAt
      <3>2. /\ a \in Addresses /\ a \in AddressesIn(workload) /\ BufferFor(a)
            /\ BufferAddr(a) \in Slots
        BY <1>1, <3>1 DEF ServedAddress, BufferInv
      <3>3. SUFFICES ASSUME NEW c \in Addresses, c = a
                     PROVE  BufferInv'
        BY <3>2
      <3>4. master.issued.cmd = "memw" => ~ReadsOnly(workload)
        BY <1>1 DEF IssuedInv
      <3>5. ASSUME BufferFor(c)',
                   tag' \in {tag, TagOf(c)},
                   ReadsOnly(workload) /\ state' # "RDMEM2" => tag' = TagOf(c) /\ buffer' = Line(c)
            PROVE  BufferInv'
        <4>1. tag' = TagAtPowerUp \/ \E b \in AddressesIn(workload) : tag' = TagOf(b)
          BY <1>1, <3>2, <3>3, <3>5 DEF BufferInv
        <4>2. ReadsOnly(workload) /\ state' # "RDMEM2" =>
                  \A b \in Addresses : tag' = TagOf(b) => buffer' = Line(b)
          BY <1>5, <3>5
        <4>3. \A b \in Addresses : captured'.s0 = b => BufferFor(b)'
          BY <2>1, <3>3, <3>5
        <4>. QED BY <1>2, <4>1, <4>2, <4>3 DEF BufferInv
      <3>6. state = "RDMEM2" /\ rdmem.state = "DONE" => buffer = Line(c)
        BY <3>3, FillGoesOn
      <3>7. BufferFor(c) /\ FillOf(c)' = FillOf(c)'
        BY <3>2, <3>3
      <3>8. CASE state = "RDMEM2" /\ state' = "RDMEM2" /\ tag' = tag
        <4>1. BufferFor(c)'
          BY <1>2, <1>3, <3>3, <3>7, <3>8 DEF BufferFor
        <4>. QED BY <3>5, <3>8, <4>1
      <3>9. CASE /\ state = "RDMEM2" /\ rdmem.state = "DONE" /\ master.issued.cmd = "memr"
                 /\ state' = "RDMEM1" /\ tag' = TagOf(captured.s0) /\ buffer' = buffer
        <4>1. BufferFor(c)'
          BY <1>2, <3>3, <3>9 DEF BufferFor
        <4>. QED BY <3>3, <3>5, <3>6, <3>9, <4>1
      <3>10. CASE /\ state = "RDMEM2" /\ rdmem.state = "DONE" /\ master.issued.cmd = "memw"
                  /\ state' = "WRMEM1" /\ UNCHANGED cacheVars
        <4>1. tag' = tag /\ buffer' = Line(c)
          BY <3>6, <3>10 DEF cacheVars
        <4>2. BufferFor(c)'
          BY <1>2, <3>10, <4>1 DEF BufferFor
        <4>. QED BY <3>4, <3>5, <3>10, <4>1, <4>2
      <3>11. CASE state = "WRMEM1"
        <4>1. ~ReadsOnly(workload) /\ CompareTags
          BY <1>1, <1>4, <3>2, <3>4, <3>11 DEF IssuedInv
        <4>2. tag' = tag /\ state' \in {"IDLE", "WRMEM2"}
          BY <2>1, <3>11 DEF BusyMove
        <4>3. BufferFor(c)'
          <5>1. CASE state' = "IDLE"
            BY <5>1 DEF BufferFor
          <5>2. CASE state' = "WRMEM2"
            <6>1. /\ ~Hit(c) /\ buffer_wrmem' = Halves(buffer)
                  /\ buffer' = [buffer EXCEPT ![BufferAddr(c)] = master.issued.word]
              BY <2>1, <3>3, <3>11, <5>2 DEF BusyMove
            <6>2. buffer = Line(c) /\ tag # TagOf(c)
              BY <3>7, <3>11, <4>1, <6>1 DEF BufferFor, Hit
            <6>. QED BY <1>2, <2>1, <4>2, <5>2, <6>1, <6>2 DEF BufferFor
          <5>. QED BY <4>2, <5>1, <5>2
        <4>. QED BY <3>5, <4>1, <4>2, <4>3
      <3>12. CASE state = "WRMEM2"
        <4>1. ~ReadsOnly(workload)
          BY <1>1, <3>4, <3>12 DEF IssuedInv
        <4>2. \/ /\ state' = "WRMEM2" /\ tag' = tag /\ buffer' = buffer
                 /\ buffer_wrmem' = buffer_wrmem
              \/ state' = "ACCDLY" /\ tag' = TagOf(c)
          BY <2>1, <3>3, <3>12 DEF BusyMove, cacheVars
        <4>3. BufferFor(c)'
          BY <1>2, <2>1, <3>7, <3>12, <4>2 DEF BufferFor
        <4>. QED BY <3>5, <4>1, <4>2, <4>3
      <3>. QED BY <1>7, <2>1, <2>3, <3>8, <3>9, <3>10, <3>11, <3>12 DEF BusyMove
    <2>. QED BY <2>1, <2>2, <2>3 DEF BusyMove
  <1>. QED BY <1>6, <1>7


-----------------------------------------------------------------------------
(* The invariant.                                                          *)

LEMMA MemoryStart ==
    ASSUME ServedMasters
    PROVE  MCInit => MemoryInv
  <1>. SUFFICES ASSUME MCInit PROVE MemoryInv
    OBVIOUS
  <1>1. WaitsInv
    BY WaitsStart
  <1>2. /\ workload \in Workloads /\ state = "IDLE" /\ tag = TagAtPowerUp
        /\ master.issued = NoCommandYet /\ master.address = 0 /\ master.word = ZeroWord
        /\ rdmem.state = "IDLE" /\ rdmem.inner_counter = 0 /\ rdmem.wordvalid = 0
        /\ ram.mem = [c \in Columns |-> Contents(c)]
    BY DEF MCInit, SysInit, Init, RdMem!PowerUp, TagAtPowerUp
  <1>3. Quiet
    BY <1>2 DEF Quiet, ServedMasters
  <1>4. IssuedInv
    BY <1>2 DEF IssuedInv, NoCommandYet
  <1>5. NoData
    BY <1>2 DEF NoData
  <1>6. BufferInv
    BY <1>2 DEF BufferInv, BufferFor, ServedMasters
  <1>. QED BY <1>1, <1>2, <1>3, <1>4, <1>5, <1>6 DEF MemoryInv, RamIsKept

LEMMA MemoryStep ==
    ASSUME ServedMasters
    PROVE  MemoryInv /\ [\E rwds \in Bit : MCTick(rwds)]_mcVars => MemoryInv'
  <1>1. ASSUME MemoryInv, NEW rwds \in Bit, MCTick(rwds) PROVE MemoryInv'
    <2>1. WaitsInv' /\ Quiet'
      <3>1. WaitsInv'
        BY <1>1, WaitsStep DEF MemoryInv
      <3>2. workload' = workload
        BY <1>1 DEF MCTick
      <3>. QED BY <1>1, <3>1, <3>2 DEF MemoryInv, Quiet
    <2>2. Waits'
      BY <2>1 DEF WaitsInv, Quiet
    <2>3. IssuedInv'
      BY <1>1, <2>2, IssuedKept DEF MemoryInv
    <2>4. BufferInv' /\ NoData'
      BY <1>1, <2>2, BufferKept, FillGoesOn
    <2>5. RamIsKept'
      BY <1>1, RamStaysKept DEF MemoryInv, WaitsInv, MCTick, Tick
    <2>. QED BY <2>1, <2>3, <2>4, <2>5 DEF MemoryInv
  <1>2. ASSUME MemoryInv, UNCHANGED mcVars PROVE MemoryInv'
    <2>1. WaitsInv'
      BY <1>2, WaitsStep DEF MemoryInv
    <2>2. UNCHANGED <<state, req, captured, row, buffer, tag, buffer_wrmem, rdmem, master,
                      dataout, ram, workload>>
      BY <1>2 DEF mcVars, sysVars, vars, inputVars, cacheVars, writeBackVars, burstVars
    <2>3. Quiet' /\ RamIsKept' /\ NoData'
      BY <1>2, <2>2 DEF MemoryInv, Quiet, RamIsKept, NoData, Contents, Columns, OutAddr
    <2>4. IssuedInv'
      BY <1>2, <2>2 DEF MemoryInv, IssuedInv, AddressesIn, ReadsOnly
    <2>5. \A a : Line(a)' = Line(a) /\ TagOf(a)' = TagOf(a) /\ BufferAddr(a)' = BufferAddr(a)
                 /\ Halves(Line(a))' = Halves(Line(a))
                 /\ Contents(Column(a))' = Contents(Column(a))
      BY RigidOperators DEF Rigid, Contents, Column
    <2>6. ASSUME NEW a \in Addresses, FillOf(a) PROVE FillOf(a)'
      BY <2>2, <2>5, <2>6 DEF FillOf, WordComplete, WordBegun, Entered
    <2>7. ASSUME NEW a \in Addresses, BufferFor(a) PROVE BufferFor(a)'
      BY <2>2, <2>5, <2>6, <2>7 DEF BufferFor, ReadsOnly, Hit
    <2>8. BufferInv'
      BY <1>2, <2>2, <2>5, <2>7 DEF MemoryInv, BufferInv, TagAtPowerUp, AddressesIn, ReadsOnly
    <2>. QED BY <2>1, <2>3, <2>4, <2>8 DEF MemoryInv
  <1>. QED BY <1>1, <1>2


-----------------------------------------------------------------------------
(* The memory, the request and the answer the master sees.                 *)

WordsKept ==
    [a \in Addresses |->
        IF BufferIsCurrent /\ tag = TagOf(a) THEN buffer[BufferAddr(a)] ELSE DeviceWord(a)]

Answer == IF resp.valid = 1 THEN resp.data ELSE <<>>

\* What was issued last, as a request.
Asked ==
    LET i == master.issued IN
    IF i.cmd = "memr" THEN <<"read", i.address>>
    ELSE IF i.cmd = "memw" THEN <<"write", i.address, i.word>>
    ELSE <<>>

\* What is in no buffer is in the device's line.
Value(a) ==
    IF BufferIsCurrent /\ tag = TagOf(a) THEN buffer[BufferAddr(a)] ELSE Line(a)[BufferAddr(a)]
KeptValues == WordsKept = [a \in Addresses |-> Value(a)]

\* Where the request is, from its issue to its end.
RequestSeen ==
    /\ state = "IDLE" /\ AtEase => Request = <<>>
    /\ state = "IDLE" /\ ~AtEase => Request = Asked /\ Answer = <<>>
    /\ state \in {"RDMEM1", "RDMEM2", "WRMEM1", "WRMEM2"} => Request = Asked
    /\ state \in {"RDREG", "WRREG", "ACCDLY"} => Request = <<>>
    /\ state # "IDLE" => Answer = <<>>

LEMMA KeptIs ==
    ASSUME ServedMasters
    PROVE  MemoryInv => KeptValues
  <1>. SUFFICES ASSUME MemoryInv, NEW a \in Addresses
                PROVE  DeviceWord(a) = Line(a)[BufferAddr(a)]
    BY DEF KeptValues, WordsKept, Value
  <1>1. Column(a) \in Columns /\ BufferAddr(a) \in Slots
    BY LinesOfDevice DEF ServedMasters
  <1>2. ram.mem[Column(a)] = Contents(Column(a))
    BY <1>1 DEF MemoryInv, RamIsKept
  <1>. QED BY <1>1, <1>2 DEF DeviceWord, Line

LEMMA RequestIs == MemoryInv => RequestSeen
  <1>. SUFFICES ASSUME MemoryInv PROVE RequestSeen
    OBVIOUS
  <1>1. /\ Waits /\ PatientMaster /\ IInv /\ IssuedInv /\ MasterType
        /\ resp.valid \in {0, 1} /\ rdreg.valid \in {0, 1}
    BY SharedSets
       DEF MemoryInv, WaitsInv, PatientInv, WholeInv, PinsInv, SystemInv, IInv, TypeOK, Answers,
           RdReg!Registers, Bit
  <1>2. state = "IDLE" => rdreg.valid = 0
    BY <1>1, DoneIsServed DEF Waits, DoneInRdReg
  <1>3. state \in CommandState
    BY <1>1 DEF IInv, TypeOK
  <1>4. CASE state = "IDLE" /\ AtEase
    <2>1. master.pending = resp.valid /\ master.cmd = "none" /\ req["memw"] = 0
      BY <1>1, <1>2, <1>4 DEF AtEase, Answered, Low, Command
    <2>. QED BY <1>1, <1>4, <2>1 DEF RequestSeen, Request
  <1>5. CASE state = "IDLE" /\ ~AtEase
    <2>1. resp.valid = 0
      BY <1>1, <1>2, <1>5 DEF Waits, JustIssued, JustSampled, Answered
    <2>2. \/ master.issued.cmd \notin {"memr", "memw"}
          \/ master.issued.cmd = "memr" /\ master.pending = 1
          \/ master.issued.cmd = "memw" /\ (master.cmd = "memw" \/ req["memw"] = 1)
      <3>1. ASSUME JustIssued PROVE master.cmd = master.issued.cmd /\ master.pending = Due(master.cmd)
        BY <1>1, <3>1 DEF JustIssued, PatientMaster, Command
      <3>2. ASSUME NEW c \in Command, JustSampled(c)
            PROVE  c = master.issued.cmd /\ req[c] = 1 /\ master.pending = Due(c)
        BY <1>1, <3>2 DEF JustSampled, Rising, PatientMaster
      <3>. QED BY <1>1, <1>5, <3>1, <3>2 DEF Waits, Due, IsRead
    <2>. QED BY <1>5, <2>1, <2>2 DEF RequestSeen, Request, Asked, Answer
  <1>6. CASE state # "IDLE"
    <2>1. resp.valid = 0 /\ Underway
      BY <1>1, <1>6 DEF Waits
    <2>2. CASE state \in {"RDMEM1", "RDMEM2", "WRMEM1", "WRMEM2"}
      <3>1. /\ master.issued.cmd \in {"memr", "memw"}
            /\ master.issued.cmd = "memr" => master.pending = 1
            /\ master.issued.cmd = "memw" => state \in {"RDMEM2", "WRMEM1", "WRMEM2"}
        BY <1>1, <2>1, <2>2 DEF PatientMaster, IssuedInv, Underway, Serving
      <3>. QED BY <2>1, <2>2, <3>1 DEF RequestSeen, Request, Asked, Answer
    <2>3. CASE state \in {"RDREG", "WRREG", "ACCDLY"}
      <3>1. /\ master.issued.cmd # "memr" /\ master.cmd = "none"
            /\ master.issued.cmd = "memw" => req["memw"] = 0
        BY <1>1, <2>1, <2>3 DEF PatientMaster, IssuedInv, Underway
      <3>. QED BY <2>1, <2>3, <3>1 DEF RequestSeen, Request, Answer
    <2>. QED BY <1>3, <1>6, <2>2, <2>3 DEF CommandState
  <1>. QED BY <1>4, <1>5, <1>6

\* The wires of the abstract memory are never empty tuples.
LEMMA NotNone ==
    /\ \A x, y : <<x, y>> # <<>>
    /\ \A x, y, z : <<x, y, z>> # <<>>
    /\ \A w \in Word : w # <<>>
  <1>1. \A x, y : <<x, y>> # <<>>
    OBVIOUS
  <1>2. \A x, y, z : <<x, y, z>> # <<>>
    OBVIOUS
  <1>. QED BY <1>1, <1>2 DEF Word


(* What the words do when their values do.                                 *)
LEMMA WordsMove ==
    ASSUME KeptValues, KeptValues'
    PROVE  /\ (\A a \in Addresses : Value(a)' = Value(a)) => WordsKept' = WordsKept
           /\ \A b \in Addresses : \A w :
                  (\A a \in Addresses : Value(a)' = IF a = b THEN w ELSE Value(a))
                      => WordsKept' = [WordsKept EXCEPT ![b] = w]
  <1>1. /\ WordsKept = [a \in Addresses |-> Value(a)]
        /\ WordsKept' = [a \in Addresses |-> Value(a)']
    BY DEF KeptValues
  <1>. QED BY <1>1

\* What a step may be to the abstract memory.
Stays == WordsKept' = WordsKept /\ Request' = Request /\ Answer' = Answer
Asks ==
    /\ Request = <<>> /\ WordsKept' = WordsKept /\ Answer' = Answer
    /\ \/ Request' \in {"read"} \X Addresses
       \/ Request' \in {"write"} \X Addresses \X Word
Replies(a) ==
    /\ Request = <<"read", a>> /\ Answer = <<>> /\ Answer' = WordsKept[a]
    /\ Request' = <<>> /\ WordsKept' = WordsKept
StoresAt(a, w) ==
    /\ Request = <<"write", a, w>> /\ WordsKept' = [WordsKept EXCEPT ![a] = w]
    /\ Request' = <<>> /\ Answer' = Answer
Takes ==
    /\ Answer # <<>> /\ Answer' = <<>>
    /\ WordsKept' = WordsKept /\ Request' = Request

LEMMA MemoryMoves ==
    /\ Asks => Memory!Next
    /\ Takes => Memory!Next
    /\ \A a : Replies(a) => Memory!Next
    /\ \A a, w : StoresAt(a, w) => Memory!Next
    /\ Stays => UNCHANGED Memory!memoryVars
  <1>. USE DEF WordsKept, Answer
  <1>1. Asks => Memory!Ask
    BY DEF Asks, Memory!Ask
  <1>2. Takes => Memory!Take
    BY DEF Takes, Memory!Take
  <1>3. ASSUME NEW a, Replies(a) PROVE Memory!Reply
    <2>1. Request # <<>> /\ Request[1] = "read" /\ Request[2] = a
      BY <1>3, NotNone DEF Replies
    <2>. QED BY <1>3, <2>1 DEF Replies, Memory!Reply
  <1>4. ASSUME NEW a, NEW w, StoresAt(a, w) PROVE Memory!Store
    <2>1. Request # <<>> /\ Request[1] = "write" /\ Request[2] = a /\ Request[3] = w
      BY <1>4, NotNone DEF StoresAt
    <2>. QED BY <1>4, <2>1 DEF StoresAt, Memory!Store
  <1>5. Stays => UNCHANGED Memory!memoryVars
    BY DEF Stays, Memory!memoryVars
  <1>. QED BY <1>1, <1>2, <1>3, <1>4, <1>5 DEF Memory!Next


\* What both ends of an edge have.
Facts ==
    /\ KeptValues /\ RequestSeen /\ Waits /\ IInv /\ IssuedInv
    /\ resp \in Answers /\ buffer \in Lines

LEMMA FactsHold ==
    ASSUME ServedMasters
    PROVE  MemoryInv => Facts
  BY KeptIs, RequestIs
     DEF MemoryInv, WaitsInv, PatientInv, WholeInv, PinsInv, SystemInv, IInv, TypeOK, Facts

(* Edges of a controller that serves nothing yet.                          *)
LEMMA IdleEdgesServe ==
    ASSUME ServedMasters, MemoryInv, Facts, Facts', NEW rwds \in Bit, MCTick(rwds),
           state = "IDLE"
    PROVE  Stays \/ Asks \/ Takes
  <1>1. /\ WaitsInv /\ Quiet /\ SystemInv /\ IssuedInv /\ BufferInv /\ PatientMaster
        /\ Clock(Wires(rwds)) /\ MaxPending = 1 /\ Waits' /\ workload' = workload
    BY DEF MemoryInv, WaitsInv, PatientInv, WholeInv, PinsInv, MCTick, Tick, ServedMasters, Facts
  <1>2. /\ RestEdge \/ SampledEdge \/ \E c \in Command : AcceptEdge(c)
        /\ tag' = tag /\ buffer' = buffer /\ resp'.valid = 0
    BY <1>1, IdleEdges DEF cacheVars
  <1>3. Answer' = <<>> /\ BufferIsCurrent
    BY <1>2 DEF Answer, BufferIsCurrent
  <1>4. \A b : TagOf(b)' = TagOf(b) /\ Line(b)' = Line(b) /\ BufferAddr(b)' = BufferAddr(b)
    BY RigidOperators DEF Rigid
  <1>5. BufferIsCurrent' => WordsKept' = WordsKept
    <2>1. ASSUME BufferIsCurrent' PROVE \A a \in Addresses : Value(a)' = Value(a)
      BY <1>2, <1>3, <1>4, <2>1 DEF Value
    <2>. QED BY <2>1, WordsMove DEF Facts
  <1>6. state' = "IDLE" => WordsKept' = WordsKept
    BY <1>5 DEF BufferIsCurrent
  <1>7. JustIssued => ~AtEase
    BY DEF JustIssued, AtEase, Command
  <1>8. (JustIssued => ~AtEase)'
    BY <1>7 DEF JustIssued, AtEase, Command
  <1>9. StillIssued => Asked' = Asked
    BY DEF StillIssued, Asked
  <1>10. CASE RestEdge
    <2>1. Request = <<>> /\ WordsKept' = WordsKept /\ AtEase /\ state' = "IDLE"
      BY <1>6, <1>10 DEF RestEdge, Facts, RequestSeen
    <2>2. CASE AtEase'
      <3>1. Request' = <<>>
        BY <2>1, <2>2 DEF Facts, RequestSeen
      <3>2. CASE Answer = <<>>
        BY <1>3, <2>1, <3>1, <3>2 DEF Stays
      <3>3. CASE Answer # <<>>
        BY <1>3, <2>1, <3>1, <3>3 DEF Takes
      <3>. QED BY <3>2, <3>3
    <2>3. CASE JustIssued' /\ IsIssued /\ Answered = 0
      <3>1. Request' = Asked'
        BY <1>8, <2>1, <2>3 DEF Facts, RequestSeen
      <3>2. Answer = <<>>
        <4>1. resp.valid \in {0, 1} /\ rdreg.valid \in {0, 1}
          BY SharedSets DEF Facts, Answers, IInv, TypeOK, RdReg!Registers, Bit
        <4>. QED BY <2>3, <4>1 DEF Answered, Answer
      <3>3. PICK c \in Operations : \E a \in AddressesOf(c), w \in WordsOf(c) :
                 master'.issued = [cmd |-> c, address |-> a, word |-> w]
        BY <2>3 DEF IsIssued
      <3>4. PICK a \in AddressesOf(c), w \in WordsOf(c) :
                 master'.issued = [cmd |-> c, address |-> a, word |-> w]
        BY <3>3
      <3>5. Asked' = IF c = "memr" THEN <<"read", a>>
                     ELSE IF c = "memw" THEN <<"write", a, w>> ELSE <<>>
        BY <3>4 DEF Asked
      <3>6. /\ c \in {"memr", "memw"} => a \in Addresses
            /\ c = "memw" => w \in Word
        BY ConstantsType DEF AddressesOf, WordsOf
      <3>7. CASE c \in {"memr", "memw"}
        <4>1. \/ Request' \in {"read"} \X Addresses
              \/ Request' \in {"write"} \X Addresses \X Word
          BY <3>1, <3>5, <3>6, <3>7
        <4>. QED BY <1>3, <2>1, <3>2, <4>1 DEF Asks
      <3>8. CASE c \notin {"memr", "memw"}
        BY <1>3, <2>1, <3>1, <3>2, <3>5, <3>8 DEF Stays
      <3>. QED BY <3>7, <3>8
    <2>. QED BY <1>10, <2>2, <2>3 DEF RestEdge
  <1>11. CASE SampledEdge
    <2>1. /\ Request = Asked /\ Answer = <<>> /\ WordsKept' = WordsKept
      BY <1>6, <1>7, <1>11 DEF SampledEdge, Facts, RequestSeen
    <2>2. ~AtEase'
      BY <1>11 DEF SampledEdge, JustSampled, Rising, AtEase, Low
    <2>3. Request' = Asked'
      BY <1>11, <2>2 DEF SampledEdge, Facts, RequestSeen
    <2>. QED BY <1>3, <1>9, <1>11, <2>1, <2>3 DEF SampledEdge, Stays
  <1>12. ASSUME NEW c \in Command, AcceptEdge(c)
         PROVE  Stays
    <2>1. ~AtEase
      BY <1>12 DEF AcceptEdge, JustSampled, Rising, AtEase, Low
    <2>2. /\ Request = Asked /\ Answer = <<>> /\ Asked' = Asked /\ master.issued.cmd = c
      BY <1>9, <1>12, <2>1 DEF AcceptEdge, Facts, RequestSeen
    <2>3. CASE c \in {"regr", "regw"}
      <3>1. state' \in {"RDREG", "WRREG"}
        BY <1>12, <2>3 DEF AcceptEdge
      <3>2. Request' = <<>> /\ Asked = <<>> /\ BufferIsCurrent'
        BY <2>2, <2>3, <3>1 DEF Facts, RequestSeen, Asked, BufferIsCurrent
      <3>. QED BY <1>3, <1>5, <2>2, <3>2 DEF Stays
    <2>4. CASE c \in {"memr", "memw"}
      <3>1. PICK b \in Addresses : /\ b = captured.s0 /\ b \in AddressesIn(workload)
                                   /\ captured'.s0 = b
        BY <1>1, <1>12, <2>4, Samples DEF AcceptEdge, IssuedInv, JustSampled, AddressesIn
      <3>2. /\ buffer_hit <=> Hit(b)
            /\ buffer_hit' <=> Hit(b)
        BY <1>2, <1>4, <3>1 DEF buffer_hit, Hit, TagOf, RowId, PageId, TwiceGroup
      <3>3. \/ state' \in {"RDMEM1", "WRMEM1"} /\ Hit(b)
            \/ state' = "RDMEM2" /\ ~Hit(b)
        BY <1>12, <2>4, <3>2 DEF AcceptEdge
      <3>4. Request' = Asked'
        BY <3>3 DEF Facts, RequestSeen
      <3>5. CASE state' \in {"RDMEM1", "WRMEM1"} /\ Hit(b)
        <4>1. BufferIsCurrent'
          BY <3>2, <3>5 DEF BufferIsCurrent
        <4>. QED BY <1>3, <1>5, <2>2, <3>4, <4>1 DEF Stays
      <3>6. CASE state' = "RDMEM2" /\ ~Hit(b)
        <4>1. ~BufferIsCurrent'
          BY <3>6 DEF BufferIsCurrent
        <4>2. ASSUME NEW a \in Addresses, tag = TagOf(a) PROVE buffer = Line(a)
          <5>1. CASE ReadsOnly(workload)
            BY <1>1, <4>2, <5>1 DEF BufferInv
          <5>2. CASE ~ReadsOnly(workload)
            <6>1. OneLine(workload)
              BY <1>1, <5>2 DEF ServedMasters, IssuedInv
            <6>2. \E d \in AddressesIn(workload) : tag = TagOf(d)
              BY <1>1, <4>2 DEF BufferInv, ServedMasters
            <6>. QED BY <3>1, <3>6, <6>1, <6>2 DEF OneLine, Hit
          <5>. QED BY <5>1, <5>2
        <4>3. \A a \in Addresses : Value(a)' = Value(a)
          BY <1>4, <4>1, <4>2 DEF Value
        <4>4. WordsKept' = WordsKept
          BY <4>3, WordsMove DEF Facts
        <4>. QED BY <1>3, <2>2, <3>4, <4>4 DEF Stays
      <3>. QED BY <3>3, <3>5, <3>6
    <2>. QED BY <2>3, <2>4 DEF Command
  <1>. QED BY <1>2, <1>10, <1>11, <1>12


(* Edges of a controller that serves a command.                            *)
LEMMA BusyEdgesServe ==
    ASSUME ServedMasters, MemoryInv, Facts, Facts', NEW rwds \in Bit, MCTick(rwds),
           state # "IDLE"
    PROVE  Stays \/ \E a : Replies(a) \/ \E w : StoresAt(a, w)
  <1>1. /\ WaitsInv /\ Quiet /\ IssuedInv /\ BufferInv /\ RamIsKept /\ NoData /\ IInv
        /\ CommandStep(Wires(rwds)) /\ Waits /\ PatientMaster
    BY DEF MemoryInv, WaitsInv, PatientInv, WholeInv, PinsInv, SystemInv, MCTick, Tick, Clock
  <1>2. BusyMove /\ BusyEdge /\ StillIssued /\ captured'.s0 = captured.s0
    BY <1>1, BusyMoves, BusyEdges DEF BusyEdge
  <1>3. \A b : /\ TagOf(b)' = TagOf(b) /\ Line(b)' = Line(b) /\ BufferAddr(b)' = BufferAddr(b)
               /\ Hit(b)' = (CompareTags /\ tag' = TagOf(b))
    BY RigidOperators DEF Rigid, Hit
  <1>4. Answer = <<>> /\ Asked' = Asked
    BY <1>2 DEF Facts, RequestSeen, StillIssued, Asked
  <1>5. state # "RDMEM1" => Answer' = <<>>
    BY <1>1, ServesReads DEF Waits, Answer
  <1>6. state' = "IDLE" => Request' = <<>>
    <2>1. req' = Low /\ master'.cmd = "none"
      BY <1>2 DEF BusyEdge
    <2>2. state' = "IDLE" => AtEase'
      BY <2>1 DEF Facts, Waits, JustIssued, JustSampled, Rising, Low, Command
    <2>. QED BY <2>2 DEF Facts, RequestSeen
  <1>7. /\ (\A a \in Addresses : Value(a)' = Value(a)) => WordsKept' = WordsKept
        /\ \A b \in Addresses : \A w :
               (\A a \in Addresses : Value(a)' = IF a = b THEN w ELSE Value(a))
                   => WordsKept' = [WordsKept EXCEPT ![b] = w]
    BY WordsMove DEF Facts
  <1>8. CASE state \in {"RDREG", "WRREG", "ACCDLY"}
    <2>1. state' \in {state, "IDLE"} /\ tag' = tag /\ buffer' = buffer
      BY <1>2, <1>8 DEF BusyMove, cacheVars
    <2>2. BufferIsCurrent /\ BufferIsCurrent'
      BY <1>8, <2>1 DEF BufferIsCurrent
    <2>3. WordsKept' = WordsKept
      BY <1>3, <1>7, <2>1, <2>2 DEF Value
    <2>4. Request = <<>> /\ Request' = <<>>
      BY <1>6, <1>8, <2>1 DEF Facts, RequestSeen
    <2>. QED BY <1>4, <1>5, <1>8, <2>3, <2>4 DEF Stays
  <1>9. CASE state \in {"RDMEM1", "RDMEM2", "WRMEM1", "WRMEM2"}
    <2>1. ServedAddress /\ Request = Asked
      BY <1>1, <1>9, ServedAt DEF Facts, RequestSeen
    <2>2. PICK a \in Addresses : a = captured.s0
      BY <2>1 DEF ServedAddress
    <2>3. /\ a = master.issued.address /\ a \in AddressesIn(workload) /\ BufferFor(a)
          /\ BufferAddr(a) \in Slots
      BY <1>1, <2>1, <2>2 DEF ServedAddress, BufferInv
    <2>4. /\ buffer_hit <=> Hit(a)
          /\ buffer_hit' <=> Hit(a)'
      BY <1>2, <1>3, <2>2 DEF buffer_hit, Hit, TagOf, RowId, PageId, TwiceGroup
    <2>5. \A b \in Addresses :
              TagOf(b) = TagOf(a) => Line(b) = Line(a) /\ (BufferAddr(b) = BufferAddr(a) => b = a)
      BY Groups, LinesOfDevice DEF ServedMasters
    <2>. DEFINE w == master.issued.word
    <2>6. master.issued.cmd = "memw" => Asked = <<"write", a, w>>
      BY <2>3 DEF Asked
    <2>7. CASE state = "RDMEM1"
      <3>1. /\ state' = "IDLE" /\ tag' = tag /\ buffer' = buffer
            /\ resp' = [data |-> buffer[BufferAddr(a)], valid |-> 1]
        BY <1>1, <1>2, <2>2, <2>3, <2>7
           DEF CommandStep, Idle, ReadRegister, WriteRegister, ReadBuffer, WriteBuffer, Fill,
               WriteBack, AccessDelay, BusyMove, cacheVars
      <3>2. BufferIsCurrent /\ BufferIsCurrent'
        BY <2>7, <3>1 DEF BufferIsCurrent
      <3>3. WordsKept' = WordsKept
        BY <1>3, <1>7, <3>1, <3>2 DEF Value
      <3>4. Answer' = WordsKept[a]
        <4>1. tag = TagOf(a)
          BY <2>3, <2>7 DEF BufferFor
        <4>2. WordsKept[a] = buffer[BufferAddr(a)]
          BY <3>2, <4>1 DEF Facts, KeptValues, Value
        <4>. QED BY <3>1, <4>2 DEF Answer
      <3>5. Request = <<"read", a>>
        BY <1>1, <2>1, <2>3, <2>7 DEF IssuedInv, Asked
      <3>. QED BY <1>4, <1>6, <3>1, <3>3, <3>4, <3>5 DEF Replies
    <2>8. CASE state = "RDMEM2"
      <3>1. ~BufferIsCurrent
        BY <2>8 DEF BufferIsCurrent
      <3>2. rdmem.state = "DONE" => buffer = Line(a)
        BY <2>2, <2>8, FillGoesOn
      <3>3. /\ state' \in {"RDMEM1", "RDMEM2", "WRMEM1"}
            /\ state' = "RDMEM1" => tag' = TagOf(a) /\ buffer' = Line(a)
            /\ state' = "WRMEM1" => tag' = tag /\ master.issued.cmd = "memw"
        BY <1>2, <2>2, <2>8, <3>2 DEF BusyMove, cacheVars
      <3>4. BufferIsCurrent' => state' = "RDMEM1"
        <4>1. state' = "WRMEM1" => tag' # TagOf(a)
          BY <1>1, <2>3, <2>8, <3>3 DEF BufferFor, IssuedInv
        <4>. QED BY <1>3, <2>4, <3>3, <4>1 DEF BufferIsCurrent
      <3>5. \A b \in Addresses : Value(b)' = Value(b)
        <4>1. CASE ~BufferIsCurrent'
          BY <1>3, <3>1, <4>1 DEF Value
        <4>2. CASE BufferIsCurrent'
          BY <1>3, <2>5, <3>1, <3>3, <3>4, <4>2 DEF Value
        <4>. QED BY <4>1, <4>2
      <3>6. Request' = Asked'
        BY <3>3 DEF Facts, RequestSeen
      <3>. QED BY <1>4, <1>5, <1>7, <2>1, <2>8, <3>5, <3>6 DEF Stays
    <2>9. CASE state = "WRMEM1" /\ Hit(a)
      <3>1. /\ state' = "IDLE" /\ tag' = tag /\ tag = TagOf(a)
            /\ buffer' = [buffer EXCEPT ![BufferAddr(a)] = w]
        BY <1>2, <2>2, <2>9 DEF BusyMove, Hit
      <3>2. BufferIsCurrent /\ BufferIsCurrent'
        BY <2>4, <2>9, <3>1 DEF BufferIsCurrent
      <3>3. ASSUME NEW b \in Addresses PROVE Value(b)' = IF b = a THEN w ELSE Value(b)
        <4>1. buffer \in [Slots -> Word] /\ BufferAddr(b) \in Slots
          BY DEF Facts, Lines, ServedMasters
        <4>2. buffer'[BufferAddr(b)] =
                  IF BufferAddr(b) = BufferAddr(a) THEN w ELSE buffer[BufferAddr(b)]
          BY <2>3, <3>1, <4>1
        <4>. QED BY <1>3, <2>5, <3>1, <3>2, <4>2 DEF Value
      <3>4. WordsKept' = [WordsKept EXCEPT ![a] = w]
        BY <1>7, <3>3
      <3>5. Request = <<"write", a, w>>
        BY <1>1, <2>1, <2>6, <2>9 DEF IssuedInv
      <3>6. StoresAt(a, w)
        BY <1>4, <1>5, <1>6, <2>9, <3>1, <3>4, <3>5 DEF StoresAt
      <3>. QED BY <3>6
    <2>10. CASE state = "WRMEM1" /\ ~Hit(a)
      <3>1. state' = "WRMEM2"
        BY <1>2, <2>2, <2>10 DEF BusyMove
      <3>2. ~BufferIsCurrent /\ ~BufferIsCurrent'
        BY <2>4, <2>10, <3>1 DEF BufferIsCurrent
      <3>3. WordsKept' = WordsKept
        BY <1>3, <1>7, <3>2 DEF Value
      <3>4. Request' = Asked'
        BY <3>1 DEF Facts, RequestSeen
      <3>. QED BY <1>4, <1>5, <2>1, <2>10, <3>3, <3>4 DEF Stays
    <2>11. CASE state = "WRMEM2" /\ state' = "WRMEM2"
      <3>1. ~BufferIsCurrent /\ ~BufferIsCurrent'
        BY <2>11 DEF BufferIsCurrent
      <3>2. WordsKept' = WordsKept
        BY <1>3, <1>7, <3>1 DEF Value
      <3>3. Request' = Asked'
        BY <2>11 DEF Facts, RequestSeen
      <3>. QED BY <1>4, <1>5, <2>1, <2>11, <3>2, <3>3 DEF Stays
    <2>12. CASE state = "WRMEM2" /\ state' # "WRMEM2"
      <3>1. state' = "ACCDLY" /\ tag' = TagOf(a) /\ buffer' = buffer
        BY <1>2, <2>2, <2>12 DEF BusyMove
      <3>2. ~BufferIsCurrent /\ BufferIsCurrent'
        BY <2>12, <3>1 DEF BufferIsCurrent
      <3>3. buffer = [Line(a) EXCEPT ![BufferAddr(a)] = w]
        BY <2>3, <2>12 DEF BufferFor
      <3>4. ASSUME NEW b \in Addresses PROVE Value(b)' = IF b = a THEN w ELSE Value(b)
        <4>1. Line(a) \in [Slots -> Word] /\ BufferAddr(b) \in Slots
          BY LinesOfDevice DEF Lines, ServedMasters
        <4>2. buffer[BufferAddr(b)] =
                  IF BufferAddr(b) = BufferAddr(a) THEN w ELSE Line(a)[BufferAddr(b)]
          BY <2>3, <3>3, <4>1
        <4>. QED BY <1>3, <2>5, <3>1, <3>2, <4>2 DEF Value
      <3>5. WordsKept' = [WordsKept EXCEPT ![a] = w]
        BY <1>7, <3>4
      <3>6. Request = <<"write", a, w>> /\ Request' = <<>>
        BY <1>1, <2>1, <2>6, <2>12, <3>1 DEF IssuedInv, Facts, RequestSeen
      <3>7. StoresAt(a, w)
        BY <1>4, <1>5, <2>12, <3>5, <3>6 DEF StoresAt
      <3>. QED BY <3>7
    <2>. QED BY <1>9, <2>7, <2>8, <2>9, <2>10, <2>11, <2>12
  <1>. QED
    <2>1. state \in CommandState
      BY <1>1 DEF IInv, TypeOK
    <2>. QED BY <1>8, <1>9, <2>1 DEF CommandState


-----------------------------------------------------------------------------
(* An edge of the system is a step of the memory, or none.                 *)
LEMMA EdgesServe ==
    ASSUME ServedMasters, MemoryInv, MemoryInv'
    PROVE  [\E rwds \in Bit : MCTick(rwds)]_mcVars => [Memory!Next]_(Memory!memoryVars)
  <1>1. Facts /\ Facts'
    <2>1. MemoryInv => Facts
      BY FactsHold
    <2>2. (MemoryInv => Facts)'
      BY FactsHold, PTL
    <2>. QED BY <2>1, <2>2
  <1>2. ASSUME NEW rwds \in Bit, MCTick(rwds)
        PROVE  [Memory!Next]_(Memory!memoryVars)
    <2>1. \/ Stays \/ Asks \/ Takes
          \/ \E a : Replies(a) \/ \E w : StoresAt(a, w)
      BY <1>1, <1>2, IdleEdgesServe, BusyEdgesServe
    <2>. QED BY <2>1, MemoryMoves
  <1>3. ASSUME UNCHANGED mcVars PROVE Stays
    <2>1. UNCHANGED <<state, req, captured, buffer, tag, resp, master, ram>>
      BY <1>3 DEF mcVars, sysVars, vars, inputVars, cacheVars
    <2>. QED BY <2>1 DEF Stays, WordsKept, Request, Answer, BufferIsCurrent, buffer_hit,
                         DeviceWord, Column, OutAddr, TagOf, RowId, PageId, TwiceGroup,
                         UpperColumn, DeviceRow, BufferAddr
  <1>. QED BY <1>2, <1>3, MemoryMoves

(* RDMEM1, RDMEM2, WRMEM1 and WRMEM2, the burst machines, the cells and    *)
(* the device together are a memory of words for the masters they can      *)
(* serve: every read answers with the word last written, or with the       *)
(* device's, and a write changes one word.                                 *)
THEOREM WordsServed ==
    ASSUME ServedMasters
    PROVE  MCSpec => WordsAreServed
  <1>1. MCInit => Memory!Init
    <2>. SUFFICES ASSUME MCInit PROVE Memory!Init
      OBVIOUS
    <2>1. MemoryInv
      BY MemoryStart
    <2>2. state = "IDLE" /\ resp.valid = 0 /\ req["memw"] = 0 /\ tag = TagAtPowerUp
          /\ master.issued.cmd = "none"
      BY DEF MCInit, SysInit, Init, NoCommandYet, Low, Command, TagAtPowerUp
    <2>3. Request = <<>> /\ Answer = <<>>
      BY <2>2 DEF Request, Answer
    <2>4. ASSUME NEW a \in Addresses PROVE Value(a) \in Word
      <3>1. Value(a) = Line(a)[BufferAddr(a)]
        BY <2>2 DEF Value, ServedMasters
      <3>. QED BY <3>1, LinesOfDevice DEF Lines, ServedMasters
    <2>5. WordsKept \in [Addresses -> Word]
      BY <2>1, <2>4, KeptIs DEF KeptValues
    <2>. QED BY <2>3, <2>5 DEF Memory!Init, WordsKept, Answer
  <1>2. MCInit => MemoryInv
    BY MemoryStart
  <1>3. MemoryInv /\ [\E rwds \in Bit : MCTick(rwds)]_mcVars => MemoryInv'
    BY MemoryStep
  <1>4. MemoryInv /\ MemoryInv' /\ [\E rwds \in Bit : MCTick(rwds)]_mcVars =>
            [Memory!Next]_(Memory!memoryVars)
    BY EdgesServe
  <1>. QED BY <1>1, <1>2, <1>3, <1>4, PTL DEF MCSpec, WordsAreServed, Memory!Spec
=============================================================================
