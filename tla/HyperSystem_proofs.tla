------------------------- MODULE HyperSystem_proofs -------------------------
(***************************************************************************)
(* What the controller keeps for any input it keeps between the master,    *)
(* the I/O cells and the device: the wires of HyperSystem never carry      *)
(* anything but inputs of the controller. The system has no reset.         *)
(***************************************************************************)
EXTENDS HyperSystem, HyperController_proofs

\* What is on the wires and in the cells.
MasterType ==
    /\ master.cmd \in Command \cup {"none"}
    /\ master.address \in WordAddress /\ master.word \in Word

DeviceType ==
    /\ dq_out \in Half /\ dataout \in Half
    /\ ram \in [pulses : Nat, ca : CommandAddress, mem : [Columns -> HalfLines]]

SystemInv == IInv /\ MasterType /\ DeviceType

-----------------------------------------------------------------------------
(* Memory lines and register values of the device are halves.              *)
LEMMA DeviceValues ==
    /\ Columns \subseteq Half
    /\ \A column \in Columns : Contents(column) \in HalfLines
    /\ \A ca \in CommandAddress : RegisterValue(ca) \in Half
  <1>0. \A h \in Half : h \in Nat
    BY DEF Half
  <1>1. \A n \in Nat : n % 65536 \in Half
    BY DEF Half
  <1>2. Columns \subseteq Half
    <2>1. \A a \in Addresses : a \in WordAddress
      BY ConstantsType
    <2>2. \A a \in Addresses : OutAddr(a, 0)[2] \in Half
      <3>. SUFFICES ASSUME NEW a \in Addresses PROVE OutAddr(a, 0)[2] \in Half
        OBVIOUS
      <3>1. OutAddr(a, 0) \in CommandAddress
        <4>1. a \in WordAddress /\ 0 \in Bit
          BY <2>1, SharedSets
        <4>. QED BY <4>1, DecodedWidths
      <3>. HIDE DEF OutAddr
      <3>. QED BY <3>1 DEF CommandAddress
    <2>. QED BY <2>2 DEF Columns
  <1>3. ASSUME NEW column \in Columns PROVE Contents(column) \in HalfLines
    <2>1. column \in Nat
      <3>1. column \in Half
        BY <1>2
      <3>. QED BY <1>0, <3>1
    <2>2. \A i \in 0 .. 15 : 1000 + 16 * column + i \in Nat
      BY <2>1
    <2>. QED BY <1>1, <2>2 DEF Contents, HalfLines
  <1>4. ASSUME NEW ca \in CommandAddress PROVE RegisterValue(ca) \in Half
    <2>1. ca[2] \in Nat /\ ca[3] \in Nat
      <3>1. ca[2] \in Half /\ ca[3] \in Half
        BY DEF CommandAddress
      <3>. QED BY <1>0, <3>1
    <2>2. 500 + ca[2] + ca[3] \in Nat
      BY <2>1
    <2>. QED BY <1>1, <2>2 DEF RegisterValue
  <1>. QED BY <1>2, <1>3, <1>4

(* Nothing but inputs of the controller is on the wires.                   *)
LEMMA WiresAreInputs ==
    ASSUME SystemInv, NEW rwds \in Bit
    PROVE  Wires(rwds) \in AnyInputs
  <1>1. master.address % 1024 \in RegisterAddress
    <2>1. ASSUME NEW a \in Nat PROVE a % 1024 \in RegisterAddress
      BY DEF RegisterAddress
    <2>2. master.address \in Nat
      BY DEF SystemInv, MasterType, WordAddress
    <2>. QED BY <2>1, <2>2
  <1>2. {master.cmd} \cap Command \in SUBSET Command
    OBVIOUS
  <1>3. /\ master.address \in WordAddress /\ master.word \in Word
        /\ dataout \in Half
    BY DEF SystemInv, MasterType, DeviceType
  <1>. DEFINE strobes == {master.cmd} \cap Command
              address == master.address
              csr == master.address % 1024
              word == master.word
  <1>4. /\ strobes \in SUBSET Command /\ csr \in RegisterAddress
        /\ address \in WordAddress /\ word \in Word
    BY <1>1, <1>2, <1>3
  <1>5. Wires(rwds) = [strobes |-> strobes, s0_address |-> address,
                       csr_address |-> csr, s0_writedata |-> word,
                       rwds_in |-> rwds, dataout |-> dataout]
    BY DEF Wires
  <1>. HIDE DEF strobes, address, csr, word
  <1>6. [strobes |-> strobes, s0_address |-> address, csr_address |-> csr,
         s0_writedata |-> word, rwds_in |-> rwds, dataout |-> dataout] \in AnyInputs
    BY <1>3, <1>4 DEF AnyInputs
  <1>. QED BY <1>5, <1>6

-----------------------------------------------------------------------------
(* The initial state of the system.                                        *)
LEMMA SystemStarts == SysInit => SystemInv
  <1>. SUFFICES ASSUME SysInit PROVE SystemInv
    OBVIOUS
  <1>1. IInv
    BY InitialInvariant DEF SysInit
  <1>2. MasterType
    BY SharedSets DEF SysInit, MasterType, WordAddress, LastWordAddress
  <1>3. DeviceType
    <2>1. ram = [pulses |-> 0, ca |-> ZeroCa, mem |-> [c \in Columns |-> Contents(c)]]
      BY DEF SysInit
    <2>2. [c \in Columns |-> Contents(c)] \in [Columns -> HalfLines]
      BY DeviceValues
    <2>3. ZeroCa \in CommandAddress
      BY SharedSets DEF ZeroCa, CommandAddress
    <2>4. dq_out \in Half /\ dataout \in Half
      BY SharedSets DEF SysInit
    <2>. QED BY <2>1, <2>2, <2>3, <2>4 DEF DeviceType
  <1>. QED BY <1>1, <1>2, <1>3 DEF SystemInv

(* Whatever the master issues is an address and a word.                    *)
LEMMA MasterKeepsType ==
    ASSUME MasterType, MasterStep
    PROVE  MasterType'
  <1>1. ASSUME NEW c \in Operations, NEW a \in AddressesOf(c), NEW w \in WordsOf(c),
               Issue(c, a, w)
        PROVE  MasterType'
    <2>1. c \in Command
      BY SystemConstants
    <2>2. a \in WordAddress
      <3>1. /\ \A x \in Addresses : x \in WordAddress
            /\ \A x \in CsrAddresses : x \in RegisterAddress
        BY ConstantsType
      <3>2. \A x \in RegisterAddress : x \in WordAddress
        BY DEF RegisterAddress, WordAddress, LastWordAddress
      <3>3. a \in Addresses \/ a \in CsrAddresses
        BY DEF AddressesOf
      <3>. QED BY <3>1, <3>2, <3>3
    <2>3. w \in Word
      <3>1. WriteWords \subseteq Word /\ ZeroWord \in Word
        BY ConstantsType, SharedSets
      <3>. QED BY <3>1 DEF WordsOf
    <2>4. master'.cmd = c /\ master'.address = a /\ master'.word = w
      BY <1>1 DEF Issue
    <2>. QED BY <2>1, <2>2, <2>3, <2>4 DEF MasterType
  <1>2. ASSUME Hold \/ Pause PROVE MasterType'
    <2>1. CASE Hold
      BY <2>1 DEF Hold, MasterType
    <2>2. CASE Pause
      BY <2>2 DEF Pause, MasterType
    <2>. QED BY <1>2, <2>1, <2>2
  <1>3. ASSUME Release PROVE MasterType'
    <2>1. /\ master'.cmd = "none" /\ master'.address = master.address
          /\ master'.word = master.word
      BY <1>3 DEF Release, MasterType
    <2>. QED BY <2>1 DEF MasterType
  <1>. QED BY <1>1, <1>2, <1>3 DEF MasterStep

-----------------------------------------------------------------------------
(* What the dq wires carry, in either direction, is a half.                *)
LEMMA DqWires ==
    ASSUME DeviceType
    PROVE  DqOnPad \in Half /\ DeviceData \in Half
  <1>1. Floating \in Half
    BY DEF Floating, Half
  <1>2. DqOnPad \in Half
    BY <1>1 DEF DqOnPad, DeviceType
  <1>3. ram.ca \in CommandAddress /\ ram.mem \in [Columns -> HalfLines]
        /\ ram.pulses \in Nat
    BY DEF DeviceType
  <1>4. RegisterValue(ram.ca) \in Half
    BY <1>3, DeviceValues
  <1>5. ASSUME ram.pulses >= FirstData, ram.ca[2] \in Columns
        PROVE  ram.mem[ram.ca[2]][(ram.pulses - FirstData) % 16] \in Half
    <2>1. (ram.pulses - FirstData) % 16 \in 0 .. 15
      BY <1>3, <1>5 DEF FirstData
    <2>2. ram.mem[ram.ca[2]] \in HalfLines
      BY <1>3, <1>5
    <2>. QED BY <2>1, <2>2 DEF HalfLines
  <1>. QED BY <1>1, <1>2, <1>4, <1>5 DEF DeviceData

(* The device and the cells keep theirs.                                   *)
LEMMA DeviceKeepsType ==
    ASSUME TypeOK, DeviceType, DeviceStep, CellStep
    PROVE  DeviceType'
  <1>1. dq_out' \in Half /\ dataout' \in Half
    BY DqWires DEF CellStep, TypeOK, Pins
  <1>2. DqOnPad \in Half
    BY DqWires
  <1>3. ram.ca \in CommandAddress /\ ram.mem \in [Columns -> HalfLines]
        /\ ram.pulses \in Nat
    BY DEF DeviceType
  <1>. DEFINE pulses == IF pins.csn = 1 THEN 0
                        ELSE IF Pulse THEN ram.pulses + 1 ELSE ram.pulses
              ca == IF Pulse /\ ram.pulses < 3
                    THEN [ram.ca EXCEPT ![ram.pulses + 1] = DqOnPad] ELSE ram.ca
              mem == IF Stores
                     THEN [ram.mem EXCEPT
                              ![ram.ca[2]][(ram.pulses - FirstData) % 16] = DqOnPad]
                     ELSE ram.mem
  <1>4. pulses \in Nat
    BY <1>3
  <1>5. ca \in CommandAddress
    <2>1. CASE Pulse /\ ram.pulses < 3
      <3>1. ram.pulses \in {0, 1, 2}
        BY <1>3, <2>1
      <3>2. ca = [ram.ca EXCEPT ![ram.pulses + 1] = DqOnPad]
        BY <2>1
      <3>. HIDE DEF ca
      <3>. QED BY <1>2, <1>3, <3>1, <3>2 DEF CommandAddress
    <2>2. CASE ~(Pulse /\ ram.pulses < 3)
      BY <1>3, <2>2
    <2>. QED BY <2>1, <2>2
  <1>6. mem \in [Columns -> HalfLines]
    <2>1. CASE Stores
      <3>1. ram.ca[2] \in Columns /\ ram.pulses >= FirstData
        BY <2>1 DEF Stores
      <3>2. ram.mem[ram.ca[2]] \in HalfLines
        BY <1>3, <3>1
      <3>3. [ram.mem[ram.ca[2]] EXCEPT ![(ram.pulses - FirstData) % 16] = DqOnPad]
            \in HalfLines
        BY <1>2, <3>2 DEF HalfLines
      <3>4. mem = [ram.mem EXCEPT ![ram.ca[2]] =
                      [ram.mem[ram.ca[2]] EXCEPT
                          ![(ram.pulses - FirstData) % 16] = DqOnPad]]
        BY <2>1
      <3>. HIDE DEF mem
      <3>. QED BY <1>3, <3>1, <3>3, <3>4
    <2>2. CASE ~Stores
      BY <1>3, <2>2
    <2>. QED BY <2>1, <2>2
  <1>7. ram' = [pulses |-> pulses, ca |-> ca, mem |-> mem]
    BY DEF DeviceStep
  <1>. HIDE DEF pulses, ca, mem
  <1>. QED BY <1>1, <1>4, <1>5, <1>6, <1>7 DEF DeviceType

-----------------------------------------------------------------------------
(* Every edge of the system keeps the invariant.                           *)
LEMMA SystemStep == SystemInv /\ [SysNext]_sysVars => SystemInv'
  <1>1. ASSUME SystemInv, NEW rwds \in Bit, Tick(rwds) PROVE SystemInv'
    <2>1. Wires(rwds) \in AnyInputs
      BY <1>1, WiresAreInputs
    <2>2. IInv /\ Clock(Wires(rwds))
      BY <1>1 DEF SystemInv, Tick
    <2>3. IInv'
      BY <2>1, <2>2, ClockInvariant
    <2>4. MasterType'
      BY <1>1, MasterKeepsType DEF SystemInv, Tick
    <2>5. DeviceType'
      BY <1>1, DeviceKeepsType DEF SystemInv, IInv, Tick
    <2>. QED BY <2>3, <2>4, <2>5 DEF SystemInv
  <1>2. ASSUME SystemInv, UNCHANGED sysVars PROVE SystemInv'
    <2>1. IInv'
      <3>1. IInv /\ UNCHANGED vars
        BY <1>2 DEF SystemInv, sysVars
      <3>. QED BY <3>1, StepInvariant
    <2>2. MasterType' /\ DeviceType'
      BY <1>2 DEF SystemInv, sysVars, MasterType, DeviceType
    <2>. QED BY <2>1, <2>2 DEF SystemInv
  <1>. QED BY <1>1, <1>2 DEF SysNext

(* Between the master, the cells and the device every register keeps its   *)
(* width and the FSM and its machines stay in step.                        *)
THEOREM SystemInvariantHolds == SysSpec => []SystemInv
  BY SystemStarts, SystemStep, PTL DEF SysSpec

(* The start/end handshake, in the system.                                 *)
THEOREM SystemKeepsHandshake == SysSpec => []Handshake
  <1>1. SystemInv => Handshake
    BY DEF SystemInv, IInv
  <1>. QED BY <1>1, SystemInvariantHolds, PTL

(* The bus has one owner, in the system.                                   *)
THEOREM SystemHasOneOwner == SysSpec => []OneBusOwner
  <1>1. SystemInv => OneBusOwner
    BY OwnerIsServed DEF SystemInv
  <1>. QED BY <1>1, SystemInvariantHolds, PTL

(* A command on the bus ends with its burst, in the system: there is no    *)
(* reset that could cut it short.                                          *)
THEOREM SystemCommandsAwait == SysSpec => CommandsAwaitTheirBurst
  <1>1. SystemInv /\ [SysNext]_sysVars => [~Reset => Awaits]_vars
    <2>1. ASSUME SystemInv, NEW rwds \in Bit, Tick(rwds) PROVE Awaits
      <3>1. Wires(rwds) \in AnyInputs
        BY <2>1, WiresAreInputs
      <3>. QED BY <2>1, <3>1, ClockAwaits DEF SystemInv, Tick
    <2>2. ASSUME UNCHANGED sysVars PROVE UNCHANGED vars
      BY <2>2 DEF sysVars
    <2>. QED BY <2>1, <2>2 DEF SysNext
  <1>2. CommandsAwaitTheirBurst <=> [][~Reset => Awaits]_vars
    BY DEF CommandsAwaitTheirBurst, Awaits
  <1>. QED BY <1>1, <1>2, SystemInvariantHolds, PTL DEF SysSpec
=============================================================================
