----------------------------- MODULE Pins_proofs -----------------------------
(***************************************************************************)
(* What the controller puts on the HyperBus, followed through the burst    *)
(* machines, the pin registers, the dq cells and the device's pulse count. *)
(* Every fact is first one about any burst machine, by its position: the   *)
(* phase it is in and its counter.                                         *)
(***************************************************************************)
EXTENDS MCHyperSystem, HyperSystem_proofs

-----------------------------------------------------------------------------
(* One edge of a burst machine that sends the command/address ca, sets oe  *)
(* again from RUN count half on (a machine that only reads: half = end)    *)
(* and ends its burst at RUN count end.                                    *)

Resting(stm, next, start) ==
    /\ stm.state = "IDLE" /\ start = 0
    /\ next.state = "IDLE" /\ next.oe = stm.oe /\ next.oe_clk = stm.oe_clk
    /\ next.csn = 1

Starting(stm, next, start, ca) ==
    /\ stm.state = "IDLE" /\ start = 1
    /\ next.state = "CA" /\ next.counter = 0 /\ next.csn = 0
    /\ next.oe = stm.oe /\ next.oe_clk = stm.oe_clk
    /\ \A i \in 0 .. 2 : next.buffer_out[i] = ca[i + 1]

Waiting(stm, next) ==
    /\ stm.state = "CA" /\ stm.counter \notin 1 .. 4
    /\ next.state = "CA" /\ next.csn = stm.csn
    /\ next.buffer_out = stm.buffer_out
    /\ \/ next.counter = stm.counter /\ next.oe = stm.oe /\ next.oe_clk = stm.oe_clk
       \/ next.counter = 1 /\ next.oe = 1 /\ next.oe_clk = 0

Shifts(stm, next) ==
    /\ stm.state = "CA" /\ stm.counter \in 1 .. 3
    /\ next.state = "CA" /\ next.csn = stm.csn
    /\ next.counter = stm.counter + 1 /\ next.oe \in {1, stm.oe} /\ next.oe_clk = 1
    /\ \A i \in 0 .. 1 : next.buffer_out[i] = stm.buffer_out[i + 1]

Releasing(stm, next) ==
    /\ stm.state = "CA" /\ stm.counter = 4
    /\ next.state = "RUN" /\ next.counter = 0
    /\ next.csn = stm.csn /\ next.oe = 0 /\ next.oe_clk = stm.oe_clk

Running(stm, next, half, end) ==
    /\ stm.state = "RUN" /\ stm.counter # end
    /\ next.state = "RUN" /\ next.counter = stm.counter + 1
    /\ next.csn = stm.csn /\ next.oe_clk \in {1, stm.oe_clk}
    /\ next.oe = IF stm.counter >= half THEN 1 ELSE stm.oe

Ending(stm, next, half, end) ==
    /\ stm.state = "RUN" /\ stm.counter = end
    /\ next.state = "DONE" /\ next.csn = 1
    /\ next.oe = 0 \/ (next.oe = stm.oe /\ end = half)

Finishing(stm, next) ==
    /\ stm.state = "DONE"
    /\ next.state = "IDLE" /\ next.oe = stm.oe /\ next.oe_clk = 0
    /\ next.csn = stm.csn

BurstMove(stm, next, start, ca, half, end) ==
    \/ Resting(stm, next, start)
    \/ Starting(stm, next, start, ca)
    \/ Waiting(stm, next)
    \/ Shifts(stm, next)
    \/ Releasing(stm, next)
    \/ Running(stm, next, half, end)
    \/ Ending(stm, next, half, end)
    \/ Finishing(stm, next)

(* The registers of a machine at a position. *)
Position(stm, half, end) ==
    /\ stm.state = "IDLE" => stm.oe = 0 /\ stm.oe_clk = 0
    /\ stm.state = "CA" =>
           /\ stm.counter \in 0 .. 4 /\ stm.csn = 0
           /\ stm.oe = IF stm.counter = 0 THEN 0 ELSE 1
           /\ stm.oe_clk = IF stm.counter < 2 THEN 0 ELSE 1
    /\ stm.state = "RUN" =>
           /\ stm.counter \in 0 .. end /\ stm.csn = 0 /\ stm.oe_clk = 1
           /\ stm.oe = IF stm.counter > half THEN 1 ELSE 0
    /\ stm.state = "DONE" => stm.csn = 1 /\ stm.oe = 0

(* A machine keeps to its positions.                                       *)
LEMMA PositionKept ==
    ASSUME NEW stm, NEW next, NEW start, NEW ca, NEW half \in Nat, NEW end \in Nat,
           half <= end,
           Position(stm, half, end), BurstMove(stm, next, start, ca, half, end)
    PROVE  Position(next, half, end)
  <1>. USE DEF Position
  <1>1. CASE Resting(stm, next, start) \/ Starting(stm, next, start, ca)
    BY <1>1 DEF Resting, Starting
  <1>2. CASE Waiting(stm, next)
    BY <1>2 DEF Waiting
  <1>3. CASE Shifts(stm, next)
    BY <1>3 DEF Shifts
  <1>4. CASE Releasing(stm, next)
    BY <1>4 DEF Releasing
  <1>5. CASE Running(stm, next, half, end)
    BY <1>5 DEF Running
  <1>6. CASE Ending(stm, next, half, end)
    BY <1>6 DEF Ending
  <1>7. CASE Finishing(stm, next)
    BY <1>7 DEF Finishing
  <1>. QED
    BY <1>1, <1>2, <1>3, <1>4, <1>5, <1>6, <1>7 DEF BurstMove

(* An edge of rdreg_stm is such a move.                                    *)
LEMMA RdRegMoves ==
    ASSUME NEW start, NEW ca, NEW rwds \in Bit, NEW d,
           rdreg \in RdReg!Registers, Position(rdreg, 14, 14),
           RdReg!Step(start, ca, rwds, d)
    PROVE  BurstMove(rdreg, rdreg', start, ca, 14, 14)
  <1>. USE DEF RdReg!Registers
  <1>1. CASE RdReg!Rest(start, ca)
    BY <1>1 DEF RdReg!Rest, RdReg!Loaded, BurstMove, Resting
  <1>2. CASE RdReg!Start(start, ca)
    BY <1>2 DEF RdReg!Start, RdReg!Loaded, RdReg!CaHalves, BurstMove, Starting
  <1>3. CASE RdReg!AwaitRwds(rwds)
    BY <1>3 DEF RdReg!AwaitRwds, RdReg!Shifting, BurstMove, Waiting
  <1>9. CASE RdReg!DriveCa(rwds)
    BY <1>9 DEF RdReg!DriveCa, RdReg!Shifting, BurstMove, Waiting
  <1>4. CASE RdReg!ShiftCa
    BY <1>4 DEF RdReg!ShiftCa, RdReg!InCa, RdReg!Shifting, RdReg!ShiftOut, BurstMove, Shifts
  <1>5. CASE RdReg!CaSent
    BY <1>5 DEF RdReg!CaSent, RdReg!InCa, BurstMove, Releasing
  <1>6. CASE RdReg!Latency
    BY <1>6 DEF RdReg!Latency, RdReg!SampleAt, BurstMove, Running, Position
  <1>7. CASE RdReg!Sample(d)
    BY <1>7 DEF RdReg!Sample, RdReg!SampleAt, BurstMove, Ending
  <1>8. CASE RdReg!Finish
    BY <1>8 DEF RdReg!Finish, BurstMove, Finishing
  <1>. QED
    BY <1>1, <1>2, <1>3, <1>4, <1>5, <1>6, <1>7, <1>8, <1>9
       DEF RdReg!Step, RdReg!SendCa

(* An edge of rdmem_stm is such a move.                                    *)
LEMMA RdMemMoves ==
    ASSUME NEW start, NEW ca, NEW rwds \in Bit, NEW d,
           rdmem \in RdMem!Registers, Position(rdmem, 32, 32),
           RdMem!Step(start, ca, rwds, d)
    PROVE  BurstMove(rdmem, rdmem', start, ca, 32, 32)
  <1>. USE DEF RdMem!Registers
  <1>1. CASE RdMem!Rest(start, ca)
    BY <1>1 DEF RdMem!Rest, RdMem!Loaded, BurstMove, Resting
  <1>2. CASE RdMem!Start(start, ca)
    BY <1>2 DEF RdMem!Start, RdMem!Loaded, RdMem!CaHalves, BurstMove, Starting
  <1>3. CASE RdMem!AwaitRwds(rwds)
    BY <1>3 DEF RdMem!AwaitRwds, RdMem!Shifting, BurstMove, Waiting
  <1>4. CASE RdMem!DriveCa(rwds)
    BY <1>4 DEF RdMem!DriveCa, RdMem!Shifting, BurstMove, Waiting
  <1>5. CASE RdMem!ShiftCa
    BY <1>5 DEF RdMem!ShiftCa, RdMem!InCa, RdMem!Shifting, RdMem!ShiftOut,
                BurstMove, Shifts
  <1>6. CASE RdMem!CaSent
    BY <1>6 DEF RdMem!CaSent, RdMem!InCa, BurstMove, Releasing
  <1>7. CASE RdMem!Latency
    BY <1>7 DEF RdMem!Latency, RdMem!FirstHalf, BurstMove, Running, Position
  <1>8. CASE RdMem!SampleUpper(d)
    BY <1>8 DEF RdMem!SampleUpper, RdMem!Sampling, RdMem!BurstEnd, BurstMove,
                Running, Position
  <1>9. CASE RdMem!SampleLower(d)
    BY <1>9 DEF RdMem!SampleLower, RdMem!Sampling, RdMem!BurstEnd, BurstMove,
                Running, Position
  <1>10. CASE RdMem!EndBurst
    BY <1>10 DEF RdMem!EndBurst, RdMem!BurstEnd, BurstMove, Ending
  <1>11. CASE RdMem!Finish
    BY <1>11 DEF RdMem!Finish, BurstMove, Finishing
  <1>. QED
    BY <1>1, <1>2, <1>3, <1>4, <1>5, <1>6, <1>7, <1>8, <1>9, <1>10, <1>11
       DEF RdMem!Step, RdMem!SendCa

(* An edge of wrmem_stm is such a move: it drives dq again for the data.   *)
LEMMA WrMemMoves ==
    ASSUME NEW start, NEW ca, NEW rwds \in Bit, NEW line, NEW valid,
           wrmem \in WrMem!Registers, Position(wrmem, 13, 29),
           WrMem!Step(start, ca, rwds, line, valid)
    PROVE  BurstMove(wrmem, wrmem', start, ca, 13, 29)
  <1>. USE DEF WrMem!Registers
  <1>1. CASE WrMem!Rest(start, ca, line, valid)
    BY <1>1 DEF WrMem!Rest, WrMem!Loaded, BurstMove, Resting
  <1>2. CASE WrMem!Start(start, ca, line, valid)
    BY <1>2 DEF WrMem!Start, WrMem!Loaded, BurstMove, Starting
  <1>3. CASE WrMem!AwaitRwds(rwds)
    BY <1>3 DEF WrMem!AwaitRwds, WrMem!Shifting, BurstMove, Waiting
  <1>4. CASE WrMem!DriveCa(rwds)
    BY <1>4 DEF WrMem!DriveCa, WrMem!Shifting, BurstMove, Waiting
  <1>5. CASE WrMem!ShiftCaAndData
    BY <1>5 DEF WrMem!ShiftCaAndData, WrMem!InCa, WrMem!Shifting, WrMem!ShiftOut,
                BurstMove, Shifts
  <1>6. CASE WrMem!CaSent
    BY <1>6 DEF WrMem!CaSent, WrMem!InCa, BurstMove, Releasing
  <1>7. CASE WrMem!Latency
    BY <1>7 DEF WrMem!Latency, WrMem!FirstHalf, BurstMove, Running, Position
  <1>8. CASE WrMem!SendHalf
    BY <1>8 DEF WrMem!SendHalf, WrMem!FirstHalf, WrMem!BurstEnd, BurstMove,
                Running, Position
  <1>9. CASE WrMem!EndBurst
    BY <1>9 DEF WrMem!EndBurst, WrMem!BurstEnd, BurstMove, Ending
  <1>10. CASE WrMem!Finish
    BY <1>10 DEF WrMem!Finish, BurstMove, Finishing
  <1>. QED
    BY <1>1, <1>2, <1>3, <1>4, <1>5, <1>6, <1>7, <1>8, <1>9, <1>10
       DEF WrMem!Step, WrMem!SendCa

-----------------------------------------------------------------------------
(* The pins and the device's pulse count, two and three edges behind.      *)

(* What they are while a machine is at a position.                         *)
OnWires(stm, half, end) ==
    /\ stm.state = "CA" =>
           /\ ram.pulses = IF stm.counter < 3 THEN 0 ELSE stm.counter - 3
           /\ pins.oe_clk = IF stm.counter < 3 THEN 0 ELSE 1
           /\ stm.counter >= 3 => pins.csn = 0
           /\ stm.counter >= 2 => pins.oe_data = 1
    /\ stm.state = "RUN" =>
           /\ ram.pulses = stm.counter + 2
           /\ pins.oe_clk = 1 /\ pins.csn = 0
           /\ pins.oe_data = IF stm.counter = 0 \/ stm.counter > half + 1 THEN 1 ELSE 0
    /\ stm.state = "DONE" =>
           /\ ram.pulses = end + 3
           /\ pins.oe_clk = 1 /\ pins.csn = 0
           /\ pins.oe_data = IF end > half THEN 1 ELSE 0

\* The pins are those of a machine, as they were before the edge.
Drives(stm) ==
    pins'.csn = stm.csn /\ pins'.oe_clk = stm.oe_clk /\ pins'.oe_data = stm.oe

\* What the edge does to the device's pulse count.
PulseStep ==
    ram'.pulses = IF pins.csn = 1 THEN 0
                  ELSE IF Pulse THEN ram.pulses + 1 ELSE ram.pulses

(* The machine that is started drives the pins, and the device counts      *)
(* along with it.                                                          *)
LEMMA OnWiresKept ==
    ASSUME NEW stm, NEW next, NEW start, NEW ca, NEW half \in Nat, NEW end \in Nat,
           half <= end,
           stm.state # "IDLE" => start = 1,
           stm.state = "IDLE" /\ start = 1 => ram.pulses = 0 /\ pins.oe_clk = 0,
           start = 1 => Drives(stm),
           PulseStep, ram.pulses \in Nat,
           Position(stm, half, end), OnWires(stm, half, end),
           BurstMove(stm, next, start, ca, half, end)
    PROVE  OnWires(next, half, end)'
  <1>. USE DEF Position, OnWires, Drives, PulseStep, Pulse
  <1>1. CASE Resting(stm, next, start)
    BY <1>1 DEF Resting
  <1>2. CASE Starting(stm, next, start, ca)
    BY <1>2 DEF Starting
  <1>3. CASE Waiting(stm, next)
    BY <1>3 DEF Waiting
  <1>4. CASE Shifts(stm, next)
    BY <1>4 DEF Shifts
  <1>5. CASE Releasing(stm, next)
    BY <1>5 DEF Releasing
  <1>6. CASE Running(stm, next, half, end)
    BY <1>6 DEF Running
  <1>7. CASE Ending(stm, next, half, end)
    BY <1>7 DEF Ending
  <1>8. CASE Finishing(stm, next)
    BY <1>8 DEF Finishing
  <1>. QED
    BY <1>1, <1>2, <1>3, <1>4, <1>5, <1>6, <1>7, <1>8 DEF BurstMove

-----------------------------------------------------------------------------
(* The bus as a whole.                                                     *)

AllIdle ==
    rdreg.state = "IDLE" /\ rdmem.state = "IDLE" /\ wrmem.state = "IDLE"

\* Between bursts nothing is clocked, and before the next one the device has
\* seen CS# high.
BusAtRest ==
    /\ AllIdle => pins.csn = 1 \/ (pins.oe_clk = 0 /\ ram.pulses = 0)
    /\ AllIdle /\ ram.pulses # 0 => state \notin {"RDREG", "RDMEM2", "WRMEM2"}
    /\ rdreg.state = "IDLE" /\ stm_start[0] = 1 => ram.pulses = 0 /\ pins.oe_clk = 0
    /\ rdmem.state = "IDLE" /\ stm_start[2] = 1 => ram.pulses = 0 /\ pins.oe_clk = 0
    /\ wrmem.state = "IDLE" /\ stm_start[3] = 1 => ram.pulses = 0 /\ pins.oe_clk = 0

Positions ==
    /\ Position(rdreg, 14, 14) /\ Position(rdmem, 32, 32) /\ Position(wrmem, 13, 29)

Bus ==
    /\ Positions
    /\ OnWires(rdreg, 14, 14) /\ OnWires(rdmem, 32, 32) /\ OnWires(wrmem, 13, 29)
    /\ BusAtRest

(* A machine that is away from IDLE is started, and a started one is the   *)
(* only one.                                                               *)
LEMMA OneIsStarted ==
    ASSUME IInv
    PROVE  /\ rdreg.state # "IDLE" => stm_start[0] = 1
           /\ rdmem.state # "IDLE" => stm_start[2] = 1
           /\ wrmem.state # "IDLE" => stm_start[3] = 1
           /\ stm_start[0] = 1 => state = "RDREG"
           /\ stm_start[1] = 1 => state = "WRREG"
           /\ stm_start[2] = 1 => state = "RDMEM2"
           /\ stm_start[3] = 1 => state = "WRMEM2"
           /\ \A k \in 0 .. 3 : stm_start[k] = 0 \/ stm_start[k] = 1
  <1>1. /\ rdreg.state \in FsmState /\ rdmem.state \in FsmState
        /\ wrmem.state \in FsmState
    BY SharedSets
       DEF IInv, TypeOK, RdReg!Registers, RdMem!Registers, WrMem!Registers
  <1>2. \A k \in 0 .. 3 : stm_start[k] \in Bit
    BY DEF IInv, TypeOK, Engines
  <1>. QED BY <1>1, <1>2 DEF IInv, Handshake, HandshakeOf, FsmState, Bit

(* The pin registers follow the machine that is started.                   *)
LEMMA StartedDrives ==
    ASSUME IInv, DrivePins
    PROVE  /\ stm_start[0] = 1 => Drives(rdreg)
           /\ stm_start[2] = 1 => Drives(rdmem)
           /\ stm_start[3] = 1 => Drives(wrmem)
           /\ (\A k \in {0, 2, 3} : stm_start[k] = 0) => pins'.oe_clk = 0
  BY OneIsStarted DEF DrivePins, Selected, Drives

(* Each machine moves.                                                     *)
LEMMA AllMove ==
    ASSUME SystemInv, Positions, NEW rwds \in Bit, Clock(Wires(rwds))
    PROVE  /\ BurstMove(rdreg, rdreg', stm_start[0], CA_sigr, 14, 14)
           /\ BurstMove(rdmem, rdmem', stm_start[2], CA_sigr, 32, 32)
           /\ BurstMove(wrmem, wrmem', stm_start[3], CA_sigr, 13, 29)
  <1>1. Wires(rwds).rwds_in = rwds
    BY DEF Wires
  <1>2. /\ rdreg \in RdReg!Registers /\ rdmem \in RdMem!Registers
        /\ wrmem \in WrMem!Registers
    BY DEF SystemInv, IInv, TypeOK
  <1>. QED BY <1>1, <1>2, RdRegMoves, RdMemMoves, WrMemMoves DEF Positions, Clock

(* A burst that ends takes the command FSM to a state that serves none.    *)
LEMMA EndEffect ==
    ASSUME IInv, NEW in, CommandStep(in),
           ~AllIdle, rdreg.state \in {"IDLE", "DONE"}, rdmem.state \in {"IDLE", "DONE"},
           wrmem.state \in {"IDLE", "DONE"}
    PROVE  state' \notin {"RDREG", "RDMEM2", "WRMEM2"}
  <1>1. CASE rdreg.state = "DONE"
    <2>1. state = "RDREG" /\ StmEnd(0) = 1
      BY <1>1, OneIsStarted DEF IInv, Handshake, HandshakeOf, StmEnd
    <2>. QED BY <2>1 DEF CommandStep, Idle, ReadRegister, WriteRegister, ReadBuffer,
                         WriteBuffer, Fill, WriteBack, AccessDelay
  <1>2. CASE rdmem.state = "DONE"
    <2>1. state = "RDMEM2" /\ StmEnd(2) = 1
      BY <1>2, OneIsStarted DEF IInv, Handshake, HandshakeOf, StmEnd
    <2>. QED BY <2>1 DEF CommandStep, Idle, ReadRegister, WriteRegister, ReadBuffer,
                         WriteBuffer, Fill, FilledForRead, FilledForWrite, Filling,
                         WriteBack, AccessDelay
  <1>3. CASE wrmem.state = "DONE"
    <2>1. state = "WRMEM2" /\ StmEnd(3) = 1
      BY <1>3, OneIsStarted DEF IInv, Handshake, HandshakeOf, StmEnd
    <2>. QED BY <2>1 DEF CommandStep, Idle, ReadRegister, WriteRegister, ReadBuffer,
                         WriteBuffer, Fill, WriteBack, AccessDelay
  <1>. QED BY <1>1, <1>2, <1>3 DEF AllIdle

(* With every machine at rest and none started the next cycle is quiet.    *)
LEMMA QuietNext ==
    ASSUME IInv, BusAtRest, AllIdle, DrivePins, PulseStep,
           stm_start[0] = 0, stm_start[2] = 0, stm_start[3] = 0
    PROVE  pins'.oe_clk = 0 /\ ram'.pulses = 0
  <1>1. pins'.oe_clk = 0
    BY StartedDrives
  <1>. QED BY <1>1 DEF BusAtRest, PulseStep, Pulse

(* Rest comes back after every burst.                                      *)
LEMMA RestKept ==
    ASSUME SystemInv, Bus, NEW rwds \in Bit, Tick(rwds), PulseStep
    PROVE  BusAtRest'
  <1>1. /\ IInv /\ BusAtRest /\ Positions /\ DrivePins /\ CommandStep(Wires(rwds))
        /\ Clock(Wires(rwds))
    BY DEF SystemInv, Bus, Tick, Clock
  <1>2. /\ BurstMove(rdreg, rdreg', stm_start[0], CA_sigr, 14, 14)
        /\ BurstMove(rdmem, rdmem', stm_start[2], CA_sigr, 32, 32)
        /\ BurstMove(wrmem, wrmem', stm_start[3], CA_sigr, 13, 29)
    BY <1>1, AllMove
  <1>. DEFINE Goes(stm, next, start) ==
                /\ next = "IDLE" => (stm = "IDLE" /\ start = 0) \/ stm = "DONE"
  <1>3. /\ Goes(rdreg.state, rdreg'.state, stm_start[0])
        /\ Goes(rdmem.state, rdmem'.state, stm_start[2])
        /\ Goes(wrmem.state, wrmem'.state, stm_start[3])
    BY <1>2 DEF BurstMove, Resting, Starting, Waiting, Shifts, Releasing, Running,
                Ending, Finishing
  <1>4. CASE AllIdle' /\ AllIdle
    <2>1. pins'.oe_clk = 0 /\ ram'.pulses = 0
      BY <1>1, <1>3, <1>4, QuietNext DEF AllIdle
    <2>. QED BY <2>1 DEF BusAtRest
  <1>5. ASSUME AllIdle', ~AllIdle
        PROVE  pins'.csn = 1 /\ state' \notin {"RDREG", "RDMEM2", "WRMEM2"}
    <2>1. state' \notin {"RDREG", "RDMEM2", "WRMEM2"}
      BY <1>1, <1>3, <1>5, EndEffect DEF AllIdle
    <2>2. pins'.csn = 1
      BY <1>1, <1>3, <1>5, OneIsStarted, StartedDrives DEF AllIdle, Drives, Positions, Position
    <2>. QED BY <2>1, <2>2
  <1>6. /\ StartEffect(0, "RDREG") /\ StartEffect(2, "RDMEM2") /\ StartEffect(3, "WRMEM2")
    BY <1>1, CommandEffect
  <1>7. ASSUME rdreg'.state = "IDLE", stm_start'[0] = 1
        PROVE  ram'.pulses = 0 /\ pins'.oe_clk = 0
    <2>1. AllIdle /\ stm_start[0] = 0 /\ stm_start[2] = 0 /\ stm_start[3] = 0
      BY <1>1, <1>3, <1>6, <1>7, OneIsStarted
         DEF StartEffect, AllIdle, StmEnd, IInv, Handshake, HandshakeOf
    <2>. QED BY <1>1, <2>1, QuietNext
  <1>8. ASSUME rdmem'.state = "IDLE", stm_start'[2] = 1
        PROVE  ram'.pulses = 0 /\ pins'.oe_clk = 0
    <2>1. AllIdle /\ stm_start[0] = 0 /\ stm_start[2] = 0 /\ stm_start[3] = 0
      BY <1>1, <1>3, <1>6, <1>8, OneIsStarted
         DEF StartEffect, AllIdle, StmEnd, IInv, Handshake, HandshakeOf
    <2>. QED BY <1>1, <2>1, QuietNext
  <1>9. ASSUME wrmem'.state = "IDLE", stm_start'[3] = 1
        PROVE  ram'.pulses = 0 /\ pins'.oe_clk = 0
    <2>1. AllIdle /\ stm_start[0] = 0 /\ stm_start[2] = 0 /\ stm_start[3] = 0
      BY <1>1, <1>3, <1>6, <1>9, OneIsStarted
         DEF StartEffect, AllIdle, StmEnd, IInv, Handshake, HandshakeOf
    <2>. QED BY <1>1, <2>1, QuietNext
  <1>. QED BY <1>4, <1>5, <1>7, <1>8, <1>9 DEF BusAtRest

(* One clock edge keeps the bus as it should be.                           *)
LEMMA BusKept ==
    ASSUME SystemInv, Bus, NEW rwds \in Bit, Tick(rwds)
    PROVE  Bus'
  <1>1. IInv /\ Positions /\ BusAtRest /\ Clock(Wires(rwds)) /\ DrivePins
    BY DEF SystemInv, Bus, Tick, Clock
  <1>2. PulseStep /\ ram.pulses \in Nat
    BY DEF Tick, DeviceStep, PulseStep, SystemInv, DeviceType
  <1>3. /\ BurstMove(rdreg, rdreg', stm_start[0], CA_sigr, 14, 14)
        /\ BurstMove(rdmem, rdmem', stm_start[2], CA_sigr, 32, 32)
        /\ BurstMove(wrmem, wrmem', stm_start[3], CA_sigr, 13, 29)
    BY <1>1, AllMove
  <1>4. Positions'
    BY <1>1, <1>3, PositionKept DEF Positions
  <1>5. OnWires(rdreg, 14, 14)'
    BY <1>1, <1>2, <1>3, OneIsStarted, StartedDrives, OnWiresKept
       DEF Bus, Positions, BusAtRest
  <1>6. OnWires(rdmem, 32, 32)'
    BY <1>1, <1>2, <1>3, OneIsStarted, StartedDrives, OnWiresKept
       DEF Bus, Positions, BusAtRest
  <1>7. OnWires(wrmem, 13, 29)'
    BY <1>1, <1>2, <1>3, OneIsStarted, StartedDrives, OnWiresKept
       DEF Bus, Positions, BusAtRest
  <1>8. BusAtRest'
    BY <1>2, RestKept
  <1>. QED BY <1>4, <1>5, <1>6, <1>7, <1>8 DEF Bus

-----------------------------------------------------------------------------
(* Nobody else drives dq while the device answers.                         *)

(* The device answers reads late in a burst, when a reading machine has    *)
(* released dq two edges before.                                           *)
LEMMA DqIsReleased == SystemInv /\ Bus => NoContentionOnReads
  <1>. SUFFICES ASSUME SystemInv, Bus, state \in {"RDREG", "RDMEM2"},
                       DeviceData # Floating
                PROVE  pins.oe_data = 0
    BY DEF NoContentionOnReads
  <1>1. Pulse /\ ram.pulses >= 15
    BY DEF DeviceData, FirstRegister, FirstData, SystemInv, DeviceType
  <1>2. IInv /\ BusAtRest
    BY DEF SystemInv, Bus
  <1>3. ~AllIdle /\ wrmem.state = "IDLE"
    BY <1>1, <1>2, OneIsStarted DEF BusAtRest, AllIdle, Pulse
  <1>4. rdreg.state # "IDLE" \/ rdmem.state # "IDLE"
    BY <1>3 DEF AllIdle
  <1>5. /\ rdreg.state \in {"IDLE", "CA", "RUN", "DONE"}
        /\ rdmem.state \in {"IDLE", "CA", "RUN", "DONE"}
    BY SharedSets DEF SystemInv, IInv, TypeOK, RdReg!Registers, RdMem!Registers
  <1>6. CASE rdreg.state # "IDLE"
    BY <1>1, <1>5, <1>6 DEF Bus, Positions, Position, OnWires
  <1>7. CASE rdmem.state # "IDLE"
    BY <1>1, <1>5, <1>7 DEF Bus, Positions, Position, OnWires
  <1>. QED BY <1>4, <1>6, <1>7

-----------------------------------------------------------------------------
(* The line on its way from buffer_wrmem to the device.                    *)

WrMemShifts ==
    \/ wrmem.state = "CA" /\ wrmem.counter \in 1 .. 3
    \/ wrmem.state = "RUN" /\ wrmem.counter \in 13 .. 28

(* What an edge does to wrmem_stm's data and to its mask of RWDS.          *)
LEMMA WrMemLine ==
    ASSUME NEW start, NEW ca, NEW rwds \in Bit, NEW line, NEW valid,
           wrmem \in WrMem!Registers, Position(wrmem, 13, 29),
           WrMem!Step(start, ca, rwds, line, valid)
    PROVE  /\ wrmem'.rwds_out \in {0, wrmem.rwds_out}
           /\ wrmem'.rwds_oe = IF wrmem.state = "RUN" /\ wrmem.counter >= 13
                               THEN IF wrmem.counter = 29 THEN 0 ELSE 1
                               ELSE wrmem.rwds_oe
           /\ wrmem.state = "IDLE" =>
                 \A j \in 3 .. 18 : wrmem'.buffer_out[j] =
                     IF valid = 1 THEN line[j - 3] ELSE wrmem.buffer_out[j]
           /\ WrMemShifts =>
                 \A j \in 0 .. 17 : wrmem'.buffer_out[j] = wrmem.buffer_out[j + 1]
           /\ wrmem.state # "IDLE" /\ ~WrMemShifts =>
                 wrmem'.buffer_out = wrmem.buffer_out
  <1>. USE DEF WrMem!Registers, WrMemShifts
  <1>1. CASE WrMem!Rest(start, ca, line, valid)
    BY <1>1 DEF WrMem!Rest, WrMem!Loaded
  <1>2. CASE WrMem!Start(start, ca, line, valid)
    BY <1>2 DEF WrMem!Start, WrMem!Loaded
  <1>3. CASE WrMem!AwaitRwds(rwds)
    BY <1>3 DEF WrMem!AwaitRwds, WrMem!Shifting
  <1>4. CASE WrMem!DriveCa(rwds)
    BY <1>4 DEF WrMem!DriveCa, WrMem!Shifting
  <1>5. CASE WrMem!ShiftCaAndData
    BY <1>5 DEF WrMem!ShiftCaAndData, WrMem!InCa, WrMem!Shifting, WrMem!ShiftOut
  <1>6. CASE WrMem!CaSent
    BY <1>6 DEF WrMem!CaSent, WrMem!InCa
  <1>7. CASE WrMem!Latency
    BY <1>7 DEF WrMem!Latency, WrMem!FirstHalf, Position
  <1>8. CASE WrMem!SendHalf
    BY <1>8 DEF WrMem!SendHalf, WrMem!FirstHalf, WrMem!BurstEnd, WrMem!ShiftOut, Position
  <1>9. CASE WrMem!EndBurst
    BY <1>9 DEF WrMem!EndBurst, WrMem!BurstEnd
  <1>10. CASE WrMem!Finish
    BY <1>10 DEF WrMem!Finish
  <1>. QED
    BY <1>1, <1>2, <1>3, <1>4, <1>5, <1>6, <1>7, <1>8, <1>9, <1>10
       DEF WrMem!Step, WrMem!SendCa

\* Halves wrmem_stm has shifted out.
Shifted(stm) ==
    IF stm.state = "IDLE" THEN 0
    ELSE IF stm.state = "CA" THEN IF stm.counter < 2 THEN 0 ELSE stm.counter - 1
    ELSE IF stm.counter < 14 THEN 3 ELSE stm.counter - 10

\* The mask: RWDS is driven, low, from the second half's shift on.
MaskOnWires ==
    /\ wrmem.rwds_out = 0 /\ pins.rwds_out = 0
    /\ wrmem.rwds_oe = IF wrmem.state = "RUN" /\ wrmem.counter > 13 THEN 1 ELSE 0
    /\ pins.rwds_oe = IF \/ wrmem.state = "DONE"
                         \/ wrmem.state = "RUN" /\ wrmem.counter > 14
                      THEN 1 ELSE 0

\* The line is loaded once, then its halves move through the shift register,
\* the pin register and the dq cells.
LineLoaded ==
    \A j \in 0 .. 18 : j + Shifted(wrmem) \in 3 .. 18 =>
        wrmem.buffer_out[j] = buffer_wrmem[j + Shifted(wrmem) - 3]

LineOnWires ==
    /\ inbuffer_valid = 1 => state = "WRMEM2" /\ stm_start[3] = 0
    /\ state = "WRMEM2" /\ inbuffer_valid = 0 /\ wrmem.state # "DONE" => LineLoaded
    /\ wrmem.state = "RUN" /\ wrmem.counter > 13 =>
           pins.datain = buffer_wrmem[wrmem.counter - 14]
    /\ wrmem.state = "RUN" /\ wrmem.counter > 14 =>
           dq_out = buffer_wrmem[wrmem.counter - 15]
    /\ wrmem.state = "DONE" => dq_out = buffer_wrmem[15]

(* The command FSM hands the line over on its way into WRMEM2 and leaves   *)
(* it alone until the burst has ended.                                     *)
LEMMA LineHandedOver ==
    ASSUME IInv, NEW in, CommandStep(in)
    PROVE  /\ inbuffer_valid' = 1 =>
                 inbuffer_valid = 1 \/ (state = "WRMEM1" /\ state' = "WRMEM2")
           /\ inbuffer_valid' = 1 /\ state = "WRMEM1" => stm_start' = stm_start
           /\ state = "WRMEM2" => inbuffer_valid' = 0 /\ buffer_wrmem' = buffer_wrmem
           /\ state' = "WRMEM2" /\ state # "WRMEM2" => inbuffer_valid' = 1
           /\ state = "WRMEM2" /\ wrmem.stm_end = 1 => state' # "WRMEM2"
  <1>1. CASE Idle
    BY <1>1 DEF Idle, Accept, NoCommand
  <1>2. CASE ReadRegister \/ WriteRegister
    BY <1>2 DEF ReadRegister, WriteRegister, writeBackVars
  <1>3. CASE ReadBuffer \/ AccessDelay
    BY <1>3 DEF ReadBuffer, AccessDelay, writeBackVars
  <1>4. CASE WriteBuffer(in)
    BY <1>4 DEF WriteBuffer, writeBackVars, startVars
  <1>5. CASE Fill
    BY <1>5 DEF Fill, FilledForRead, FilledForWrite, Filling
  <1>6. CASE WriteBack
    BY <1>6 DEF WriteBack, StmEnd
  <1>. QED BY <1>1, <1>2, <1>3, <1>4, <1>5, <1>6 DEF CommandStep

(* What an edge does to the mask.                                          *)
LEMMA MaskKept ==
    ASSUME SystemInv, Bus, MaskOnWires, NEW rwds \in Bit, Tick(rwds)
    PROVE  MaskOnWires'
  <1>1. IInv /\ Positions /\ Clock(Wires(rwds)) /\ DrivePins
    BY DEF SystemInv, Bus, Tick, Clock
  <1>2. BurstMove(wrmem, wrmem', stm_start[3], CA_sigr, 13, 29)
    BY <1>1, AllMove
  <1>3. WrMem!Step(stm_start[3], CA_sigr, rwds, buffer_wrmem, inbuffer_valid)
    BY <1>1 DEF Clock, Wires
  <1>4. /\ wrmem'.rwds_out \in {0, wrmem.rwds_out}
        /\ wrmem'.rwds_oe = IF wrmem.state = "RUN" /\ wrmem.counter >= 13
                            THEN IF wrmem.counter = 29 THEN 0 ELSE 1
                            ELSE wrmem.rwds_oe
    BY <1>1, <1>3, WrMemLine DEF IInv, TypeOK, Positions
  <1>5. /\ pins'.rwds_out = IF stm_start[3] = 1 THEN wrmem.rwds_out ELSE 0
        /\ pins'.rwds_oe = IF stm_start[3] = 1 THEN wrmem.rwds_oe ELSE 0
    BY <1>1 DEF DrivePins
  <1>6. wrmem.state # "IDLE" => stm_start[3] = 1
    BY <1>1, OneIsStarted
  <1>7. wrmem.state = "RUN" => wrmem.counter \in 0 .. 29
    BY <1>1 DEF Positions, Position
  <1>. USE <1>4, <1>5, <1>6, <1>7 DEF MaskOnWires
  <1>8. CASE Resting(wrmem, wrmem', stm_start[3]) \/ Starting(wrmem, wrmem', stm_start[3], CA_sigr)
    BY <1>8 DEF Resting, Starting
  <1>9. CASE Waiting(wrmem, wrmem') \/ Shifts(wrmem, wrmem') \/ Releasing(wrmem, wrmem')
    BY <1>9 DEF Waiting, Shifts, Releasing
  <1>10. CASE Running(wrmem, wrmem', 13, 29)
    BY <1>10 DEF Running
  <1>11. CASE Ending(wrmem, wrmem', 13, 29) \/ Finishing(wrmem, wrmem')
    BY <1>11 DEF Ending, Finishing
  <1>. QED BY <1>2, <1>8, <1>9, <1>10, <1>11 DEF BurstMove

\* The halves of a line in a register after s shifts.
HalvesAfter(register, line, s) ==
    \A j \in 0 .. 18 : j + s \in 3 .. 18 => register[j] = line[j + s - 3]

(* One shift moves every half of a line one place down.                    *)
LEMMA OneShiftMore ==
    ASSUME NEW before, NEW after, NEW line, NEW s \in 0 .. 18,
           \A j \in 0 .. 17 : after[j] = before[j + 1], HalvesAfter(before, line, s)
    PROVE  HalvesAfter(after, line, s + 1)
  <1>. USE DEF HalvesAfter
  <1>. SUFFICES ASSUME NEW j \in 0 .. 18, j + (s + 1) \in 3 .. 18
                PROVE  after[j] = line[j + (s + 1) - 3]
    OBVIOUS
  <1>1. j \in 0 .. 17 /\ j + 1 \in 0 .. 18
    OBVIOUS
  <1>2. after[j] = before[j + 1]
    BY <1>1
  <1>3. (j + 1) + s \in 3 .. 18 /\ (j + 1) + s - 3 = j + (s + 1) - 3
    OBVIOUS
  <1>4. before[j + 1] = line[(j + 1) + s - 3]
    BY <1>1, <1>3
  <1>. QED BY <1>2, <1>3, <1>4

(* So does an edge on which wrmem_stm shifts.                              *)
LEMMA LineShifts ==
    ASSUME LineLoaded, buffer_wrmem' = buffer_wrmem,
           Shifted(wrmem') = Shifted(wrmem) + 1, Shifted(wrmem) \in 0 .. 18,
           \A j \in 0 .. 17 : wrmem'.buffer_out[j] = wrmem.buffer_out[j + 1]
    PROVE  LineLoaded'
  <1>. DEFINE before == wrmem.buffer_out
              after == wrmem'.buffer_out
              s == Shifted(wrmem)
  <1>1. HalvesAfter(before, buffer_wrmem, s)
    BY DEF LineLoaded, HalvesAfter
  <1>2. s \in 0 .. 18 /\ \A j \in 0 .. 17 : after[j] = before[j + 1]
    OBVIOUS
  <1>3. HalvesAfter(after, buffer_wrmem, s + 1)
    <2>. HIDE DEF before, after, s
    <2>. QED BY <1>1, <1>2, OneShiftMore
  <1>. QED BY <1>3 DEF LineLoaded, HalvesAfter

(* The line stays in step with the machine that sends it.                  *)
LEMMA LineKept ==
    ASSUME SystemInv, Bus, LineOnWires, NEW rwds \in Bit, Tick(rwds)
    PROVE  LineOnWires'
  <1>1. IInv /\ Positions /\ Clock(Wires(rwds)) /\ DrivePins /\ CommandStep(Wires(rwds))
    BY DEF SystemInv, Bus, Tick, Clock
  <1>2. BurstMove(wrmem, wrmem', stm_start[3], CA_sigr, 13, 29)
    BY <1>1, AllMove
  <1>3. WrMem!Step(stm_start[3], CA_sigr, rwds, buffer_wrmem, inbuffer_valid)
    BY <1>1 DEF Clock, Wires
  <1>4. /\ wrmem.state = "IDLE" =>
              \A j \in 3 .. 18 : wrmem'.buffer_out[j] =
                  IF inbuffer_valid = 1 THEN buffer_wrmem[j - 3] ELSE wrmem.buffer_out[j]
        /\ WrMemShifts =>
              \A j \in 0 .. 17 : wrmem'.buffer_out[j] = wrmem.buffer_out[j + 1]
        /\ wrmem.state # "IDLE" /\ ~WrMemShifts => wrmem'.buffer_out = wrmem.buffer_out
    BY <1>1, <1>3, WrMemLine DEF IInv, TypeOK, Positions
  <1>5. /\ wrmem.state # "IDLE" => stm_start[3] = 1
        /\ stm_start[3] = 1 => state = "WRMEM2" /\ stm_start[0] = 0 /\ stm_start[1] = 0
                               /\ stm_start[2] = 0
        /\ stm_start[3] = 0 \/ stm_start[3] = 1
    BY <1>1, OneIsStarted
  <1>6. /\ wrmem.state = "RUN" => wrmem.counter \in 0 .. 29
        /\ wrmem.state = "CA" => wrmem.counter \in 0 .. 4
    BY <1>1 DEF Positions, Position
  <1>7. inbuffer_valid = 0 \/ inbuffer_valid = 1
    BY <1>1 DEF IInv, TypeOK, Bit
  <1>8. /\ inbuffer_valid' = 1 =>
               inbuffer_valid = 1 \/ (state = "WRMEM1" /\ state' = "WRMEM2")
        /\ inbuffer_valid' = 1 /\ state = "WRMEM1" => stm_start' = stm_start
        /\ state = "WRMEM2" => inbuffer_valid' = 0 /\ buffer_wrmem' = buffer_wrmem
        /\ state' = "WRMEM2" /\ state # "WRMEM2" => inbuffer_valid' = 1
        /\ state = "WRMEM2" /\ wrmem.stm_end = 1 => state' # "WRMEM2"
    BY <1>1, LineHandedOver
  <1>9. (inbuffer_valid = 1 => state = "WRMEM2" /\ stm_start[3] = 0)'
    BY <1>5, <1>8 DEF LineOnWires
  <1>10. wrmem.state = "DONE" => wrmem.stm_end = 1
    BY <1>1 DEF IInv, Handshake, HandshakeOf
  <1>11. wrmem.state \in {"IDLE", "CA", "RUN", "DONE"}
    BY <1>1, SharedSets DEF IInv, TypeOK, WrMem!Registers
  <1>12. ASSUME state' = "WRMEM2", inbuffer_valid' = 0, wrmem'.state # "DONE"
         PROVE  LineLoaded'
    <2>1. state = "WRMEM2" /\ buffer_wrmem' = buffer_wrmem /\ wrmem.state # "DONE"
      BY <1>8, <1>10, <1>12
    <2>2. CASE inbuffer_valid = 1
      <3>1. wrmem.state = "IDLE" /\ stm_start[3] = 0
        BY <1>5, <2>2 DEF LineOnWires
      <3>2. wrmem'.state = "IDLE"
        BY <1>2, <3>1 DEF BurstMove, Resting, Starting, Waiting, Shifts, Releasing,
                          Running, Ending, Finishing
      <3>. QED BY <1>4, <2>1, <2>2, <3>1, <3>2 DEF LineLoaded, Shifted
    <2>3. CASE inbuffer_valid = 0
      <3>1. LineLoaded
        BY <2>1, <2>3 DEF LineOnWires
      <3>2. CASE Resting(wrmem, wrmem', stm_start[3])
                 \/ Starting(wrmem, wrmem', stm_start[3], CA_sigr)
        BY <1>4, <2>1, <2>3, <3>1, <3>2 DEF Resting, Starting, LineLoaded, Shifted
      <3>3. CASE Waiting(wrmem, wrmem')
        BY <1>6, <2>1, <3>1, <3>3 DEF Waiting, LineLoaded, Shifted
      <3>4. CASE Shifts(wrmem, wrmem')
        <4>1. Shifted(wrmem') = Shifted(wrmem) + 1 /\ Shifted(wrmem) \in 0 .. 18
          BY <3>4 DEF Shifts, Shifted
        <4>2. \A j \in 0 .. 17 : wrmem'.buffer_out[j] = wrmem.buffer_out[j + 1]
          BY <1>4, <3>4 DEF Shifts, WrMemShifts
        <4>. QED BY <2>1, <3>1, <4>1, <4>2, LineShifts
      <3>5. CASE Releasing(wrmem, wrmem')
        BY <1>4, <2>1, <3>1, <3>5 DEF Releasing, LineLoaded, Shifted, WrMemShifts
      <3>6. CASE Running(wrmem, wrmem', 13, 29) /\ wrmem.counter < 13
        BY <1>4, <1>6, <2>1, <3>1, <3>6 DEF Running, LineLoaded, Shifted, WrMemShifts
      <3>7. CASE Running(wrmem, wrmem', 13, 29) /\ wrmem.counter >= 13
        <4>1. Shifted(wrmem') = Shifted(wrmem) + 1 /\ Shifted(wrmem) \in 0 .. 18
          BY <1>6, <3>7 DEF Running, Shifted
        <4>2. \A j \in 0 .. 17 : wrmem'.buffer_out[j] = wrmem.buffer_out[j + 1]
          BY <1>4, <1>6, <3>7 DEF Running, WrMemShifts
        <4>. QED BY <2>1, <3>1, <4>1, <4>2, LineShifts
      <3>. QED
        BY <1>2, <1>6, <1>12, <2>1, <3>2, <3>3, <3>4, <3>5, <3>6, <3>7
           DEF BurstMove, Running, Ending, Finishing
    <2>. QED BY <1>7, <2>2, <2>3
  <1>13. (state = "WRMEM2" /\ inbuffer_valid = 0 /\ wrmem.state # "DONE" => LineLoaded)'
    BY <1>12
  <1>14. /\ pins'.datain = Selected(rdreg.buffer_out[0], rdmem.buffer_out[0],
                                    wrmem.buffer_out[0], 0)
         /\ dq_out' = pins.datain
    BY <1>1 DEF DrivePins, Tick, CellStep
  <1>15. ASSUME wrmem'.state = "RUN", wrmem'.counter > 13
         PROVE  pins'.datain = buffer_wrmem'[wrmem'.counter - 14]
    <2>1. /\ wrmem.state = "RUN" /\ wrmem.counter \in 13 .. 28
          /\ wrmem'.counter = wrmem.counter + 1
      BY <1>2, <1>6, <1>15 DEF BurstMove, Resting, Starting, Waiting, Shifts, Releasing,
                               Running, Ending, Finishing
    <2>2. LineLoaded /\ buffer_wrmem' = buffer_wrmem
      BY <1>5, <1>7, <1>8, <2>1 DEF LineOnWires
    <2>3. Shifted(wrmem) = wrmem.counter - 10
      BY <2>1 DEF Shifted
    <2>4. pins'.datain = wrmem.buffer_out[0]
      BY <1>5, <1>14, <2>1 DEF Selected
    <2>5. wrmem.buffer_out[0] = buffer_wrmem[wrmem.counter - 13]
      BY <2>1, <2>2, <2>3 DEF LineLoaded
    <2>. QED BY <2>1, <2>2, <2>4, <2>5
  <1>16. ASSUME wrmem'.state = "RUN", wrmem'.counter > 14
         PROVE  dq_out' = buffer_wrmem'[wrmem'.counter - 15]
    <2>1. /\ wrmem.state = "RUN" /\ wrmem.counter \in 14 .. 28
          /\ wrmem'.counter = wrmem.counter + 1
      BY <1>2, <1>6, <1>16 DEF BurstMove, Resting, Starting, Waiting, Shifts, Releasing,
                               Running, Ending, Finishing
    <2>. QED BY <1>5, <1>8, <1>14, <2>1 DEF LineOnWires
  <1>17. ASSUME wrmem'.state = "DONE"
         PROVE  dq_out' = buffer_wrmem'[15]
    <2>1. wrmem.state = "RUN" /\ wrmem.counter = 29
      BY <1>2, <1>17 DEF BurstMove, Resting, Starting, Waiting, Shifts, Releasing,
                         Running, Ending, Finishing
    <2>. QED BY <1>5, <1>8, <1>14, <2>1 DEF LineOnWires
  <1>. QED BY <1>9, <1>13, <1>15, <1>16, <1>17 DEF LineOnWires

(* At every pulse of the data phase dq carries the half that is due, and   *)
(* RWDS unmasks it.                                                        *)
LEMMA LineReachesPads ==
    SystemInv /\ Bus /\ MaskOnWires /\ LineOnWires => WriteBackOnPins
  <1>. SUFFICES ASSUME SystemInv, Bus, MaskOnWires, LineOnWires, Pulse
                PROVE  /\ pins.rwds_oe = 1 <=>
                              state = "WRMEM2" /\ ram.pulses \in 17 .. 32
                       /\ pins.rwds_oe = 1 => /\ pins.rwds_out = 0
                                              /\ DqOnPad = buffer_wrmem[ram.pulses - 17]
    BY DEF WriteBackOnPins, FirstData
  <1>1. IInv /\ BusAtRest
    BY DEF SystemInv, Bus
  <1>2. ~AllIdle
    BY <1>1 DEF BusAtRest, Pulse
  <1>3. wrmem.state \in {"IDLE", "CA", "RUN", "DONE"}
    BY <1>1, SharedSets DEF IInv, TypeOK, WrMem!Registers
  <1>4. state = "WRMEM2" => wrmem.state # "IDLE"
    BY <1>1, <1>2, OneIsStarted DEF AllIdle
  <1>5. wrmem.state # "IDLE" => state = "WRMEM2"
    BY <1>1, OneIsStarted
  <1>6. CASE wrmem.state = "IDLE"
    BY <1>4, <1>6 DEF MaskOnWires
  <1>7. CASE wrmem.state = "CA"
    BY <1>7 DEF MaskOnWires, Bus, Positions, Position, OnWires
  <1>8. CASE wrmem.state = "RUN"
    BY <1>5, <1>8 DEF MaskOnWires, LineOnWires, Bus, Positions, Position, OnWires, DqOnPad
  <1>9. CASE wrmem.state = "DONE"
    BY <1>5, <1>9 DEF MaskOnWires, LineOnWires, Bus, Positions, Position, OnWires, DqOnPad
  <1>. QED BY <1>3, <1>6, <1>7, <1>8, <1>9

-----------------------------------------------------------------------------
(* The pins of the system.                                                 *)

PinsInv == SystemInv /\ Bus /\ MaskOnWires /\ LineOnWires

(* At power-up the bus is at rest, whatever level CS# has.                 *)
LEMMA PinsStart == SysInit => PinsInv
  <1>. SUFFICES ASSUME SysInit PROVE PinsInv
    OBVIOUS
  <1>1. SystemInv
    BY SystemStarts
  <1>2. PICK level \in Bit :
          /\ state = "IDLE" /\ stm_start = [k \in Engines |-> 0]
          /\ inbuffer_valid = 0
          /\ pins = PinsAtPowerUp(level)
          /\ rdreg = RdReg!PowerUp(level) /\ rdmem = RdMem!PowerUp(level)
          /\ wrmem = WrMem!PowerUp(level)
    BY DEF SysInit, Init
  <1>3. ram.pulses = 0
    BY DEF SysInit
  <1>4. /\ rdreg.state = "IDLE" /\ rdreg.oe = 0 /\ rdreg.oe_clk = 0
        /\ rdmem.state = "IDLE" /\ rdmem.oe = 0 /\ rdmem.oe_clk = 0
        /\ wrmem.state = "IDLE" /\ wrmem.oe = 0 /\ wrmem.oe_clk = 0
        /\ wrmem.rwds_out = 0 /\ wrmem.rwds_oe = 0
    BY <1>2 DEF RdReg!PowerUp, RdMem!PowerUp, WrMem!PowerUp
  <1>5. pins.oe_clk = 0 /\ pins.rwds_out = 0 /\ pins.rwds_oe = 0
    BY <1>2 DEF PinsAtPowerUp
  <1>6. Bus
    BY <1>2, <1>3, <1>4, <1>5
       DEF Bus, Positions, Position, OnWires, BusAtRest, AllIdle
  <1>7. MaskOnWires /\ LineOnWires
    BY <1>2, <1>4, <1>5 DEF MaskOnWires, LineOnWires
  <1>. QED BY <1>1, <1>6, <1>7 DEF PinsInv

(* Every edge of the system keeps what is known of the pins.               *)
LEMMA PinsStep == PinsInv /\ [SysNext]_sysVars => PinsInv'
  <1>1. ASSUME PinsInv, NEW rwds \in Bit, Tick(rwds) PROVE PinsInv'
    <2>1. SystemInv /\ Bus /\ MaskOnWires /\ LineOnWires
      BY <1>1 DEF PinsInv
    <2>2. SystemInv'
      BY <1>1, <2>1, SystemStep DEF SysNext
    <2>. QED BY <1>1, <2>1, <2>2, BusKept, MaskKept, LineKept DEF PinsInv
  <1>2. ASSUME PinsInv, UNCHANGED sysVars PROVE PinsInv'
    <2>1. SystemInv'
      BY <1>2, SystemStep DEF PinsInv
    <2>2. UNCHANGED <<state, stm_start, inbuffer_valid, buffer_wrmem, pins, rdreg,
                      rdmem, wrmem, dq_out, ram>>
      BY <1>2 DEF sysVars, vars, startVars, writeBackVars, burstVars
    <2>3. Bus'
      BY <1>2, <2>2
         DEF PinsInv, Bus, Positions, Position, OnWires, BusAtRest, AllIdle
    <2>4. MaskOnWires' /\ LineOnWires'
      BY <1>2, <2>2 DEF PinsInv, MaskOnWires, LineOnWires, LineLoaded, Shifted
    <2>. QED BY <2>1, <2>3, <2>4 DEF PinsInv
  <1>. QED BY <1>1, <1>2 DEF SysNext

(* Burst machines, pins and the device's pulse count stay in step, and the *)
(* line to write back with them.                                           *)
THEOREM PinsInvariantHolds == SysSpec => []PinsInv
  BY PinsStart, PinsStep, PTL DEF SysSpec

(* The pins carry the whole line of a write-back, half by half, unmasked,  *)
(* and RWDS is driven at no other pulse.                                   *)
THEOREM LinesAreWrittenWhole == SysSpec => []WriteBackOnPins
  <1>1. PinsInv => WriteBackOnPins
    BY LineReachesPads DEF PinsInv
  <1>. QED BY <1>1, PinsInvariantHolds, PTL

(* The controller never drives dq against the device.                      *)
THEOREM ReadsMeetNoContention == SysSpec => []NoContentionOnReads
  <1>1. PinsInv => NoContentionOnReads
    BY DqIsReleased DEF PinsInv
  <1>. QED BY <1>1, PinsInvariantHolds, PTL

-----------------------------------------------------------------------------
(* The command/address on its way to the device.                           *)

\* Where the three halves of ca are while stm sends them: in the machine, in
\* the pin register, in the dq cells, in the device.
Carries(stm, ca) ==
    /\ stm.state = "CA" =>
           /\ stm.counter < 2 => \A i \in 0 .. 2 : stm.buffer_out[i] = ca[i + 1]
           /\ stm.counter = 2 => /\ pins.datain = ca[1]
                                 /\ stm.buffer_out[0] = ca[2] /\ stm.buffer_out[1] = ca[3]
           /\ stm.counter = 3 => /\ dq_out = ca[1] /\ pins.datain = ca[2]
                                 /\ stm.buffer_out[0] = ca[3]
           /\ stm.counter = 4 => /\ ram.ca[1] = ca[1]
                                 /\ dq_out = ca[2] /\ pins.datain = ca[3]
    /\ stm.state = "RUN" =>
           /\ ram.ca[1] = ca[1] /\ ram.ca[2] = ca[2]
           /\ IF stm.counter = 0 THEN dq_out = ca[3] ELSE ram.ca[3] = ca[3]
    /\ stm.state = "DONE" =>
           ram.ca[1] = ca[1] /\ ram.ca[2] = ca[2] /\ ram.ca[3] = ca[3]

\* What the edge does to the cells and to the device's command/address.
CaStep ==
    /\ dq_out' = pins.datain
    /\ ram'.ca = IF Pulse /\ ram.pulses < 3
                 THEN [ram.ca EXCEPT ![ram.pulses + 1] = DqOnPad] ELSE ram.ca

(* A machine that has taken ca delivers ca.                                *)
LEMMA CarriesKept ==
    ASSUME NEW stm, NEW next, NEW start, NEW casig, NEW ca,
           NEW half \in Nat, NEW end \in Nat, half <= end,
           stm.state = "IDLE" /\ start = 1 => casig = ca,
           stm.state # "IDLE" => start = 1,
           start = 1 => pins'.datain = stm.buffer_out[0],
           CaStep, ram.pulses \in Nat, ram.ca \in CommandAddress,
           Position(stm, half, end), OnWires(stm, half, end), Carries(stm, ca),
           BurstMove(stm, next, start, casig, half, end)
    PROVE  Carries(next, ca)'
  <1>. USE DEF Position, OnWires, Carries, CaStep, Pulse, DqOnPad
  <1>1. CASE Resting(stm, next, start)
    BY <1>1 DEF Resting
  <1>2. CASE Starting(stm, next, start, casig)
    BY <1>2 DEF Starting
  <1>3. CASE Waiting(stm, next)
    BY <1>3 DEF Waiting
  <1>4. CASE Shifts(stm, next)
    <2>1. CASE stm.counter = 1
      BY <1>4, <2>1 DEF Shifts
    <2>2. CASE stm.counter = 2
      BY <1>4, <2>2 DEF Shifts
    <2>3. CASE stm.counter = 3
      BY <1>4, <2>3 DEF Shifts, CommandAddress
    <2>. QED BY <1>4, <2>1, <2>2, <2>3 DEF Shifts
  <1>5. CASE Releasing(stm, next)
    BY <1>5 DEF Releasing, CommandAddress
  <1>6. CASE Running(stm, next, half, end)
    BY <1>6 DEF Running, CommandAddress
  <1>7. CASE Ending(stm, next, half, end)
    BY <1>7 DEF Ending, CommandAddress
  <1>8. CASE Finishing(stm, next)
    BY <1>8 DEF Finishing
  <1>. QED
    BY <1>1, <1>2, <1>3, <1>4, <1>5, <1>6, <1>7, <1>8 DEF BurstMove

\* The machine that is started also gives dq its half.
DrivesDq(stm) == pins'.datain = stm.buffer_out[0]

(* What is needed of an edge of the system.                                *)
LEMMA WiresMove ==
    ASSUME SystemInv, NEW rwds \in Bit, Tick(rwds)
    PROVE  /\ CaStep /\ ram.pulses \in Nat /\ ram.ca \in CommandAddress
           /\ stm_start[0] = 1 => DrivesDq(rdreg)
           /\ stm_start[2] = 1 => DrivesDq(rdmem)
           /\ stm_start[3] = 1 => DrivesDq(wrmem)
  <1>1. CaStep
    BY DEF Tick, CellStep, DeviceStep, CaStep
  <1>2. ram.pulses \in Nat /\ ram.ca \in CommandAddress
    BY DEF SystemInv, DeviceType
  <1>3. IInv /\ DrivePins
    BY DEF SystemInv, Tick, Clock
  <1>4. /\ stm_start[0] = 1 => DrivesDq(rdreg)
        /\ stm_start[2] = 1 => DrivesDq(rdmem)
        /\ stm_start[3] = 1 => DrivesDq(wrmem)
    BY <1>3, OneIsStarted DEF DrivePins, Selected, DrivesDq
  <1>. QED BY <1>1, <1>2, <1>4

(* What rdreg_stm answers with.                                            *)
RegisterAnswer(ca) ==
    /\ rdreg.state = "RUN" /\ rdreg.counter = 14 => dataout = RegisterValue(ca)
    /\ rdreg.state = "DONE" => rdreg.dataoutr = RegisterValue(ca)

\* Register reads send one of CAs and answer with the value it stands for.
RegisterBurst(CAs) ==
    /\ stm_start[0] = 1 => CA_sigr \in CAs
    /\ \E ca \in CAs : Carries(rdreg, ca) /\ RegisterAnswer(ca)

MemoryBurst(stm, start, CAs) ==
    /\ start = 1 => CA_sigr \in CAs
    /\ \E ca \in CAs : Carries(stm, ca)

RegisterSpace == {ca \in CommandAddress : ca[1] = 49152}

(* What an edge does to the value rdreg_stm samples.                       *)
LEMMA RdRegSamples ==
    ASSUME NEW start, NEW ca, NEW rwds \in Bit, NEW d,
           rdreg \in RdReg!Registers, Position(rdreg, 14, 14),
           RdReg!Step(start, ca, rwds, d)
    PROVE  /\ rdreg'.state = "DONE" =>
                 rdreg.state = "RUN" /\ rdreg.counter = 14 /\ rdreg'.dataoutr = d
           /\ rdreg'.valid = 1 => rdreg'.state = "DONE" \/ rdreg.valid = 1
           /\ rdreg.state \in {"IDLE", "DONE"} => rdreg'.valid = 0
  <1>. USE DEF RdReg!Registers
  <1>1. CASE RdReg!Rest(start, ca)
    BY <1>1 DEF RdReg!Rest, RdReg!Loaded
  <1>2. CASE RdReg!Start(start, ca)
    BY <1>2 DEF RdReg!Start, RdReg!Loaded
  <1>3. CASE RdReg!AwaitRwds(rwds)
    BY <1>3 DEF RdReg!AwaitRwds
  <1>4. CASE RdReg!DriveCa(rwds)
    BY <1>4 DEF RdReg!DriveCa
  <1>5. CASE RdReg!ShiftCa
    BY <1>5 DEF RdReg!ShiftCa, RdReg!InCa
  <1>6. CASE RdReg!CaSent
    BY <1>6 DEF RdReg!CaSent, RdReg!InCa
  <1>7. CASE RdReg!Latency
    BY <1>7 DEF RdReg!Latency
  <1>8. CASE RdReg!Sample(d)
    BY <1>8 DEF RdReg!Sample, RdReg!SampleAt
  <1>9. CASE RdReg!Finish
    BY <1>9 DEF RdReg!Finish
  <1>. QED
    BY <1>1, <1>2, <1>3, <1>4, <1>5, <1>6, <1>7, <1>8, <1>9
       DEF RdReg!Step, RdReg!SendCa

(* The value of the register that was asked for is on dq when it is        *)
(* sampled: fifteen pulses after the first, one edge before.               *)
LEMMA RegisterAnswered ==
    ASSUME SystemInv, Bus, NEW rwds \in Bit, Tick(rwds), NEW ca \in RegisterSpace,
           Carries(rdreg, ca), RegisterAnswer(ca)
    PROVE  RegisterAnswer(ca)'
  <1>1. IInv /\ Positions /\ Clock(Wires(rwds)) /\ dataout' = DeviceData
    BY DEF SystemInv, Bus, Tick, CellStep
  <1>2. BurstMove(rdreg, rdreg', stm_start[0], CA_sigr, 14, 14)
    BY <1>1, AllMove
  <1>3. ASSUME rdreg'.state = "RUN", rdreg'.counter = 14
        PROVE  dataout' = RegisterValue(ca)
    <2>1. rdreg.state = "RUN" /\ rdreg.counter = 13
      BY <1>1, <1>2, <1>3 DEF BurstMove, Resting, Starting, Waiting, Shifts, Releasing,
                              Running, Ending, Finishing, Positions, Position
    <2>2. Pulse /\ ram.pulses = 15
      BY <2>1 DEF Bus, OnWires, Pulse
    <2>3. ram.ca[1] = 49152 /\ ram.ca[2] = ca[2] /\ ram.ca[3] = ca[3]
      BY <2>1 DEF Carries, RegisterSpace
    <2>. QED
      BY <1>1, <2>2, <2>3 DEF DeviceData, ReadCa, RegisterCa, FirstRegister, RegisterValue
  <1>4. ASSUME rdreg'.state = "DONE" PROVE rdreg'.dataoutr = RegisterValue(ca)
    <2>1. RdReg!Step(stm_start[0], CA_sigr, rwds, dataout)
      BY <1>1 DEF Clock, Wires
    <2>2. rdreg.state = "RUN" /\ rdreg.counter = 14 /\ rdreg'.dataoutr = dataout
      BY <1>1, <1>4, <2>1, RdRegSamples DEF IInv, TypeOK, Positions
    <2>. QED BY <2>2 DEF RegisterAnswer
  <1>. QED BY <1>3, <1>4 DEF RegisterAnswer, RegisterValue

(* One clock edge of the system, and the command/address of rdreg_stm.     *)
LEMMA RegisterBurstKept ==
    ASSUME SystemInv, Bus, NEW rwds \in Bit, Tick(rwds), NEW CAs \in SUBSET RegisterSpace,
           RegisterBurst(CAs)
    PROVE  \E ca \in CAs : Carries(rdreg, ca)' /\ RegisterAnswer(ca)'
  <1>1. IInv /\ Positions /\ Clock(Wires(rwds)) /\ OnWires(rdreg, 14, 14)
    BY DEF SystemInv, Bus, Tick
  <1>2. BurstMove(rdreg, rdreg', stm_start[0], CA_sigr, 14, 14)
    BY <1>1, AllMove
  <1>3. PICK ca \in CAs :
          /\ Carries(rdreg, ca) /\ RegisterAnswer(ca)
          /\ rdreg.state = "IDLE" /\ stm_start[0] = 1 => CA_sigr = ca
    <2>1. CASE rdreg.state = "IDLE" /\ stm_start[0] = 1
      <3>1. CA_sigr \in CAs
        BY <2>1 DEF RegisterBurst
      <3>2. Carries(rdreg, CA_sigr) /\ RegisterAnswer(CA_sigr)
        BY <2>1 DEF Carries, RegisterAnswer
      <3>. QED BY <3>1, <3>2
    <2>2. CASE ~(rdreg.state = "IDLE" /\ stm_start[0] = 1)
      BY <2>2 DEF RegisterBurst
    <2>. QED BY <2>1, <2>2
  <1>4. /\ CaStep /\ ram.pulses \in Nat /\ ram.ca \in CommandAddress
        /\ stm_start[0] = 1 => DrivesDq(rdreg)
    BY WiresMove
  <1>5. Carries(rdreg, ca)'
    BY <1>1, <1>2, <1>3, <1>4, OneIsStarted, CarriesKept DEF Positions, DrivesDq
  <1>6. RegisterAnswer(ca)'
    BY <1>3, RegisterAnswered
  <1>. QED BY <1>5, <1>6

(* The same of a machine that moves memory.                                *)
LEMMA MemoryBurstsKept ==
    ASSUME SystemInv, Bus, NEW rwds \in Bit, Tick(rwds), NEW CAs \in SUBSET CommandAddress
    PROVE  /\ MemoryBurst(rdmem, stm_start[2], CAs) => \E ca \in CAs : Carries(rdmem, ca)'
           /\ MemoryBurst(wrmem, stm_start[3], CAs) => \E ca \in CAs : Carries(wrmem, ca)'
  <1>1. /\ IInv /\ Positions /\ Clock(Wires(rwds))
        /\ OnWires(rdmem, 32, 32) /\ OnWires(wrmem, 13, 29)
    BY DEF SystemInv, Bus, Tick
  <1>2. /\ BurstMove(rdmem, rdmem', stm_start[2], CA_sigr, 32, 32)
        /\ BurstMove(wrmem, wrmem', stm_start[3], CA_sigr, 13, 29)
    BY <1>1, AllMove
  <1>3. ASSUME NEW stm, NEW start, MemoryBurst(stm, start, CAs)
        PROVE  \E ca \in CAs : /\ Carries(stm, ca)
                               /\ stm.state = "IDLE" /\ start = 1 => CA_sigr = ca
    <2>1. CASE stm.state = "IDLE" /\ start = 1
      <3>1. CA_sigr \in CAs /\ Carries(stm, CA_sigr)
        BY <1>3, <2>1 DEF MemoryBurst, Carries
      <3>. QED BY <3>1
    <2>2. CASE ~(stm.state = "IDLE" /\ start = 1)
      BY <1>3, <2>2 DEF MemoryBurst
    <2>. QED BY <2>1, <2>2
  <1>4. /\ CaStep /\ ram.pulses \in Nat /\ ram.ca \in CommandAddress
        /\ stm_start[2] = 1 => DrivesDq(rdmem)
        /\ stm_start[3] = 1 => DrivesDq(wrmem)
    BY WiresMove
  <1>5. ASSUME MemoryBurst(rdmem, stm_start[2], CAs)
        PROVE  \E ca \in CAs : Carries(rdmem, ca)'
    <2>1. PICK ca \in CAs : /\ Carries(rdmem, ca)
                            /\ rdmem.state = "IDLE" /\ stm_start[2] = 1 => CA_sigr = ca
      BY <1>3, <1>5
    <2>2. Carries(rdmem, ca)'
      BY <1>1, <1>2, <1>4, <2>1, OneIsStarted, CarriesKept DEF Positions, DrivesDq
    <2>. QED BY <2>2
  <1>6. ASSUME MemoryBurst(wrmem, stm_start[3], CAs)
        PROVE  \E ca \in CAs : Carries(wrmem, ca)'
    <2>1. PICK ca \in CAs : /\ Carries(wrmem, ca)
                            /\ wrmem.state = "IDLE" /\ stm_start[3] = 1 => CA_sigr = ca
      BY <1>3, <1>6
    <2>2. Carries(wrmem, ca)'
      BY <1>1, <1>2, <1>4, <2>1, OneIsStarted, CarriesKept DEF Positions, DrivesDq
    <2>. QED BY <2>2
  <1>. QED BY <1>5, <1>6

(* The command/address a started machine is given.                         *)
LEMMA CaGiven ==
    ASSUME IInv, NEW in, CommandStep(in)
    PROVE  /\ stm_start'[0] = 1 => state = "RDREG" /\ CA_sigr' = CsrCa(captured.csr)
           /\ stm_start'[2] = 1 => state = "RDMEM2" /\ CA_sigr' = OutAddr(captured.s0, 1)
           /\ stm_start'[3] = 1 => /\ state = "WRMEM2"
                                   /\ CA_sigr' = OutAddr(captured.s0, rd_tmp)
  <1>1. /\ stm_start \in [Engines -> Bit]
        /\ 0 \in Engines /\ 1 \in Engines /\ 2 \in Engines /\ 3 \in Engines
    BY DEF IInv, TypeOK, Engines
  <1>3. /\ stm_start[0] = 1 => state = "RDREG"
        /\ stm_start[2] = 1 => state = "RDMEM2"
        /\ stm_start[3] = 1 => state = "WRMEM2"
    BY OneIsStarted
  <1>4. CASE Idle
    BY <1>3, <1>4 DEF Idle
  <1>5. CASE ReadRegister \/ WriteRegister
    BY <1>1, <1>3, <1>5 DEF ReadRegister, WriteRegister, StartUntilEnd
  <1>6. CASE ReadBuffer \/ WriteBuffer(in) \/ AccessDelay
    BY <1>3, <1>6 DEF ReadBuffer, WriteBuffer, AccessDelay, startVars
  <1>7. CASE Fill
    BY <1>1, <1>3, <1>7 DEF Fill, FilledForRead, FilledForWrite, Filling
  <1>8. CASE WriteBack
    BY <1>1, <1>3, <1>8 DEF WriteBack
  <1>. QED
    BY <1>4, <1>5, <1>6, <1>7, <1>8 DEF CommandStep

-----------------------------------------------------------------------------
(* Whole bursts: CS# is released only after the last pulse.                *)

\* CS# is low without a burst only at power-up, or for ever.
OnlyBurstsSelect == AllIdle /\ pins.csn = 0 => stm_start[1] = 1 \/ lastBurst = "none"

WholeInv == PinsInv /\ RegisterBurst(RegisterSpace) /\ OnlyBurstsSelect

(* Register accesses have command/addresses of their own.                  *)
LEMMA CsrCaSpace == \A a : CsrCa(a) \in RegisterSpace
  BY CsrCaWidth DEF CsrCa, RegisterSpace

(* At power-up no burst is under way.                                      *)
LEMMA WholeStart == MCInit => WholeInv
  <1>. SUFFICES ASSUME MCInit PROVE WholeInv
    OBVIOUS
  <1>1. SysInit /\ lastBurst = "none"
    BY DEF MCInit
  <1>2. PinsInv
    BY <1>1, PinsStart
  <1>3. rdreg.state = "IDLE" /\ stm_start[0] = 0
    BY <1>1 DEF SysInit, Init, RdReg!PowerUp, Engines
  <1>4. RegisterBurst(RegisterSpace)
    BY <1>3, CsrCaSpace DEF RegisterBurst, Carries, RegisterAnswer
  <1>. QED BY <1>1, <1>2, <1>4 DEF WholeInv, OnlyBurstsSelect

(* CS# goes up in mid-system only when a machine is done.                  *)
LEMMA CsOfIdle ==
    ASSUME IInv, Positions, NEW rwds \in Bit, Clock(Wires(rwds)), SystemInv
    PROVE  /\ AllIdle /\ pins'.csn = 0 /\ rdreg'.state = "IDLE" /\ rdmem'.state = "IDLE"
              /\ wrmem'.state = "IDLE" => stm_start'[1] = 1
           /\ ~AllIdle /\ rdreg'.state = "IDLE" /\ rdmem'.state = "IDLE"
              /\ wrmem'.state = "IDLE" => pins'.csn = 1
           /\ AllIdle /\ stm_start[1] = 1 => pins'.csn = 0
           /\ ~AllIdle /\ pins'.csn = 1 =>
                 rdreg.state = "DONE" \/ rdmem.state = "DONE" \/ wrmem.state = "DONE"
  <1>1. DrivePins /\ CommandStep(Wires(rwds))
    BY DEF Clock
  <1>2. /\ BurstMove(rdreg, rdreg', stm_start[0], CA_sigr, 14, 14)
        /\ BurstMove(rdmem, rdmem', stm_start[2], CA_sigr, 32, 32)
        /\ BurstMove(wrmem, wrmem', stm_start[3], CA_sigr, 13, 29)
    BY AllMove
  <1>. DEFINE Goes(stm, next, start) ==
                next = "IDLE" => (stm = "IDLE" /\ start = 0) \/ stm = "DONE"
  <1>3. /\ Goes(rdreg.state, rdreg'.state, stm_start[0])
        /\ Goes(rdmem.state, rdmem'.state, stm_start[2])
        /\ Goes(wrmem.state, wrmem'.state, stm_start[3])
    BY <1>2 DEF BurstMove, Resting, Starting, Waiting, Shifts, Releasing, Running,
                Ending, Finishing
  <1>. HIDE DEF Goes
  <1>4. stm_start[1] = 1 => stm_start'[1] = 1
    <2>1. StartEffect(1, "WRREG")
      BY <1>1, CommandEffect
    <2>. QED BY <2>1, OneIsStarted DEF StartEffect, StmEnd
  <1>5. pins'.csn = Selected(rdreg.csn, rdmem.csn, wrmem.csn, 1)
    BY <1>1 DEF DrivePins
  <1>6. ASSUME AllIdle, pins'.csn = 0, rdreg'.state = "IDLE", rdmem'.state = "IDLE",
               wrmem'.state = "IDLE"
        PROVE  stm_start'[1] = 1
    <2>1. stm_start[0] = 0 /\ stm_start[2] = 0 /\ stm_start[3] = 0
      BY <1>3, <1>6 DEF Goes, AllIdle
    <2>. QED BY <1>4, <1>5, <1>6, <2>1, OneIsStarted DEF Selected
  <1>7. ASSUME ~AllIdle, rdreg'.state = "IDLE", rdmem'.state = "IDLE",
               wrmem'.state = "IDLE"
        PROVE  pins'.csn = 1
    BY <1>1, <1>3, <1>7, OneIsStarted, StartedDrives
       DEF Goes, AllIdle, Drives, Positions, Position
  <1>8. AllIdle /\ stm_start[1] = 1 => pins'.csn = 0
    BY <1>5, OneIsStarted DEF Selected
  <1>9. ASSUME ~AllIdle, pins'.csn = 1
        PROVE  rdreg.state = "DONE" \/ rdmem.state = "DONE" \/ wrmem.state = "DONE"
    <2>1. /\ rdreg.state \in {"IDLE", "CA", "RUN", "DONE"}
          /\ rdmem.state \in {"IDLE", "CA", "RUN", "DONE"}
          /\ wrmem.state \in {"IDLE", "CA", "RUN", "DONE"}
      BY SharedSets
         DEF IInv, TypeOK, RdReg!Registers, RdMem!Registers, WrMem!Registers
    <2>. QED BY <1>1, <1>9, <2>1, OneIsStarted, StartedDrives
             DEF AllIdle, Drives, Positions, Position
  <1>. QED BY <1>6, <1>7, <1>8, <1>9

(* Every edge keeps what is known of bursts.                               *)
LEMMA WholeStep ==
    WholeInv /\ [\E rwds \in Bit : MCTick(rwds)]_mcVars => WholeInv'
  <1>1. ASSUME WholeInv, NEW rwds \in Bit, MCTick(rwds) PROVE WholeInv'
    <2>1. /\ Tick(rwds) /\ Watch /\ SystemInv /\ Bus /\ IInv /\ Positions
          /\ Clock(Wires(rwds)) /\ CommandStep(Wires(rwds))
      BY <1>1 DEF WholeInv, PinsInv, SystemInv, Bus, MCTick, Tick, Clock
    <2>2. PinsInv'
      BY <1>1, <2>1, PinsStep DEF WholeInv, SysNext
    <2>3. \E ca \in RegisterSpace : Carries(rdreg, ca)' /\ RegisterAnswer(ca)'
      BY <1>1, <2>1, RegisterBurstKept DEF WholeInv
    <2>4. stm_start'[0] = 1 => CA_sigr' \in RegisterSpace
      BY <2>1, CaGiven, CsrCaSpace
    <2>5. OnlyBurstsSelect'
      BY <1>1, <2>1, CsOfIdle DEF WholeInv, OnlyBurstsSelect, AllIdle, Watch
    <2>. QED BY <2>2, <2>3, <2>4, <2>5 DEF WholeInv, RegisterBurst, RegisterAnswer,
                                         RegisterValue, Carries
  <1>2. ASSUME WholeInv, UNCHANGED mcVars PROVE WholeInv'
    <2>1. PinsInv'
      BY <1>2, PinsStep DEF WholeInv, mcVars
    <2>2. UNCHANGED <<stm_start, CA_sigr, pins, rdreg, rdmem, wrmem, dq_out, dataout, ram,
                      lastBurst>>
      BY <1>2 DEF mcVars, sysVars, vars, startVars, burstVars
    <2>3. RegisterBurst(RegisterSpace)'
      BY <1>2, <2>2 DEF WholeInv, RegisterBurst, Carries, RegisterAnswer
    <2>4. OnlyBurstsSelect'
      BY <1>2, <2>2 DEF WholeInv, OnlyBurstsSelect, AllIdle
    <2>. QED BY <2>1, <2>3, <2>4 DEF WholeInv
  <1>. QED BY <1>1, <1>2

WholeBurst ==
    pins.csn = 0 /\ pins'.csn = 1 /\ lastBurst # "none" =>
        ram.pulses' > IF RegisterCa(ram.ca) THEN FirstRegister ELSE FirstData + 15

(* When CS# goes up the device has been given all the pulses of the burst. *)
LEMMA WholeEdge ==
    WholeInv /\ [\E rwds \in Bit : MCTick(rwds)]_mcVars => [WholeBurst]_mcVars
  <1>1. ASSUME WholeInv, NEW rwds \in Bit, MCTick(rwds), pins.csn = 0, pins'.csn = 1,
               lastBurst # "none"
        PROVE  ram'.pulses > IF RegisterCa(ram.ca) THEN 15 ELSE 32
    <2>1. /\ Tick(rwds) /\ SystemInv /\ Bus /\ IInv /\ Positions /\ Clock(Wires(rwds))
      BY <1>1 DEF WholeInv, PinsInv, SystemInv, Bus, MCTick, Tick
    <2>2. ~AllIdle
      BY <1>1, <2>1, CsOfIdle DEF WholeInv, OnlyBurstsSelect
    <2>3. rdreg.state = "DONE" \/ rdmem.state = "DONE" \/ wrmem.state = "DONE"
      BY <1>1, <2>1, <2>2, CsOfIdle
    <2>4. ram'.pulses = IF Pulse THEN ram.pulses + 1 ELSE ram.pulses
      BY <1>1, <2>1 DEF Tick, DeviceStep
    <2>5. CASE rdreg.state = "DONE"
      <3>1. ram.pulses = 17 /\ Pulse
        BY <2>1, <2>5 DEF Bus, OnWires, Pulse
      <3>2. ram.ca[1] = 49152
        BY <1>1, <2>5 DEF WholeInv, RegisterBurst, Carries, RegisterSpace
      <3>. QED BY <2>4, <3>1, <3>2 DEF RegisterCa
    <2>6. CASE rdmem.state = "DONE"
      <3>1. ram.pulses = 35 /\ Pulse
        BY <2>1, <2>6 DEF Bus, OnWires, Pulse
      <3>. QED BY <2>4, <3>1
    <2>7. CASE wrmem.state = "DONE"
      <3>1. ram.pulses = 32 /\ Pulse
        BY <2>1, <2>7 DEF Bus, OnWires, Pulse
      <3>. QED BY <2>4, <3>1
    <2>. QED BY <2>3, <2>5, <2>6, <2>7
  <1>. QED BY <1>1 DEF WholeBurst, FirstRegister, FirstData

(* CS# is released only when the device has had every pulse of the burst.  *)
THEOREM BurstsAreNeverCut == MCSpec => BurstsAreWhole
  <1>1. BurstsAreWhole <=> [][WholeBurst]_mcVars
    BY DEF BurstsAreWhole, WholeBurst
  <1>. QED BY <1>1, WholeStart, WholeStep, WholeEdge, PTL DEF MCSpec

-----------------------------------------------------------------------------
(* A master that waits: what it issued last is what is being served.       *)

\* The controller has captured the address that was issued.
Taken ==
    LET i == master.issued IN
    IF i.cmd \in {"memr", "memw"} THEN captured.s0 = i.address ELSE captured.csr = i.address

PatientMaster ==
    LET i == master.issued IN
    /\ i.address \in WordAddress
    /\ i.cmd \in {"regr", "regw"} => i.address \in RegisterAddress
    /\ master.cmd # "none" => master.cmd = i.cmd /\ master.address = i.address
    /\ master.cmd # "none" => state = "IDLE" \/ req # Low
    /\ \A c \in Command : req[c] = 1 => i.cmd = c /\ Taken
    /\ state # "IDLE" => Taken
    /\ state \in {"RDREG", "WRREG"} => i.cmd \in {"regr", "regw"}
    /\ state \notin {"IDLE", "RDREG", "WRREG"} => i.cmd \in {"memr", "memw"}

(* Nothing issued, or something issued to a controller at rest.            *)
LEMMA MasterMoves ==
    ASSUME MasterType, MasterStep,
           master.cmd = "none" /\ master'.cmd # "none" => AtRest
    PROVE  \/ /\ AtRest /\ master.cmd = "none"
              /\ master'.cmd = master'.issued.cmd /\ master'.address = master'.issued.address
              /\ master'.issued.address \in WordAddress
              /\ master'.issued.cmd \in {"regr", "regw"} =>
                     master'.issued.address \in RegisterAddress
           \/ /\ master'.issued = master.issued /\ master'.address = master.address
              /\ master'.cmd \in {master.cmd, "none"}
  <1>1. ASSUME NEW c \in Operations, NEW a \in AddressesOf(c), NEW w \in WordsOf(c),
               Issue(c, a, w)
        PROVE  /\ AtRest /\ master.cmd = "none"
               /\ master'.cmd = master'.issued.cmd
               /\ master'.address = master'.issued.address
               /\ master'.issued.address \in WordAddress
               /\ master'.issued.cmd \in {"regr", "regw"} =>
                      master'.issued.address \in RegisterAddress
    <2>1. c # "none"
      BY SystemConstants DEF Command
    <2>2. /\ master.cmd = "none" /\ master'.cmd = c /\ master'.address = a
          /\ master'.issued.cmd = c /\ master'.issued.address = a
      BY <1>1 DEF Issue, MayIssue
    <2>3. /\ \A x \in Addresses : x \in WordAddress
          /\ \A x \in CsrAddresses : x \in RegisterAddress
      BY ConstantsType
    <2>4. \A x \in RegisterAddress : x \in WordAddress
      BY DEF RegisterAddress, WordAddress, LastWordAddress
    <2>5. c \in {"regr", "regw"} => a \in CsrAddresses
      BY DEF AddressesOf
    <2>6. a \in Addresses \/ a \in CsrAddresses
      BY DEF AddressesOf
    <2>. QED BY <2>1, <2>2, <2>3, <2>4, <2>5, <2>6
  <1>2. CASE Hold
    BY <1>2 DEF Hold, MasterType
  <1>3. CASE Pause
    BY <1>3 DEF Pause, MasterType
  <1>4. CASE Release
    BY <1>4 DEF Release, MasterType
  <1>. QED BY <1>1, <1>2, <1>3, <1>4 DEF MasterStep

(* The sampling registers see what is on the wires.                        *)
LEMMA Samples ==
    ASSUME SystemInv, NEW rwds, Clock(Wires(rwds))
    PROVE  /\ \A c \in Command : req'[c] = 1 <=> c = master.cmd
           /\ master.cmd = "none" => req' = Low
           /\ captured'.s0 = IF master.cmd \in {"memr", "memw"} THEN master.address
                             ELSE captured.s0
           /\ captured'.csr = IF master.cmd \in {"regr", "regw"}
                              THEN master.address % 1024 ELSE captured.csr
  <1>1. /\ Wires(rwds).strobes = {master.cmd} \cap Command
        /\ Wires(rwds).s0_address = master.address
        /\ Wires(rwds).csr_address = master.address % 1024
    BY DEF Wires
  <1>2. /\ req' = [c \in Command |-> IF c \in {master.cmd} \cap Command THEN 1 ELSE 0]
        /\ captured' =
            [s0 |-> IF ({master.cmd} \cap Command) \cap {"memr", "memw"} # {}
                    THEN master.address ELSE captured.s0,
             csr |-> IF ({master.cmd} \cap Command) \cap {"regr", "regw"} # {}
                     THEN master.address % 1024 ELSE captured.csr]
    BY <1>1 DEF Clock, SampleRequests, CaptureAddresses
  <1>3. \A c \in Command : req'[c] = 1 <=> c = master.cmd
    BY <1>2
  <1>4. master.cmd = "none" => req' = Low
    BY <1>2 DEF Low, Command
  <1>5. /\ ({master.cmd} \cap Command) \cap {"memr", "memw"} # {}
               <=> master.cmd \in {"memr", "memw"}
        /\ ({master.cmd} \cap Command) \cap {"regr", "regw"} # {}
               <=> master.cmd \in {"regr", "regw"}
    BY DEF Command
  <1>. QED BY <1>2, <1>3, <1>4, <1>5

(* A controller at rest stays at rest for an edge.                         *)
LEMMA RestStays ==
    ASSUME NEW in, CommandStep(in), state = "IDLE", req = Low
    PROVE  state' = "IDLE" /\ stm_start' = stm_start
  <1>1. \A c \in Command : ~Rising(c)
    BY DEF Rising, Low
  <1>2. Idle
    BY DEF CommandStep, ReadRegister, WriteRegister, ReadBuffer, WriteBuffer, Fill,
           WriteBack, AccessDelay
  <1>3. {"regr", "regw", "memr", "memw"} = Command
    BY DEF Command
  <1>. QED BY <1>1, <1>2, <1>3 DEF Idle, Accept, NoCommand

(* The FSM serves the commands whose edges it sees.                        *)
LEMMA ServesRising ==
    ASSUME NEW in, CommandStep(in)
    PROVE  /\ state = "IDLE" => \/ state' = "IDLE"
                                \/ /\ state' \in {"RDREG", "WRREG"}
                                   /\ req["regr"] = 1 \/ req["regw"] = 1
                                \/ /\ state' \notin {"IDLE", "RDREG", "WRREG"}
                                   /\ req["memr"] = 1 \/ req["memw"] = 1
           /\ state \in {"RDREG", "WRREG"} => state' \in {"IDLE", state}
           /\ state \notin {"IDLE", "RDREG", "WRREG"} => state' \notin {"RDREG", "WRREG"}
  <1>1. CASE Idle
    BY <1>1 DEF Idle, Accept, NoCommand, Rising
  <1>2. CASE ReadRegister \/ WriteRegister
    BY <1>2 DEF ReadRegister, WriteRegister
  <1>3. CASE ReadBuffer \/ WriteBuffer(in) \/ AccessDelay
    BY <1>3 DEF ReadBuffer, WriteBuffer, AccessDelay
  <1>4. CASE Fill \/ WriteBack
    BY <1>4 DEF Fill, FilledForRead, FilledForWrite, Filling, WriteBack
  <1>. QED BY <1>1, <1>2, <1>3, <1>4 DEF CommandStep

(* One edge keeps master and controller agreed on what is being served.    *)
LEMMA PatienceKept ==
    ASSUME SystemInv, PatientMaster, NEW rwds \in Bit, Tick(rwds),
           master.cmd = "none" /\ master'.cmd # "none" => AtRest
    PROVE  PatientMaster'
  <1>1. MasterStep /\ Clock(Wires(rwds)) /\ CommandStep(Wires(rwds))
    BY DEF Tick, Clock
  <1>2. /\ \A c \in Command : req'[c] = 1 <=> c = master.cmd
        /\ master.cmd = "none" => req' = Low
        /\ captured'.s0 = IF master.cmd \in {"memr", "memw"} THEN master.address
                          ELSE captured.s0
        /\ captured'.csr = IF master.cmd \in {"regr", "regw"}
                           THEN master.address % 1024 ELSE captured.csr
    BY <1>1, Samples
  <1>3. CASE /\ AtRest /\ master.cmd = "none"
             /\ master'.cmd = master'.issued.cmd
             /\ master'.address = master'.issued.address
             /\ master'.issued.address \in WordAddress
             /\ master'.issued.cmd \in {"regr", "regw"} =>
                    master'.issued.address \in RegisterAddress
    <2>1. state' = "IDLE"
      BY <1>1, <1>3, RestStays DEF AtRest
    <2>2. \A c \in Command : req'[c] # 1
      BY <1>2, <1>3 DEF Command
    <2>. QED BY <1>3, <2>1, <2>2 DEF PatientMaster
  <1>4. CASE /\ master'.issued = master.issued /\ master'.address = master.address
             /\ master'.cmd \in {master.cmd, "none"}
    <2>1. \A a \in RegisterAddress : a % 1024 = a
      BY DEF RegisterAddress
    <2>2. master.cmd # "none" => Taken'
      BY <1>2, <1>4, <2>1 DEF PatientMaster, Taken, SystemInv, MasterType, Command
    <2>3. Taken => Taken'
      BY <1>2, <1>4, <2>2 DEF Taken, SystemInv, MasterType, Command
    <2>4. \A c \in Command : req'[c] = 1 => master.issued.cmd = c /\ Taken'
      BY <1>2, <2>2 DEF PatientMaster, Command
    <2>5. master'.cmd # "none" => req' # Low
      BY <1>2, <1>4 DEF Low, SystemInv, MasterType
    <2>6. /\ state' # "IDLE" => Taken'
          /\ state' \in {"RDREG", "WRREG"} => master.issued.cmd \in {"regr", "regw"}
          /\ state' \notin {"IDLE", "RDREG", "WRREG"} => master.issued.cmd \in {"memr", "memw"}
      <3>1. "regr" \in Command /\ "regw" \in Command /\ "memr" \in Command /\ "memw" \in Command
        BY DEF Command
      <3>. QED BY <1>1, <2>3, <3>1, ServesRising DEF PatientMaster
    <2>. QED BY <1>4, <2>4, <2>5, <2>6 DEF PatientMaster
  <1>. QED BY <1>1, <1>3, <1>4, MasterMoves DEF SystemInv

\* The master issues only to a controller at rest.
Quiet == Courteous \/ workload = "patient"

LEMMA QuietIssues ==
    ASSUME SystemInv, Quiet, NEW rwds \in Bit, MCTick(rwds),
           master.cmd = "none", master'.cmd # "none"
    PROVE  AtRest
  <1>1. MasterStep /\ Keeps(master'.issued)
    BY DEF MCTick, Tick
  <1>2. ASSUME NEW c \in Operations, NEW a \in AddressesOf(c), NEW w \in WordsOf(c),
               Issue(c, a, w), Courteous
        PROVE  AtRest
    BY <1>2 DEF Issue, MayIssue
  <1>3. Courteous => AtRest
    <2>1. CASE Hold
      BY <2>1 DEF Hold
    <2>2. CASE Release
      BY <2>2 DEF Release, SystemInv, MasterType
    <2>3. CASE Pause
      BY <2>3 DEF Pause
    <2>. QED BY <1>1, <1>2, <2>1, <2>2, <2>3 DEF MasterStep
  <1>4. workload = "patient" => AtRest
    BY <1>1 DEF Keeps, Patiently
  <1>. QED BY <1>3, <1>4 DEF Quiet

\* What is on its way to the device, and back, is about the address a.
BurstsFor(a) ==
    /\ RegisterBurst({CsrCa(a)})
    /\ MemoryBurst(rdmem, stm_start[2], {OutAddr(a, 1)})
    /\ MemoryBurst(wrmem, stm_start[3], {OutAddr(a, r) : r \in Bit})

PatientBursts == \A a \in WordAddress : master.issued.address = a => BurstsFor(a)

ValidWhenDone == rdreg.valid = 1 => rdreg.state = "DONE"

PatientInv ==
    WholeInv /\ ValidWhenDone /\ (Quiet => PatientMaster /\ PatientBursts)

(* Machines that are not started have nothing on its way.                  *)
ServesNothing == IInv /\ state = "IDLE"
NothingOnItsWay == \A a \in WordAddress : BurstsFor(a)
LEMMA NothingSent == ServesNothing => NothingOnItsWay
  <1>. SUFFICES ASSUME IInv, state = "IDLE" PROVE \A a \in WordAddress : BurstsFor(a)
    BY DEF ServesNothing, NothingOnItsWay
  <1>1. /\ stm_start[0] # 1 /\ stm_start[2] # 1 /\ stm_start[3] # 1
        /\ rdreg.state = "IDLE" /\ rdmem.state = "IDLE" /\ wrmem.state = "IDLE"
    BY OneIsStarted
  <1>2. \A stm, ca : stm.state = "IDLE" => Carries(stm, ca)
    BY DEF Carries
  <1>3. \A ca : RegisterAnswer(ca)
    BY <1>1 DEF RegisterAnswer
  <1>4. \A stm, start, CAs :
            stm.state = "IDLE" /\ start # 1 /\ CAs # {} => MemoryBurst(stm, start, CAs)
    BY <1>2 DEF MemoryBurst
  <1>5. \A a : {OutAddr(a, r) : r \in Bit} # {}
    BY SharedSets
  <1>6. \A a : RegisterBurst({CsrCa(a)})
    BY <1>1, <1>2, <1>3 DEF RegisterBurst
  <1>. QED BY <1>1, <1>4, <1>5, <1>6 DEF BurstsFor

(* While a is what is being served, the bursts are about a.                *)
LEMMA BurstsStayFor ==
    ASSUME SystemInv, Bus, NEW rwds \in Bit, Tick(rwds), NEW a \in WordAddress,
           state = "RDREG" => captured.csr = a,
           state \in {"RDMEM2", "WRMEM2"} => captured.s0 = a,
           BurstsFor(a)
    PROVE  BurstsFor(a)'
  <1>1. IInv /\ CommandStep(Wires(rwds)) /\ rd_tmp \in Bit
    BY DEF SystemInv, IInv, TypeOK, Tick, Clock
  <1>2. /\ CsrCa(a) \in RegisterSpace
        /\ \A r \in Bit : OutAddr(a, r) \in CommandAddress
        /\ 1 \in Bit
    BY CsrCaSpace, DecodedWidths, SharedSets
  <1>. DEFINE OfCsr == CsrCa(a)
              OfRead == OutAddr(a, 1)
              OfWrite == {OutAddr(a, r) : r \in Bit}
  <1>3. /\ {OfCsr} \in SUBSET RegisterSpace
        /\ {OfRead} \in SUBSET CommandAddress
        /\ OfWrite \in SUBSET CommandAddress
    BY <1>2
  <1>4. /\ stm_start'[0] = 1 => CA_sigr' = OfCsr
        /\ stm_start'[2] = 1 => CA_sigr' = OfRead
        /\ stm_start'[3] = 1 => CA_sigr' \in OfWrite
    BY <1>1, CaGiven
  <1>5. /\ RegisterBurst({OfCsr})
        /\ MemoryBurst(rdmem, stm_start[2], {OfRead})
        /\ MemoryBurst(wrmem, stm_start[3], OfWrite)
    BY DEF BurstsFor
  <1>. HIDE DEF OfCsr, OfRead, OfWrite
  <1>6. \E ca \in {OfCsr} : Carries(rdreg, ca)' /\ RegisterAnswer(ca)'
    BY <1>3, <1>5, RegisterBurstKept
  <1>7. \E ca \in {OfRead} : Carries(rdmem, ca)'
    BY <1>3, <1>5, MemoryBurstsKept
  <1>8. \E ca \in OfWrite : Carries(wrmem, ca)'
    BY <1>3, <1>5, MemoryBurstsKept
  <1>. USE DEF OfCsr, OfRead, OfWrite
  <1>9. RegisterBurst({CsrCa(a)})'
    BY <1>4, <1>6 DEF RegisterBurst
  <1>10. MemoryBurst(rdmem, stm_start[2], {OutAddr(a, 1)})'
    BY <1>4, <1>7 DEF MemoryBurst
  <1>11. MemoryBurst(wrmem, stm_start[3], {OutAddr(a, r) : r \in Bit})'
    BY <1>4, <1>8 DEF MemoryBurst
  <1>. QED BY <1>9, <1>10, <1>11 DEF BurstsFor

(* rdreg_stm raises valid for the one cycle it is done.                    *)
LEMMA ValidKept ==
    ASSUME SystemInv, Positions, NEW rwds \in Bit, Tick(rwds), ValidWhenDone
    PROVE  ValidWhenDone'
  <1>1. /\ RdReg!Step(stm_start[0], CA_sigr, rwds, dataout)
        /\ rdreg \in RdReg!Registers /\ Position(rdreg, 14, 14)
    BY DEF SystemInv, IInv, TypeOK, Positions, Tick, Clock, Wires
  <1>2. /\ rdreg'.valid = 1 => rdreg'.state = "DONE" \/ rdreg.valid = 1
        /\ rdreg.state \in {"IDLE", "DONE"} => rdreg'.valid = 0
    BY <1>1, RdRegSamples
  <1>. QED BY <1>2 DEF ValidWhenDone

LEMMA PatientStart == MCInit => PatientInv
  <1>. SUFFICES ASSUME MCInit PROVE PatientInv
    OBVIOUS
  <1>1. WholeInv
    BY WholeStart
  <1>2. SystemInv /\ IInv
    BY <1>1 DEF WholeInv, PinsInv, SystemInv
  <1>3. SysInit /\ state = "IDLE"
    BY DEF MCInit, SysInit, Init
  <1>4. ValidWhenDone
    BY <1>3 DEF ValidWhenDone, SysInit, Init, RdReg!PowerUp
  <1>5. PatientBursts
    BY <1>2, <1>3, NothingSent DEF PatientBursts, ServesNothing, NothingOnItsWay
  <1>6. PatientMaster
    <2>1. /\ master.cmd = "none" /\ master.issued.cmd = "none"
          /\ master.issued.address = master.address
      BY <1>3 DEF SysInit, NoCommandYet
    <2>3. master.issued.address \in WordAddress
      BY <1>2, <2>1 DEF SystemInv, MasterType
    <2>2. \A c \in Command : req[c] # 1
      BY <1>3 DEF SysInit, Init, Low
    <2>. QED BY <1>3, <2>1, <2>2, <2>3 DEF PatientMaster
  <1>. QED BY <1>1, <1>4, <1>5, <1>6 DEF PatientInv

(* A waiting master's next command meets machines with nothing to send;    *)
(* until then they send what was issued last.                              *)
LEMMA PatientBurstsKept ==
    ASSUME SystemInv, Bus, PatientMaster, PatientBursts, NEW rwds \in Bit, Tick(rwds),
           SystemInv', master.cmd = "none" /\ master'.cmd # "none" => AtRest
    PROVE  PatientBursts'
  <1>1. /\ MasterStep /\ CommandStep(Wires(rwds)) /\ MasterType
        /\ master.issued.address \in WordAddress
    BY DEF Tick, Clock, SystemInv, PatientMaster
  <1>2. CASE AtRest
    <2>1. ServesNothing'
      BY <1>1, <1>2, RestStays DEF AtRest, SystemInv, ServesNothing
    <2>2. NothingOnItsWay'
      BY <2>1, NothingSent, PTL
    <2>. QED BY <2>2 DEF PatientBursts, NothingOnItsWay
  <1>3. CASE ~AtRest
    <2>1. master'.issued = master.issued
      BY <1>1, <1>3, MasterMoves
    <2>2. ASSUME NEW a \in WordAddress, master.issued.address = a PROVE BurstsFor(a)'
      <3>1. BurstsFor(a)
        BY <2>2 DEF PatientBursts
      <3>2. /\ state = "RDREG" => captured.csr = a
            /\ state \in {"RDMEM2", "WRMEM2"} => captured.s0 = a
        BY <2>2 DEF PatientMaster, Taken
      <3>. QED BY <3>1, <3>2, BurstsStayFor
    <2>. QED BY <2>1, <2>2 DEF PatientBursts
  <1>. QED BY <1>2, <1>3

LEMMA PatientStep ==
    PatientInv /\ [\E rwds \in Bit : MCTick(rwds)]_mcVars => PatientInv'
  <1>1. ASSUME PatientInv, NEW rwds \in Bit, MCTick(rwds) PROVE PatientInv'
    <2>1. /\ WholeInv /\ SystemInv /\ Bus /\ Positions /\ Tick(rwds)
          /\ workload' = workload /\ Keeps(master'.issued)
      BY <1>1 DEF PatientInv, WholeInv, PinsInv, Bus, MCTick
    <2>2. WholeInv' /\ SystemInv'
      BY <1>1, <2>1, WholeStep DEF WholeInv, PinsInv
    <2>3. ValidWhenDone'
      BY <1>1, <2>1, ValidKept DEF PatientInv
    <2>4. ASSUME Quiet' PROVE PatientMaster' /\ PatientBursts'
      <3>0. Quiet
        BY <2>1, <2>4 DEF Quiet
      <3>1. PatientMaster /\ PatientBursts
        BY <1>1, <3>0 DEF PatientInv
      <3>2. master.cmd = "none" /\ master'.cmd # "none" => AtRest
        BY <1>1, <2>1, <3>0, QuietIssues
      <3>. QED BY <2>1, <2>2, <3>1, <3>2, PatienceKept, PatientBurstsKept
    <2>. QED BY <2>2, <2>3, <2>4 DEF PatientInv
  <1>2. ASSUME PatientInv, UNCHANGED mcVars PROVE PatientInv'
    <2>1. WholeInv'
      BY <1>2, WholeStep DEF PatientInv
    <2>2. UNCHANGED <<state, req, captured, stm_start, CA_sigr, pins, rdreg, rdmem, wrmem,
                      master, dq_out, dataout, ram, workload>>
      BY <1>2 DEF mcVars, sysVars, vars, inputVars, startVars, burstVars
    <2>3. ValidWhenDone'
      BY <1>2, <2>2 DEF PatientInv, ValidWhenDone
    <2>4. PatientMaster => PatientMaster'
      BY <2>2 DEF PatientMaster, Taken
    <2>5. PatientBursts => PatientBursts'
      <3>1. \A CAs : RegisterBurst(CAs) => RegisterBurst(CAs)'
        BY <2>2 DEF RegisterBurst, Carries, RegisterAnswer, RegisterValue
      <3>2. \A CAs : MemoryBurst(rdmem, stm_start[2], CAs)
                          => MemoryBurst(rdmem, stm_start[2], CAs)'
        BY <2>2 DEF MemoryBurst, Carries
      <3>3. \A CAs : MemoryBurst(wrmem, stm_start[3], CAs)
                          => MemoryBurst(wrmem, stm_start[3], CAs)'
        BY <2>2 DEF MemoryBurst, Carries
      <3>4. ASSUME NEW a, BurstsFor(a) PROVE BurstsFor(a)'
        BY <3>1, <3>2, <3>3, <3>4 DEF BurstsFor
      <3>. QED BY <2>2, <3>4 DEF PatientBursts
    <2>. QED BY <1>2, <2>1, <2>2, <2>3, <2>4, <2>5 DEF PatientInv, Quiet
  <1>. QED BY <1>1, <1>2

(* Once the device has had three pulses it holds what the machine that is  *)
(* started carries.                                                        *)
LEMMA DeviceHoldsCa ==
    ASSUME NEW stm, NEW half, NEW end, NEW CAs \in SUBSET CommandAddress,
           stm.state \in {"CA", "RUN", "DONE"}, Position(stm, half, end),
           OnWires(stm, half, end), \E ca \in CAs : Carries(stm, ca),
           ram.pulses >= 3, ram.ca \in CommandAddress, end \in Nat
    PROVE  ram.ca \in CAs
  <1>1. PICK ca \in CAs : Carries(stm, ca)
    OBVIOUS
  <1>2. stm.state # "CA"
    BY DEF Position, OnWires
  <1>3. stm.state = "RUN" => stm.counter # 0
    BY DEF OnWires
  <1>4. ram.ca[1] = ca[1] /\ ram.ca[2] = ca[2] /\ ram.ca[3] = ca[3]
    BY <1>1, <1>2, <1>3 DEF Carries
  <1>5. ca \in [1 .. 3 -> Half] /\ ram.ca \in [1 .. 3 -> Half]
    BY <1>1 DEF CommandAddress
  <1>6. ram.ca = ca
    BY <1>4, <1>5
  <1>. QED BY <1>1, <1>6

\* The device has been told what is served; a register read that is over
\* answers with its register.
IsTold ==
    LET a == master.issued.address IN
    /\ ram.pulses >= 3 =>
           /\ state = "RDREG" => ram.ca = CsrCa(a)
           /\ state = "RDMEM2" => ram.ca = OutAddr(a, 1)
           /\ state = "WRMEM2" => ram.ca[2] = Column(a)
    /\ rdreg.valid = 1 => rdreg.dataoutr = RegisterValue(CsrCa(a))

LEMMA DeviceIsTold == PatientInv /\ Quiet => IsTold
  <1>. SUFFICES ASSUME PatientInv, Quiet PROVE IsTold
    OBVIOUS
  <1>. DEFINE a == master.issued.address
  <1>1. /\ SystemInv /\ IInv /\ Bus /\ Positions /\ BusAtRest
        /\ ram.ca \in CommandAddress /\ a \in WordAddress
        /\ rdreg.state \in FsmState /\ rdmem.state \in FsmState /\ wrmem.state \in FsmState
    BY SharedSets DEF PatientInv, WholeInv, PinsInv, Bus, SystemInv, DeviceType,
                      PatientMaster, IInv, TypeOK, RdReg!Registers, RdMem!Registers,
                      WrMem!Registers
  <1>2. BurstsFor(a)
    BY <1>1 DEF PatientInv, PatientBursts
  <1>3. /\ CsrCa(a) \in CommandAddress
        /\ \A r \in Bit : OutAddr(a, r) \in CommandAddress
        /\ 1 \in Bit
    BY <1>1, CsrCaWidth, DecodedWidths, SharedSets
  <1>4. rdreg.valid = 1 => rdreg.dataoutr = RegisterValue(CsrCa(a))
    BY <1>2 DEF PatientInv, ValidWhenDone, BurstsFor, RegisterBurst, RegisterAnswer
  <1>5. ASSUME ram.pulses >= 3, state \in {"RDREG", "RDMEM2", "WRMEM2"}
        PROVE  ~AllIdle
    BY <1>1, <1>5 DEF BusAtRest
  <1>6. ASSUME ram.pulses >= 3, state = "RDREG" PROVE ram.ca = CsrCa(a)
    <2>1. rdreg.state \in {"CA", "RUN", "DONE"}
      BY <1>1, <1>5, <1>6, OneIsStarted, SharedSets DEF AllIdle
    <2>. DEFINE CAs == {CsrCa(a)}
    <2>2. CAs \in SUBSET CommandAddress /\ \E ca \in CAs : Carries(rdreg, ca)
      BY <1>2, <1>3, <2>1 DEF BurstsFor, RegisterBurst
    <2>3. Position(rdreg, 14, 14) /\ OnWires(rdreg, 14, 14)
      BY <1>1, <1>6 DEF Bus, Positions
    <2>4. ram.ca \in CAs
      <3>. HIDE DEF CAs
      <3>. QED BY <1>1, <1>6, <2>1, <2>2, <2>3, DeviceHoldsCa
    <2>. QED BY <2>4
  <1>7. ASSUME ram.pulses >= 3, state = "RDMEM2" PROVE ram.ca = OutAddr(a, 1)
    <2>1. rdmem.state \in {"CA", "RUN", "DONE"}
      BY <1>1, <1>5, <1>7, OneIsStarted, SharedSets DEF AllIdle
    <2>. DEFINE CAs == {OutAddr(a, 1)}
    <2>2. CAs \in SUBSET CommandAddress /\ MemoryBurst(rdmem, stm_start[2], CAs)
      BY <1>2, <1>3 DEF BurstsFor
    <2>3. ram.ca \in CAs
      <3>. HIDE DEF CAs
      <3>. QED BY <1>1, <1>7, <2>1, <2>2, DeviceHoldsCa DEF Bus, Positions, MemoryBurst
    <2>. QED BY <2>3
  <1>8. ASSUME ram.pulses >= 3, state = "WRMEM2" PROVE ram.ca[2] = Column(a)
    <2>1. wrmem.state \in {"CA", "RUN", "DONE"}
      BY <1>1, <1>5, <1>8, OneIsStarted, SharedSets DEF AllIdle
    <2>. DEFINE CAs == {OutAddr(a, r) : r \in Bit}
    <2>2. CAs \in SUBSET CommandAddress /\ MemoryBurst(wrmem, stm_start[3], CAs)
      BY <1>2, <1>3 DEF BurstsFor
    <2>3. ram.ca \in CAs
      <3>. HIDE DEF CAs
      <3>. QED BY <1>1, <1>8, <2>1, <2>2, DeviceHoldsCa DEF Bus, Positions, MemoryBurst
    <2>4. \A r \in Bit : OutAddr(a, r)[2] = OutAddr(a, 0)[2]
      BY DEF OutAddr
    <2>. QED BY <2>3, <2>4 DEF Column
  <1>. QED BY <1>4, <1>6, <1>7, <1>8 DEF IsTold

LEMMA PatientInvSuffices == PatientInv => CommandReachesDevice /\ RegisterReadAnswers
  BY DeviceIsTold DEF Quiet, IsTold, CommandReachesDevice, RegisterReadAnswers

(* The device is told what the master that waits asked for.                *)
THEOREM CommandsReachDevice == MCSpec => []CommandReachesDevice
  BY PatientStart, PatientStep, PatientInvSuffices, PTL DEF MCSpec

(* And a register read answers with the register that was asked for.       *)
THEOREM RegisterReadsAnswer == MCSpec => []RegisterReadAnswers
  BY PatientStart, PatientStep, PatientInvSuffices, PTL DEF MCSpec

-----------------------------------------------------------------------------
(* Reads and their answers, for a master that waits: every read is in one  *)
(* place, on the wires, sampled, being served or being answered.           *)

Serving == state \in {"RDREG", "RDMEM1"} \/ (state = "RDMEM2" /\ row = 1)
Due(c) == IF IsRead(c) THEN 1 ELSE 0

AtEase == master.cmd = "none" /\ req = Low /\ master.pending = Answered

JustIssued ==
    /\ master.cmd \in Command /\ req = Low /\ Answered = 0
    /\ master.left = IF IsRead(master.cmd) THEN 2 ELSE 1
    /\ master.pending = Due(master.cmd)

JustSampled(c) ==
    /\ Rising(c) /\ \A d \in Command \ {c} : req[d] = 0
    /\ IF IsRead(c) THEN master.cmd = c /\ master.left = 1 ELSE master.cmd = "none"
    /\ Answered = 0 /\ master.pending = Due(c)

Underway ==
    /\ master.cmd = "none" /\ \A c \in Command : ~Rising(c)
    /\ master.pending = IF Serving THEN 1 ELSE 0

Waits ==
    /\ resp.valid = 1 => state = "IDLE"
    /\ rdreg.valid = 1 <=> rdreg.state = "DONE"
    /\ state = "IDLE" => AtEase \/ JustIssued \/ \E c \in Command : JustSampled(c)
    /\ state # "IDLE" => Underway

(* What the FSM does with the reads it serves.                             *)
LEMMA ServesReads ==
    ASSUME NEW in, CommandStep(in), resp.valid = 1 => state = "IDLE", IInv
    PROVE  /\ state = "IDLE" => resp'.valid = 0
           /\ \A c \in Command :
                  state = "IDLE" /\ Rising(c) /\ (\A d \in Command \ {c} : req[d] = 0)
                      => state' # "IDLE" /\ (Serving' <=> IsRead(c))
           /\ state # "IDLE" /\ state' # "IDLE" =>
                  (Serving' <=> Serving) /\ resp'.valid = 0
           /\ state # "IDLE" /\ state' = "IDLE" =>
                  \/ state = "RDREG" /\ StmEnd(0) = 1 /\ resp'.valid = 0
                  \/ state = "RDMEM1" /\ resp'.valid = 1
                  \/ ~Serving /\ resp'.valid = 0
           /\ state = "RDREG" /\ state' # "IDLE" => StmEnd(0) = 0
  <1>1. resp \in Answers /\ row \in {0, 1}
    BY SharedSets DEF IInv, TypeOK, Bit
  <1>2. state # "IDLE" => resp.valid = 0
    BY <1>1 DEF Answers, Bit
  <1>3. CASE Idle
    <2>1. resp'.valid = 0
      BY <1>1, <1>3 DEF Idle, Answers
    <2>2. ASSUME NEW c \in Command, Rising(c), \A d \in Command \ {c} : req[d] = 0
          PROVE  state' # "IDLE" /\ (Serving' <=> IsRead(c))
      <3>1. \A d \in Command : Rising(d) <=> d = c
        BY <2>2 DEF Rising
      <3>2. Accept
        BY <1>3, <2>2 DEF Idle, NoCommand
      <3>. QED BY <3>1, <3>2 DEF Accept, Serving, IsRead, Command
    <2>. QED BY <1>3, <2>1, <2>2 DEF Idle
  <1>4. CASE ReadRegister
    BY <1>2, <1>4 DEF ReadRegister, Serving
  <1>5. CASE WriteRegister
    BY <1>2, <1>5 DEF WriteRegister, Serving
  <1>6. CASE ReadBuffer
    BY <1>2, <1>6 DEF ReadBuffer, Serving
  <1>7. CASE WriteBuffer(in)
    BY <1>2, <1>7 DEF WriteBuffer, Serving
  <1>8. CASE Fill
    BY <1>1, <1>2, <1>8 DEF Fill, FilledForRead, FilledForWrite, Filling, Serving
  <1>9. CASE WriteBack
    BY <1>2, <1>9 DEF WriteBack, Serving
  <1>10. CASE AccessDelay
    BY <1>2, <1>10 DEF AccessDelay, Serving
  <1>. QED
    BY <1>3, <1>4, <1>5, <1>6, <1>7, <1>8, <1>9, <1>10 DEF CommandStep

(* rdreg_stm is done for the cycle valid is up, and no longer.             *)
LEMMA ValidFollows ==
    ASSUME NEW start, NEW ca, NEW rwds \in Bit, NEW d,
           rdreg \in RdReg!Registers, rdreg.valid = 1 <=> rdreg.state = "DONE",
           RdReg!Step(start, ca, rwds, d)
    PROVE  rdreg'.valid = 1 <=> rdreg'.state = "DONE"
  <1>. USE DEF RdReg!Registers
  <1>1. CASE RdReg!Rest(start, ca)
    BY <1>1 DEF RdReg!Rest, RdReg!Loaded
  <1>2. CASE RdReg!Start(start, ca)
    BY <1>2 DEF RdReg!Start, RdReg!Loaded
  <1>3. CASE RdReg!AwaitRwds(rwds)
    BY <1>3 DEF RdReg!AwaitRwds
  <1>4. CASE RdReg!DriveCa(rwds)
    BY <1>4 DEF RdReg!DriveCa
  <1>5. CASE RdReg!ShiftCa
    BY <1>5 DEF RdReg!ShiftCa, RdReg!InCa
  <1>6. CASE RdReg!CaSent
    BY <1>6 DEF RdReg!CaSent, RdReg!InCa
  <1>7. CASE RdReg!Latency
    BY <1>7 DEF RdReg!Latency
  <1>8. CASE RdReg!Sample(d)
    BY <1>8 DEF RdReg!Sample
  <1>9. CASE RdReg!Finish
    BY <1>9 DEF RdReg!Finish
  <1>. QED
    BY <1>1, <1>2, <1>3, <1>4, <1>5, <1>6, <1>7, <1>8, <1>9
       DEF RdReg!Step, RdReg!SendCa

(* The master's strobe and its count of reads.                             *)
LEMMA MasterCounts ==
    ASSUME MasterType, MasterStep,
           master.cmd = "none" /\ master'.cmd # "none" => AtRest
    PROVE  \/ /\ AtRest /\ master.cmd = "none" /\ master'.cmd \in Command
              /\ master'.left = IF IsRead(master'.cmd) THEN 2 ELSE 1
              /\ master'.pending = (master.pending - Answered) + Due(master'.cmd)
           \/ /\ master.left = 2 /\ master'.left = 1 /\ master'.cmd = master.cmd
              /\ master'.pending = master.pending - Answered
           \/ /\ master.left = 1 \/ master.cmd = "none"
              /\ master'.cmd = "none"
              /\ master'.pending = master.pending - Answered
  <1>1. ASSUME NEW c \in Operations, NEW a \in AddressesOf(c), NEW w \in WordsOf(c),
               Issue(c, a, w)
        PROVE  /\ AtRest /\ master.cmd = "none" /\ master'.cmd \in Command
               /\ master'.left = IF IsRead(master'.cmd) THEN 2 ELSE 1
               /\ master'.pending = (master.pending - Answered) + Due(master'.cmd)
    <2>1. c \in Command /\ c # "none"
      BY SystemConstants DEF Command
    <2>2. /\ master.cmd = "none" /\ master'.cmd = c
          /\ master'.left = IF IsRead(c) THEN 2 ELSE 1
          /\ master'.pending = (master.pending - Answered) + Due(c)
      BY <1>1 DEF Issue, MayIssue, Due
    <2>. QED BY <2>1, <2>2
  <1>2. CASE Hold
    BY <1>2 DEF Hold
  <1>3. CASE Release
    BY <1>3 DEF Release
  <1>4. CASE Pause
    BY <1>4 DEF Pause
  <1>. QED BY <1>1, <1>2, <1>3, <1>4 DEF MasterStep

(* rdreg_stm is done while the FSM is still in RDREG.                      *)
DoneInRdReg == rdreg.state = "DONE" => state = "RDREG"
LEMMA DoneIsServed == IInv => DoneInRdReg
  BY OneIsStarted DEF DoneInRdReg

(* One edge moves every read on, and loses none.                           *)
LEMMA WaitsKept ==
    ASSUME SystemInv, SystemInv', Waits, NEW rwds \in Bit, Tick(rwds),
           master.cmd = "none" /\ master'.cmd # "none" => AtRest
    PROVE  Waits'
  <1>1. /\ IInv /\ MasterType /\ MasterStep /\ CommandStep(Wires(rwds))
        /\ Clock(Wires(rwds)) /\ prev' = req
        /\ RdReg!Step(stm_start[0], CA_sigr, rwds, dataout)
        /\ rdreg \in RdReg!Registers
    BY DEF SystemInv, IInv, TypeOK, Tick, Clock, SampleRequests, Wires
  <1>2. /\ \A c \in Command : req'[c] = 1 <=> c = master.cmd
        /\ master.cmd = "none" => req' = Low
        /\ \A c \in Command : c # "none"
    BY <1>1, Samples DEF Command
  <1>3. /\ rdreg'.valid = 1 <=> rdreg'.state = "DONE"
        /\ rdreg.valid = 1 <=> rdreg.state = "DONE"
        /\ resp.valid = 1 => state = "IDLE"
    BY <1>1, ValidFollows DEF Waits
  <1>4. /\ rdreg.state = "DONE" => state = "RDREG" /\ StmEnd(0) = 1
        /\ state = "RDREG" /\ StmEnd(0) = 1 => rdreg.state = "DONE"
    <2>1. rdreg.state \in {"IDLE", "CA", "RUN", "DONE"}
      BY <1>1, SharedSets DEF RdReg!Registers
    <2>. QED BY <1>1, <2>1, OneIsStarted DEF IInv, Handshake, HandshakeOf, StmEnd
  <1>5. rdreg'.state = "DONE" => state' = "RDREG"
    <2>1. IInv'
      BY DEF SystemInv
    <2>2. DoneInRdReg'
      BY <2>1, DoneIsServed, PTL
    <2>. QED BY <2>2 DEF DoneInRdReg
  <1>6. /\ resp.valid \in {0, 1} /\ rdreg.valid \in {0, 1}
        /\ resp'.valid \in {0, 1} /\ rdreg'.valid \in {0, 1}
    BY SharedSets DEF SystemInv, IInv, TypeOK, Answers, RdReg!Registers, Bit
  <1>7. /\ state = "IDLE" => resp'.valid = 0
        /\ \A c \in Command :
               state = "IDLE" /\ Rising(c) /\ (\A d \in Command \ {c} : req[d] = 0)
                   => state' # "IDLE" /\ (Serving' <=> IsRead(c))
        /\ state # "IDLE" /\ state' # "IDLE" => (Serving' <=> Serving) /\ resp'.valid = 0
        /\ state # "IDLE" /\ state' = "IDLE" =>
               \/ state = "RDREG" /\ StmEnd(0) = 1 /\ resp'.valid = 0
               \/ state = "RDMEM1" /\ resp'.valid = 1
               \/ ~Serving /\ resp'.valid = 0
        /\ state = "RDREG" /\ state' # "IDLE" => StmEnd(0) = 0
    BY <1>1, <1>3, ServesReads
  <1>8. (resp'.valid = 1 => state' = "IDLE") /\ (state' = "IDLE" => rdreg'.valid = 0)
    BY <1>3, <1>5, <1>6, <1>7
  <1>9. CASE state = "IDLE" /\ AtEase
    <2>1. state' = "IDLE" /\ req' = Low /\ Answered' = 0
      BY <1>1, <1>2, <1>7, <1>8, <1>9, RestStays DEF AtEase, Answered
    <2>2. master.pending - Answered = 0
      BY <1>6, <1>9 DEF AtEase, Answered
    <2>3. AtEase' \/ JustIssued'
      BY <1>1, <1>9, <2>1, <2>2, MasterCounts DEF AtEase, JustIssued, Due
    <2>. QED BY <1>3, <1>8, <2>1, <2>3 DEF Waits
  <1>10. CASE state = "IDLE" /\ JustIssued
    <2>1. state' = "IDLE" /\ Answered' = 0
      BY <1>1, <1>7, <1>8, <1>10, RestStays DEF JustIssued, Answered
    <2>2. PICK c \in Command : c = master.cmd /\ c # "none"
      BY <1>2, <1>10 DEF JustIssued
    <2>3. Rising(c)' /\ \A d \in Command \ {c} : req'[d] = 0
      <3>1. req' = [d \in Command |-> IF d \in {master.cmd} \cap Command THEN 1 ELSE 0]
        BY <1>1 DEF Clock, SampleRequests, Wires
      <3>2. prev'[c] = 0
        BY <1>1, <1>10, <2>2 DEF JustIssued, Low
      <3>. QED BY <2>2, <3>1, <3>2 DEF Rising
    <2>4. /\ master'.pending = Due(c)
          /\ IF IsRead(c) THEN master'.cmd = c /\ master'.left = 1
             ELSE master'.cmd = "none"
      BY <1>1, <1>10, <2>2, MasterCounts DEF JustIssued, Due
    <2>5. JustSampled(c)'
      BY <2>1, <2>3, <2>4 DEF JustSampled, Due
    <2>. QED BY <1>3, <1>8, <2>1, <2>2, <2>5 DEF Waits
  <1>11. ASSUME state = "IDLE", NEW c \in Command, JustSampled(c) PROVE Waits'
    <2>1. state' # "IDLE" /\ (Serving' <=> IsRead(c))
      BY <1>7, <1>11 DEF JustSampled
    <2>2. req # Low
      BY <1>11 DEF JustSampled, Rising, Low
    <2>3. master'.cmd = "none" /\ master'.pending = Due(c)
      BY <1>1, <1>2, <1>11, <2>2, MasterCounts DEF JustSampled, AtRest, Due
    <2>4. \A d \in Command : ~Rising(d)'
      BY <1>1, <1>2, <1>11 DEF JustSampled, Rising
    <2>. QED BY <1>3, <1>8, <2>1, <2>3, <2>4 DEF Waits, Underway, Due
  <1>12. CASE state # "IDLE"
    <2>1. Underway
      BY <1>12 DEF Waits
    <2>2. /\ req' = Low /\ master'.cmd = "none"
          /\ master'.pending = master.pending - Answered
      BY <1>1, <1>2, <1>12, <2>1, MasterCounts DEF Underway, AtRest
    <2>3. \A d \in Command : ~Rising(d)'
      BY <2>2 DEF Rising, Low
    <2>4. CASE state' = "IDLE"
      <3>1. Answered = (IF rdreg.state = "DONE" THEN 1 ELSE 0) /\ Answered' = resp'.valid
        BY <1>3, <1>6, <1>8, <1>12, <2>4 DEF Answered
      <3>2. master'.pending = Answered'
        BY <1>4, <1>7, <1>12, <2>1, <2>2, <2>4, <3>1 DEF Underway, Serving
      <3>. QED BY <1>3, <1>8, <2>2, <2>4, <3>2 DEF Waits, AtEase
    <2>5. CASE state' # "IDLE"
      <3>1. Answered = 0
        BY <1>3, <1>4, <1>6, <1>7, <1>12, <2>5 DEF Answered
      <3>2. master'.pending = IF Serving' THEN 1 ELSE 0
        BY <1>7, <1>12, <2>1, <2>2, <2>5, <3>1 DEF Underway
      <3>. QED BY <1>3, <1>8, <2>2, <2>3, <2>5, <3>2 DEF Waits, Underway
    <2>. QED BY <2>4, <2>5
  <1>. QED BY <1>9, <1>10, <1>11, <1>12 DEF Waits

WaitsInv == PatientInv /\ (Quiet => Waits)

LEMMA WaitsStart == MCInit => WaitsInv
  <1>. SUFFICES ASSUME MCInit PROVE WaitsInv
    OBVIOUS
  <1>1. PatientInv
    BY PatientStart
  <1>2. SysInit /\ state = "IDLE" /\ resp.valid = 0 /\ rdreg.valid = 0
        /\ rdreg.state = "IDLE" /\ req = Low
    BY DEF MCInit, SysInit, Init, RdReg!PowerUp
  <1>3. AtEase
    BY <1>2 DEF AtEase, Answered, SysInit
  <1>. QED BY <1>1, <1>2, <1>3 DEF WaitsInv, Waits

LEMMA WaitsStep ==
    WaitsInv /\ [\E rwds \in Bit : MCTick(rwds)]_mcVars => WaitsInv'
  <1>1. ASSUME WaitsInv, NEW rwds \in Bit, MCTick(rwds) PROVE WaitsInv'
    <2>1. PatientInv'
      BY <1>1, PatientStep DEF WaitsInv
    <2>2. SystemInv /\ SystemInv'
      BY <1>1, <2>1 DEF WaitsInv, PatientInv, WholeInv, PinsInv
    <2>3. Tick(rwds) /\ workload' = workload /\ Keeps(master'.issued)
      BY <1>1 DEF MCTick
    <2>4. ASSUME Quiet PROVE Waits'
      <3>1. master.cmd = "none" /\ master'.cmd # "none" => AtRest
        BY <1>1, <2>2, <2>4, QuietIssues
      <3>. QED BY <1>1, <2>2, <2>3, <2>4, <3>1, WaitsKept DEF WaitsInv, Quiet
    <2>. QED BY <2>1, <2>3, <2>4 DEF WaitsInv, Quiet
  <1>2. ASSUME WaitsInv, UNCHANGED mcVars PROVE WaitsInv'
    <2>1. PatientInv'
      BY <1>2, PatientStep DEF WaitsInv
    <2>2. UNCHANGED <<state, req, prev, row, resp, rdreg, master, workload>>
      BY <1>2 DEF mcVars, sysVars, vars, inputVars, burstVars
    <2>3. Waits => Waits'
      BY <2>2 DEF Waits, AtEase, JustIssued, JustSampled, Underway, Serving, Rising, Answered
    <2>. QED BY <1>2, <2>1, <2>2, <2>3 DEF WaitsInv, Quiet
  <1>. QED BY <1>1, <1>2

(* With a master that waits no read is forgotten.                          *)
THEOREM ReadsAreRemembered == MCSpec => [](Quiet => NoReadForgotten)
  <1>1. WaitsInv => (Quiet => NoReadForgotten)
    BY DEF WaitsInv, Waits, AtEase, JustIssued, JustSampled, NoReadForgotten, Command
  <1>. QED BY <1>1, WaitsStart, WaitsStep, PTL DEF MCSpec

-----------------------------------------------------------------------------
(* Recovery: how long CS# has been high after a write-back, by what the    *)
(* controller has done since.                                              *)

\* Cycles there have been at least, on the way to the next burst.
Recovered ==
    IF state = "ACCDLY" THEN 8 - acc_counter
    ELSE IF state = "IDLE" THEN 9
    ELSE IF ~AllIdle THEN 12
    ELSE IF \E k \in Engines : stm_start[k] = 1 THEN 11 ELSE 10

DelayLoaded ==
    /\ acc_counter \in 0 .. 8
    /\ state \notin {"IDLE", "ACCDLY"} => acc_counter = 8

\* A machine at rest does not select the device, once it has had an edge.
RestDeselects ==
    lastBurst # "none" =>
        /\ rdreg.state = "IDLE" => rdreg.csn = 1
        /\ rdmem.state = "IDLE" => rdmem.csn = 1
        /\ wrmem.state = "IDLE" => wrmem.csn = 1

\* Nor is it selected while all are at rest, but at power-up.
RestIsDeselected == AllIdle /\ pins.csn = 0 => state = "IDLE"

NoRegisterWrite ==
    master.cmd # "regw" /\ req["regw"] # 1 /\ state # "WRREG"

Recovery ==
    /\ csHigh \in 0 .. HighBound
    /\ lastBurst = "WRMEM2" /\ pins.csn = 1 => csHigh >= Recovered

RecoveryInv ==
    DelayLoaded /\ RestDeselects /\ RestIsDeselected /\ NoRegisterWrite /\ Recovery

(* The delay is loaded in IDLE, counted in ACCDLY, and stays otherwise.    *)
LEMMA DelayKept ==
    ASSUME NEW in, CommandStep(in), DelayLoaded
    PROVE  /\ DelayLoaded'
           /\ state = "WRMEM2" => state' = "ACCDLY" \/ (state' = "WRMEM2" /\ StmEnd(3) = 0)
           /\ state = "ACCDLY" => \/ state' = "ACCDLY" /\ acc_counter' = acc_counter - 1
                                  \/ state' = "IDLE" /\ acc_counter = 0
           /\ state # "ACCDLY" /\ state' = "ACCDLY" => acc_counter' = 8 /\ state = "WRMEM2"
  <1>. USE DEF DelayLoaded
  <1>1. CASE Idle
    BY <1>1 DEF Idle, Accept, NoCommand
  <1>2. CASE ReadRegister \/ WriteRegister
    BY <1>2 DEF ReadRegister, WriteRegister
  <1>3. CASE ReadBuffer \/ WriteBuffer(in)
    BY <1>3 DEF ReadBuffer, WriteBuffer
  <1>4. CASE Fill
    BY <1>4 DEF Fill, FilledForRead, FilledForWrite, Filling
  <1>5. CASE WriteBack
    BY <1>5 DEF WriteBack
  <1>6. CASE AccessDelay
    BY <1>6 DEF AccessDelay
  <1>. QED BY <1>1, <1>2, <1>3, <1>4, <1>5, <1>6 DEF CommandStep

(* Without register writes on the wires none is served.                    *)
LEMMA NoRegisterWriteKept ==
    ASSUME SystemInv, "regw" \notin Operations, NoRegisterWrite,
           NEW rwds \in Bit, Tick(rwds)
    PROVE  NoRegisterWrite'
  <1>1. MasterType /\ MasterStep /\ Clock(Wires(rwds)) /\ CommandStep(Wires(rwds))
    BY DEF SystemInv, Tick, Clock
  <1>2. master'.cmd # "regw"
    <2>1. ASSUME NEW c \in Operations, NEW a \in AddressesOf(c), NEW w \in WordsOf(c),
                 Issue(c, a, w)
          PROVE  master'.cmd # "regw"
      BY <2>1 DEF Issue
    <2>2. CASE Hold
      BY <1>1, <2>2 DEF Hold, MasterType, NoRegisterWrite
    <2>3. CASE Release
      BY <1>1, <2>3 DEF Release, MasterType
    <2>4. CASE Pause
      BY <1>1, <2>4 DEF Pause, MasterType, NoRegisterWrite
    <2>. QED BY <1>1, <2>1, <2>2, <2>3, <2>4 DEF MasterStep
  <1>3. req'["regw"] # 1
    BY <1>1, Samples DEF NoRegisterWrite, Command
  <1>4. state' # "WRREG"
    <2>1. CASE Idle
      BY <2>1 DEF Idle, Accept, NoCommand, Rising, NoRegisterWrite
    <2>2. CASE ~Idle
      BY <1>1, <2>2 DEF CommandStep, ReadRegister, WriteRegister, ReadBuffer, WriteBuffer,
                        Fill, FilledForRead, FilledForWrite, Filling, WriteBack,
                        AccessDelay, NoRegisterWrite
    <2>. QED BY <2>1, <2>2
  <1>. QED BY <1>2, <1>3, <1>4 DEF NoRegisterWrite

(* After an edge every machine at rest has CS# up.                         *)
LEMMA RestReleases ==
    ASSUME NEW stm, NEW next, NEW start, NEW ca, NEW half, NEW end,
           BurstMove(stm, next, start, ca, half, end), Position(stm, half, end),
           next.state = "IDLE"
    PROVE  next.csn = 1 /\ (stm.state = "IDLE" => start = 0) /\ stm.state \in {"IDLE", "DONE"}
  BY DEF BurstMove, Resting, Starting, Waiting, Shifts, Releasing, Running, Ending,
         Finishing, Position

\* Who is started, and away from IDLE, in which state of the FSM.
StartedServes ==
    /\ rdreg.state # "IDLE" => stm_start[0] = 1
    /\ rdmem.state # "IDLE" => stm_start[2] = 1
    /\ wrmem.state # "IDLE" => stm_start[3] = 1
    /\ stm_start[0] = 1 => state = "RDREG"
    /\ stm_start[1] = 1 => state = "WRREG"
    /\ stm_start[2] = 1 => state = "RDMEM2"
    /\ stm_start[3] = 1 => state = "WRMEM2"
LEMMA OwnersServe == IInv => StartedServes
  BY OneIsStarted DEF StartedServes

(* An edge brings the next burst no more than a cycle closer.              *)
LEMMA RecoveredGrows ==
    ASSUME StartedServes, StartedServes', DelayLoaded, NEW in, CommandStep(in), IInv,
           rdreg'.state # "IDLE" => rdreg.state # "IDLE" \/ stm_start[0] = 1,
           rdmem'.state # "IDLE" => rdmem.state # "IDLE" \/ stm_start[2] = 1,
           wrmem'.state # "IDLE" => wrmem.state # "IDLE" \/ stm_start[3] = 1
    PROVE  Recovered' <= Recovered + 1 /\ Recovered \in 0 .. 12 /\ Recovered' \in 0 .. 12
  <1>1. /\ acc_counter \in 0 .. 8 /\ acc_counter' \in 0 .. 8
        /\ state = "ACCDLY" => \/ state' = "ACCDLY" /\ acc_counter' = acc_counter - 1
                               \/ state' = "IDLE" /\ acc_counter = 0
        /\ state # "ACCDLY" /\ state' = "ACCDLY" => acc_counter' = 8
    BY DelayKept DEF DelayLoaded
  <1>. DEFINE Started == \E k \in Engines : stm_start[k] = 1
  <1>2. /\ StartEffect(0, "RDREG") /\ StartEffect(1, "WRREG")
        /\ StartEffect(2, "RDMEM2") /\ StartEffect(3, "WRMEM2")
    BY CommandEffect
  <1>3. /\ Started => state \notin {"IDLE", "ACCDLY"}
        /\ Started' => state' \notin {"IDLE", "ACCDLY"}
        /\ ~AllIdle => state \notin {"IDLE", "ACCDLY"} /\ Started
        /\ ~AllIdle' => Started
    BY DEF StartedServes, Engines, AllIdle
  <1>4. state \in {"IDLE", "ACCDLY"} => ~Started'
    BY <1>2, <1>3 DEF StartEffect, Engines
  <1>. DEFINE now == Recovered
              later == Recovered'
  <1>5. /\ state = "ACCDLY" => now = 8 - acc_counter
        /\ state = "IDLE" => now = 9
        /\ state \notin {"IDLE", "ACCDLY"} => now \in {10, 11, 12}
        /\ state \notin {"IDLE", "ACCDLY"} /\ Started => now \in {11, 12}
        /\ ~AllIdle => now = 12
    BY <1>3 DEF Recovered
  <1>6. /\ state' = "ACCDLY" => later = 8 - acc_counter'
        /\ state' = "IDLE" => later = 9
        /\ state' \notin {"IDLE", "ACCDLY"} => later \in {10, 11, 12}
        /\ state' \notin {"IDLE", "ACCDLY"} /\ ~Started' => later = 10 \/ ~AllIdle'
        /\ state' \notin {"IDLE", "ACCDLY"} /\ AllIdle' => later \in {10, 11}
    BY <1>3 DEF Recovered
  <1>. HIDE DEF Started, now, later
  <1>7. later <= now + 1 /\ now \in 0 .. 12 /\ later \in 0 .. 12
    <2>1. CASE state' = "ACCDLY"
      <3>1. acc_counter \in 0 .. 8 /\ acc_counter' \in 0 .. 8 /\ later = 8 - acc_counter'
        BY <1>1, <1>6, <2>1
      <3>2. CASE state = "ACCDLY"
        <4>1. now = 8 - acc_counter /\ acc_counter' = acc_counter - 1
          BY <1>1, <1>5, <2>1, <3>2
        <4>. QED BY ONLY <3>1, <4>1
      <3>3. CASE state # "ACCDLY"
        <4>1. acc_counter' = 8 /\ now \in {9, 10, 11, 12}
          BY <1>1, <1>5, <2>1, <3>3
        <4>. QED BY ONLY <3>1, <4>1
      <3>. QED BY <3>2, <3>3
    <2>2. CASE state' = "IDLE"
      BY <1>1, <1>5, <1>6, <2>2
    <2>3. CASE state' \notin {"IDLE", "ACCDLY"}
      BY <1>1, <1>3, <1>4, <1>5, <1>6, <2>3
    <2>. QED BY <2>1, <2>2, <2>3
  <1>. QED BY <1>7 DEF now, later

(* Every edge keeps what is known of the recovery.                         *)
LEMMA RecoveryKept ==
    ASSUME SystemInv, SystemInv', Bus, RecoveryInv, "regw" \notin Operations,
           NEW rwds \in Bit, Tick(rwds), Watch
    PROVE  RecoveryInv'
  <1>1. /\ IInv /\ IInv' /\ Positions /\ Clock(Wires(rwds)) /\ DrivePins
        /\ CommandStep(Wires(rwds))
    BY DEF SystemInv, Bus, Tick, Clock
  <1>2. /\ BurstMove(rdreg, rdreg', stm_start[0], CA_sigr, 14, 14)
        /\ BurstMove(rdmem, rdmem', stm_start[2], CA_sigr, 32, 32)
        /\ BurstMove(wrmem, wrmem', stm_start[3], CA_sigr, 13, 29)
    BY <1>1, AllMove
  <1>3. StartedServes /\ StartedServes'
    BY <1>1, OwnersServe, PTL
  <1>4. /\ DelayLoaded'
        /\ state = "WRMEM2" => state' = "ACCDLY" \/ (state' = "WRMEM2" /\ StmEnd(3) = 0)
        /\ state # "ACCDLY" /\ state' = "ACCDLY" => acc_counter' = 8
    BY <1>1, DelayKept DEF RecoveryInv
  <1>5. NoRegisterWrite'
    BY NoRegisterWriteKept DEF RecoveryInv
  <1>6. RestDeselects'
    BY <1>1, <1>2, RestReleases DEF RestDeselects, Positions
  <1>7. RestIsDeselected'
    BY <1>1, <1>3, <1>5, CsOfIdle DEF RestIsDeselected, AllIdle, StartedServes, NoRegisterWrite
  <1>8. csHigh \in 0 .. 20 /\ csHigh' = IF pins.csn = 0 THEN 0
                                       ELSE IF csHigh < 20 THEN csHigh + 1 ELSE csHigh
    BY DEF RecoveryInv, Recovery, HighBound, Watch
  <1>9. pins.csn = 0 \/ pins.csn = 1
    BY <1>1, SharedSets DEF IInv, TypeOK, Pins, Bit
  <1>10. ASSUME lastBurst' = "WRMEM2", pins'.csn = 1 PROVE csHigh' >= Recovered'
    <2>1. CASE pins.csn = 1
      <3>1. csHigh >= Recovered
        BY <1>10, <2>1 DEF RecoveryInv, Recovery, Watch
      <3>2. /\ rdreg'.state # "IDLE" => rdreg.state # "IDLE" \/ stm_start[0] = 1
            /\ rdmem'.state # "IDLE" => rdmem.state # "IDLE" \/ stm_start[2] = 1
            /\ wrmem'.state # "IDLE" => wrmem.state # "IDLE" \/ stm_start[3] = 1
        BY <1>2 DEF BurstMove, Resting, Starting, Waiting, Shifts, Releasing, Running,
                    Ending, Finishing
      <3>3. Recovered' <= Recovered + 1 /\ Recovered \in 0 .. 12 /\ Recovered' \in 0 .. 12
        BY <1>1, <1>3, <3>2, RecoveredGrows DEF RecoveryInv
      <3>. QED BY <1>8, <2>1, <3>1, <3>3
    <2>2. CASE pins.csn = 0
      <3>1. state = "WRMEM2" /\ csHigh' = 0
        BY <1>8, <1>10, <2>2 DEF Watch
      <3>2. ~AllIdle
        BY <2>2, <3>1 DEF RecoveryInv, RestIsDeselected
      <3>3. wrmem.state \in {"CA", "RUN", "DONE"} /\ stm_start[3] = 1
        <4>1. wrmem.state \in FsmState
          BY <1>1, SharedSets DEF IInv, TypeOK, WrMem!Registers
        <4>. QED BY <1>3, <3>1, <3>2, <4>1, SharedSets DEF StartedServes, AllIdle
      <3>4. wrmem.state = "DONE" => StmEnd(3) = 1
        BY <1>1 DEF IInv, Handshake, HandshakeOf, StmEnd
      <3>5. pins'.csn = wrmem.csn
        BY <1>1, <3>3, StartedDrives DEF Drives
      <3>6. wrmem.state = "DONE"
        BY <1>1, <1>10, <3>3, <3>5 DEF Positions, Position
      <3>7. state' = "ACCDLY" /\ acc_counter' = 8
        BY <1>4, <3>1, <3>4, <3>6
      <3>. QED BY <3>1, <3>7 DEF Recovered
    <2>. QED BY <1>9, <2>1, <2>2
  <1>11. Recovery'
    BY <1>8, <1>10 DEF Recovery, HighBound
  <1>. QED BY <1>4, <1>5, <1>6, <1>7, <1>11 DEF RecoveryInv

(* CS# falls only after all of the recovery.                               *)
LEMMA FallsAfterRecovery ==
    ASSUME SystemInv, Bus, RecoveryInv, NEW rwds \in Bit, Tick(rwds),
           pins.csn = 1, pins'.csn = 0, lastBurst = "WRMEM2"
    PROVE  csHigh >= 12
  <1>1. IInv /\ DrivePins
    BY DEF SystemInv, Tick, Clock
  <1>2. StartedServes
    BY <1>1, OwnersServe
  <1>3. pins'.csn = Selected(rdreg.csn, rdmem.csn, wrmem.csn, 1)
    BY <1>1 DEF DrivePins
  <1>4. stm_start[1] # 1
    BY <1>2 DEF StartedServes, RecoveryInv, NoRegisterWrite
  <1>5. ~AllIdle
    BY <1>3, <1>4 DEF AllIdle, Selected, RecoveryInv, RestDeselects
  <1>6. Recovered = 12
    BY <1>2, <1>5 DEF Recovered, StartedServes, AllIdle
  <1>. QED BY <1>6 DEF RecoveryInv, Recovery

RecoversInv == WholeInv /\ RecoveryInv

LEMMA RecoveryStarts == MCInit => RecoversInv
  <1>. SUFFICES ASSUME MCInit PROVE RecoversInv
    OBVIOUS
  <1>1. /\ SysInit /\ lastBurst = "none" /\ csHigh = 20 /\ state = "IDLE"
        /\ acc_counter = 0 /\ req = Low
    BY DEF MCInit, SysInit, Init, HighBound
  <1>2. master.cmd = "none"
    BY <1>1 DEF SysInit
  <1>. QED BY <1>1, <1>2, WholeStart
           DEF RecoversInv, RecoveryInv, DelayLoaded, RestDeselects, RestIsDeselected,
               NoRegisterWrite, Recovery, HighBound, Low, Command

LEMMA RecoveryStep ==
    ASSUME "regw" \notin Operations
    PROVE  RecoversInv /\ [\E rwds \in Bit : MCTick(rwds)]_mcVars => RecoversInv'
  <1>1. ASSUME RecoversInv, NEW rwds \in Bit, MCTick(rwds) PROVE RecoversInv'
    <2>1. WholeInv'
      BY <1>1, WholeStep DEF RecoversInv
    <2>2. SystemInv /\ SystemInv' /\ Bus /\ Tick(rwds) /\ Watch
      BY <1>1, <2>1 DEF RecoversInv, WholeInv, PinsInv, MCTick
    <2>. QED BY <1>1, <2>1, <2>2, RecoveryKept DEF RecoversInv
  <1>2. ASSUME RecoversInv, UNCHANGED mcVars PROVE RecoversInv'
    <2>1. WholeInv'
      BY <1>2, WholeStep DEF RecoversInv
    <2>2. UNCHANGED <<state, req, stm_start, acc_counter, pins, rdreg, rdmem, wrmem, master,
                      csHigh, lastBurst>>
      BY <1>2 DEF mcVars, sysVars, vars, inputVars, startVars, burstVars
    <2>3. RecoveryInv => RecoveryInv'
      BY <2>2 DEF RecoveryInv, DelayLoaded, RestDeselects, RestIsDeselected,
                  NoRegisterWrite, Recovery, Recovered, AllIdle
    <2>. QED BY <1>2, <2>1, <2>3 DEF RecoversInv
  <1>. QED BY <1>1, <1>2

RecoveredFall ==
    pins.csn = 1 /\ pins'.csn = 0 /\ lastBurst = "WRMEM2" => csHigh >= RecoveryCycles

LEMMA RecoveryEdge ==
    RecoversInv /\ [\E rwds \in Bit : MCTick(rwds)]_mcVars => [RecoveredFall]_mcVars
  <1>1. ASSUME RecoversInv, NEW rwds \in Bit, MCTick(rwds) PROVE RecoveredFall
    BY <1>1, FallsAfterRecovery
       DEF RecoversInv, WholeInv, PinsInv, MCTick, RecoveredFall, RecoveryCycles
  <1>. QED BY <1>1

(* After a write-back CS# stays high for the access delay, whatever the    *)
(* master asks for, register writes excepted: a WRREG that follows at once *)
(* selects the device a cycle too early, and for good.                     *)
THEOREM DeviceRecovers ==
    ASSUME "regw" \notin Operations
    PROVE  MCSpec => RecoversAfterWriteBack
  <1>1. RecoversAfterWriteBack <=> [][RecoveredFall]_mcVars
    BY DEF RecoversAfterWriteBack, RecoveredFall
  <1>. QED BY <1>1, RecoveryStarts, RecoveryStep, RecoveryEdge, PTL DEF MCSpec
=============================================================================
