----------------------- MODULE HyperController_proofs ------------------------
(***************************************************************************)
(* The registers of the controller keep their widths, and the start/end    *)
(* handshake of the command FSM with the three burst machines never goes   *)
(* wrong, whatever the masters and the device do and whenever a reset      *)
(* comes. Before that, what the address decoder tells apart.               *)
(***************************************************************************)
EXTENDS HyperController, TLAPS

-----------------------------------------------------------------------------
(* One clock edge of a burst machine: its registers keep their widths, and *)
(* its state and end bit move along IDLE, CA, RUN, DONE. The machines'     *)
(* steps replace records; each case first says which record.               *)

(* The instances' copies of the shared sets are the sets of HyperBus.      *)

LEMMA SharedSets ==
    /\ RdReg!Bit = Bit /\ RdMem!Bit = Bit /\ WrMem!Bit = Bit
    /\ RdReg!Half = Half /\ RdMem!Half = Half /\ WrMem!Half = Half
    /\ RdReg!FsmState = FsmState /\ RdMem!FsmState = FsmState
    /\ WrMem!FsmState = FsmState
    /\ RdMem!Word = Word
    /\ 0 \in Bit /\ 1 \in Bit /\ 0 \in Half /\ ZeroWord \in Word
    /\ {"IDLE", "CA", "RUN", "DONE"} = FsmState
  <1>1. /\ RdReg!Bit = Bit /\ RdMem!Bit = Bit /\ WrMem!Bit = Bit
        /\ 0 \in Bit /\ 1 \in Bit
    BY DEF RdReg!Bit, RdMem!Bit, WrMem!Bit, Bit
  <1>2. /\ RdReg!Half = Half /\ RdMem!Half = Half /\ WrMem!Half = Half
        /\ 0 \in Half
    BY DEF RdReg!Half, RdMem!Half, WrMem!Half, Half
  <1>3. /\ RdReg!FsmState = FsmState /\ RdMem!FsmState = FsmState
        /\ WrMem!FsmState = FsmState
        /\ {"IDLE", "CA", "RUN", "DONE"} = FsmState
    BY DEF RdReg!FsmState, RdMem!FsmState, WrMem!FsmState, FsmState
  <1>4. RdMem!Word = Word /\ ZeroWord \in Word
    BY <1>2 DEF RdMem!Word, Word, ZeroWord
  <1>. QED BY <1>1, <1>2, <1>3, <1>4

(* How a machine may move in one edge, given its start bit: it rests until *)
(* started, runs through CA and RUN, ends with its end bit up, and returns.*)
BurstEffect(stm, next, start) ==
    \/ stm.state = "IDLE" /\ start = 0 /\ next.state = "IDLE" /\ next.stm_end = 0
    \/ stm.state = "IDLE" /\ start = 1 /\ next.state = "CA" /\ next.stm_end = 0
    \/ /\ stm.state = "CA" /\ next.state \in {"CA", "RUN"}
       /\ next.stm_end = stm.stm_end
    \/ stm.state = "RUN" /\ next.state = "RUN" /\ next.stm_end = stm.stm_end
    \/ stm.state = "RUN" /\ next.state = "DONE" /\ next.stm_end = 1
    \/ stm.state = "DONE" /\ next.state = "IDLE" /\ next.stm_end = stm.stm_end

(* What one edge does to rdreg_stm: its registers stay within their        *)
(* widths, it leaves IDLE only on its start bit, and it returns there only *)
(* by way of DONE, where it raises its end bit.                            *)
LEMMA RdRegEffect ==
    ASSUME NEW start \in Bit, NEW ca \in CommandAddress, NEW rwds \in Bit,
           NEW d \in Half,
           rdreg \in RdReg!Registers,
           RdReg!Step(start, ca, rwds, d)
    PROVE  rdreg' \in RdReg!Registers /\ BurstEffect(rdreg, rdreg', start)
  <1>. USE SharedSets DEF RdReg!Registers
  <1>. DEFINE caHalves == RdReg!CaHalves(ca)
              shifted == RdReg!ShiftOut(rdreg.buffer_out, 2)
  <1>1. caHalves \in [0 .. 2 -> Half]
    BY DEF RdReg!CaHalves, CommandAddress
  <1>2. shifted \in [0 .. 2 -> Half]
    BY DEF RdReg!ShiftOut
  <1>. HIDE DEF caHalves, shifted
  <1>3. CASE RdReg!Rest(start, ca)
    <2>1. rdreg' = [state |-> "IDLE", counter |-> 0, stm_end |-> 0,
                    oe |-> rdreg.oe, oe_clk |-> rdreg.oe_clk,
                    csn |-> 1, valid |-> 0, buffer_out |-> caHalves,
                    dataoutr |-> rdreg.dataoutr]
      BY <1>3 DEF RdReg!Rest, RdReg!Loaded, caHalves
    <2>3. rdreg' \in RdReg!Registers
      BY <2>1, <1>1
    <2>4. rdreg.state = "IDLE" /\ start = 0
      BY <1>3 DEF RdReg!Rest
    <2>. QED BY <2>1, <2>3, <2>4 DEF BurstEffect
  <1>4. CASE RdReg!Start(start, ca)
    <2>1. rdreg' = [state |-> "CA", counter |-> 0, stm_end |-> 0,
                    oe |-> rdreg.oe, oe_clk |-> rdreg.oe_clk,
                    csn |-> 0, valid |-> 0, buffer_out |-> caHalves,
                    dataoutr |-> rdreg.dataoutr]
      BY <1>4 DEF RdReg!Start, RdReg!Loaded, caHalves
    <2>3. rdreg' \in RdReg!Registers
      BY <2>1, <1>1
    <2>4. rdreg.state = "IDLE" /\ start = 1
      BY <1>4 DEF RdReg!Start
    <2>. QED BY <2>1, <2>3, <2>4 DEF BurstEffect
  <1>5. CASE RdReg!SendCa(rwds)
    <2>1. CASE RdReg!AwaitRwds(rwds)
      <3>1. rdreg' = rdreg /\ rdreg.state = "CA"
        BY <2>1 DEF RdReg!AwaitRwds
      <3>. QED BY <3>1 DEF BurstEffect
    <2>2. CASE RdReg!DriveCa(rwds)
      <3>1. rdreg' = [state |-> rdreg.state, counter |-> 1,
                      stm_end |-> rdreg.stm_end, oe |-> 1, oe_clk |-> 0,
                      csn |-> rdreg.csn, valid |-> rdreg.valid,
                      buffer_out |-> rdreg.buffer_out,
                      dataoutr |-> rdreg.dataoutr]
        BY <2>2 DEF RdReg!DriveCa
      <3>3. rdreg' \in RdReg!Registers
        BY <3>1
      <3>4. rdreg.state = "CA"
        BY <2>2 DEF RdReg!DriveCa
      <3>. QED BY <3>1, <3>3, <3>4 DEF BurstEffect
    <2>3. CASE RdReg!ShiftCa
      <3>1. rdreg' = [state |-> rdreg.state,
                      counter |-> rdreg.counter + 1,
                      stm_end |-> rdreg.stm_end, oe |-> rdreg.oe,
                      oe_clk |-> 1, csn |-> rdreg.csn,
                      valid |-> rdreg.valid, buffer_out |-> shifted,
                      dataoutr |-> rdreg.dataoutr]
        BY <2>3 DEF RdReg!ShiftCa, shifted
      <3>2. rdreg.counter + 1 \in 0 .. 15
        BY <2>3 DEF RdReg!ShiftCa, RdReg!InCa, RdReg!Shifting
      <3>3. rdreg' \in RdReg!Registers
        BY <3>1, <3>2, <1>2
      <3>4. rdreg.state = "CA"
        BY <2>3 DEF RdReg!ShiftCa, RdReg!InCa
      <3>. QED BY <3>1, <3>3, <3>4 DEF BurstEffect
    <2>4. CASE RdReg!CaSent
      <3>1. rdreg' = [state |-> "RUN", counter |-> 0,
                      stm_end |-> rdreg.stm_end, oe |-> 0,
                      oe_clk |-> rdreg.oe_clk, csn |-> rdreg.csn,
                      valid |-> rdreg.valid,
                      buffer_out |-> rdreg.buffer_out,
                      dataoutr |-> rdreg.dataoutr]
        BY <2>4 DEF RdReg!CaSent
      <3>3. rdreg' \in RdReg!Registers
        BY <3>1
      <3>4. rdreg.state = "CA"
        BY <2>4 DEF RdReg!CaSent, RdReg!InCa
      <3>. QED BY <3>1, <3>3, <3>4 DEF BurstEffect
    <2>. QED BY <1>5, <2>1, <2>2, <2>3, <2>4 DEF RdReg!SendCa
  <1>6. CASE RdReg!Latency
    <2>1. rdreg' = [state |-> rdreg.state,
                    counter |-> (rdreg.counter + 1) % 16,
                    stm_end |-> rdreg.stm_end, oe |-> rdreg.oe,
                    oe_clk |-> rdreg.oe_clk, csn |-> rdreg.csn,
                    valid |-> rdreg.valid,
                    buffer_out |-> rdreg.buffer_out,
                    dataoutr |-> rdreg.dataoutr]
      BY <1>6 DEF RdReg!Latency
    <2>2. (rdreg.counter + 1) % 16 \in 0 .. 15
      BY <1>6 DEF RdReg!Latency, RdReg!SampleAt
    <2>3. rdreg' \in RdReg!Registers
      BY <2>1, <2>2
    <2>4. rdreg.state = "RUN"
      BY <1>6 DEF RdReg!Latency
    <2>. QED BY <2>1, <2>3, <2>4 DEF BurstEffect
  <1>7. CASE RdReg!Sample(d)
    <2>1. rdreg' = [state |-> "DONE", counter |-> rdreg.counter + 1,
                    stm_end |-> 1, oe |-> rdreg.oe,
                    oe_clk |-> rdreg.oe_clk, csn |-> 1, valid |-> 1,
                    buffer_out |-> rdreg.buffer_out, dataoutr |-> d]
      BY <1>7 DEF RdReg!Sample
    <2>2. rdreg.counter + 1 \in 0 .. 15
      BY <1>7 DEF RdReg!Sample, RdReg!SampleAt
    <2>3. rdreg' \in RdReg!Registers
      BY <2>1, <2>2
    <2>4. rdreg.state = "RUN"
      BY <1>7 DEF RdReg!Sample
    <2>. QED BY <2>1, <2>3, <2>4 DEF BurstEffect
  <1>8. CASE RdReg!Finish
    <2>1. rdreg' = [state |-> "IDLE", counter |-> rdreg.counter,
                    stm_end |-> rdreg.stm_end, oe |-> rdreg.oe,
                    oe_clk |-> 0, csn |-> rdreg.csn, valid |-> 0,
                    buffer_out |-> rdreg.buffer_out,
                    dataoutr |-> rdreg.dataoutr]
      BY <1>8 DEF RdReg!Finish
    <2>3. rdreg' \in RdReg!Registers
      BY <2>1
    <2>4. rdreg.state = "DONE"
      BY <1>8 DEF RdReg!Finish
    <2>. QED BY <2>1, <2>3, <2>4 DEF BurstEffect
  <1>. QED BY <1>3, <1>4, <1>5, <1>6, <1>7, <1>8 DEF RdReg!Step

(* What one edge does to rdmem_stm, in the same terms.                     *)
LEMMA RdMemEffect ==
    ASSUME NEW start \in Bit, NEW ca \in CommandAddress, NEW rwds \in Bit,
           NEW d \in Half,
           rdmem \in RdMem!Registers,
           RdMem!Step(start, ca, rwds, d)
    PROVE  rdmem' \in RdMem!Registers /\ BurstEffect(rdmem, rdmem', start)
  <1>r. rdmem = [state |-> rdmem.state, counter |-> rdmem.counter,
                 stm_end |-> rdmem.stm_end, oe |-> rdmem.oe,
                 oe_clk |-> rdmem.oe_clk, csn |-> rdmem.csn,
                 buffer_out |-> rdmem.buffer_out,
                 dataoutr |-> rdmem.dataoutr,
                 inner_counter |-> rdmem.inner_counter,
                 wordvalid |-> rdmem.wordvalid]
    BY DEF RdMem!Registers
  <1>. DEFINE caHalves == RdMem!CaHalves(ca)
              shifted == RdMem!ShiftOut(rdmem.buffer_out, 2)
  <1>1. caHalves \in [0 .. 2 -> Half]
    BY SharedSets DEF RdMem!Registers, RdMem!CaHalves, CommandAddress
  <1>2. shifted \in [0 .. 2 -> Half]
    BY SharedSets DEF RdMem!Registers, RdMem!ShiftOut
  <1>. HIDE DEF caHalves, shifted
  <1>w1. <<rdmem.dataoutr[1], d>> \in Word
    BY SharedSets DEF RdMem!Registers, Word
  <1>w2. <<rdmem.dataoutr[2], d>> \in Word
    BY SharedSets DEF RdMem!Registers, Word
  <1>3. CASE RdMem!Rest(start, ca)
    <2>1. rdmem' = [state |-> "IDLE", counter |-> 0, stm_end |-> 0,
                    oe |-> rdmem.oe, oe_clk |-> rdmem.oe_clk,
                    csn |-> 1, buffer_out |-> caHalves,
                    dataoutr |-> rdmem.dataoutr,
                    inner_counter |-> rdmem.inner_counter,
                    wordvalid |-> 0]
      BY <1>r, <1>3 DEF RdMem!Rest, RdMem!Loaded, caHalves
    <2>3. rdmem' \in RdMem!Registers
      BY SharedSets, <2>1, <1>1 DEF RdMem!Registers
    <2>4. rdmem.state = "IDLE" /\ start = 0
      BY SharedSets, <1>3 DEF RdMem!Registers, RdMem!Rest
    <2>. QED BY <2>1, <2>3, <2>4 DEF BurstEffect
  <1>4. CASE RdMem!Start(start, ca)
    <2>1. rdmem' = [state |-> "CA", counter |-> 0, stm_end |-> 0,
                    oe |-> rdmem.oe, oe_clk |-> rdmem.oe_clk,
                    csn |-> 0, buffer_out |-> caHalves,
                    dataoutr |-> rdmem.dataoutr,
                    inner_counter |-> rdmem.inner_counter,
                    wordvalid |-> 0]
      BY <1>r, <1>4 DEF RdMem!Start, RdMem!Loaded, caHalves
    <2>3. rdmem' \in RdMem!Registers
      BY SharedSets, <2>1, <1>1 DEF RdMem!Registers
    <2>4. rdmem.state = "IDLE" /\ start = 1
      BY SharedSets, <1>4 DEF RdMem!Registers, RdMem!Start
    <2>. QED BY <2>1, <2>3, <2>4 DEF BurstEffect
  <1>5. CASE RdMem!SendCa(rwds)
    <2>1. CASE RdMem!AwaitRwds(rwds)
      <3>1. rdmem' = rdmem /\ rdmem.state = "CA"
        BY SharedSets, <2>1 DEF RdMem!Registers, RdMem!AwaitRwds
      <3>. QED BY <3>1 DEF BurstEffect
    <2>2. CASE RdMem!DriveCa(rwds)
      <3>1. rdmem' = [state |-> rdmem.state, counter |-> 1,
                      stm_end |-> rdmem.stm_end, oe |-> 1, oe_clk |-> 0,
                      csn |-> rdmem.csn, buffer_out |-> rdmem.buffer_out,
                      dataoutr |-> rdmem.dataoutr,
                      inner_counter |-> rdmem.inner_counter,
                      wordvalid |-> rdmem.wordvalid]
        BY <1>r, <2>2 DEF RdMem!DriveCa
      <3>3. rdmem' \in RdMem!Registers
        BY SharedSets, <3>1 DEF RdMem!Registers
      <3>4. rdmem.state = "CA"
        BY SharedSets, <2>2 DEF RdMem!Registers, RdMem!DriveCa
      <3>. QED BY <3>1, <3>3, <3>4 DEF BurstEffect
    <2>3. CASE RdMem!ShiftCa
      <3>1. rdmem' = [state |-> rdmem.state,
                      counter |-> rdmem.counter + 1,
                      stm_end |-> rdmem.stm_end, oe |-> rdmem.oe,
                      oe_clk |-> 1, csn |-> rdmem.csn,
                      buffer_out |-> shifted,
                      dataoutr |-> rdmem.dataoutr,
                      inner_counter |-> rdmem.inner_counter,
                      wordvalid |-> rdmem.wordvalid]
        BY <1>r, <2>3 DEF RdMem!ShiftCa, shifted
      <3>2. rdmem.counter + 1 \in 0 .. 63
        BY SharedSets, <2>3 DEF RdMem!Registers, RdMem!ShiftCa, RdMem!InCa, RdMem!Shifting
      <3>3. rdmem' \in RdMem!Registers
        BY SharedSets, <3>1, <3>2, <1>2 DEF RdMem!Registers
      <3>4. rdmem.state = "CA"
        BY SharedSets, <2>3 DEF RdMem!Registers, RdMem!ShiftCa, RdMem!InCa
      <3>. QED BY <3>1, <3>3, <3>4 DEF BurstEffect
    <2>4. CASE RdMem!CaSent
      <3>1. rdmem' = [state |-> "RUN", counter |-> 0,
                      stm_end |-> rdmem.stm_end, oe |-> 0,
                      oe_clk |-> rdmem.oe_clk, csn |-> rdmem.csn,
                      buffer_out |-> rdmem.buffer_out,
                      dataoutr |-> rdmem.dataoutr,
                      inner_counter |-> rdmem.inner_counter,
                      wordvalid |-> rdmem.wordvalid]
        BY <1>r, <2>4 DEF RdMem!CaSent
      <3>3. rdmem' \in RdMem!Registers
        BY SharedSets, <3>1 DEF RdMem!Registers
      <3>4. rdmem.state = "CA"
        BY SharedSets, <2>4 DEF RdMem!Registers, RdMem!CaSent, RdMem!InCa
      <3>. QED BY <3>1, <3>3, <3>4 DEF BurstEffect
    <2>. QED BY <1>5, <2>1, <2>2, <2>3, <2>4 DEF RdMem!SendCa
  <1>6. CASE RdMem!Latency
    <2>1. rdmem' = [state |-> rdmem.state,
                    counter |-> rdmem.counter + 1,
                    stm_end |-> rdmem.stm_end, oe |-> rdmem.oe,
                    oe_clk |-> rdmem.oe_clk, csn |-> rdmem.csn,
                    buffer_out |-> rdmem.buffer_out,
                    dataoutr |-> rdmem.dataoutr,
                    inner_counter |-> rdmem.inner_counter,
                    wordvalid |-> rdmem.wordvalid]
      BY <1>r, <1>6 DEF RdMem!Latency
    <2>2. rdmem.counter + 1 \in 0 .. 63
      BY SharedSets, <1>6 DEF RdMem!Registers, RdMem!Latency, RdMem!FirstHalf
    <2>3. rdmem' \in RdMem!Registers
      BY SharedSets, <2>1, <2>2 DEF RdMem!Registers
    <2>4. rdmem.state = "RUN"
      BY SharedSets, <1>6 DEF RdMem!Registers, RdMem!Latency
    <2>. QED BY <2>1, <2>3, <2>4 DEF BurstEffect
  <1>7. CASE RdMem!SampleUpper(d)
    <2>1. rdmem' = [state |-> rdmem.state,
                    counter |-> (rdmem.counter + 1) % 64,
                    stm_end |-> rdmem.stm_end, oe |-> rdmem.oe,
                    oe_clk |-> rdmem.oe_clk, csn |-> rdmem.csn,
                    buffer_out |-> rdmem.buffer_out,
                    dataoutr |-> <<rdmem.dataoutr[1], d>>,
                    inner_counter |-> 1, wordvalid |-> 0]
      BY <1>r, <1>7 DEF RdMem!SampleUpper
    <2>2. (rdmem.counter + 1) % 64 \in 0 .. 63
      BY SharedSets, <1>7 DEF RdMem!Registers, RdMem!SampleUpper, RdMem!Sampling
    <2>3. rdmem' \in RdMem!Registers
      BY SharedSets, <2>1, <2>2, <1>w1 DEF RdMem!Registers
    <2>4. rdmem.state = "RUN"
      BY SharedSets, <1>7 DEF RdMem!Registers, RdMem!SampleUpper, RdMem!Sampling
    <2>. QED BY <2>1, <2>3, <2>4 DEF BurstEffect
  <1>8. CASE RdMem!SampleLower(d)
    <2>1. rdmem' = [state |-> rdmem.state,
                    counter |-> (rdmem.counter + 1) % 64,
                    stm_end |-> rdmem.stm_end, oe |-> rdmem.oe,
                    oe_clk |-> rdmem.oe_clk, csn |-> rdmem.csn,
                    buffer_out |-> rdmem.buffer_out,
                    dataoutr |-> <<rdmem.dataoutr[2], d>>,
                    inner_counter |-> 0, wordvalid |-> 1]
      BY <1>r, <1>8 DEF RdMem!SampleLower
    <2>2. (rdmem.counter + 1) % 64 \in 0 .. 63
      BY SharedSets, <1>8 DEF RdMem!Registers, RdMem!SampleLower, RdMem!Sampling
    <2>3. rdmem' \in RdMem!Registers
      BY SharedSets, <2>1, <2>2, <1>w2 DEF RdMem!Registers
    <2>4. rdmem.state = "RUN"
      BY SharedSets, <1>8 DEF RdMem!Registers, RdMem!SampleLower, RdMem!Sampling
    <2>. QED BY <2>1, <2>3, <2>4 DEF BurstEffect
  <1>9. CASE RdMem!EndBurst
    <2>1. rdmem' = [state |-> "DONE", counter |-> 0, stm_end |-> 1,
                    oe |-> rdmem.oe, oe_clk |-> rdmem.oe_clk,
                    csn |-> 1, buffer_out |-> rdmem.buffer_out,
                    dataoutr |-> rdmem.dataoutr,
                    inner_counter |-> rdmem.inner_counter,
                    wordvalid |-> 0]
      BY <1>r, <1>9 DEF RdMem!EndBurst
    <2>3. rdmem' \in RdMem!Registers
      BY SharedSets, <2>1 DEF RdMem!Registers
    <2>4. rdmem.state = "RUN"
      BY SharedSets, <1>9 DEF RdMem!Registers, RdMem!EndBurst
    <2>. QED BY <2>1, <2>3, <2>4 DEF BurstEffect
  <1>10. CASE RdMem!Finish
    <2>1. rdmem' = [state |-> "IDLE", counter |-> rdmem.counter,
                    stm_end |-> rdmem.stm_end, oe |-> rdmem.oe,
                    oe_clk |-> 0, csn |-> rdmem.csn,
                    buffer_out |-> rdmem.buffer_out,
                    dataoutr |-> rdmem.dataoutr,
                    inner_counter |-> rdmem.inner_counter,
                    wordvalid |-> 0]
      BY <1>r, <1>10 DEF RdMem!Finish
    <2>3. rdmem' \in RdMem!Registers
      BY SharedSets, <2>1 DEF RdMem!Registers
    <2>4. rdmem.state = "DONE"
      BY SharedSets, <1>10 DEF RdMem!Registers, RdMem!Finish
    <2>. QED BY <2>1, <2>3, <2>4 DEF BurstEffect
  <1>. QED BY <1>3, <1>4, <1>5, <1>6, <1>7, <1>8, <1>9, <1>10 DEF RdMem!Step

(* What one edge does to wrmem_stm, in the same terms.                     *)
LEMMA WrMemEffect ==
    ASSUME NEW start \in Bit, NEW ca \in CommandAddress, NEW rwds \in Bit,
           NEW line \in [0 .. 15 -> Half], NEW valid \in Bit,
           wrmem \in WrMem!Registers,
           WrMem!Step(start, ca, rwds, line, valid)
    PROVE  wrmem' \in WrMem!Registers /\ BurstEffect(wrmem, wrmem', start)
  <1>. USE SharedSets DEF WrMem!Registers
  <1>. DEFINE loaded == WrMem!Loaded(ca, line, valid).buffer_out
              shifted == WrMem!ShiftOut(wrmem.buffer_out, 18)
  <1>1. loaded \in [0 .. 18 -> Half]
    BY DEF WrMem!Loaded, CommandAddress
  <1>2. shifted \in [0 .. 18 -> Half]
    BY DEF WrMem!ShiftOut
  <1>. HIDE DEF loaded, shifted
  <1>3. CASE WrMem!Rest(start, ca, line, valid)
    <2>1. wrmem' = [state |-> "IDLE", counter |-> 0, stm_end |-> 0,
                    oe |-> wrmem.oe, oe_clk |-> wrmem.oe_clk,
                    csn |-> 1, rwds_out |-> wrmem.rwds_out,
                    rwds_oe |-> wrmem.rwds_oe, buffer_out |-> loaded]
      BY <1>3 DEF WrMem!Rest, WrMem!Loaded, loaded
    <2>3. wrmem' \in WrMem!Registers
      BY <2>1, <1>1
    <2>4. wrmem.state = "IDLE" /\ start = 0
      BY <1>3 DEF WrMem!Rest
    <2>. QED BY <2>1, <2>3, <2>4 DEF BurstEffect
  <1>4. CASE WrMem!Start(start, ca, line, valid)
    <2>1. wrmem' = [state |-> "CA", counter |-> 0, stm_end |-> 0,
                    oe |-> wrmem.oe, oe_clk |-> wrmem.oe_clk,
                    csn |-> 0, rwds_out |-> wrmem.rwds_out,
                    rwds_oe |-> wrmem.rwds_oe, buffer_out |-> loaded]
      BY <1>4 DEF WrMem!Start, WrMem!Loaded, loaded
    <2>3. wrmem' \in WrMem!Registers
      BY <2>1, <1>1
    <2>4. wrmem.state = "IDLE" /\ start = 1
      BY <1>4 DEF WrMem!Start
    <2>. QED BY <2>1, <2>3, <2>4 DEF BurstEffect
  <1>5. CASE WrMem!SendCa(rwds)
    <2>1. CASE WrMem!AwaitRwds(rwds)
      <3>1. wrmem' = wrmem /\ wrmem.state = "CA"
        BY <2>1 DEF WrMem!AwaitRwds
      <3>. QED BY <3>1 DEF BurstEffect
    <2>2. CASE WrMem!DriveCa(rwds)
      <3>1. wrmem' = [state |-> wrmem.state, counter |-> 1,
                      stm_end |-> wrmem.stm_end, oe |-> 1, oe_clk |-> 0,
                      csn |-> wrmem.csn, rwds_out |-> wrmem.rwds_out,
                      rwds_oe |-> wrmem.rwds_oe,
                      buffer_out |-> wrmem.buffer_out]
        BY <2>2 DEF WrMem!DriveCa
      <3>3. wrmem' \in WrMem!Registers
        BY <3>1
      <3>4. wrmem.state = "CA"
        BY <2>2 DEF WrMem!DriveCa
      <3>. QED BY <3>1, <3>3, <3>4 DEF BurstEffect
    <2>3. CASE WrMem!ShiftCaAndData
      <3>1. wrmem' = [state |-> wrmem.state,
                      counter |-> wrmem.counter + 1,
                      stm_end |-> wrmem.stm_end, oe |-> 1, oe_clk |-> 1,
                      csn |-> wrmem.csn, rwds_out |-> wrmem.rwds_out,
                      rwds_oe |-> wrmem.rwds_oe, buffer_out |-> shifted]
        BY <2>3 DEF WrMem!ShiftCaAndData, shifted
      <3>2. wrmem.counter + 1 \in 0 .. 31
        BY <2>3 DEF WrMem!ShiftCaAndData, WrMem!InCa, WrMem!Shifting
      <3>3. wrmem' \in WrMem!Registers
        BY <3>1, <3>2, <1>2
      <3>4. wrmem.state = "CA"
        BY <2>3 DEF WrMem!ShiftCaAndData, WrMem!InCa
      <3>. QED BY <3>1, <3>3, <3>4 DEF BurstEffect
    <2>4. CASE WrMem!CaSent
      <3>1. wrmem' = [state |-> "RUN", counter |-> 0,
                      stm_end |-> wrmem.stm_end, oe |-> 0,
                      oe_clk |-> wrmem.oe_clk, csn |-> wrmem.csn,
                      rwds_out |-> wrmem.rwds_out,
                      rwds_oe |-> wrmem.rwds_oe,
                      buffer_out |-> wrmem.buffer_out]
        BY <2>4 DEF WrMem!CaSent
      <3>3. wrmem' \in WrMem!Registers
        BY <3>1
      <3>4. wrmem.state = "CA"
        BY <2>4 DEF WrMem!CaSent, WrMem!InCa
      <3>. QED BY <3>1, <3>3, <3>4 DEF BurstEffect
    <2>. QED BY <1>5, <2>1, <2>2, <2>3, <2>4 DEF WrMem!SendCa
  <1>6. CASE WrMem!Latency
    <2>1. wrmem' = [state |-> wrmem.state,
                    counter |-> wrmem.counter + 1,
                    stm_end |-> wrmem.stm_end, oe |-> wrmem.oe,
                    oe_clk |-> wrmem.oe_clk, csn |-> wrmem.csn,
                    rwds_out |-> wrmem.rwds_out,
                    rwds_oe |-> wrmem.rwds_oe,
                    buffer_out |-> wrmem.buffer_out]
      BY <1>6 DEF WrMem!Latency
    <2>2. wrmem.counter + 1 \in 0 .. 31
      BY <1>6 DEF WrMem!Latency, WrMem!FirstHalf
    <2>3. wrmem' \in WrMem!Registers
      BY <2>1, <2>2
    <2>4. wrmem.state = "RUN"
      BY <1>6 DEF WrMem!Latency
    <2>. QED BY <2>1, <2>3, <2>4 DEF BurstEffect
  <1>7. CASE WrMem!SendHalf
    <2>1. wrmem' = [state |-> wrmem.state,
                    counter |-> (wrmem.counter + 1) % 32,
                    stm_end |-> wrmem.stm_end, oe |-> 1, oe_clk |-> 1,
                    csn |-> wrmem.csn, rwds_out |-> 0, rwds_oe |-> 1,
                    buffer_out |-> shifted]
      BY <1>7 DEF WrMem!SendHalf, shifted
    <2>2. (wrmem.counter + 1) % 32 \in 0 .. 31
      BY <1>7 DEF WrMem!SendHalf
    <2>3. wrmem' \in WrMem!Registers
      BY <2>1, <2>2, <1>2
    <2>4. wrmem.state = "RUN"
      BY <1>7 DEF WrMem!SendHalf
    <2>. QED BY <2>1, <2>3, <2>4 DEF BurstEffect
  <1>8. CASE WrMem!EndBurst
    <2>1. wrmem' = [state |-> "DONE", counter |-> 0, stm_end |-> 1,
                    oe |-> 0, oe_clk |-> 0, csn |-> 1,
                    rwds_out |-> wrmem.rwds_out, rwds_oe |-> 0,
                    buffer_out |-> wrmem.buffer_out]
      BY <1>8 DEF WrMem!EndBurst
    <2>3. wrmem' \in WrMem!Registers
      BY <2>1
    <2>4. wrmem.state = "RUN"
      BY <1>8 DEF WrMem!EndBurst
    <2>. QED BY <2>1, <2>3, <2>4 DEF BurstEffect
  <1>9. CASE WrMem!Finish
    <2>1. wrmem' = [state |-> "IDLE", counter |-> wrmem.counter,
                    stm_end |-> wrmem.stm_end, oe |-> wrmem.oe,
                    oe_clk |-> 0, csn |-> wrmem.csn,
                    rwds_out |-> wrmem.rwds_out,
                    rwds_oe |-> wrmem.rwds_oe,
                    buffer_out |-> wrmem.buffer_out]
      BY <1>9 DEF WrMem!Finish
    <2>3. wrmem' \in WrMem!Registers
      BY <2>1
    <2>4. wrmem.state = "DONE"
      BY <1>9 DEF WrMem!Finish
    <2>. QED BY <2>1, <2>3, <2>4 DEF BurstEffect
  <1>. QED BY <1>3, <1>4, <1>5, <1>6, <1>7, <1>8, <1>9 DEF WrMem!Step

-----------------------------------------------------------------------------
(* What the decoder tells apart, for every address.                        *)

(* Six bits of twice the group number are the group number within a row.   *)
LEMMA ColumnOfGroup ==
    ASSUME NEW a \in Nat
    PROVE  UpperColumn(a) = 2 * ((a \div 32) % 32)
  BY DEF UpperColumn, TwiceGroup

(* Within 1024 words a group of 32 words has a command/address of its own, *)
(* shared by all its words: one refill serves the group, and no two groups *)
(* are filled from one place (out_addr).                                    *)
THEOREM GroupsHaveOwnColumns ==
    ASSUME NEW a \in WordAddress, NEW b \in WordAddress, NEW r \in {0, 1},
           a \div 1024 = b \div 1024
    PROVE  OutAddr(a, r) = OutAddr(b, r) <=> a \div 32 = b \div 32
  <1>. a \in Nat /\ b \in Nat
    BY DEF WordAddress
  <1>1. OutAddr(a, r) = OutAddr(b, r) <=> UpperColumn(a) = UpperColumn(b)
    BY DEF OutAddr, DeviceRow, UpperColumn, TwiceGroup
  <1>2. UpperColumn(a) = UpperColumn(b) <=> (a \div 32) % 32 = (b \div 32) % 32
    BY ColumnOfGroup
  <1>3. (a \div 32) \div 32 = (b \div 32) \div 32
    OBVIOUS
  <1>4. (a \div 32) % 32 = (b \div 32) % 32 <=> a \div 32 = b \div 32
    BY <1>3
  <1>. QED BY <1>1, <1>2, <1>4

(* The row never reaches the device: out_addr[35:22] is zero, and words     *)
(* 1024 apart are one place, although the declared span is 16 MB.           *)
THEOREM RowIsNotSent ==
    ASSUME NEW a \in WordAddress, NEW r \in {0, 1}
    PROVE  OutAddr(a, r) = OutAddr(a % 1024, r)
  <1>. a \in Nat /\ a % 1024 \in Nat
    BY DEF WordAddress
  <1>1. (a \div 32) % 32 = ((a % 1024) \div 32) % 32
    OBVIOUS
  <1>2. UpperColumn(a) = UpperColumn(a % 1024)
    BY <1>1, ColumnOfGroup
  <1>. QED BY <1>2 DEF OutAddr, DeviceRow

(* Address bit 9 is in no field of the tag: a word and the one 512 further *)
(* on are one to buffer_hit, slot and all.                                  *)
THEOREM TagDropsBitNine ==
    ASSUME NEW a \in WordAddress, a % 1024 < 512
    PROVE  TagOf(a) = TagOf(a + 512) /\ BufferAddr(a) = BufferAddr(a + 512)
  <1>. a \in Nat
    BY DEF WordAddress
  <1>1. (a + 512) \div 1024 = a \div 1024
    OBVIOUS
  <1>2. (a + 512) \div 32 = (a \div 32) + 16
    OBVIOUS
  <1>3. PageId(a) = PageId(a + 512)
    BY <1>2 DEF PageId, TwiceGroup
  <1>4. BufferAddr(a) = BufferAddr(a + 512)
    BY DEF BufferAddr
  <1>. QED BY <1>1, <1>3, <1>4 DEF TagOf, RowId

-----------------------------------------------------------------------------
(* The pieces the registers are computed from.                             *)

(* The decoder's fields have the widths of the wires they drive.           *)
LEMMA DecodedWidths ==
    ASSUME NEW a \in WordAddress, NEW r \in Bit
    PROVE  /\ TagOf(a) \in Tags
           /\ BufferAddr(a) \in 0 .. 31
           /\ OutAddr(a, r) \in CommandAddress
  <1>. a \in Nat
    BY DEF WordAddress
  <1>1. a \div 32 \in Nat /\ a \div 1024 \in Nat
    OBVIOUS
  <1>2. TwiceGroup(a) \in Nat
    BY <1>1 DEF TwiceGroup
  <1>3. TagOf(a) \in Tags
    <2>1. RowId(a) \in Row
      BY <1>1 DEF RowId, Row
    <2>2. PageId(a) \in 0 .. 31
      BY <1>1 DEF PageId, TwiceGroup
    <2>. HIDE DEF RowId, PageId
    <2>. QED BY <2>1, <2>2 DEF TagOf, Tags
  <1>4. BufferAddr(a) \in 0 .. 31
    BY DEF BufferAddr
  <1>5. OutAddr(a, r) \in CommandAddress
    <2>1. 32768 * r \in Half
      <3>1. CASE r = 0
        BY <3>1 DEF Half
      <3>2. CASE r = 1
        BY <3>2 DEF Half
      <3>. QED BY <3>1, <3>2 DEF Bit
    <2>2. 64 * (DeviceRow(a) % 1024) + UpperColumn(a) \in Half
      <3>1. DeviceRow(a) % 1024 = 0
        BY DEF DeviceRow
      <3>2. UpperColumn(a) \in 0 .. 63
        BY <1>1 DEF UpperColumn, TwiceGroup
      <3>3. \A d : \A n \in 0 .. 63 : d = 0 => 64 * d + n \in Half
        BY DEF Half
      <3>. HIDE DEF DeviceRow, UpperColumn
      <3>. QED BY <3>1, <3>2, <3>3
    <2>. QED BY <2>1, <2>2, SharedSets DEF OutAddr, CommandAddress
  <1>. QED BY <1>3, <1>4, <1>5

(* A register access's command/address is three halves of the wire.        *)
LEMMA CsrCaWidth == ASSUME NEW a PROVE CsrCa(a) \in CommandAddress
  <1>1. /\ 49152 \in Half /\ 0 \in Half /\ 1 \in Half /\ 256 \in Half
    BY DEF Half
  <1>. QED BY <1>1 DEF CsrCa, CommandAddress

\* All the input wires can carry.
AnyInputs ==
    [strobes : SUBSET Command, s0_address : WordAddress, csr_address : RegisterAddress,
     s0_writedata : Word, rwds_in : Bit, dataout : Half]

(* What an edge may see on the input wires.                                *)
LEMMA InputWidths ==
    ASSUME NEW in \in AnyInputs
    PROVE  /\ in.strobes \in SUBSET Command
           /\ in.s0_address \in WordAddress /\ in.csr_address \in RegisterAddress
           /\ in.s0_writedata \in Word /\ in.rwds_in \in Bit
           /\ in.dataout \in Half
  BY DEF AnyInputs

(* The inputs of the specification are among them.                         *)
LEMMA InputsAreWires == Inputs \subseteq AnyInputs
  <1>. SUFFICES ASSUME NEW in \in Inputs PROVE in \in AnyInputs
    OBVIOUS
  <1>1. /\ in.strobes \in Strobes /\ in.s0_address \in Addresses
        /\ in.csr_address \in CsrAddresses
        /\ in.s0_writedata \in WriteWords /\ in.rwds_in \in Bit
        /\ in.dataout \in ReadHalves
    BY DEF Inputs
  <1>2. in = [strobes |-> in.strobes, s0_address |-> in.s0_address,
              csr_address |-> in.csr_address, s0_writedata |-> in.s0_writedata,
              rwds_in |-> in.rwds_in, dataout |-> in.dataout]
    BY DEF Inputs
  <1>3. /\ \A x \in Strobes : x \in SUBSET Command
        /\ \A x \in Addresses : x \in WordAddress
        /\ \A x \in CsrAddresses : x \in RegisterAddress
        /\ \A x \in WriteWords : x \in Word
        /\ \A x \in ReadHalves : x \in Half
    BY ConstantsType
  <1>. DEFINE strobes == in.strobes
              address == in.s0_address
              csr == in.csr_address
              word == in.s0_writedata
              rwds == in.rwds_in
              data == in.dataout
  <1>4. /\ strobes \in Strobes /\ address \in Addresses /\ csr \in CsrAddresses
        /\ word \in WriteWords /\ rwds \in Bit /\ data \in ReadHalves
        /\ in = [strobes |-> strobes, s0_address |-> address, csr_address |-> csr,
                 s0_writedata |-> word, rwds_in |-> rwds, dataout |-> data]
    BY <1>1, <1>2
  <1>. HIDE DEF Inputs, strobes, address, csr, word, rwds, data
  <1>5. /\ strobes \in SUBSET Command /\ address \in WordAddress
        /\ csr \in RegisterAddress /\ word \in Word /\ data \in Half
    BY <1>3, <1>4
  <1>. QED BY <1>4, <1>5 DEF AnyInputs

(* Every end bit is a bit, the undriven one of wrreg_stm included.         *)
LEMMA EndBit == TypeOK => \A k \in Engines : StmEnd(k) \in Bit
  <1>. SUFFICES ASSUME TypeOK, NEW k \in Engines PROVE StmEnd(k) \in Bit
    OBVIOUS
  <1>1. rdreg.stm_end \in Bit
    BY SharedSets DEF TypeOK, RdReg!Registers
  <1>2. rdmem.stm_end \in Bit
    BY SharedSets DEF TypeOK, RdMem!Registers
  <1>3. wrmem.stm_end \in Bit
    BY SharedSets DEF TypeOK, WrMem!Registers
  <1>4. k \in {0, 1, 2, 3}
    BY DEF Engines
  <1>. QED BY <1>1, <1>2, <1>3, <1>4, SharedSets DEF StmEnd

-----------------------------------------------------------------------------
(* Widths, one group of registers at a time.                               *)

(* The sampling registers: requests, their edges, captured addresses.      *)
LEMMA SampledWidths ==
    ASSUME TypeOK, NEW in \in AnyInputs, SampleRequests(in), CaptureAddresses(in)
    PROVE  /\ req' \in [Command -> Bit] /\ prev' \in [Command -> Bit]
           /\ captured' \in Captured
  <1>1. req' \in [Command -> Bit] /\ prev' \in [Command -> Bit]
    BY SharedSets DEF TypeOK, SampleRequests
  <1>2. captured.s0 \in WordAddress /\ captured.csr \in RegisterAddress
    BY DEF TypeOK, Captured
  <1>3. captured' \in Captured
    <2>. DEFINE s0 == captured'.s0
                csr == captured'.csr
    <2>1. in.s0_address \in WordAddress /\ in.csr_address \in RegisterAddress
      BY InputWidths
    <2>2. captured' = [s0 |-> s0, csr |-> csr]
      BY DEF CaptureAddresses
    <2>3. s0 \in {in.s0_address, captured.s0} /\ csr \in {in.csr_address, captured.csr}
      BY DEF CaptureAddresses
    <2>4. s0 \in WordAddress /\ csr \in RegisterAddress
      BY <1>2, <2>1, <2>3
    <2>. HIDE DEF s0, csr
    <2>. QED BY <2>2, <2>4 DEF Captured
  <1>. QED BY <1>1, <1>3

(* The pin registers, whichever machine drives them.                       *)
LEMMA PinWidths ==
    ASSUME TypeOK, DrivePins
    PROVE  pins' \in Pins
  <1>. USE SharedSets
  <1>1. /\ rdreg.buffer_out[0] \in Half /\ rdreg.oe \in Bit
        /\ rdreg.oe_clk \in Bit /\ rdreg.csn \in Bit
    BY DEF TypeOK, RdReg!Registers
  <1>2. /\ rdmem.buffer_out[0] \in Half /\ rdmem.oe \in Bit
        /\ rdmem.oe_clk \in Bit /\ rdmem.csn \in Bit
    BY DEF TypeOK, RdMem!Registers
  <1>3. /\ wrmem.buffer_out[0] \in Half /\ wrmem.oe \in Bit
        /\ wrmem.oe_clk \in Bit /\ wrmem.csn \in Bit
        /\ wrmem.rwds_out \in Bit /\ wrmem.rwds_oe \in Bit
    BY DEF TypeOK, WrMem!Registers
  <1>4. ASSUME NEW S, NEW a \in S, NEW b \in S, NEW c \in S, NEW d \in S, 0 \in S
        PROVE  Selected(a, b, c, d) \in S
    BY <1>4 DEF Selected
  <1>5. Selected(rdreg.buffer_out[0], rdmem.buffer_out[0],
                 wrmem.buffer_out[0], 0) \in Half
    BY <1>1, <1>2, <1>3, <1>4
  <1>6. Selected(rdreg.oe, rdmem.oe, wrmem.oe, 0) \in Bit
    BY <1>1, <1>2, <1>3, <1>4
  <1>7. Selected(rdreg.oe_clk, rdmem.oe_clk, wrmem.oe_clk, 0) \in Bit
    BY <1>1, <1>2, <1>3, <1>4
  <1>8. Selected(rdreg.csn, rdmem.csn, wrmem.csn, 1) \in Bit
    BY <1>1, <1>2, <1>3, <1>4
  <1>. QED BY <1>3, <1>5, <1>6, <1>7, <1>8 DEF DrivePins, Pins

(* The bits that start the machines and the command/address they get.      *)
StartWidths ==
    /\ stm_start \in [Engines -> Bit]
    /\ CA_sigr \in CommandAddress
    /\ rd_tmp \in Bit /\ wr_tmp \in Bit

(* The start bits, the command/address and the request flags keep their    *)
(* widths in every state of the FSM.                                       *)
LEMMA StartWidthsKept ==
    ASSUME TypeOK, NEW in \in AnyInputs, CommandStep(in)
    PROVE  StartWidths'
  <1>. USE SharedSets
  <1>1. stm_start \in [Engines -> Bit] /\ CA_sigr \in CommandAddress
        /\ rd_tmp \in Bit /\ wr_tmp \in Bit /\ captured.s0 \in WordAddress
    BY DEF TypeOK, Captured
  <1>2. ZeroCa \in CommandAddress
    BY DEF ZeroCa, CommandAddress
  <1>3. \A k \in Engines : 1 - StmEnd(k) \in Bit
    BY EndBit DEF Bit
  <1>4. \A k \in Engines : StartUntilEnd(k) => stm_start' \in [Engines -> Bit]
    BY <1>1, <1>3 DEF StartUntilEnd
  <1>5. 0 \in Engines /\ 1 \in Engines
    BY DEF Engines
  <1>6. CsrCa(captured.csr) \in CommandAddress
    BY CsrCaWidth
  <1>7. OutAddr(captured.s0, rd_tmp) \in CommandAddress
    BY <1>1, DecodedWidths
  <1>8. \A k \in Engines, b \in Bit : [stm_start EXCEPT ![k] = b] \in [Engines -> Bit]
    BY <1>1
  <1>9. CASE Idle
    BY <1>9, <1>1, <1>2 DEF Idle, StartWidths
  <1>10. CASE ReadRegister
    BY <1>10, <1>1, <1>4, <1>5, <1>6 DEF ReadRegister, StartWidths
  <1>11. CASE WriteRegister
    BY <1>11, <1>1, <1>4, <1>5 DEF WriteRegister, StartWidths
  <1>12. CASE ReadBuffer \/ WriteBuffer(in) \/ AccessDelay
    BY <1>12, <1>1 DEF ReadBuffer, WriteBuffer, AccessDelay, startVars, StartWidths
  <1>13. CASE Fill
    BY <1>13, <1>1, <1>7
       DEF Fill, FilledForRead, FilledForWrite, Filling, StartWidths
  <1>14. CASE WriteBack
    BY <1>14, <1>1, <1>7 DEF WriteBack, StartWidths
  <1>. QED
    BY <1>9, <1>10, <1>11, <1>12, <1>13, <1>14 DEF CommandStep

(* The FSM's state and counters, the line buffer, the write-back buffer    *)
(* and the answer on the Avalon port.                                      *)
LineWidths ==
    /\ state \in CommandState
    /\ row \in Bit
    /\ acc_counter \in Delays
    /\ buffer \in Lines
    /\ tag \in Tags
    /\ inbuffer_valid \in Bit
    /\ buffer_wrmem \in HalfLines
    /\ resp \in Answers

(* What the FSM loads into them has their widths.                          *)
LEMMA LoadedWidths ==
    ASSUME TypeOK, NEW word \in Word
    PROVE  /\ TagOf(captured.s0) \in Tags
           /\ BufferAfterWrite(word) \in Lines
           /\ ShiftIn(word) \in Lines
           /\ Halves(buffer) \in HalfLines /\ NoLine \in HalfLines
           /\ \A slot : (IF slot \in Slots THEN buffer[slot] ELSE ZeroWord) \in Word
  <1>. USE SharedSets
  <1>1. captured.s0 \in WordAddress /\ buffer \in [Slots -> Word]
    BY DEF TypeOK, Captured, Lines
  <1>2. TagOf(captured.s0) \in Tags
    BY <1>1, DecodedWidths
  <1>3. BufferAfterWrite(word) \in Lines
    BY <1>1 DEF BufferAfterWrite, Lines
  <1>4. ShiftIn(word) \in Lines
    <2>1. ASSUME NEW i \in Slots, i # 7 PROVE i + 1 \in Slots
      BY <2>1 DEF Slots
    <2>. QED BY <2>1, <1>1 DEF ShiftIn, Lines
  <1>5. Halves(buffer) \in HalfLines
    <2>1. ASSUME NEW i \in 0 .. 15 PROVE buffer[i \div 2][1 + (i % 2)] \in Half
      <3>1. i \div 2 \in Slots
        BY DEF Slots
      <3>2. buffer[i \div 2] \in Half \X Half
        BY <1>1, <3>1 DEF Word
      <3>3. 1 + (i % 2) = 1 \/ 1 + (i % 2) = 2
        OBVIOUS
      <3>. QED BY <3>2, <3>3
    <2>. QED BY <2>1 DEF Halves, HalfLines
  <1>6. NoLine \in HalfLines
    BY DEF NoLine, HalfLines
  <1>. QED BY <1>1, <1>2, <1>3, <1>4, <1>5, <1>6

(* The line buffer, its tag and its flags stay within their widths.        *)
LEMMA LineWidthsKept ==
    ASSUME TypeOK, NEW in \in AnyInputs, CommandStep(in)
    PROVE  LineWidths'
  <1>. USE SharedSets
  <1>1. LineWidths
    BY DEF TypeOK, LineWidths
  <1>2. in.s0_writedata \in Word /\ rdmem.dataoutr \in Word
    BY InputWidths DEF TypeOK, RdMem!Registers
  <1>3. resp.data \in Word /\ resp.valid \in Bit
    BY DEF TypeOK, Answers
  <1>4. 8 \in Delays /\ (acc_counter # 0 => acc_counter - 1 \in Delays)
    BY <1>1 DEF LineWidths, Delays
  <1>5. CASE Idle
    <2>1. resp' \in Answers
      BY <1>5, <1>1, <1>3 DEF Idle, LineWidths, Answers
    <2>2. state' \in CommandState /\ row' \in Bit
      BY <1>5, <1>1 DEF Idle, Accept, NoCommand, LineWidths, CommandState
    <2>3. buffer_wrmem' \in HalfLines
      BY <1>5, <1>2, LoadedWidths DEF Idle
    <2>. QED
      BY <1>5, <1>1, <1>4, <2>1, <2>2, <2>3 DEF Idle, cacheVars, LineWidths
  <1>6. CASE ReadRegister \/ WriteRegister
    BY <1>6, <1>1
       DEF ReadRegister, WriteRegister, cacheVars, writeBackVars, LineWidths,
           CommandState
  <1>7. CASE ReadBuffer
    <2>1. resp' \in Answers
      BY <1>7, <1>2, LoadedWidths DEF ReadBuffer, Answers
    <2>. QED
      BY <1>7, <1>1, <2>1
         DEF ReadBuffer, cacheVars, writeBackVars, LineWidths, CommandState
  <1>8. CASE WriteBuffer(in)
    <2>1. BufferAfterWrite(in.s0_writedata) \in Lines
      BY <1>2, LoadedWidths
    <2>2. Halves(buffer) \in HalfLines
      BY <1>2, LoadedWidths
    <2>. QED
      BY <1>8, <1>1, <2>1, <2>2
         DEF WriteBuffer, writeBackVars, LineWidths, CommandState
  <1>9. CASE Fill
    <2>1. ShiftIn(rdmem.dataoutr) \in Lines /\ TagOf(captured.s0) \in Tags
      BY <1>2, LoadedWidths
    <2>. QED
      BY <1>9, <1>1, <2>1
         DEF Fill, FilledForRead, FilledForWrite, Filling, LineWidths,
             CommandState
  <1>10. CASE WriteBack
    <2>1. TagOf(captured.s0) \in Tags
      BY <1>2, LoadedWidths
    <2>. QED
      BY <1>10, <1>1, <2>1 DEF WriteBack, LineWidths, CommandState
  <1>11. CASE AccessDelay
    BY <1>11, <1>1, <1>4
       DEF AccessDelay, cacheVars, writeBackVars, LineWidths, CommandState
  <1>. QED
    BY <1>5, <1>6, <1>7, <1>8, <1>9, <1>10, <1>11 DEF CommandStep

(* One clock edge keeps every register within its width.                   *)
LEMMA ClockWidths ==
    ASSUME TypeOK, NEW in \in AnyInputs, Clock(in)
    PROVE  TypeOK'
  <1>1. /\ in.rwds_in \in Bit /\ in.dataout \in Half
        /\ stm_start[0] \in Bit /\ stm_start[2] \in Bit /\ stm_start[3] \in Bit
        /\ CA_sigr \in CommandAddress /\ inbuffer_valid \in Bit
    BY InputWidths DEF TypeOK, Engines
  <1>2. buffer_wrmem \in [0 .. 15 -> Half]
    BY DEF TypeOK, HalfLines
  <1>3. rdreg' \in RdReg!Registers
    BY <1>1, RdRegEffect DEF TypeOK, Clock
  <1>4. rdmem' \in RdMem!Registers
    BY <1>1, RdMemEffect DEF TypeOK, Clock
  <1>5. wrmem' \in WrMem!Registers
    BY <1>1, <1>2, WrMemEffect DEF TypeOK, Clock
  <1>6. pins' \in Pins
    BY PinWidths DEF Clock
  <1>7. /\ req' \in [Command -> Bit] /\ prev' \in [Command -> Bit]
        /\ captured' \in Captured
    BY SampledWidths DEF Clock
  <1>8. StartWidths' /\ LineWidths'
    BY StartWidthsKept, LineWidthsKept DEF Clock
  <1>. QED
    BY <1>3, <1>4, <1>5, <1>6, <1>7, <1>8
       DEF TypeOK, StartWidths, LineWidths

-----------------------------------------------------------------------------
(* The handshake.  IInv is inductive: the end bit answers a start only      *)
(* because a machine is back in IDLE with its end bit cleared before the    *)
(* FSM can return to the state that starts it.                              *)

IInv == TypeOK /\ Handshake

(* What a clock edge does to the start bit of machine k, served in state   *)
(* server: set or held while the end bit is down, cleared when it is up,    *)
(* untouched in every other state.                                         *)
StartEffect(k, server) ==
    \/ state = server /\ StmEnd(k) = 1 /\ state' # server /\ stm_start'[k] = 0
    \/ /\ state = server /\ StmEnd(k) = 0 /\ state' = server
       /\ stm_start[k] = 1 => stm_start'[k] = 1
    \/ state # server /\ stm_start'[k] = stm_start[k]

(* The command FSM's half of the handshake, in every one of its states.    *)
LEMMA CommandEffect ==
    ASSUME IInv, NEW in, CommandStep(in)
    PROVE  /\ StartEffect(0, "RDREG") /\ StartEffect(1, "WRREG")
           /\ StartEffect(2, "RDMEM2") /\ StartEffect(3, "WRMEM2")
           /\ stm_start'[2] = 1 => rd_tmp' = 1
           /\ stm_start'[3] = 1 => wr_tmp' = 1
  <1>1. /\ stm_start \in [Engines -> Bit]
        /\ 0 \in Engines /\ 1 \in Engines /\ 2 \in Engines /\ 3 \in Engines
        /\ rd_tmp \in Bit /\ wr_tmp \in Bit
    BY DEF IInv, TypeOK, Engines
  <1>2. /\ stm_start[0] = 1 => state = "RDREG"
        /\ stm_start[2] = 1 => state = "RDMEM2" /\ rd_tmp = 1
        /\ stm_start[3] = 1 => state = "WRMEM2" /\ wr_tmp = 1
    BY DEF IInv, Handshake, HandshakeOf
  <1>3. /\ StmEnd(0) = 0 \/ StmEnd(0) = 1
        /\ StmEnd(2) = 0 \/ StmEnd(2) = 1
        /\ StmEnd(3) = 0 \/ StmEnd(3) = 1
        /\ StmEnd(1) = 0
    BY <1>1, EndBit DEF IInv, Bit, StmEnd
  <1>. USE DEF StartEffect
  <1>4. CASE Idle
    BY <1>4, <1>1, <1>2 DEF Idle, Accept, NoCommand
  <1>5. CASE ReadRegister
    BY <1>5, <1>1, <1>2, <1>3 DEF ReadRegister, StartUntilEnd
  <1>6. CASE WriteRegister
    BY <1>6, <1>1, <1>2, <1>3 DEF WriteRegister, StartUntilEnd
  <1>7. CASE ReadBuffer \/ WriteBuffer(in) \/ AccessDelay
    BY <1>7, <1>1, <1>2 DEF ReadBuffer, WriteBuffer, AccessDelay, startVars
  <1>8. CASE Fill
    BY <1>8, <1>1, <1>2, <1>3 DEF Fill, FilledForRead, FilledForWrite, Filling
  <1>9. CASE WriteBack
    BY <1>9, <1>1, <1>2, <1>3 DEF WriteBack
  <1>. QED
    BY <1>4, <1>5, <1>6, <1>7, <1>8, <1>9 DEF CommandStep

(* The two halves, with the FSM's states as parameters.                    *)
InStep(stm, start, server, s) ==
    /\ start = 1 => s = server
    /\ stm.state \in {"CA", "RUN"} => start = 1 /\ stm.stm_end = 0
    /\ stm.state = "DONE" => start = 1 /\ stm.stm_end = 1
    /\ stm.state = "IDLE" /\ stm.stm_end = 1 => s # server

StartMove(end, start, startNext, s, sNext, server) ==
    \/ s = server /\ end = 1 /\ sNext # server /\ startNext = 0
    \/ s = server /\ end = 0 /\ sNext = server /\ (start = 1 => startNext = 1)
    \/ s # server /\ startNext = start

(* Together they keep one machine and the FSM in step.                     *)
LEMMA InStepKept ==
    ASSUME NEW stm, NEW next, NEW start \in Bit, NEW startNext, NEW server,
           NEW s, NEW sNext,
           stm.stm_end \in Bit,
           InStep(stm, start, server, s),
           BurstEffect(stm, next, start),
           StartMove(stm.stm_end, start, startNext, s, sNext, server)
    PROVE  InStep(next, startNext, server, sNext)
  <1>. USE DEF InStep, StartMove
  <1>1. start = 0 \/ start = 1
    BY DEF Bit
  <1>2. stm.stm_end = 0 \/ stm.stm_end = 1
    BY DEF Bit
  <1>3. CASE s # server
    <2>1. start = 0 /\ startNext = 0 /\ stm.state = "IDLE"
      BY <1>1, <1>3 DEF BurstEffect
    <2>. QED BY <2>1 DEF BurstEffect
  <1>4. CASE s = server /\ stm.stm_end = 1
    BY <1>1, <1>4 DEF BurstEffect
  <1>5. CASE s = server /\ stm.stm_end = 0
    BY <1>1, <1>5 DEF BurstEffect
  <1>. QED BY <1>2, <1>3, <1>4, <1>5

(* One clock edge keeps the handshake.                                     *)
LEMMA ClockHandshake ==
    ASSUME IInv, NEW in \in AnyInputs, Clock(in)
    PROVE  Handshake'
  <1>. USE SharedSets
  <1>1. /\ in.rwds_in \in Bit /\ in.dataout \in Half
        /\ stm_start[0] \in Bit /\ stm_start[2] \in Bit /\ stm_start[3] \in Bit
        /\ CA_sigr \in CommandAddress /\ inbuffer_valid \in Bit
    BY InputWidths DEF IInv, TypeOK, Engines
  <1>2. buffer_wrmem \in [0 .. 15 -> Half]
    BY DEF IInv, TypeOK, HalfLines
  <1>3. /\ StartEffect(0, "RDREG") /\ StartEffect(1, "WRREG")
        /\ StartEffect(2, "RDMEM2") /\ StartEffect(3, "WRMEM2")
        /\ stm_start'[2] = 1 => rd_tmp' = 1
        /\ stm_start'[3] = 1 => wr_tmp' = 1
    BY CommandEffect DEF Clock
  <1>4. HandshakeOf(rdreg, stm_start[0], "RDREG")'
    <2>1. BurstEffect(rdreg, rdreg', stm_start[0])
      BY <1>1, RdRegEffect DEF IInv, TypeOK, Clock
    <2>2. rdreg.stm_end \in Bit
      BY DEF IInv, TypeOK, RdReg!Registers
    <2>3. StartMove(rdreg.stm_end, stm_start[0], stm_start'[0], state, state',
                    "RDREG")
      BY <1>3 DEF StartEffect, StmEnd, StartMove
    <2>4. InStep(rdreg, stm_start[0], "RDREG", state)
      BY DEF IInv, Handshake, HandshakeOf, InStep
    <2>5. InStep(rdreg', stm_start'[0], "RDREG", state')
      BY <1>1, <2>1, <2>2, <2>3, <2>4, InStepKept
    <2>. QED BY <2>5 DEF HandshakeOf, InStep
  <1>5. HandshakeOf(rdmem, stm_start[2], "RDMEM2")'
    <2>1. BurstEffect(rdmem, rdmem', stm_start[2])
      BY <1>1, RdMemEffect DEF IInv, TypeOK, Clock
    <2>2. rdmem.stm_end \in Bit
      BY DEF IInv, TypeOK, RdMem!Registers
    <2>3. StartMove(rdmem.stm_end, stm_start[2], stm_start'[2], state, state',
                    "RDMEM2")
      BY <1>3 DEF StartEffect, StmEnd, StartMove
    <2>4. InStep(rdmem, stm_start[2], "RDMEM2", state)
      BY DEF IInv, Handshake, HandshakeOf, InStep
    <2>5. InStep(rdmem', stm_start'[2], "RDMEM2", state')
      BY <1>1, <2>1, <2>2, <2>3, <2>4, InStepKept
    <2>. QED BY <2>5 DEF HandshakeOf, InStep
  <1>6. HandshakeOf(wrmem, stm_start[3], "WRMEM2")'
    <2>1. BurstEffect(wrmem, wrmem', stm_start[3])
      BY <1>1, <1>2, WrMemEffect DEF IInv, TypeOK, Clock
    <2>2. wrmem.stm_end \in Bit
      BY DEF IInv, TypeOK, WrMem!Registers
    <2>3. StartMove(wrmem.stm_end, stm_start[3], stm_start'[3], state, state',
                    "WRMEM2")
      BY <1>3 DEF StartEffect, StmEnd, StartMove
    <2>4. InStep(wrmem, stm_start[3], "WRMEM2", state)
      BY DEF IInv, Handshake, HandshakeOf, InStep
    <2>5. InStep(wrmem', stm_start'[3], "WRMEM2", state')
      BY <1>1, <2>1, <2>2, <2>3, <2>4, InStepKept
    <2>. QED BY <2>5 DEF HandshakeOf, InStep
  <1>7. (stm_start[1] = 1 => state = "WRREG")'
    <2>1. StmEnd(1) = 0
      BY DEF StmEnd
    <2>2. stm_start[1] = 1 => state = "WRREG"
      BY DEF IInv, Handshake
    <2>. QED BY <1>3, <2>1, <2>2 DEF StartEffect
  <1>. QED
    BY <1>3, <1>4, <1>5, <1>6, <1>7 DEF Handshake

-----------------------------------------------------------------------------
(* The invariant of the specification.                                     *)

(* Address registers and tags can be 0, as they are after power-up.         *)
LEMMA ZeroIsInRange ==
    0 \in WordAddress /\ 0 \in RegisterAddress /\ 0 \in Row
  BY DEF WordAddress, LastWordAddress, RegisterAddress, Row

(* The registers' initial values satisfy the invariant.                    *)
LEMMA InitialInvariant == Init => IInv
  <1>. SUFFICES ASSUME Init PROVE IInv
    OBVIOUS
  <1>. USE SharedSets, ZeroIsInRange
  <1>. PICK level \in Bit :
         /\ pins = PinsAtPowerUp(level)
         /\ rdreg = RdReg!PowerUp(level)
         /\ rdmem = RdMem!PowerUp(level)
         /\ wrmem = WrMem!PowerUp(level)
    BY DEF Init
  <1>1. StartWidths /\ LineWidths
    BY DEF Init, StartWidths, LineWidths, ZeroCa, CommandAddress, CommandState,
           Delays, Lines, Tags, NoLine, HalfLines, Answers
  <1>2. /\ req \in [Command -> Bit] /\ prev \in [Command -> Bit]
        /\ captured \in Captured
    BY DEF Init, Low, Captured
  <1>3. pins \in Pins
    BY DEF PinsAtPowerUp, Pins
  <1>4. /\ rdreg \in RdReg!Registers
        /\ rdmem \in RdMem!Registers
        /\ wrmem \in WrMem!Registers
    BY DEF RdReg!PowerUp, RdReg!Registers, RdMem!PowerUp, RdMem!Registers,
           RdMem!ZeroWord, ZeroWord, WrMem!PowerUp, WrMem!Registers
  <1>5. Handshake
    BY DEF Init, Handshake, HandshakeOf, RdReg!PowerUp, RdMem!PowerUp,
           WrMem!PowerUp, Engines
  <1>. QED
    BY <1>1, <1>2, <1>3, <1>4, <1>5
       DEF IInv, TypeOK, StartWidths, LineWidths

(* Reset returns to the state Init describes with csn high, except that    *)
(* dataoutr and the data part of wrmem_stm's shift register are kept.       *)
LEMMA ResetInvariant == IInv /\ Reset => IInv'
  <1>. SUFFICES ASSUME IInv, Reset PROVE IInv'
    OBVIOUS
  <1>. USE SharedSets, ZeroIsInRange
  <1>1. StartWidths' /\ LineWidths'
    BY DEF Reset, StartWidths, LineWidths, ZeroCa, CommandAddress,
           CommandState, Delays, Lines, Tags, NoLine, HalfLines, Answers
  <1>2. /\ req' \in [Command -> Bit] /\ prev' \in [Command -> Bit]
        /\ captured' \in Captured
    BY DEF Reset, Low, Captured
  <1>3. pins' \in Pins
    BY DEF Reset, PinsAtPowerUp, Pins
  <1>4. rdreg' \in RdReg!Registers /\ rdreg'.state = "IDLE" /\ rdreg'.stm_end = 0
    <2>1. rdreg' = [state |-> "IDLE", counter |-> 0, stm_end |-> 0, oe |-> 0,
                    oe_clk |-> 0, csn |-> 1, valid |-> 0,
                    buffer_out |-> [i \in 0 .. 2 |-> 0],
                    dataoutr |-> rdreg.dataoutr]
      BY DEF Reset, RdReg!Reset, RdReg!PowerUp
    <2>2. rdreg.dataoutr \in Half
      BY DEF IInv, TypeOK, RdReg!Registers
    <2>. QED BY <2>1, <2>2 DEF RdReg!Registers
  <1>5. rdmem' \in RdMem!Registers /\ rdmem'.state = "IDLE" /\ rdmem'.stm_end = 0
    <2>1. rdmem' = [state |-> "IDLE", counter |-> 0, stm_end |-> 0, oe |-> 0,
                    oe_clk |-> 0, csn |-> 1,
                    buffer_out |-> [i \in 0 .. 2 |-> 0],
                    dataoutr |-> rdmem.dataoutr, inner_counter |-> 0,
                    wordvalid |-> 0]
      BY DEF Reset, RdMem!Reset, RdMem!PowerUp
    <2>2. rdmem.dataoutr \in Word
      BY DEF IInv, TypeOK, RdMem!Registers
    <2>. QED BY <2>1, <2>2 DEF RdMem!Registers
  <1>6. wrmem' \in WrMem!Registers /\ wrmem'.state = "IDLE" /\ wrmem'.stm_end = 0
    <2>. DEFINE kept == [i \in 0 .. 18 |->
                            IF i < 3 THEN 0 ELSE wrmem.buffer_out[i]]
    <2>1. wrmem.buffer_out \in [0 .. 18 -> Half]
      BY DEF IInv, TypeOK, WrMem!Registers
    <2>2. kept \in [0 .. 18 -> Half]
      BY <2>1
    <2>3. wrmem' = [state |-> "IDLE", counter |-> 0, stm_end |-> 0, oe |-> 0,
                    oe_clk |-> 0, csn |-> 1, rwds_out |-> 0, rwds_oe |-> 0,
                    buffer_out |-> kept]
      BY DEF Reset, WrMem!Reset, WrMem!PowerUp
    <2>. HIDE DEF kept
    <2>. QED BY <2>2, <2>3 DEF WrMem!Registers
  <1>7. Handshake'
    BY <1>4, <1>5, <1>6 DEF Reset, Handshake, HandshakeOf, Engines
  <1>. QED
    BY <1>1, <1>2, <1>3, <1>4, <1>5, <1>6, <1>7
       DEF IInv, TypeOK, StartWidths, LineWidths

(* An edge keeps the invariant whatever is on the wires.                   *)
LEMMA ClockInvariant ==
    ASSUME IInv, NEW in \in AnyInputs, Clock(in)
    PROVE  IInv'
  BY ClockWidths, ClockHandshake DEF IInv

(* Every step of the controller, a reset or a clock edge, keeps it.        *)
LEMMA StepInvariant == IInv /\ [Next]_vars => IInv'
  <1>. SUFFICES ASSUME IInv, [Next]_vars PROVE IInv'
    OBVIOUS
  <1>1. CASE Reset
    BY <1>1, ResetInvariant
  <1>2. ASSUME NEW in \in Inputs, Clock(in) PROVE IInv'
    BY <1>2, ClockInvariant, InputsAreWires
  <1>3. CASE UNCHANGED vars
    BY <1>3
       DEF vars, inputVars, startVars, cacheVars, writeBackVars, burstVars,
           IInv, TypeOK, Handshake, HandshakeOf
  <1>. QED BY <1>1, <1>2, <1>3 DEF Next

(* Every reachable state satisfies the inductive invariant: registers keep *)
(* their widths and the FSM and its machines stay in step.                 *)
THEOREM InvariantHolds == Spec => []IInv
  BY InitialInvariant, StepInvariant, PTL DEF Spec

(* No register of the controller ever leaves its width (in particular the  *)
(* recovery count does not pass below zero).                               *)
THEOREM WidthsKept == Spec => []TypeOK
  <1>1. IInv => TypeOK
    BY DEF IInv
  <1>. QED BY <1>1, InvariantHolds, PTL

(* The start/end handshake of the command FSM with the burst machines.     *)
THEOREM HandshakeHolds == Spec => []Handshake
  <1>1. IInv => Handshake
    BY DEF IInv
  <1>. QED BY <1>1, InvariantHolds, PTL

(* In the invariant, a machine that is not in IDLE is the one whose start  *)
(* bit is set, and start bits are set in different states of the FSM.      *)
LEMMA OwnerIsServed == IInv => OneBusOwner
  <1>. SUFFICES ASSUME IInv PROVE OneBusOwner
    OBVIOUS
  <1>1. /\ rdreg.state \in FsmState /\ rdmem.state \in FsmState
        /\ wrmem.state \in FsmState
    BY SharedSets
       DEF IInv, TypeOK, RdReg!Registers, RdMem!Registers, WrMem!Registers
  <1>2. /\ rdreg.state # "IDLE" => stm_start[0] = 1 /\ state = "RDREG"
        /\ rdmem.state # "IDLE" => stm_start[2] = 1 /\ state = "RDMEM2"
        /\ wrmem.state # "IDLE" => stm_start[3] = 1 /\ state = "WRMEM2"
    BY <1>1 DEF IInv, Handshake, HandshakeOf, FsmState
  <1>. QED BY <1>2 DEF OneBusOwner

(* The bus has one owner: never are two machines away from IDLE, and one   *)
(* that is has its start bit set.                                          *)
THEOREM BusHasOneOwner == Spec => []OneBusOwner
  BY OwnerIsServed, InvariantHolds, PTL

\* The machine a command waits for is in DONE when the command ends.
Awaits ==
    /\ state = "RDREG" /\ state' # state => rdreg.state = "DONE"
    /\ state = "RDMEM2" /\ state' # state => rdmem.state = "DONE"
    /\ state = "WRMEM2" /\ state' # state => wrmem.state = "DONE"

(* An edge ends a bus command only with the burst of the command.          *)
LEMMA ClockAwaits ==
    ASSUME IInv, NEW in \in AnyInputs, Clock(in)
    PROVE  Awaits
  <1>1. /\ rdreg.state \in FsmState /\ rdmem.state \in FsmState
        /\ wrmem.state \in FsmState
    BY SharedSets
       DEF IInv, TypeOK, RdReg!Registers, RdMem!Registers, WrMem!Registers
  <1>2. /\ HandshakeOf(rdreg, stm_start[0], "RDREG")
        /\ HandshakeOf(rdmem, stm_start[2], "RDMEM2")
        /\ HandshakeOf(wrmem, stm_start[3], "WRMEM2")
    BY DEF IInv, Handshake
  <1>3. /\ StartEffect(0, "RDREG") /\ StartEffect(2, "RDMEM2")
        /\ StartEffect(3, "WRMEM2")
    BY CommandEffect DEF Clock
  <1>. QED BY <1>1, <1>2, <1>3 DEF Awaits, HandshakeOf, StartEffect, StmEnd, FsmState

(* The FSM leaves a bus command only while the machine it serves is in     *)
(* DONE, unless the whole controller is reset.                             *)
THEOREM CommandsEndWithTheirBurst == Spec => CommandsAwaitTheirBurst
  <1>1. IInv /\ [Next]_vars => [~Reset => Awaits]_vars
    <2>. SUFFICES ASSUME IInv, NEW in \in Inputs, Clock(in) PROVE Awaits
      BY DEF Next
    <2>. QED BY ClockAwaits, InputsAreWires
  <1>2. CommandsAwaitTheirBurst <=> [][~Reset => Awaits]_vars
    BY DEF CommandsAwaitTheirBurst, Awaits
  <1>. QED BY <1>1, <1>2, InvariantHolds, PTL DEF Spec
=============================================================================
