------------------------------ MODULE RdMemStm ------------------------------
(***************************************************************************)
(* rdmem_stm: the burst machine that reads sixteen halves from memory and  *)
(* hands them to the line buffer as eight 32-bit words, one wordvalid      *)
(* pulse each.                                                             *)
(***************************************************************************)
EXTENDS HyperBus

VARIABLE rdmem

INSTANCE CaPhase WITH stm <- rdmem, Last <- 2

FirstHalf == 16     \* RUN count of the first half sampled
BurstEnd == 32      \* RUN count that ends the burst

Registers ==
    [state : FsmState, counter : 0 .. 63, stm_end : Bit, oe : Bit,
     oe_clk : Bit, csn : Bit, buffer_out : [0 .. 2 -> Half],
     dataoutr : Word, inner_counter : Bit, wordvalid : Bit]

PowerUp(level) ==
    [state |-> "IDLE", counter |-> 0, stm_end |-> 0, oe |-> 0, oe_clk |-> 0,
     csn |-> level, buffer_out |-> [i \in 0 .. 2 |-> 0],
     dataoutr |-> ZeroWord, inner_counter |-> 0, wordvalid |-> 0]

Reset == rdmem' = [PowerUp(1) EXCEPT !.dataoutr = rdmem.dataoutr]

\* Mutant of Loaded: the end bit of the last burst is kept.
LoadedWithStaleEnd(casig) ==
    [rdmem EXCEPT !.counter = 0, !.csn = 1, !.wordvalid = 0,
                  !.buffer_out = CaHalves(casig)]

Loaded(casig) ==
    [rdmem EXCEPT !.counter = 0, !.stm_end = 0, !.csn = 1, !.wordvalid = 0,
                  !.buffer_out = CaHalves(casig)]

Rest(stm_start, casig) ==
    /\ rdmem.state = "IDLE"
    /\ stm_start = 0
    /\ rdmem' = Loaded(casig)

Start(stm_start, casig) ==
    /\ rdmem.state = "IDLE"
    /\ stm_start = 1
    /\ rdmem' = [Loaded(casig) EXCEPT !.state = "CA", !.csn = 0]

SendCa(rwds_in) ==
    AwaitRwds(rwds_in) \/ DriveCa(rwds_in) \/ ShiftCa \/ CaSent

Latency ==
    /\ rdmem.state = "RUN"
    /\ rdmem.counter < FirstHalf
    /\ rdmem' = [rdmem EXCEPT !.counter = @ + 1]

Sampling ==
    /\ rdmem.state = "RUN"
    /\ rdmem.counter >= FirstHalf
    /\ rdmem.counter # BurstEnd

SampleUpper(dataout) ==
    /\ Sampling
    /\ rdmem.inner_counter = 0
    /\ rdmem' = [rdmem EXCEPT !.dataoutr = <<@[1], dataout>>,
                              !.inner_counter = 1, !.wordvalid = 0,
                              !.counter = (@ + 1) % 64]

SampleLower(dataout) ==
    /\ Sampling
    /\ rdmem.inner_counter = 1
    /\ rdmem' = [rdmem EXCEPT !.dataoutr = <<@[2], dataout>>,
                              !.inner_counter = 0, !.wordvalid = 1,
                              !.counter = (@ + 1) % 64]

\* Mutant of EndBurst: the command FSM is not told.
EndSilently ==
    /\ rdmem.state = "RUN"
    /\ rdmem.counter = BurstEnd
    /\ rdmem' = [rdmem EXCEPT !.state = "DONE", !.counter = 0, !.csn = 1]

EndBurst ==
    /\ rdmem.state = "RUN"
    /\ rdmem.counter = BurstEnd
    /\ rdmem' = [rdmem EXCEPT !.state = "DONE", !.stm_end = 1,
                              !.counter = 0, !.csn = 1, !.wordvalid = 0]

Finish ==
    /\ rdmem.state = "DONE"
    /\ rdmem' = [rdmem EXCEPT !.state = "IDLE", !.oe_clk = 0,
                              !.wordvalid = 0]

Step(stm_start, casig, rwds_in, dataout) ==
    \/ Rest(stm_start, casig)
    \/ Start(stm_start, casig)
    \/ SendCa(rwds_in)
    \/ Latency
    \/ SampleUpper(dataout)
    \/ SampleLower(dataout)
    \/ EndBurst
    \/ Finish
=============================================================================
