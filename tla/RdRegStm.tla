------------------------------ MODULE RdRegStm ------------------------------
(***************************************************************************)
(* rdreg_stm: the burst machine that reads one HyperRAM register.  The     *)
(* variable holds its registers; an action is one positive clock edge in   *)
(* one branch of the case statement, its parameters the input wires.       *)
(***************************************************************************)
EXTENDS HyperBus

VARIABLE rdreg

INSTANCE CaPhase WITH stm <- rdreg, Last <- 2

SampleEarly == 13   \* mutant of SampleAt
SampleAt == 14      \* RUN count at which the register value is sampled

Registers ==
    [state : FsmState, counter : 0 .. 15, stm_end : Bit, oe : Bit,
     oe_clk : Bit, csn : Bit, valid : Bit, buffer_out : [0 .. 2 -> Half],
     dataoutr : Half]

\* Registers at power-up; csn is 1 when a reset preceded, 0 otherwise.
PowerUp(level) ==
    [state |-> "IDLE", counter |-> 0, stm_end |-> 0, oe |-> 0, oe_clk |-> 0,
     csn |-> level, valid |-> 0, buffer_out |-> [i \in 0 .. 2 |-> 0],
     dataoutr |-> 0]

Reset == rdreg' = [PowerUp(1) EXCEPT !.dataoutr = rdreg.dataoutr]

Loaded(casig) ==
    [rdreg EXCEPT !.counter = 0, !.stm_end = 0, !.csn = 1, !.valid = 0,
                  !.buffer_out = CaHalves(casig)]

Rest(stm_start, casig) ==
    /\ rdreg.state = "IDLE"
    /\ stm_start = 0
    /\ rdreg' = Loaded(casig)

Start(stm_start, casig) ==
    /\ rdreg.state = "IDLE"
    /\ stm_start = 1
    /\ rdreg' = [Loaded(casig) EXCEPT !.state = "CA", !.csn = 0]

SendCa(rwds_in) ==
    AwaitRwds(rwds_in) \/ DriveCa(rwds_in) \/ ShiftCa \/ CaSent

Latency ==
    /\ rdreg.state = "RUN"
    /\ rdreg.counter # SampleAt
    /\ rdreg' = [rdreg EXCEPT !.counter = (@ + 1) % 16]

\* The increment after the if is not in an else: the counter goes on to 15.
Sample(dataout) ==
    /\ rdreg.state = "RUN"
    /\ rdreg.counter = SampleAt
    /\ rdreg' = [rdreg EXCEPT !.state = "DONE", !.stm_end = 1,
                              !.counter = @ + 1, !.csn = 1,
                              !.dataoutr = dataout, !.valid = 1]

Finish ==
    /\ rdreg.state = "DONE"
    /\ rdreg' = [rdreg EXCEPT !.state = "IDLE", !.oe_clk = 0, !.valid = 0]

Step(stm_start, casig, rwds_in, dataout) ==
    \/ Rest(stm_start, casig)
    \/ Start(stm_start, casig)
    \/ SendCa(rwds_in)
    \/ Latency
    \/ Sample(dataout)
    \/ Finish
=============================================================================
