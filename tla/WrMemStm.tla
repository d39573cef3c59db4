------------------------------ MODULE WrMemStm ------------------------------
(***************************************************************************)
(* wrmem_stm: the burst machine that writes the sixteen halves of a line.  *)
(* Command/address and data share one shift register of nineteen halves;   *)
(* the data part is loaded only while valid is high.                       *)
(***************************************************************************)
EXTENDS HyperBus

VARIABLE wrmem

INSTANCE CaPhase WITH stm <- wrmem, Last <- 18

HalfEarly == 12     \* mutant of FirstHalf
OnePulseShort == 28 \* mutant of BurstEnd
FirstHalf == 13     \* RUN count that sends the first half
BurstEnd == 29      \* RUN count that ends the burst

Registers ==
    [state : FsmState, counter : 0 .. 31, stm_end : Bit, oe : Bit,
     oe_clk : Bit, csn : Bit, rwds_out : Bit, rwds_oe : Bit,
     buffer_out : [0 .. 18 -> Half]]

PowerUp(level) ==
    [state |-> "IDLE", counter |-> 0, stm_end |-> 0, oe |-> 0, oe_clk |-> 0,
     csn |-> level, rwds_out |-> 0, rwds_oe |-> 0,
     buffer_out |-> [i \in 0 .. 18 |-> 0]]

\* Only the command/address halves are cleared.
Reset ==
    wrmem' = [PowerUp(1) EXCEPT !.buffer_out =
                 [i \in 0 .. 18 |-> IF i < 3 THEN 0 ELSE wrmem.buffer_out[i]]]

Loaded(casig, databuffer, valid) ==
    [wrmem EXCEPT !.counter = 0, !.stm_end = 0, !.csn = 1,
       !.buffer_out = [i \in 0 .. 18 |->
           IF i < 3 THEN casig[i + 1]
           ELSE IF valid = 1 THEN databuffer[i - 3] ELSE @[i]]]

Rest(stm_start, casig, databuffer, valid) ==
    /\ wrmem.state = "IDLE"
    /\ stm_start = 0
    /\ wrmem' = Loaded(casig, databuffer, valid)

Start(stm_start, casig, databuffer, valid) ==
    /\ wrmem.state = "IDLE"
    /\ stm_start = 1
    /\ wrmem' = [Loaded(casig, databuffer, valid) EXCEPT !.state = "CA",
                                                         !.csn = 0]

\* Sets oe again while it shifts; otherwise the common branch.
ShiftCaAndData ==
    /\ InCa(Shifting)
    /\ wrmem' = [wrmem EXCEPT !.counter = @ + 1, !.oe = 1, !.oe_clk = 1,
                              !.buffer_out = ShiftOut(@, 18)]

SendCa(rwds_in) ==
    AwaitRwds(rwds_in) \/ DriveCa(rwds_in) \/ ShiftCaAndData \/ CaSent

Latency ==
    /\ wrmem.state = "RUN"
    /\ wrmem.counter < FirstHalf
    /\ wrmem' = [wrmem EXCEPT !.counter = @ + 1]

SendHalf ==
    /\ wrmem.state = "RUN"
    /\ wrmem.counter >= FirstHalf
    /\ wrmem.counter # BurstEnd
    /\ wrmem' = [wrmem EXCEPT !.counter = (@ + 1) % 32, !.oe = 1, !.oe_clk = 1,
                              !.rwds_out = 0, !.rwds_oe = 1,
                              !.buffer_out = ShiftOut(@, 18)]

\* Mutant of EndBurst: the command FSM is not told.
EndSilently ==
    /\ wrmem.state = "RUN"
    /\ wrmem.counter = BurstEnd
    /\ wrmem' = [wrmem EXCEPT !.state = "DONE", !.counter = 0, !.csn = 1]

EndBurst ==
    /\ wrmem.state = "RUN"
    /\ wrmem.counter = BurstEnd
    /\ wrmem' = [wrmem EXCEPT !.state = "DONE", !.counter = 0, !.stm_end = 1,
                              !.csn = 1, !.oe = 0, !.oe_clk = 0, !.rwds_oe = 0]

Finish ==
    /\ wrmem.state = "DONE"
    /\ wrmem' = [wrmem EXCEPT !.state = "IDLE", !.oe_clk = 0]

Step(stm_start, casig, rwds_in, databuffer, valid) ==
    \/ Rest(stm_start, casig, databuffer, valid)
    \/ Start(stm_start, casig, databuffer, valid)
    \/ SendCa(rwds_in)
    \/ Latency
    \/ SendHalf
    \/ EndBurst
    \/ Finish
=============================================================================
