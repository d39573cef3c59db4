------------------------------ MODULE CaPhase -------------------------------
(***************************************************************************)
(* STATE_CA, the branch the three burst machines have in common: wait for  *)
(* RWDS, drive the first half of the command/address, clock the three      *)
(* halves out, release dq.                                                 *)
(***************************************************************************)
EXTENDS HyperBus

CONSTANT Last       \* index of the last half of the machine's buffer_out
VARIABLE stm        \* the machine's registers

InCa(counters) == stm.state = "CA" /\ stm.counter \in counters

\* Counts the machine clocks a half out at.
Shifting == 1 .. 3

\* Held until the device raises RWDS.
AwaitRwds(rwds_in) ==
    /\ stm.state = "CA"
    /\ stm.counter \notin Shifting \cup {4}
    /\ rwds_in = 0
    /\ UNCHANGED stm

DriveCa(rwds_in) ==
    /\ stm.state = "CA"
    /\ stm.counter \notin Shifting \cup {4}
    /\ rwds_in = 1
    /\ stm' = [stm EXCEPT !.oe = 1, !.oe_clk = 0, !.counter = 1]

ShiftCa ==
    /\ InCa(Shifting)
    /\ stm' = [stm EXCEPT !.counter = @ + 1, !.oe_clk = 1,
                          !.buffer_out = ShiftOut(@, Last)]

\* Mutant of CaSent: dq stays driven.
CaSentButDriven ==
    /\ InCa({4})
    /\ stm' = [stm EXCEPT !.state = "RUN", !.counter = 0]

CaSent ==
    /\ InCa({4})
    /\ stm' = [stm EXCEPT !.state = "RUN", !.counter = 0, !.oe = 0]
=============================================================================
