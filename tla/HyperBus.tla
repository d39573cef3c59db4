------------------------------ MODULE HyperBus ------------------------------
(***************************************************************************)
(* The data the controller moves: bits, 16-bit halves (two DDR bytes of    *)
(* the dq pins), 32-bit words as <<[31:16], [15:0]>>, command/addresses,   *)
(* and the shift register every burst machine sends its halves from.       *)
(***************************************************************************)
EXTENDS Naturals

Bit == {0, 1}
Half == {n \in Nat : n <= 65535}
Word == Half \X Half
ZeroWord == <<0, 0>>

\* A command/address: the halves [47:32], [31:16], [15:0].
CommandAddress == Half \X Half \X Half
ZeroCa == <<0, 0, 0>>

\* fsm_state_e of the burst machines.
FsmState == {"IDLE", "CA", "RUN", "DONE"}

\* buffer_out[0 .. last] moved down by one half, a zero shifted in at the end.
ShiftOut(buffer_out, last) ==
    [i \in 0 .. last |-> IF i = last THEN 0 ELSE buffer_out[i + 1]]

\* Mutant of CaHalves: last half first.
CaHalvesReversed(casig) == [i \in 0 .. 2 |-> casig[3 - i]]

\* buffer_out[0..2] loaded from a command/address.
CaHalves(casig) == [i \in 0 .. 2 |-> casig[i + 1]]
=============================================================================
