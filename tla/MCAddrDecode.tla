---------------------------- MODULE MCAddrDecode ----------------------------
(***************************************************************************)
(* Sweeps the decoder over the word addresses 0 .. LastAddress, one per    *)
(* state, against what a line tag has to identify.                         *)
(***************************************************************************)
EXTENDS AddrDecode

CONSTANT LastAddress    \* bound of the sweep

VARIABLE addr

Init == addr = 0
Next == addr < LastAddress /\ addr' = addr + 1
Spec == Init /\ [][Next]_addr

(* Two words the decoder gives one tag and one slot are one location of   *)
(* the device: the equality buffer_hit tests is then enough to answer a    *)
(* read from the buffer.  `wire buffer_hit; //buffer hit, else buffer miss` *)
TagIdentifiesLine ==
    \A b \in 0 .. addr :
        TagOf(b) = TagOf(addr) => OutAddr(b, 1) = OutAddr(addr, 1)
=============================================================================
