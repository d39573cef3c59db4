----------------------------- MODULE HyperSystem -----------------------------
(***************************************************************************)
(* The controller between an Avalon master, the I/O cells and a HyperRAM   *)
(* device.                                                                 *)
(*                                                                         *)
(* The master is what the slave translator of the interconnect presents:   *)
(* no waitrequest, a read strobe of two cycles, a write strobe of one; it  *)
(* leaves address and data on the wires until it issues again.             *)
(* The I/O cells register dq once on its way out and once on its way in.   *)
(* The device counts the clock pulses of a transaction: pulses 0 to 2      *)
(* carry the command/address, then comes the latency, then the data of a   *)
(* 16-half wrapped burst.                                                  *)
(***************************************************************************)
EXTENDS HyperController, FiniteSets

CONSTANTS
    Operations,     \* commands the master issues: subset of Command
    Courteous,      \* the master issues only while the controller is at rest
    MaxPending      \* reads it leaves unanswered at a time

ASSUME SystemConstants ==
    /\ Operations \subseteq Command
    /\ Courteous \in BOOLEAN
    /\ MaxPending \in Nat \ {0}

VARIABLES
    master,     \* the strobe on the wires, what was last issued, reads unanswered
    dq_out,     \* output register of the dq cells
    dataout,    \* input register of the dq cells
    ram         \* the device: pulses counted, command/address, memory

sysVars == <<vars, master, dq_out, dataout, ram>>

Floating == 65535        \* what an undriven dq reads as
FirstData == 17             \* pulse of the first half in memory space
FirstRegister == 15         \* pulse from which a register value is read

NoCommandYet == [cmd |-> "none", address |-> 0, word |-> ZeroWord]

\* One memory line per column the addresses decode to, every half its own.
Columns == {OutAddr(a, 0)[2] : a \in Addresses}
Contents(column) == [i \in 0 .. 15 |-> (1000 + 16 * column + i) % 65536]
RegisterValue(ca) == (500 + ca[2] + ca[3]) % 65536

SysInit ==
    /\ Init
    /\ master = [cmd |-> "none", left |-> 0, address |-> 0, word |-> ZeroWord,
                 pending |-> 0, issued |-> NoCommandYet]
    /\ dq_out = 0
    /\ dataout = 0
    /\ ram = [pulses |-> 0, ca |-> ZeroCa,
              mem |-> [c \in Columns |-> Contents(c)]]

-----------------------------------------------------------------------------
(* The Avalon master.                                                      *)

IsRead(c) == c \in {"regr", "memr"}
AtRest == state = "IDLE" /\ req = Low
Answered == resp.valid + rdreg.valid

MayIssue(c) ==
    /\ master.cmd = "none"
    /\ master.pending < MaxPending
    /\ Courteous => AtRest

Issue(c, a, w) ==
    /\ MayIssue(c)
    /\ master' = [cmd |-> c, left |-> IF IsRead(c) THEN 2 ELSE 1,
                  address |-> a, word |-> w,
                  pending |-> master.pending - Answered
                              + (IF IsRead(c) THEN 1 ELSE 0),
                  issued |-> [cmd |-> c, address |-> a, word |-> w]]

Hold ==
    /\ master.left = 2
    /\ master' = [master EXCEPT !.left = 1, !.pending = @ - Answered]

Release ==
    /\ master.left = 1
    /\ master' = [master EXCEPT !.cmd = "none", !.left = 0, !.pending = @ - Answered]

Pause ==
    /\ master.cmd = "none"
    /\ master' = [master EXCEPT !.pending = @ - Answered]

AddressesOf(c) == IF c \in {"memr", "memw"} THEN Addresses ELSE CsrAddresses
WordsOf(c) == IF c = "memw" THEN WriteWords ELSE {ZeroWord}

MasterStep ==
    \/ \E c \in Operations : \E a \in AddressesOf(c), w \in WordsOf(c) : Issue(c, a, w)
    \/ Hold
    \/ Release
    \/ Pause

-----------------------------------------------------------------------------
(* The device and the I/O cells.                                           *)

Pulse == pins.csn = 0 /\ pins.oe_clk = 1
DqOnPad == IF pins.oe_data = 1 THEN dq_out ELSE Floating
ReadCa(ca) == ca[1] >= 32768
RegisterCa(ca) == ca[1] >= 49152

\* What the device drives during this cycle.
DeviceData ==
    IF ~Pulse \/ ~ReadCa(ram.ca) THEN Floating
    ELSE IF RegisterCa(ram.ca)
    THEN IF ram.pulses >= FirstRegister THEN RegisterValue(ram.ca) ELSE Floating
    ELSE IF ram.pulses >= FirstData /\ ram.ca[2] \in Columns
    THEN ram.mem[ram.ca[2]][(ram.pulses - FirstData) % 16]
    ELSE Floating

Stores ==
    /\ Pulse /\ ram.pulses >= FirstData
    /\ ~ReadCa(ram.ca) /\ ram.ca[2] \in Columns
    /\ pins.rwds_oe = 1 => pins.rwds_out = 0

DeviceStep ==
    ram' =
        [pulses |-> IF pins.csn = 1 THEN 0
                    ELSE IF Pulse THEN ram.pulses + 1 ELSE ram.pulses,
         ca |-> IF Pulse /\ ram.pulses < 3
                THEN [ram.ca EXCEPT ![ram.pulses + 1] = DqOnPad] ELSE ram.ca,
         mem |-> IF Stores
                 THEN [ram.mem EXCEPT
                          ![ram.ca[2]][(ram.pulses - FirstData) % 16] = DqOnPad]
                 ELSE ram.mem]

CellStep ==
    /\ dq_out' = pins.datain
    /\ dataout' = DeviceData

-----------------------------------------------------------------------------
\* The inputs of the edge, from the wires of this cycle. A slave sees as many
\* bits of the address as it has.
Wires(rwds) ==
    [strobes |-> {master.cmd} \cap Command, s0_address |-> master.address,
     csr_address |-> master.address % 1024, s0_writedata |-> master.word,
     rwds_in |-> rwds, dataout |-> dataout]

Tick(rwds) ==
    /\ Clock(Wires(rwds))
    /\ MasterStep
    /\ DeviceStep
    /\ CellStep

SysNext == \E rwds \in Bit : Tick(rwds)

SysSpec == SysInit /\ [][SysNext]_sysVars

\* The clock does not stop, and RWDS, which the device raises after CS# has
\* fallen, is not low for ever.
Fairness == WF_sysVars(Tick(1))
FairSpec == SysSpec /\ Fairness
-----------------------------------------------------------------------------
(* During the data pulses of a write-back the pins carry the line, half by *)
(* half, unmasked, and at no other pulse does the controller drive RWDS    *)
(* (wrmem_stm, the pin registers and the dq cells together).               *)
WriteBackOnPins ==
    Pulse =>
        /\ pins.rwds_oe = 1 <=>
               state = "WRMEM2" /\ ram.pulses \in FirstData .. FirstData + 15
        /\ pins.rwds_oe = 1 => /\ pins.rwds_out = 0
                               /\ DqOnPad = buffer_wrmem[ram.pulses - FirstData]

(* The controller's dq drivers are off while the device answers a read     *)
(* that is being sampled (oe of rdreg_stm and rdmem_stm).                  *)
NoContentionOnReads ==
    state \in {"RDREG", "RDMEM2"} /\ DeviceData # Floating => pins.oe_data = 0
=============================================================================
