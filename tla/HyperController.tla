--------------------------- MODULE HyperController ---------------------------
(***************************************************************************)
(* hyperram_controller.sv: the command FSM between two Avalon slaves       *)
(* (csr: device registers, s0: memory) and one HyperBus.  It owns a line   *)
(* buffer of eight words, starts one of the burst machines per bus         *)
(* transaction and registers the selected machine's pins.                  *)
(*                                                                         *)
(* A step is one positive clock edge: every register gets the value the    *)
(* nonblocking assignments give it, all from the values before the edge.   *)
(* The inputs of the edge are arbitrary here; HyperSystem closes them.     *)
(***************************************************************************)
EXTENDS AddrDecode, HyperBus

CONSTANTS
    CompareTags,    \* TRUE: buffer_hit compares tags (the sys build)
                    \* FALSE: buffer_hit is tied to 0 (the IP sources)
    Strobes,        \* strobe combinations an edge may see: subset of SUBSET Command
    Addresses,      \* s0_address values
    CsrAddresses,   \* csr_address values
    WriteWords,     \* s0_writedata values
    ReadHalves      \* dataout values

Command == {"regr", "regw", "memr", "memw"}

\* csr_address[9:0].
RegisterAddress == {a \in Nat : a <= 1023}

ASSUME ConstantsType ==
    /\ CompareTags \in BOOLEAN
    /\ Strobes \subseteq SUBSET Command
    /\ Addresses \subseteq WordAddress
    /\ CsrAddresses \subseteq RegisterAddress
    /\ WriteWords \subseteq Word
    /\ ReadHalves \subseteq Half

VARIABLES
    state,              \* the command FSM
    req, prev,          \* regr, regw, memr, memw and prev_*: Command -> Bit
    captured,           \* captured_s0_address, captured_csr_address
    stm_start,          \* start bit of each burst machine
    CA_sigr,            \* command/address given to the burst machines
    rd_tmp, wr_tmp,     \* one-edge delays of stm_start[2] and stm_start[3]
    row,                \* 1: a read is being served, 0: a write
    acc_counter,        \* recovery count
    buffer, tag,        \* the line buffer and the tag of its line
    inbuffer_valid,     \* buffer_wrmem is to be loaded by wrmem_stm
    buffer_wrmem,       \* the line to write back, as sixteen halves
    resp,               \* s0_readdata, s0_readdatavalid
    pins,               \* registered HyperBus outputs
    rdreg, rdmem, wrmem \* the burst machines

cacheVars == <<buffer, tag>>
writeBackVars == <<inbuffer_valid, buffer_wrmem>>
startVars == <<stm_start, CA_sigr, rd_tmp, wr_tmp>>
inputVars == <<req, prev, captured>>
burstVars == <<rdreg, rdmem, wrmem>>
vars == <<state, inputVars, startVars, row, acc_counter, cacheVars,
          writeBackVars, resp, pins, burstVars>>

RdReg == INSTANCE RdRegStm
RdMem == INSTANCE RdMemStm
WrMem == INSTANCE WrMemStm

Engines == 0 .. 3       \* rdreg, wrreg (an empty module), rdmem, wrmem
Slots == 0 .. 7
NoLine == [i \in 0 .. 15 |-> 0]

Low == [c \in Command |-> 0]
PinsAtPowerUp(level) ==
    [rwds_out |-> 0, rwds_oe |-> 0, datain |-> 0, oe_data |-> 0, oe_clk |-> 0,
     csn |-> level]

\* Power-up leaves every register at 0; after a reset csn is 1.
Init ==
    \E level \in Bit :
        /\ state = "IDLE"
        /\ req = Low /\ prev = Low
        /\ captured = [s0 |-> 0, csr |-> 0]
        /\ stm_start = [k \in Engines |-> 0]
        /\ CA_sigr = ZeroCa
        /\ rd_tmp = 0 /\ wr_tmp = 0
        /\ row = 0 /\ acc_counter = 0
        /\ buffer = [i \in Slots |-> ZeroWord]
        /\ tag = [row |-> 0, page |-> 0]
        /\ inbuffer_valid = 0 /\ buffer_wrmem = NoLine
        /\ resp = [data |-> ZeroWord, valid |-> 0]
        /\ pins = PinsAtPowerUp(level)
        /\ rdreg = RdReg!PowerUp(level)
        /\ rdmem = RdMem!PowerUp(level)
        /\ wrmem = WrMem!PowerUp(level)

Reset ==
    /\ state' = "IDLE"
    /\ req' = Low /\ prev' = Low
    /\ captured' = [s0 |-> 0, csr |-> 0]
    /\ stm_start' = [k \in Engines |-> 0]
    /\ CA_sigr' = ZeroCa
    /\ rd_tmp' = 0 /\ wr_tmp' = 0
    /\ row' = 0 /\ acc_counter' = 0
    /\ buffer' = [i \in Slots |-> ZeroWord]
    /\ tag' = [row |-> 0, page |-> 0]
    /\ inbuffer_valid' = 0 /\ buffer_wrmem' = NoLine
    /\ resp' = [data |-> ZeroWord, valid |-> 0]
    /\ pins' = PinsAtPowerUp(1)
    /\ RdReg!Reset /\ RdMem!Reset /\ WrMem!Reset

-----------------------------------------------------------------------------
(* The inputs of an edge, and the registers that sample them.              *)

Inputs ==
    [strobes : Strobes, s0_address : Addresses, csr_address : CsrAddresses,
     s0_writedata : WriteWords, rwds_in : Bit, dataout : ReadHalves]

SampleRequests(in) ==
    /\ req' = [c \in Command |-> IF c \in in.strobes THEN 1 ELSE 0]
    /\ prev' = req

CaptureAddresses(in) ==
    captured' =
        [s0 |-> IF in.strobes \cap {"memr", "memw"} # {} THEN in.s0_address
                ELSE captured.s0,
         csr |-> IF in.strobes \cap {"regr", "regw"} # {} THEN in.csr_address
                 ELSE captured.csr]

Rising(c) == req[c] = 1 /\ prev[c] = 0

\* Mutant of buffer_hit: the page is not compared.
HitOnRow == CompareTags /\ tag.row = RowId(captured.s0)

buffer_hit == CompareTags /\ tag = TagOf(captured.s0)

\* The command/address of each device register.
CsrCa(address) ==
    CASE address = 1 -> <<49152, 0, 1>>
      [] address = 2 -> <<49152, 256, 0>>
      [] address = 3 -> <<49152, 256, 1>>
      [] OTHER -> <<49152, 0, 0>>

\* stm_end; wrreg_stm drives nothing, its end bit is 0.
StmEnd(k) ==
    CASE k = 0 -> rdreg.stm_end
      [] k = 2 -> rdmem.stm_end
      [] k = 3 -> wrmem.stm_end
      [] OTHER -> 0

\* stm_start[k] is set until the machine's end bit is seen.
StartAlways(k) == stm_start' = [stm_start EXCEPT ![k] = 1]   \* mutant: never cleared
StartUntilEnd(k) == stm_start' = [stm_start EXCEPT ![k] = 1 - StmEnd(k)]

-----------------------------------------------------------------------------
(* The command FSM: one action per state, one disjunct per branch.         *)

\* Lower priority commands wait for no higher one to have an edge.
Accept ==
    \/ /\ Rising("regr")
       /\ state' = "RDREG"
       /\ UNCHANGED row
    \/ /\ ~Rising("regr") /\ Rising("regw")
       /\ state' = "WRREG"
       /\ UNCHANGED row
    \/ /\ ~Rising("regr") /\ ~Rising("regw") /\ Rising("memr")
       /\ state' = IF buffer_hit THEN "RDMEM1" ELSE "RDMEM2"
       /\ row' = 1
    \/ /\ ~Rising("regr") /\ ~Rising("regw") /\ ~Rising("memr") /\ Rising("memw")
       /\ state' = IF buffer_hit THEN "WRMEM1" ELSE "RDMEM2"
       /\ row' = 0

NoCommand == (\A c \in Command : ~Rising(c)) /\ UNCHANGED <<state, row>>

Idle ==
    /\ state = "IDLE"
    /\ CA_sigr' = ZeroCa
    /\ rd_tmp' = 0 /\ wr_tmp' = 0
    /\ inbuffer_valid' = 0 /\ buffer_wrmem' = NoLine
    /\ resp' = [resp EXCEPT !.valid = 0]
    /\ acc_counter' = 8
    /\ Accept \/ NoCommand
    /\ UNCHANGED <<stm_start, cacheVars>>

ReadRegister ==
    /\ state = "RDREG"
    /\ \/ StmEnd(0) = 1 /\ state' = "IDLE"
       \/ StmEnd(0) = 0 /\ UNCHANGED state
    /\ StartUntilEnd(0)
    /\ CA_sigr' = CsrCa(captured.csr)
    /\ UNCHANGED <<row, rd_tmp, wr_tmp, acc_counter, cacheVars, writeBackVars, resp>>

\* stm_end[1] never rises: the FSM stays here.
WriteRegister ==
    /\ state = "WRREG"
    /\ StartUntilEnd(1)
    /\ UNCHANGED <<state, CA_sigr, row, rd_tmp, wr_tmp, acc_counter, cacheVars,
                   writeBackVars, resp>>

\* Mutant of ReadBuffer: s0_readdatavalid is not raised.
ReadBufferSilently ==
    /\ state = "RDMEM1" /\ state' = "IDLE"
    /\ resp' = [resp EXCEPT !.data = buffer[BufferAddr(captured.s0) % 8]]
    /\ UNCHANGED <<startVars, row, acc_counter, cacheVars, writeBackVars>>

\* Eight of the 32 values of buf_addr select a word.
ReadBuffer ==
    /\ state = "RDMEM1"
    /\ state' = "IDLE"
    /\ LET slot == BufferAddr(captured.s0) IN
       resp' = [data |-> IF slot \in Slots THEN buffer[slot] ELSE ZeroWord,
                valid |-> 1]
    /\ UNCHANGED <<startVars, row, acc_counter, cacheVars, writeBackVars>>

BufferAfterWrite(word) ==
    LET slot == BufferAddr(captured.s0) IN
    IF slot \in Slots THEN [buffer EXCEPT ![slot] = word]
    ELSE [buffer EXCEPT ![0] = ZeroWord]

\* The buffer as sixteen halves, the upper half of a word first.
Halves(line) == [i \in 0 .. 15 |-> line[i \div 2][1 + (i % 2)]]

WriteBuffer(in) ==
    /\ state = "WRMEM1"
    /\ buffer' = BufferAfterWrite(in.s0_writedata)
    /\ \/ /\ buffer_hit
          /\ state' = "IDLE"
          /\ UNCHANGED writeBackVars
       \/ /\ ~buffer_hit
          /\ state' = "WRMEM2"
          /\ inbuffer_valid' = 1
          /\ buffer_wrmem' = Halves(buffer)
    /\ UNCHANGED <<startVars, row, acc_counter, tag, resp>>

\* A word from rdmem_stm enters at slot 7, the others move down.
ShiftIn(word) == [i \in Slots |-> IF i = 7 THEN word ELSE buffer[i + 1]]

FilledForRead ==
    /\ StmEnd(2) = 1 /\ row = 1
    /\ state' = "RDMEM1"
    /\ tag' = TagOf(captured.s0)
    /\ stm_start' = [stm_start EXCEPT ![2] = 0]
    /\ UNCHANGED <<inbuffer_valid, CA_sigr, rd_tmp>>

\* Mutant of FilledForWrite: the start bit of rdmem_stm stays set.
FilledButStillStarted ==
    /\ StmEnd(2) = 1 /\ row = 0
    /\ state' = "WRMEM1"
    /\ inbuffer_valid' = 0
    /\ UNCHANGED <<tag, CA_sigr, rd_tmp, stm_start>>

FilledForWrite ==
    /\ StmEnd(2) = 1 /\ row = 0
    /\ state' = "WRMEM1"
    /\ inbuffer_valid' = 0
    /\ stm_start' = [stm_start EXCEPT ![2] = 0]
    /\ UNCHANGED <<tag, CA_sigr, rd_tmp>>

Filling ==
    /\ StmEnd(2) = 0
    /\ stm_start' = [stm_start EXCEPT ![2] = rd_tmp]
    /\ rd_tmp' = 1
    /\ CA_sigr' = OutAddr(captured.s0, rd_tmp)
    /\ UNCHANGED <<state, tag, inbuffer_valid>>

Fill ==
    /\ state = "RDMEM2"
    /\ FilledForRead \/ FilledForWrite \/ Filling
    /\ buffer' = IF rdmem.wordvalid = 1 THEN ShiftIn(rdmem.dataoutr) ELSE buffer
    /\ UNCHANGED <<row, wr_tmp, acc_counter, buffer_wrmem, resp>>

\* rd_tmp is not cleared here: out_addr[47] still follows it.
WriteBack ==
    /\ state = "WRMEM2"
    /\ inbuffer_valid' = 0
    /\ \/ /\ StmEnd(3) = 1
          /\ state' = "ACCDLY"
          /\ tag' = TagOf(captured.s0)
          /\ stm_start' = [stm_start EXCEPT ![3] = 0]
          /\ UNCHANGED <<CA_sigr, wr_tmp>>
       \/ /\ StmEnd(3) = 0
          /\ stm_start' = [stm_start EXCEPT ![3] = wr_tmp]
          /\ wr_tmp' = 1
          /\ CA_sigr' = OutAddr(captured.s0, rd_tmp)
          /\ UNCHANGED <<state, tag>>
    /\ UNCHANGED <<rd_tmp, row, acc_counter, buffer, buffer_wrmem, resp>>

\* Mutants of AccessDelay: counts on below zero; does not wait at all.
DelayWithoutFloor ==
    /\ state = "ACCDLY"
    /\ state' = IF acc_counter = 0 THEN "IDLE" ELSE state
    /\ acc_counter' = acc_counter - 1
    /\ UNCHANGED <<startVars, row, cacheVars, writeBackVars, resp>>

NoDelay ==
    /\ state = "ACCDLY" /\ state' = "IDLE"
    /\ UNCHANGED <<acc_counter, startVars, row, cacheVars, writeBackVars, resp>>

AccessDelay ==
    /\ state = "ACCDLY"
    /\ \/ acc_counter = 0 /\ state' = "IDLE" /\ UNCHANGED acc_counter
       \/ acc_counter # 0 /\ acc_counter' = acc_counter - 1 /\ UNCHANGED state
    /\ UNCHANGED <<startVars, row, cacheVars, writeBackVars, resp>>

CommandStep(in) ==
    \/ Idle
    \/ ReadRegister
    \/ WriteRegister
    \/ ReadBuffer
    \/ WriteBuffer(in)
    \/ Fill
    \/ WriteBack
    \/ AccessDelay

-----------------------------------------------------------------------------
(* The pin registers: the machine with the lowest start bit set drives     *)
(* them.  The outputs of wrreg_stm are undriven nets, 0.                   *)

Selected(of0, of2, of3, none) ==
    CASE stm_start[0] = 1 -> of0
      [] stm_start[0] = 0 /\ stm_start[1] = 1 -> 0
      [] stm_start[0] = 0 /\ stm_start[1] = 0 /\ stm_start[2] = 1 -> of2
      [] stm_start[0] = 0 /\ stm_start[1] = 0 /\ stm_start[2] = 0
         /\ stm_start[3] = 1 -> of3
      [] OTHER -> none

DrivePins ==
    pins' =
        [rwds_out |-> IF stm_start[3] = 1 THEN wrmem.rwds_out ELSE 0,
         rwds_oe  |-> IF stm_start[3] = 1 THEN wrmem.rwds_oe ELSE 0,
         datain   |-> Selected(rdreg.buffer_out[0], rdmem.buffer_out[0],
                               wrmem.buffer_out[0], 0),
         oe_data  |-> Selected(rdreg.oe, rdmem.oe, wrmem.oe, 0),
         oe_clk   |-> Selected(rdreg.oe_clk, rdmem.oe_clk, wrmem.oe_clk, 0),
         csn      |-> Selected(rdreg.csn, rdmem.csn, wrmem.csn, 1)]

\* One positive edge of clk with rst low.
Clock(in) ==
    /\ SampleRequests(in)
    /\ CaptureAddresses(in)
    /\ CommandStep(in)
    /\ DrivePins
    /\ RdReg!Step(stm_start[0], CA_sigr, in.rwds_in, in.dataout)
    /\ RdMem!Step(stm_start[2], CA_sigr, in.rwds_in, in.dataout)
    /\ WrMem!Step(stm_start[3], CA_sigr, in.rwds_in, buffer_wrmem, inbuffer_valid)

Next == Reset \/ \E in \in Inputs : Clock(in)

Spec == Init /\ [][Next]_vars

-----------------------------------------------------------------------------
(* What has to hold whatever the inputs are.                               *)

CommandState == {"IDLE", "RDREG", "WRREG", "RDMEM1", "WRMEM1", "RDMEM2",
                 "WRMEM2", "ACCDLY"}
Pins == [rwds_out : Bit, rwds_oe : Bit, datain : Half, oe_data : Bit,
         oe_clk : Bit, csn : Bit]
Captured == [s0 : WordAddress, csr : RegisterAddress]
Delays == 0 .. 15
Lines == [Slots -> Word]
Row == {r \in Nat : r <= 16383}
Tags == [row : Row, page : 0 .. 31]
HalfLines == [0 .. 15 -> Half]
Answers == [data : Word, valid : Bit]

(* Every register stays within its width.                                  *)
TypeOK ==
    /\ state \in CommandState
    /\ req \in [Command -> Bit] /\ prev \in [Command -> Bit]
    /\ captured \in Captured
    /\ stm_start \in [Engines -> Bit]
    /\ CA_sigr \in CommandAddress
    /\ rd_tmp \in Bit /\ wr_tmp \in Bit /\ row \in Bit
    /\ acc_counter \in Delays
    /\ buffer \in Lines
    /\ tag \in Tags
    /\ inbuffer_valid \in Bit
    /\ buffer_wrmem \in HalfLines
    /\ resp \in Answers
    /\ pins \in Pins
    /\ rdreg \in RdReg!Registers
    /\ rdmem \in RdMem!Registers
    /\ wrmem \in WrMem!Registers

\* The start and end bits of one burst machine against the command FSM:
\* it runs only while the FSM is in the state that started it, its end bit
\* is up exactly in DONE, and it is back at rest with the end bit down
\* before that state can be entered again.
HandshakeOf(stm, start, server) ==
    /\ start = 1 => state = server
    /\ stm.state \in {"CA", "RUN"} => start = 1 /\ stm.stm_end = 0
    /\ stm.state = "DONE" => start = 1 /\ stm.stm_end = 1
    /\ stm.state = "IDLE" /\ stm.stm_end = 1 => state # server

(* The start/end handshake of the command FSM with the burst machines: no  *)
(* machine runs on after its command, none is answered with the end bit of *)
(* an earlier burst, and a start bit that follows rd_tmp or wr_tmp is not   *)
(* withdrawn in mid-burst (RDREG, RDMEM2, WRMEM2 and the three STMs).       *)
Handshake ==
    /\ HandshakeOf(rdreg, stm_start[0], "RDREG")
    /\ stm_start[1] = 1 => state = "WRREG"
    /\ HandshakeOf(rdmem, stm_start[2], "RDMEM2")
    /\ stm_start[2] = 1 => rd_tmp = 1
    /\ HandshakeOf(wrmem, stm_start[3], "WRMEM2")
    /\ stm_start[3] = 1 => wr_tmp = 1

(* HyperBus has one master at a time: never do two machines drive pins.    *)
OneBusOwner ==
    LET busy == {k \in Engines : \/ k = 0 /\ rdreg.state # "IDLE"
                                 \/ k = 2 /\ rdmem.state # "IDLE"
                                 \/ k = 3 /\ wrmem.state # "IDLE"}
    IN  \A j, k \in busy : j = k /\ stm_start[k] = 1

(* A command ends only when the burst it started has ended: the FSM leaves *)
(* RDREG, RDMEM2 and WRMEM2 while the machine it serves is in DONE.         *)
CommandsAwaitTheirBurst ==
    [][ ~Reset =>
        /\ state = "RDREG" /\ state' # state => rdreg.state = "DONE"
        /\ state = "RDMEM2" /\ state' # state => rdmem.state = "DONE"
        /\ state = "WRMEM2" /\ state' # state => wrmem.state = "DONE" ]_vars
=============================================================================
