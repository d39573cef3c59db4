---------------------------- MODULE MCHyperSystem ----------------------------
(***************************************************************************)
(* Instances of HyperSystem for TLC, with the history its properties need: *)
(* how long CS# has been high and which transaction ended last.  A run has *)
(* one or more workloads, each a master that keeps to some of the          *)
(* operations and addresses; a behaviour has one of them throughout.       *)
(***************************************************************************)
EXTENDS HyperSystem

CONSTANT Workloads

VARIABLES
    csHigh,     \* cycles CS# has been high, counted up to HighBound
    lastBurst,  \* state of the command FSM when CS# last was low
    workload

mcVars == <<sysVars, csHigh, lastBurst, workload>>

HighBound == 20

\* What the master may have issued last, and how.
Patiently == master.cmd = "none" /\ master'.cmd # "none" => AtRest
Keeps(i) ==
    \/ workload = "any"
    \/ workload = "reads" /\ i.cmd # "memw"
    \/ workload = "one_line" /\ i.address \in {0, 32, 35}
    \/ workload = "patient" /\ Patiently
    \/ workload = "hasty" /\ i.address \in (IF i.cmd = "regr" THEN {0} ELSE {0, 32, 64})

MCInit ==
    /\ SysInit
    /\ csHigh = HighBound /\ lastBurst = "none"
    /\ workload \in Workloads

Watch ==
    /\ csHigh' = IF pins.csn = 0 THEN 0
                 ELSE IF csHigh < HighBound THEN csHigh + 1 ELSE csHigh
    /\ lastBurst' = IF pins.csn = 0 THEN state ELSE lastBurst

MCTick(rwds) == Tick(rwds) /\ Watch /\ Keeps(master'.issued) /\ UNCHANGED workload
MCSpec == MCInit /\ [][\E rwds \in Bit : MCTick(rwds)]_mcVars
MCFairSpec == MCSpec /\ WF_mcVars(MCTick(1))

MCWriteWords == {<<1, 2>>}
MCStrobes == SUBSET Command

-----------------------------------------------------------------------------
(* What the device holds of a word, and where the word is really kept.     *)

Column(a) == OutAddr(a, 0)[2]
DeviceWord(a) ==
    LET slot == BufferAddr(a)
        line == ram.mem[Column(a)]
    IN  <<line[2 * slot], line[2 * slot + 1]>>

\* The buffer holds the line its tag names: not while it is being refilled.
BufferIsCurrent ==
    /\ state \notin {"RDMEM2", "WRMEM2"}
    /\ state = "WRMEM1" => buffer_hit

Request ==
    LET i == master.issued IN
    IF i.cmd = "memr" /\ master.pending = 1 /\ resp.valid = 0
    THEN <<"read", i.address>>
    ELSE IF i.cmd = "memw"
            /\ (master.cmd = "memw" \/ req["memw"] = 1
                \/ state \in {"RDMEM2", "WRMEM1", "WRMEM2"})
    THEN <<"write", i.address, i.word>>
    ELSE <<>>

Memory == INSTANCE WordMemory WITH
    Locations <- Addresses,
    Words <- Word,
    None <- <<>>,
    memory <- [a \in Addresses |->
                  IF BufferIsCurrent /\ tag = TagOf(a)
                  THEN buffer[BufferAddr(a)] ELSE DeviceWord(a)],
    request <- Request,
    answer <- IF resp.valid = 1 THEN resp.data ELSE <<>>

(* s0 is a word memory: a read is answered, with the word last written     *)
(* there (RDMEM1, RDMEM2, WRMEM1 and WRMEM2 with the whole bus beneath).   *)
WordsAreServed == Memory!Spec

(* Every request is served (liveness of the same). *)
RequestsEnd == Memory!Serves

(* A register read answers with the register csr_address names, for a      *)
(* master that waits for the controller to be at rest.                     *)
RegisterReadAnswers ==
    rdreg.valid = 1 /\ workload = "patient" =>
        rdreg.dataoutr = RegisterValue(CsrCa(master.issued.address))

(* The device receives the command/address of the command being served;    *)
(* of a write-back its location.                                           *)
CommandReachesDevice ==
    ram.pulses >= 3 /\ workload = "patient" =>
        /\ state = "RDREG" => ram.ca = CsrCa(master.issued.address)
        /\ state = "RDMEM2" => ram.ca = OutAddr(master.issued.address, 1)
        /\ state = "WRMEM2" => ram.ca[2] = Column(master.issued.address)

(* CS# is released only when the device has been given every pulse of the  *)
(* burst: none is cut short, whatever commands arrive meanwhile.           *)
BurstsAreWhole ==
    [][ pins.csn = 0 /\ pins'.csn = 1 /\ lastBurst # "none" =>
            ram.pulses' > IF RegisterCa(ram.ca) THEN FirstRegister
                          ELSE FirstData + 15 ]_mcVars

\* Cycles from the end of a write-back to the next fall of CS# at least.
RecoveryCycles == 12

(* After a write-back CS# stays high for the access delay of ACCDLY on top *)
(* of what accepting the next command takes.                               *)
RecoversAfterWriteBack ==
    [][ pins.csn = 1 /\ pins'.csn = 0 /\ lastBurst = "WRMEM2" =>
            csHigh >= RecoveryCycles ]_mcVars

(* Every read the master waits for is still known to the controller: it is *)
(* on the wires, has an edge to come, is being served or being answered.   *)
(* hyperram_controller_hw.tcl:115 lets the interconnect send four.          *)
NoReadForgotten ==
    master.pending > 0 =>
        \/ master.cmd # "none"
        \/ state # "IDLE"
        \/ \E c \in Command : Rising(c)
        \/ Answered > 0

-----------------------------------------------------------------------------
(* What comments and the interface declaration say and the code does not   *)
(* do; each is refuted by a run of its own.                                *)

(* "the buffer is updated with the new data, and then we write to memory": *)
(* when the write-back of a missed write is over, the device has the word. *)
WriteReachesDevice ==
    state = "ACCDLY" => DeviceWord(master.issued.address) = master.issued.word

(* "if changed address detected, then write buffer to ram": a line that is *)
(* about to be overwritten by a refill is the one the device holds.        *)
EvictedLineIsInDevice ==
    rdmem.state = "CA" /\ tag.page \in Columns =>
        Halves(buffer) = ram.mem[tag.page]

(* The csr slave has a write port: a register write comes to an end.       *)
RegisterWriteEnds == state = "WRREG" ~> state = "IDLE"
=============================================================================
