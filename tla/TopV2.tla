--------------------------------- MODULE TopV2 ---------------------------------
(***************************************************************************)
(* topv2.sv: the controller of the revision topv2, driven from a JTAG      *)
(* source. One machine sends command/address and data from a shift         *)
(* register, reads through a pipe of three halves, and is kept from        *)
(* starting again too early by a block that watches CS#.                   *)
(*                                                                         *)
(* One step is one positive edge of clk; memr, memw, regr and RWDS are     *)
(* arbitrary at each. CA_sig stands still, set by another source than the  *)
(* strobes, so that a half is a name: 0 to 2 the command/address, 3 to 18  *)
(* the data; CA_sigr holds it or the zeros of a reset. rwds_out is never   *)
(* anything but 0; regw starts nothing.                                    *)
(***************************************************************************)
EXTENDS Naturals, Sequences

CONSTANT RecoveryTime   \* what rwr_counter is loaded with

ASSUME TopV2Constants == RecoveryTime \in 1..7

VARIABLES
    fsm,    \* registers of the machine and of its pins
    rwr,    \* registers of the block beside it: recovery, and CA_sigr
    bus     \* history: clock pulses of the transaction, edges since CS# rose,
            \* the half the last pulse carried, a reset cut a write short, edges
            \* since the reset, the transaction began within CaDelay of them

topVars == <<fsm, rwr, bus>>

Strobe == {"regr", "memw", "memr"}
Nothing == 99                   \* no half, or a half of zeros
Slots == 0..18
LongGap == 15                   \* bound of the count of edges
CaDelay == 3                    \* edges from CA_sig to CA_sigr[0]

TopV2Type ==
    /\ fsm.state \in {"IDLE", "RD_REG0", "RD_REG1", "MEM_WR0", "MEM_WR1", "MEM_RD0", "MEM_RD1"}
    /\ fsm.counter \in 0..63
    /\ {fsm.csn, fsm.oe, fsm.clken, fsm.rwds_oe, fsm.datavalid} \subseteq {0, 1}
    /\ fsm.buffer_out \in [Slots -> Slots \cup {Nothing}]
    /\ fsm.prev \subseteq Strobe
    /\ rwr.counter \in 0..RecoveryTime /\ {rwr.stall, rwr.d0, rwr.d1} \subseteq {0, 1}
    /\ rwr.ca \in {0, 1} \X {0, 1} \X {0, 1} /\ bus.edges \in 0..CaDelay

Cleared == [i \in Slots |-> Nothing]

TopV2Init ==
    /\ fsm = [state |-> "IDLE", counter |-> 0, csn |-> 0, oe |-> 0, clken |-> 0, rwds_oe |-> 0,
              buffer_out |-> Cleared, prev |-> {}, dataout_reg |-> <<0, 0, 0>>,
              captured |-> 0, datavalid |-> 0]
    /\ rwr = [d0 |-> 0, d1 |-> 0, counter |-> 0, stall |-> 0, ca |-> <<0, 0, 0>>]
    /\ bus = [pulses |-> 0, gap |-> 0, half |-> Nothing, cut |-> FALSE, edges |-> 0,
              early |-> FALSE]

-----------------------------------------------------------------------------
(* The machine: its registers after an edge in each state                  *)

ShiftCa(b) == [b EXCEPT ![0] = b[1], ![1] = b[2], ![2] = Nothing]
ShiftAll(b) == [i \in Slots |-> IF i = 18 THEN Nothing ELSE b[i + 1]]
Shifted(b, keeps) == IF keeps THEN ShiftCa(b) ELSE ShiftAll(b)
Sampled(pipe) == <<pipe[2], pipe[3], bus.pulses>>

Enters(name) == [fsm EXCEPT !.state = name, !.counter = 0]
Counts == [fsm EXCEPT !.counter = @ + 1]
Finishes == [Enters("IDLE") EXCEPT !.csn = 1, !.clken = 0]

\* What CA_sigr[0] has of the command/address.
Ca(i) == IF rwr.ca[1] = 1 THEN i ELSE Nothing

\* The last of three strobes that rise together wins.
Begins(strobes) ==
    LET up == IF rwr.stall = 1 THEN {} ELSE strobes \ fsm.prev
        b == [fsm.buffer_out EXCEPT ![0] = Ca(0), ![1] = Ca(1), ![2] = Ca(2)]
    IN  IF up = {} THEN [fsm EXCEPT !.csn = 1, !.buffer_out = b]
        ELSE [fsm EXCEPT
                !.state = IF "memr" \in up THEN "MEM_RD0"
                          ELSE IF "memw" \in up THEN "MEM_WR0" ELSE "RD_REG0",
                !.counter = 0, !.csn = 0, !.oe = 0, !.clken = 0,
                !.buffer_out = IF "memw" \in up THEN [i \in Slots |-> IF i < 3 THEN b[i] ELSE i]
                                ELSE b]

\* Command/address: wait for RWDS, then three pulses.
SendsCa(next, keeps, rwds_in) ==
    CASE fsm.counter = 4 -> [Enters(next) EXCEPT !.oe = 0]
      [] fsm.counter \in 1..3 ->
            [Counts EXCEPT !.buffer_out = Shifted(@, keeps), !.oe = 1, !.clken = 1]
      [] fsm.counter = 0 /\ rwds_in = 1 -> [fsm EXCEPT !.counter = 1, !.oe = 1, !.clken = 0]
      [] OTHER -> fsm

ReadsRegister ==
    IF fsm.counter = 16 THEN Finishes
    ELSE IF fsm.counter > 12 THEN [Counts EXCEPT !.dataout_reg = Sampled(@)]
    ELSE Counts

WritesLate == fsm.counter > 13          \* mutant of Writes
Writes == fsm.counter > 12
WriteEnds == [Finishes EXCEPT !.oe = 0, !.rwds_oe = 0]
WritesMemory ==
    IF fsm.counter = 28 THEN WriteEnds
    ELSE IF Writes THEN [Counts EXCEPT !.buffer_out = ShiftAll(@), !.oe = 1, !.clken = 1,
                                       !.rwds_oe = 1]
    ELSE Counts

ReadsMemory ==
    LET now == [fsm EXCEPT !.dataout_reg = Sampled(@)]
    IN  IF fsm.counter = 32
        THEN [now EXCEPT !.state = "IDLE", !.counter = 0, !.csn = 1, !.clken = 0,
                         !.captured = 0, !.datavalid = 0]
        ELSE [now EXCEPT !.counter = @ + 1,
                         !.captured = IF fsm.counter > 17 THEN fsm.dataout_reg[1] ELSE 0,
                         !.datavalid = IF fsm.counter > 17 THEN 1 ELSE 0]

RwdsDriven(rwds) == IF fsm.csn = 0 THEN 0 ELSE rwds     \* mutant of RwdsIn
\* The controller's own 0 wins on a pin it drives.
RwdsIn(rwds) == IF fsm.rwds_oe = 1 THEN 0 ELSE rwds

AfterEdge(strobes, rwds) ==
    CASE fsm.state = "IDLE" -> Begins(strobes)
      [] fsm.state = "RD_REG0" -> SendsCa("RD_REG1", TRUE, RwdsIn(rwds))
      [] fsm.state = "MEM_WR0" -> SendsCa("MEM_WR1", FALSE, RwdsIn(rwds))
      [] fsm.state = "MEM_RD0" -> SendsCa("MEM_RD1", TRUE, RwdsIn(rwds))
      [] fsm.state = "RD_REG1" -> ReadsRegister
      [] fsm.state = "MEM_WR1" -> WritesMemory
      [] fsm.state = "MEM_RD1" -> ReadsMemory

Machine(strobes, rwds) == fsm' = [AfterEdge(strobes, rwds) EXCEPT !.prev = strobes]

-----------------------------------------------------------------------------
(* The recovery block: rwr_stall follows a rise of CS# by three edges.     *)

StallsWithoutCount(rose) ==             \* mutant of Stall
    rwr' = [d1 |-> rwr.d0, d0 |-> fsm.csn, counter |-> 0, stall |-> IF rose THEN 1 ELSE 0,
            ca |-> <<rwr.ca[2], rwr.ca[3], 1>>]
Stall(rose) ==
    rwr' = [d1 |-> rwr.d0, d0 |-> fsm.csn,
            counter |-> IF rose THEN RecoveryTime
                        ELSE IF rwr.counter = 0 THEN 0 ELSE rwr.counter - 1,
            stall |-> IF rose THEN rwr.stall ELSE IF rwr.counter = 0 THEN 0 ELSE 1,
            ca |-> <<rwr.ca[2], rwr.ca[3], 1>>]

\* What the pins see in the cycle after an edge: the cells take the half that
\* was in front, and a pulse if the clock is enabled.
Pulse(next) ==
    bus' = [pulses |-> IF fsm.csn = 1 THEN 0 ELSE bus.pulses + next.clken,
            gap |-> IF next.csn = 0 THEN 0 ELSE IF bus.gap = LongGap THEN LongGap ELSE bus.gap + 1,
            half |-> IF next.clken = 1 /\ next.oe = 1 THEN fsm.buffer_out[0] ELSE Nothing,
            cut |-> bus.cut,
            edges |-> IF bus.edges = CaDelay THEN CaDelay ELSE bus.edges + 1,
            early |-> IF fsm.state = "IDLE" THEN bus.edges < CaDelay ELSE bus.early]

Edge(strobes, rwds) ==
    /\ Machine(strobes, rwds)
    /\ Stall(rwr.d1 = 0 /\ rwr.d0 = 1)
    /\ Pulse(fsm')

\* rst. It leaves slots 16 to 18, prev_memw and prev_memr, and rwds_oe.
TopReset ==
    /\ fsm' = [fsm EXCEPT !.state = "IDLE", !.counter = 0, !.csn = 0, !.oe = 0, !.clken = 0,
                          !.buffer_out = [i \in Slots |-> IF i < 16 THEN Nothing ELSE @[i]],
                          !.prev = @ \ {"regr"}, !.dataout_reg = <<0, 0, 0>>,
                          !.captured = 0, !.datavalid = 0]
    /\ rwr' = [d0 |-> 0, d1 |-> 0, counter |-> 0, stall |-> 0, ca |-> <<0, 0, 0>>]
    /\ bus' = [pulses |-> 0, gap |-> 0, half |-> Nothing,
               cut |-> bus.cut \/ fsm.rwds_oe = 1, edges |-> 0, early |-> FALSE]

TopV2Next ==
    \/ TopReset
    \/ \E strobes \in SUBSET Strobe, rwds \in {0, 1} : Edge(strobes, rwds)

TopV2Spec ==
    TopV2Init /\ [][TopV2Next]_topVars /\ WF_topVars(\E strobes \in SUBSET Strobe : Edge(strobes, 1))

-----------------------------------------------------------------------------
(* The half at each pulse: the command/address, or its zeros when the      *)
(* transaction began within CaDelay edges of a reset; data from pulse 18.  *)
Halves == [pulse \in 1..36 |-> IF pulse <= 3 THEN IF bus.early THEN Nothing ELSE pulse - 1
                               ELSE IF pulse >= 18 /\ fsm.state = "MEM_WR1" THEN pulse - 15
                               ELSE Nothing]
Length(state) == CASE state = "RD_REG1" -> 20 [] state = "MEM_WR1" -> 32 [] state = "MEM_RD1" -> 36

(* Every transaction no reset cuts short has the pulses of its kind, its   *)
(* halves are in order, each at its pulse, nothing drives dq in between,   *)
(* and a read hands on every pulse's data once. It does not say that a     *)
(* write sends all it has loaded: it does not, LastHalfStays.              *)
TransactionsInOrder ==
    /\ [][ fsm.csn = 0 /\ fsm'.csn = 1 /\ fsm.state # "IDLE" => bus.pulses = Length(fsm.state) ]_topVars
    /\ [](fsm.csn = 0 /\ fsm.clken = 1 => bus.half = Halves[bus.pulses])
    /\ [][ fsm.datavalid = 1 /\ fsm'.datavalid = 1 => fsm'.captured = fsm.captured + 1 ]_topVars

(* Of the sixteen halves topv2.sv:220 loads (topv2.sv:20, "32 bytes burst  *)
(* buffer") the last never gets to the wires: the counter of MEM_WR1 ends  *)
(* the write one pulse early.                                              *)
LastHalfStays == bus.half # 18

(* The stall keeps CS# high for the recovery time, unless the next command *)
(* rises at one of the three edges before the block has seen CS# high: the *)
(* recovery is all or, then, almost nothing. A command at the first edge   *)
(* after a reset is another matter: CS# is low in IDLE then (topv2.sv:175) *)
(* and does not rise before it.                                            *)
StallSeparates ==
    [][ fsm.state = "IDLE" /\ fsm'.state # "IDLE" /\ fsm.csn = 1
        => bus.gap \in (1..3) \cup (RecoveryTime + 4..LongGap) ]_topVars

(* Transactions end as long as RWDS rises and resets do not go on for      *)
(* ever, unless one in mid-write has left the controller driving RWDS low  *)
(* itself.                                                                 *)
TransactionsEnd ==
    \/ []<><<TopReset>>_topVars
    \/ fsm.state # "IDLE" ~> fsm.csn = 1 \/ bus.cut
================================================================================
