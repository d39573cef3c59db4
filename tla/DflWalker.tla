------------------------------ MODULE DflWalker ------------------------------
(***************************************************************************)
(* The device feature list walker (intel_fpga_api_cmn_dfl.c) and the table *)
(* of interfaces it fills (intel_fpga_api_cmn_inf.c). A feature header     *)
(* leads to the next of its level and, through branch parameters, to the   *)
(* first of a lower level. The list is walked twice: to count and to fill. *)
(* The C recursion is a stack of the parameter lists it has interrupted.   *)
(***************************************************************************)
EXTENDS Integers, Sequences, FiniteSets

CONSTANTS
    Lists,          \* feature lists in memory: [first, at], at[address] a header
    StackIncrement, \* DFH_PARENT_STACK_INCR_SIZE
    BranchId        \* the parameter that leads to a lower level, 0xc

ASSUME WalkerConstants == StackIncrement \in Nat \ {0}

VARIABLES
    dfl,            \* what the hardware holds
    pass,           \* "idle", "counting" or "collecting"
    spot,           \* where the walk is: step, header, parameter
    calls,          \* the headers and parameters whose lower level is being walked
    parents, stack_size,    \* dfh_parent_stack
    scanned,        \* s_scanned_interface_count
    interface_index,        \* s_interface_index
    table, reserved,        \* g_common_fpga_interface_info_vec
    allocated,      \* live blocks of parameter arrays and data
    holders         \* how many callers hold each interface open since the scan

walkVars == <<dfl, pass, spot, calls, parents, stack_size, scanned, interface_index,
              table, reserved, allocated, holders>>
walkerOnly == <<pass, spot, calls, parents, stack_size, scanned, interface_index>>
tableOnly == <<table, reserved, allocated, holders>>

Nowhere == [step |-> "off", dfh |-> 0, param |-> 1]
ZeroInfo == [dfh |-> -1, base_address |-> 0, dfh_parent |-> 0, parameters |-> <<>>,
             is_mmio_opened |-> FALSE, is_interrupt_opened |-> FALSE]

WalkType ==
    /\ dfl \in Lists
    /\ pass \in {"idle", "counting", "collecting"}
    /\ spot.step \in {"off", "enter", "params", "next"}
    /\ spot.step # "off" => spot.dfh \in DOMAIN dfl.at
    /\ \A i \in DOMAIN parents : parents[i] \in Int
    /\ scanned \in Nat /\ reserved \in Nat /\ allocated \in Nat
    /\ Len(table) <= reserved

WalkInit ==
    /\ dfl \in Lists
    /\ pass = "idle" /\ spot = Nowhere /\ calls = <<>>
    /\ parents = <<>> /\ stack_size = 0
    /\ scanned = 0 /\ interface_index = 0
    /\ table = <<>> /\ reserved = 0 /\ allocated = 0 /\ holders = [mmio |-> <<>>, irq |-> <<>>]

-----------------------------------------------------------------------------
(* What a header says. Offsets are relative to the header; a CSR or branch *)
(* address with its low bit set is absolute. Parameter sizes count 64-bit  *)
(* words, the header's own included, except in the last block.             *)

Header(a) == dfl.at[a]
IsEol(a) == Header(a).eol
NextDfh(a) == a + Header(a).next_offset
HasParams(a) == Header(a).params # <<>>
BaseAddress(a) ==
    IF Header(a).csr % 2 = 1 THEN Header(a).csr - 1 ELSE a + Header(a).csr
BranchTarget(a, block) ==
    LET masked == block.data - (block.data % 8)
    IN  IF block.data % 2 = 1 THEN masked ELSE a + masked

\* A block with the last bit and no data terminates the list.
IsNull(block) == block.last /\ block.words = 0

\* The hardware's list: every header that is led to is there, and a list of
\* parameters ends with a last one.
WellFormed(d) ==
    /\ d.first \in DOMAIN d.at /\ DOMAIN d.at \subseteq Nat
    /\ \A a \in DOMAIN d.at :
          LET h == d.at[a] IN
          /\ ~h.eol => a + h.next_offset \in DOMAIN d.at
          /\ h.params # <<>> => \E n \in DOMAIN h.params :
                n \in Nat /\ DOMAIN h.params = 1..n /\ h.params[n].last
          /\ \A i \in DOMAIN h.params :
                h.params[i].id = BranchId /\ ~IsNull(h.params[i]) =>
                    BranchTarget(a, h.params[i]) \in DOMAIN d.at

ASSUME ListsAreWellFormed == \A d \in Lists : WellFormed(d)

\* set_parameter_properties: resized for the next block before that is known
\* to be the terminator, which leaves an empty entry behind.
Parameters(a) ==
    LET p == Header(a).params
        stop == CHOOSE i \in DOMAIN p : p[i].last /\ \A j \in 1..i - 1 : ~p[j].last
        DataSize(b) == IF b.last THEN b.words ELSE b.words - 1
    IN  IF p = <<>> \/ IsNull(p[1]) THEN <<>>
        ELSE [i \in 1..stop |-> [param_id |-> IF IsNull(p[i]) THEN 0 ELSE p[i].id,
                                 data_size |-> DataSize(p[i])]]

\* The blocks malloc gave an entry: its array and the data of each parameter.
BlocksOf(info) ==
    IF info.parameters = <<>> THEN {}
    ELSE {0} \cup {i \in DOMAIN info.parameters : info.parameters[i].data_size > 0}

-----------------------------------------------------------------------------
(* The table of interfaces                                                 *)

CountBlocks(t) ==
    LET sum[i \in 0..Len(t)] ==
            IF i = 0 THEN 0 ELSE sum[i - 1] + Cardinality(BlocksOf(t[i]))
    IN  sum[Len(t)]

Zeros(n) == [i \in 1..n |-> ZeroInfo]

FreedNothing(n) == allocated    \* mutant of Freed: the parameters are forgotten
\* What reserve frees of the entries it drops.
Freed(n) == allocated - CountBlocks(SubSeq(table, n + 1, Len(table)))

\* common_fpga_interface_info_vec_resize and _reserve
VecResize(n) ==
    /\ table' = IF n > Len(table) THEN table \o Zeros(n - Len(table))
                ELSE SubSeq(table, 1, n)
    /\ reserved' = IF n = 0 THEN 0 ELSE IF n > reserved THEN n ELSE reserved
    /\ allocated' = IF n < Len(table) THEN Freed(n) ELSE allocated
    /\ holders' = [mmio |-> [i \in 1..n |-> 0], irq |-> [i \in 1..n |-> 0]]

\* set_interface_properties
SetProperties(i, a) ==
    /\ table' = [table EXCEPT ![i + 1] =
                    [@ EXCEPT !.dfh = a, !.base_address = BaseAddress(a),
                              !.dfh_parent = parents[Len(parents)],
                              !.parameters = Parameters(a),
                              !.is_mmio_opened = FALSE, !.is_interrupt_opened = FALSE]]
    /\ allocated' = allocated + CountBlocks(<<[ZeroInfo EXCEPT !.parameters = Parameters(a)]>>)
    /\ UNCHANGED <<reserved, holders>>

-----------------------------------------------------------------------------
(* The stack of parents: top is its length, head[0] is never used          *)

\* The size is looked at before top is incremented.
Push(data) ==
    /\ parents' = Append(parents, data)
    /\ stack_size' = IF Len(parents) = stack_size THEN stack_size + StackIncrement
                     ELSE stack_size

Pop == parents' = SubSeq(parents, 1, Len(parents) - 1)

-----------------------------------------------------------------------------
(* The walk                                                                *)

\* common_dfl_scan_multi_interfaces
Scan ==
    /\ pass = "idle"
    /\ pass' = "counting" /\ scanned' = 0
    /\ VecResize(0)
    /\ Push(-1)
    /\ spot' = [step |-> "enter", dfh |-> dfl.first, param |-> 1]
    /\ UNCHANGED <<dfl, calls, interface_index>>

EnterCountsRoots ==             \* mutant of EnterCounts
    IF calls = <<>> THEN scanned + 1 ELSE scanned
EnterCounts == scanned + 1

\* deal_with_interface_at_current_level begins
Enter ==
    /\ spot.step = "enter"
    /\ IF pass = "counting"
       THEN scanned' = EnterCounts /\ UNCHANGED <<interface_index, tableOnly>>
       ELSE /\ interface_index' = interface_index + 1
            /\ SetProperties(interface_index + 1, spot.dfh)
            /\ UNCHANGED scanned
    /\ spot' = [spot EXCEPT !.step = IF HasParams(spot.dfh) THEN "params" ELSE "next",
                            !.param = 1]
    /\ UNCHANGED <<dfl, pass, calls, parents, stack_size>>

\* After a parameter: the next, or the next header when it was the last.
After(s) ==
    IF Header(s.dfh).params[s.param].last
    THEN [s EXCEPT !.step = "next"]
    ELSE [s EXCEPT !.step = "params", !.param = @ + 1]

\* A parameter that leads nowhere.
Skipped(s) ==
    IF IsNull(Header(s.dfh).params[s.param]) THEN [s EXCEPT !.step = "next"] ELSE After(s)

\* process_param_list_for_known_param_id; a branch interrupts it
\* (handle_branch_param_id): its parent is the last interface entered.
Param ==
    LET block == Header(spot.dfh).params[spot.param]
    IN  /\ spot.step = "params"
        /\ IF ~IsNull(block) /\ block.id = BranchId
           THEN /\ Push(interface_index)
                /\ calls' = Append(calls, spot)
                /\ spot' = [step |-> "enter", dfh |-> BranchTarget(spot.dfh, block),
                            param |-> 1]
           ELSE /\ spot' = Skipped(spot)
                /\ UNCHANGED <<parents, stack_size, calls>>
        /\ UNCHANGED <<dfl, pass, scanned, interface_index, tableOnly>>

\* The next header of the level.
NextHeader ==
    /\ spot.step = "next" /\ ~IsEol(spot.dfh)
    /\ spot' = [spot EXCEPT !.step = "enter", !.dfh = NextDfh(spot.dfh)]
    /\ UNCHANGED <<dfl, pass, calls, parents, stack_size, scanned, interface_index,
                   tableOnly>>

\* The end of a lower level: the parameter list that led to it goes on.
LevelEnds ==
    /\ spot.step = "next" /\ IsEol(spot.dfh) /\ calls # <<>>
    /\ Pop
    /\ spot' = After(calls[Len(calls)])
    /\ calls' = SubSeq(calls, 1, Len(calls) - 1)
    /\ UNCHANGED <<dfl, pass, stack_size, scanned, interface_index, tableOnly>>

\* The end of the first pass: the table gets its size and the second begins.
CountingEnds ==
    /\ spot.step = "next" /\ IsEol(spot.dfh) /\ calls = <<>> /\ pass = "counting"
    /\ parents' = [parents EXCEPT ![Len(parents)] = -1]     \* a pop and a push
    /\ pass' = "collecting"
    /\ VecResize(scanned)
    /\ interface_index' = -1
    /\ spot' = [step |-> "enter", dfh |-> dfl.first, param |-> 1]
    /\ UNCHANGED <<dfl, calls, stack_size, scanned>>

\* The end of the second frees the stack.
CollectingEnds ==
    /\ spot.step = "next" /\ IsEol(spot.dfh) /\ calls = <<>> /\ pass = "collecting"
    /\ Pop
    /\ stack_size' = 0 /\ pass' = "idle" /\ spot' = Nowhere
    /\ UNCHANGED <<dfl, calls, scanned, interface_index, tableOnly>>

-----------------------------------------------------------------------------
(* Callers: fpga_open and fpga_close, fpga_interrupt_open and _close       *)

MayOpen(kind, i) ==
    /\ i \in DOMAIN table
    /\ IF kind = "mmio" THEN ~table[i].is_mmio_opened ELSE ~table[i].is_interrupt_opened

SetOpened(kind, i, value) ==
    table' = IF kind = "mmio" THEN [table EXCEPT ![i].is_mmio_opened = value]
             ELSE [table EXCEPT ![i].is_interrupt_opened = value]

FpgaOpen(kind, i) ==
    /\ pass = "idle" /\ MayOpen(kind, i)
    /\ SetOpened(kind, i, TRUE)
    /\ holders' = [holders EXCEPT ![kind][i] = @ + 1]
    /\ UNCHANGED <<dfl, walkerOnly, reserved, allocated>>

FpgaClose(kind, i) ==
    /\ pass = "idle" /\ i \in DOMAIN table /\ holders[kind][i] > 0
    /\ SetOpened(kind, i, FALSE)
    /\ holders' = [holders EXCEPT ![kind][i] = @ - 1]
    /\ UNCHANGED <<dfl, walkerOnly, reserved, allocated>>

\* fpga_platform_cleanup
Cleanup ==
    /\ pass = "idle" /\ table # <<>>
    /\ VecResize(0)
    /\ UNCHANGED <<dfl, walkerOnly>>

-----------------------------------------------------------------------------
Walk == Enter \/ Param \/ NextHeader \/ LevelEnds \/ CountingEnds \/ CollectingEnds

WalkNext ==
    \/ Scan \/ Walk \/ Cleanup
    \/ \E kind \in {"mmio", "irq"}, i \in DOMAIN table : FpgaOpen(kind, i) \/ FpgaClose(kind, i)

WalkSpec == WalkInit /\ [][WalkNext]_walkVars

-----------------------------------------------------------------------------
(* The two passes see the same interfaces: the second stays inside the     *)
(* table the first has sized, and fills it.                                *)
PassesAgree ==
    /\ pass = "collecting" => interface_index + (IF spot.step = "enter" THEN 1 ELSE 0) < scanned
    /\ pass = "idle" => \A i \in DOMAIN table : table[i].dfh # -1

\* The headers of the level that begins at a.
Level(first) ==
    LET from[a \in DOMAIN dfl.at] == {a} \cup IF IsEol(a) THEN {} ELSE from[NextDfh(a)]
    IN  from[first]

Branches(a) == {i \in DOMAIN Header(a).params : Header(a).params[i].id = BranchId}
OneBranchEach == \A a \in DOMAIN dfl.at : \A i, j \in Branches(a) : i = j

(* intel_fpga_platform_niosv.h:78, dfh_parent is the "Index to the         *)
(* FPGA_INTERFACE_INFO of the parent; -1 if there is no parent": of the    *)
(* interface whose branch leads to the level an interface is in.           *)
ParentIsTheBranching ==
    \A i \in DOMAIN table :
        table[i].dfh # -1 =>
            IF table[i].dfh_parent = -1 THEN table[i].dfh \in Level(dfl.first)
            ELSE LET up == table[table[i].dfh_parent + 1].dfh
                 IN  \E k \in Branches(up) :
                        table[i].dfh \in Level(BranchTarget(up, Header(up).params[k]))

(* The code has it so where no interface has two branches: behind a second *)
(* one it takes the last interface of the first for the parent, and the    *)
(* description of dfh_parent does not hold.                                *)
ParentLeadsHere == OneBranchEach => ParentIsTheBranching

(* Between scans the live blocks are those the table reaches: a scan after *)
(* a scan frees what the last one allocated, cleaning up frees everything. *)
NothingLeaks == pass = "idle" => allocated = CountBlocks(table)

(* The table of interfaces names the parents of what it lists, and owns    *)
(* what is allocated.                                                      *)
TableIsTheList == ParentLeadsHere /\ NothingLeaks
==============================================================================
