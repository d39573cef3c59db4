------------------------------ MODULE Interrupts ------------------------------
(***************************************************************************)
(* Interrupts on one hart: the mstatus.MIE bit the HAL's critical sections *)
(* save and restore (sys/alt_irq.h), the lines enabled in mie, the table   *)
(* of handlers the vectored wrappers call (alt_vic_isr_wrapper.c), and a   *)
(* register wider than the bus, which fpga_read_64, fpga_write_64 and      *)
(* their 512-bit kin access one word after the other.                      *)
(***************************************************************************)
EXTENDS Integers, Sequences

CONSTANTS
    Nirq,           \* NIOSV_NIRQ, platform lines of the core
    Irqs,           \* the line numbers applications use
    MaxNest,        \* critical sections open at one time at one level
    Width,          \* words of the wide register
    Data            \* what is written to it, every word alike

ASSUME InterruptConstants ==
    /\ Nirq \in Nat /\ Irqs \subseteq Nat
    /\ MaxNest \in Nat /\ Width \in Nat \ {0}

VARIABLES
    mstatus,        \* the MIE bit
    mie, mip,       \* lines enabled, lines that ask
    handlers,       \* lines with an entry in alt_irq, the software interrupt's included
    level,          \* what the hart runs: "task", "isr" or "halted"
    contexts,       \* at each level, what open sections saved, the innermost last
    rc,             \* of the last call
    wide,           \* the wide register
    access          \* at each level, the access to it under way

irqVars == <<mstatus, mie, mip, handlers, level, contexts, rc, wide, access>>

Bit(irq) == irq + 16            \* of a platform line in mie and mip
Software == 3                   \* NIOSV_SOFTWARE_IRQ
Line == {Bit(irq) : irq \in 0..Nirq - 1} \cup {Software}
Levels == {"task", "isr"}
Idle == [dir |-> "none", got |-> <<>>]

IrqType ==
    /\ mstatus \in {0, 1}
    /\ mie \subseteq Line /\ mip \subseteq Line /\ handlers \subseteq Line
    /\ level \in Levels \cup {"halted"}
    /\ contexts \in [Levels -> Seq({0, 1})]

\* alt_main has called alt_irq_init: every line is off.
IrqInit ==
    /\ mstatus = 0 /\ mie = {} /\ mip = {} /\ handlers = {}
    /\ level = "task"
    /\ contexts = [l \in Levels |-> <<>>]
    /\ rc = 0
    /\ wide \in {[i \in 1..Width |-> d] : d \in Data}
    /\ access = [l \in Levels |-> Idle]

Runs(l) == level = l
Frees(l) == access[l] = Idle            \* not inside a call
registers == <<mstatus, mie, mip>>
sharedData == <<wide, access>>

-----------------------------------------------------------------------------
(* Critical sections                                                       *)

\* A context is the whole of mstatus before the bit was cleared.
DisableAll(l) ==
    /\ Runs(l) /\ Frees(l) /\ Len(contexts[l]) < MaxNest
    /\ contexts' = [contexts EXCEPT ![l] = Append(@, mstatus)]
    /\ mstatus' = 0
    /\ UNCHANGED <<mie, mip, handlers, level, rc, sharedData>>

EnabledRegardless(context) == 1         \* mutant of Restored
\* The saved bit is set; one that was clear changes nothing.
Restored(context) == IF context = 1 THEN 1 ELSE mstatus

EnableAll(l) ==
    LET depth == Len(contexts[l])
    IN  /\ Runs(l) /\ Frees(l) /\ depth > 0
        /\ mstatus' = Restored(contexts[l][depth])
        /\ contexts' = [contexts EXCEPT ![l] = SubSeq(@, 1, depth - 1)]
        /\ UNCHANGED <<mie, mip, handlers, level, rc, sharedData>>

\* alt_irq_cpu_enable_interrupts, at the end of alt_irq_init
CpuEnableInterrupts ==
    /\ Runs("task") /\ Frees("task") /\ contexts["task"] = <<>>
    /\ mstatus' = 1
    /\ UNCHANGED <<mie, mip, handlers, level, contexts, rc, sharedData>>

-----------------------------------------------------------------------------
(* Lines and handlers                                                      *)

\* ALT_REMAP_IRQ_NUM
Remaps(irq) == irq < Nirq

Enable(irq) == mie' = IF Remaps(irq) THEN mie \cup {Bit(irq)} ELSE mie
Disable(irq) == mie' = IF Remaps(irq) THEN mie \ {Bit(irq)} ELSE mie
ReturnsCode(value) == rc' = value
SameLine == UNCHANGED <<mstatus, mip, level, contexts, sharedData>>

\* Whether alt_irq has a handler there; behind its end, whatever is there.
Looks(irq) == IF Remaps(irq) THEN {Bit(irq) \in handlers} ELSE BOOLEAN

\* fpga_enable_interrupt: -1 without a handler, -2 when there is no such line
FpgaEnable(l, irq) ==
    /\ Runs(l) /\ Frees(l)
    /\ \E handled \in Looks(irq) :
          IF ~handled THEN ReturnsCode(-1) /\ UNCHANGED mie
          ELSE Enable(irq) /\ ReturnsCode(IF Remaps(irq) THEN 0 ELSE -2)
    /\ UNCHANGED handlers /\ SameLine

\* fpga_disable_interrupt: -3 when the line is off
FpgaDisable(l, irq) ==
    /\ Runs(l) /\ Frees(l)
    /\ \E handled \in Looks(irq) :
          IF ~handled THEN ReturnsCode(-1) /\ UNCHANGED mie
          ELSE IF Bit(irq) \notin mie THEN ReturnsCode(-3) /\ UNCHANGED mie
          ELSE Disable(irq) /\ ReturnsCode(0)
    /\ UNCHANGED handlers /\ SameLine

\* fpga_register_isr where alt_iic_isr_register is the stub: always negative
RegisterStub(l) ==
    /\ Runs(l) /\ Frees(l)
    /\ ReturnsCode(-88)                     \* -ENOSYS with its top bit set
    /\ UNCHANGED <<mie, handlers>> /\ SameLine

\* ... and where the core has interrupts: the handler is called from now on
\* and the line is on; registering NULL turns it off. A line there is not is
\* an error: nothing changes, and the 1 for a handler seen is overwritten.
Registers(irq, entries) ==
    IF Remaps(irq) THEN handlers' = entries ELSE UNCHANGED handlers

Register(l, irq) ==
    /\ Runs(l) /\ Frees(l)
    /\ ReturnsCode(IF ~Remaps(irq) THEN -1 ELSE IF Bit(irq) \in handlers THEN 1 ELSE 0)
    /\ Registers(irq, handlers \cup {Bit(irq)}) /\ Enable(irq)
    /\ SameLine

Unregister(l, irq) ==
    /\ Runs(l) /\ Frees(l)
    /\ ReturnsCode(IF Remaps(irq) THEN 0 ELSE -1)
    /\ Registers(irq, handlers \ {Bit(irq)}) /\ Disable(irq)
    /\ SameLine

\* sys/msw_interrupt.h: the handler is set before the line is enabled
RegisterSoftware ==
    /\ Runs("task") /\ Frees("task")
    /\ handlers' = handlers \cup {Software}
    /\ mie' = mie \cup {Software}
    /\ UNCHANGED rc /\ SameLine

TriggerSoftware(l) ==
    /\ Runs(l) /\ Frees(l) /\ Software \in handlers
    /\ mip' = mip \cup {Software}
    /\ UNCHANGED <<mstatus, mie, handlers, level, contexts, rc, sharedData>>

LineAsks(irq) ==
    /\ level # "halted" /\ Remaps(irq)
    /\ mip' = mip \cup {Bit(irq)}
    /\ UNCHANGED <<mstatus, mie, handlers, level, contexts, rc, sharedData>>

-----------------------------------------------------------------------------
(* The vector table. Taking an interrupt clears MIE, mret sets it again.   *)

Pending == mip \cap mie                 \* alt_irq_pending

\* alt_vic_platform_irq0 to 47 all read: call the handler of the line, which
\* quiets its device, or, without one, ALT_VIC_SPURIOUS_IRQ, an ebreak or a loop.
\* Software alone comes back without a handler, and its line stays on.
HasHandler(line) == line \in handlers
Quieted(line) == IF HasHandler(line) THEN mip \ {line} ELSE mip
Serves(line) == IF HasHandler(line) \/ line = Software THEN "isr" ELSE "halted"

PlatformIrq(line) ==
    /\ Runs("task") /\ mstatus = 1 /\ line \in Pending
    /\ mstatus' = 0 /\ level' = Serves(line) /\ mip' = Quieted(line)
    /\ UNCHANGED <<mie, handlers, contexts, rc, sharedData>>

Mret ==
    /\ Runs("isr") /\ Frees("isr") /\ contexts["isr"] = <<>>
    /\ level' = "task" /\ mstatus' = 1
    /\ UNCHANGED <<mie, mip, handlers, contexts, rc, sharedData>>

-----------------------------------------------------------------------------
(* Wide accesses. The application makes those of the task in a section,    *)
(* as the register is shared with a handler.                               *)

InSection(l) == l = "isr" \/ contexts[l] # <<>>
Untouched == UNCHANGED <<registers, handlers, level, contexts, rc>>

WriteBegins(l, d) ==
    /\ Runs(l) /\ Frees(l) /\ InSection(l)
    /\ access' = [access EXCEPT ![l] = [dir |-> "write", got |-> <<d>>]]
    /\ wide' = [wide EXCEPT ![1] = d]
    /\ Untouched

WriteGoesOn(l) ==
    LET n == Len(access[l].got) + 1
        d == access[l].got[1]
    IN  /\ Runs(l) /\ access[l].dir = "write"
        /\ IF n > Width THEN access' = [access EXCEPT ![l] = Idle] /\ UNCHANGED wide
           ELSE /\ wide' = [wide EXCEPT ![n] = d]
                /\ access' = [access EXCEPT ![l].got = Append(@, d)]
        /\ Untouched

ReadBegins(l) ==
    /\ Runs(l) /\ Frees(l) /\ InSection(l)
    /\ access' = [access EXCEPT ![l] = [dir |-> "read", got |-> <<wide[1]>>]]
    /\ UNCHANGED wide /\ Untouched

ReadGoesOn(l) ==
    LET n == Len(access[l].got) + 1
    IN  /\ Runs(l) /\ access[l].dir = "read"
        /\ IF n > Width THEN access' = [access EXCEPT ![l] = Idle]
           ELSE access' = [access EXCEPT ![l].got = Append(@, wide[n])]
        /\ UNCHANGED wide /\ Untouched

-----------------------------------------------------------------------------
Handler == Mret \/ WriteGoesOn("isr") \/ ReadGoesOn("isr") \/ EnableAll("isr")

Calls(l) ==
    \/ DisableAll(l) \/ EnableAll(l) \/ RegisterStub(l) \/ TriggerSoftware(l)
    \/ WriteGoesOn(l) \/ ReadBegins(l) \/ ReadGoesOn(l)
    \/ \E d \in Data : WriteBegins(l, d)
    \/ \E irq \in Irqs : \/ FpgaEnable(l, irq) \/ FpgaDisable(l, irq)
                         \/ Register(l, irq) \/ Unregister(l, irq)

IrqNext ==
    \/ CpuEnableInterrupts \/ RegisterSoftware \/ Mret
    \/ \E l \in Levels : Calls(l)
    \/ \E irq \in Irqs : LineAsks(irq)
    \/ \E line \in Line : PlatformIrq(line)

IrqSpec == IrqInit /\ [][IrqNext]_irqVars

-----------------------------------------------------------------------------
(* A wide register is read whole: accesses in sections and in handlers     *)
(* never see the words of two writes.                                      *)
ReadsAreWhole ==
    \A l \in Levels : access[l].dir = "read" =>
        \A i, j \in DOMAIN access[l].got : access[l].got[i] = access[l].got[j]
==============================================================================
