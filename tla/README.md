# HyperRAM controller: verification project

TLA+ models, TLC runs and TLAPS proofs for the HyperRAM controller of the
Cyclone 10 LP evaluation kit design, the stand-alone controller it grew out of,
and the board support package its processor runs. For the controller the
reference is the code that `top.qsf` builds, `src/sys/synthesis/submodules/` (the
copy Platform Designer made of the sources), and where they differ the packaged
sources in `src/hyperram_controller_ip/src/`; for the software it is `src/HAL` and
`src/drivers`, with the configuration of `src/system.h`.

## 1. Inventory

### The hardware

A Nios V core reaches a HyperRAM device through two Avalon slaves of one
controller, `csr` (device registers) and `s0` (memory, 22-bit word addresses).

| component | state | operations | talks to |
|---|---|---|---|
| `addr_decode.sv` | none | word address to command/address, row/page tag and slot | command FSM (wires) |
| `hyperram_controller.sv`: command FSM | `state`, sampled strobes and their previous values, captured addresses, `stm_start[3:0]`, `CA_sigr`, `rd_tmp`/`wr_tmp`, `row`, `acc_counter` | one branch of the `case` per clock edge | burst machines (start and end bits), line buffer, Avalon port |
| same: line buffer | `buffer[0:7]`, `curr_row_id`, `curr_page_id`, `buffer_wrmem`, `inbuffer_valid` | answer a hit, take a word, shift in a refill, hand a line to the write-back | `rdmem_stm`, `wrmem_stm` |
| same: pin registers | `datain`, `oe_data`, `oe_clk`, `csn`, `rwds_out`, `rwds_oe` | priority selection by start bit | I/O cells |
| `comp_stm.sv`: `rdreg_stm`, `rdmem_stm`, `wrmem_stm` | IDLE/CA/RUN/DONE, a counter, a shift register of halves, output registers | load, start, wait for RWDS, send the command/address, wait for the latency, sample or send, finish | command FSM, pins |
| `comp_stm.sv`: `wrreg_stm` | none: an empty module | none | its end bit is an undriven net |
| `iobuf.sv`, `hyperram_controller_top.sv` | DDR registers | one register each way, clock gated by `oe_clk` | device |
| `altera_merlin_slave_translator.sv` | wait counter | makes read strobes of two cycles and write strobes of one; there is no waitrequest | `s0`, `csr` |
| HyperRAM device (external) | memory, registers, pulse count of a transaction | command/address, latency, wrapped burst | |
| `topv2.sv` | one FSM, a shift register of 19 halves, a read pipe of three, the recovery block (`rwr_counter`, `rwr_stall`), three stages of command/address (`CA_sigr`) | the controller of revision `topv2`: memory read and write, register read, started by edges of JTAG sources; a stall that follows CS# | device, probes |
| `bootup.sv` | a single FSM | an unfinished state of the same, listed in `topv2.qsf` and instantiated nowhere | |
| `top*.sv`, `dq`, `ck`, `pll2`, generated interconnect | wiring, vendor primitives | | |

### The software

The board support package the core runs (`src/HAL`, `src/drivers`):

| component | state | operations | talks to |
|---|---|---|---|
| JTAG UART driver and core | receive and transmit ring, `irq_enable`, `host_inactive`, `timeout`; two FIFOs and the enables of the core | read, write, close, ioctl; interrupt handler; one-second alarm | host, interrupts, alarms |
| alarms and tick | doubly linked list, `_alt_nticks`, a due time per alarm | start, stop, tick with callbacks that start and stop alarms | timer interrupt |
| file descriptors and system calls | `alt_fd_list`, `alt_max_fd`, lock flag per descriptor | open, close, read, write, ioctl, lseek, fcntl, fstat, isatty, stat, lock, unlock, redirect | lists of devices and file systems |
| device feature lists | table of interfaces, their parameter blocks, stack of parents | scan in two passes, open, close, clean up | registers of the FPGA |
| interrupt control, register access | `mstatus.MIE`, `mie`, `alt_irq` | sections, enable, disable, register, the wrappers of 48 lines; wide reads and writes | handlers |
| logging, formatted output | flags, two counters; state of the format | log characters through the port, from task and handlers; conversions | JTAG UART core |
| caches, DMA, flash | data cache, channel queues | flush, invalidate, send, prepare, write | devices behind the cache |
| program start and end, heap | boot step, exit list, `heap_end`, `alt_stack_limit` | load, initialise, construct, main, exit, signals, exceptions; `sbrk` | all of the above |
| clock | `alt_resettime` | `gettimeofday`, `settimeofday`, `times`, `usleep`, busy wait | tick |

### What is hard, and what makes each component correct

The controllers are synchronous, so their interleavings are those of state
machines that see each other's registers one edge late, and of masters that
strobe whenever they like.

* Command FSM and burst machines: two handshakes overlap (a start bit that is
  delayed by `rd_tmp`/`wr_tmp`, an end bit that outlives its burst by an edge).
  Correct: no machine runs outside its command, no command ends on the end bit
  of an earlier burst, one machine owns the pins.
* Line buffer: data, tag, slot and the word to be written are taken at
  different edges, from wires or registers that follow the master. Correct: `s0`
  is a memory of words.
* Burst machines: three counters and a pipeline of three registers between a
  machine and the device decide which half is which. Correct: every transaction
  on the pins is whole, in order, and never driven against the device.
* Address decoder: shifts and truncations. Correct: two words share a tag and a
  slot only if they are one word.
* topv2: as the burst machines, and the recovery block reacts three edges late.
  Correct: transactions have their halves in order, are apart, and end.

The software is one task and interrupt handlers on one processor; handlers run
between any two of the task's accesses that are not inside a critical section.

* JTAG UART: ring indices, `irq_enable` and the core's enables are shared by
  handler, alarm and task. Correct: two pipes of characters; no wake-up, no
  enable is lost; calls end when the host is gone.
* Alarms: callbacks change the list the tick walks. Correct: links mirror each
  other, no callback is missed or late, the tick ends: the last two only as long
  as no callback stops the alarm behind its own (section 3).
* Descriptors: slots are handed out and taken back by long sequences of calls,
  most of which can fail halfway. Correct: the pool is what is held, a lock
  keeps others out, calls need their access mode.
* Feature lists: recursion through branches, twice, with memory to match.
  Correct: the table is the list.
* Interrupt control: nested sections around accesses of several words.
* Logging: task and handlers take turns at a port with a loop that waits.
* Caches: regions that begin and end inside lines.
* Program and heap: the order of start and end; a break and a stack limit that
  approach each other.
* Numbers: conversions, clocks and delays at a fixed width.

`PROJECT.json` lists each hazard at its line, with the properties that watch it.

## 2. Modules

| module | models | notes |
|---|---|---|
| `AddrDecode` | `addr_decode.sv` | operators; a command/address is three 16-bit halves |
| `HyperBus` | widths, halves, words, shift register | shared by all |
| `CaPhase` | the `STATE_CA` branch the three machines share | instantiated by each |
| `RdRegStm`, `RdMemStm`, `WrMemStm` | the burst machines | one record of registers each, one action per branch, input wires as parameters |
| `HyperController` | `hyperram_controller.sv` | a step is one positive edge of `clk`; inputs arbitrary |
| `HyperSystem` | controller, master, I/O cells, device | closes the controller's inputs |
| `WordMemory` | what `s0` promises | abstract specification |
| `TopV2` | `topv2.sv` | a step is one positive edge; strobes and RWDS arbitrary, `rst` at any edge |
| `JtagUartCore` | `altera_avalon_jtag_uart.sv` seen from its registers | FIFOs, enables, interrupt, host |
| `JtagUart` | the driver over that core | a step is one access to a shared variable or register |
| `BytePipe` | what each ring promises | abstract specification |
| `Alarms` | `alt_alarm_start.c`, `alt_tick.c`, `alt_llist.h` | the tick walks link by link; callbacks between |
| `Descriptors` | the `alt_*.c` of the POSIX calls | a step is a call; drivers answer as they like |
| `DflWalker` | `intel_fpga_api_cmn_dfl.c`, `_inf.c`, `intel_fpga_api_niosv.c` | both passes of the recursion, with its stack |
| `Interrupts` | `alt_irq.h`, `alt_vic_isr_wrapper.c`, `intel_fpga_api_niosv.h` | task and one level of handlers |
| `Logging` | `alt_log_printf.c`: what is logged when, and the port | look and write are steps of their own |
| `Printing` | `alt_printf.c`, `alt_log_private_printf` | a step is a character of the format |
| `Coherence` | `alt_dcache_flush*.c`, `alt_dma.h`, `alt_flash.h` | which of cache, memory and device has the newest byte |
| `Program` | `alt_main.c`, `alt_load.c`, `alt_exit.c`, `alt_kill.c`, `alt_sbrk.c`, `alt_stack.h` | one program, from load to halt |
| `Clock` | `alt_gettod.c`, `alt_settod.c`, `alt_times.c`, `alt_busy_sleep.c` | arithmetic with its widths |
| `MCAddrDecode`, `MCHyperController`, `MCHyperSystem`, `MCJtagUart`, `MCParts` | instances for TLC | `MCHyperSystem` and `MCJtagUart` add history or workloads; the mapping to `WordMemory` is in the first, those to `BytePipe` are in `JtagUart` |
| `HyperController_proofs`, `HyperSystem_proofs`, `Pins_proofs`, `WordMemory_proofs`, `TopV2_proofs`, `JtagUart_proofs`, `Alarms_proofs`, `Software_proofs` | theorems | see 5 |

### The controller

All assignments of the code are nonblocking, so one step of `Clock(in)` gives
every register its next value from the current ones. `Clock` conjoins the
sampling of strobes, the capture of addresses, one action of the command FSM
(`CommandStep`, one action per `case` branch, one disjunct per `if` arm), the
pin registers and one step of each burst machine. `Reset` is the `if (rst)` arm
of every block at once; it keeps what the code does not reset (`dataoutr`, the
data part of the write shift register). A machine's parameters are its input
wires: its start bit, `CA_sigr`, RWDS, the data from the pins.

A few places need the reader's attention:

* `stm_end[1]`, and the outputs of `wrreg_stm`, have no driver: they read as 0.
* Registers are 0 at power-up, except that `csn` is 0 or 1: 1 if a reset came
  first. `Init` takes both.
* `buffer_wrmem` is loaded from the buffer before the update of the same edge.
* `out_addr[47]` is `rd_tmp`, which only IDLE clears.
* In `rdreg_stm` the increment after the `if` is not in an `else`, so the counter
  goes on to 15 when the register is sampled.
* `inner_counter` of `rdmem_stm` is cleared by reset only.

In `HyperSystem` the master's strobe is on the wires for two cycles (read) or one
(write), as the slave translator makes it, and address and writedata stay until
the next strobe; the master waits for the controller to be at rest
(`Courteous`) or not. The I/O cells delay `dq` by one edge each way; the device
counts clock pulses: 0 to 2 carry the command/address, data starts at pulse 17,
a register value can be read from pulse 15. These two numbers follow from the
counts at which the machines sample and send (register: count 14, memory: 16,
write: 13 and the pipeline of the pins) and stand for the device's latency
setting; the device is external and its model says only what those counts
assume of it.

`TopV2` keeps the registers of the machine in `fsm`, of the block beside it in
`rwr`, and what the pins have shown in `bus`. A half is a name, its place in the
burst, as no branch looks at data. `CA_sigr` is cleared by `rst` and filled from
`CA_sig` over three edges (`rwr.ca`, `CaDelay`); what IDLE loads from it before is
zeros (`Ca`), so that a transaction begun so soon after a reset sends no
command/address (`bus.early`).

### The software

`JtagUart` has three processes: the task, which is in one call at a time (`pc`),
the interrupt handler (`isr`) and the alarm. `TaskRuns` says that the task makes
a step only while no handler runs; an action whose code is inside a critical
section is one step. `memcpy`, the publication of an index and the enabling of
an interrupt are steps of their own.

In the other modules of the software the grain is chosen by who shares what:
`Alarms` splits the tick at every link and callback, `Interrupts` a wide access at
every word, `Logging` a character at look and write; elsewhere nothing else runs
and a call, a character or a block is a step.

Library code exists in more than one configuration; it is modelled for the one
that compiles it: `ALT_ENHANCED_INTERRUPT_API_PRESENT` with the vectored wrappers,
and the stub of `alt_iic_isr_register` besides (`RegisterStub`). Where the stub is
not compiled the repository has no body of it: `Register` and `Unregister` take it
to return -1 and change nothing for a line from `NIOSV_NIRQ` on, as `alt_irq.h`
does for such lines, and the look of `fpga_register_isr` at `alt_irq` behind its
end finds either (`Looks`). `ALT_NO_EXIT` is the constant `NoExit`: then `alt_main`
neither registers the destructors nor exits. `ALT_LOG_ENABLE`
for logging; stack checking for the stack limit (`StackChecked`); a data cache for
`Coherence`. `system.h` has `ALT_MAX_FD` 32, no cache, no interrupt connected to
the UART (`JTAG_UART_0_IRQ` is -1) and no system clock; what the code then leaves
out is not contradicted by the models.

## 3. Runs

Passing runs:

| run | question | bounds |
|---|---|---|
| `control` | widths, handshake, one bus owner, commands await their burst | inputs arbitrary each edge from six strobe combinations (among them two commands at once), two addresses (slot 0, slot 8), reset at any edge, RWDS free; one data value, as no property looks at data |
| `served` | reads are remembered and answered, `s0` implements `WordMemory`, requests end | three words in two lines; one workload reads all of them, the other reads and writes two words of one line, so that hits, the first miss and its write-back occur and evictions do not |
| `pins` | right command/address, right register answers, bursts whole, no contention, recovery | reads, writes and register reads of a master that waits (`patient`: all addresses, all four registers) or does not (`hasty`: both lines, one register) |
| `uart` | types, copies, lost kicks, both pipes, liveness of writers and readers, calls outlive the host | rings of 3, FIFOs of 2 and 1, counters up to 4, and four workloads: only writes, only reads, both with single characters, and a host that goes away |
| `parts` | the other components, one per behaviour | see below |

Every half the device holds is distinct (`Contents`), so a half in the wrong
place shows. Two lines and two words of one line are enough for hit, miss,
refill of another line and return to the first, which is all the line buffer
tells apart. Burst lengths and latencies are the code's own, not scaled down.

A ring of three holds two characters: it can be empty, half full, full, and
wrapped at either index, also while a copy is under way. In `writes` and `reads`
one character at most is different from the others: the driver treats all
alike, so one mark shows loss, duplication and reordering. `both` lets the two
directions share the handler, the enables and the task.

`parts` checks components that share no state with each other, each alone
while the others stand still; it does not compose them. It is one run, so that
the instances are in one place, `MCParts`:

| component | bounds |
|---|---|
| `Alarms` | three alarms, intervals 1 and 2, callbacks that stop and restart; four ticks |
| `Descriptors` | pool of five, three standard ones; a device, a file system, the null device; three names, two modes, two sets of flags |
| `DflWalker` | three lists, whose headers all exist: one level; six interfaces with relative, absolute and nested branches; two branches in one interface |
| `Interrupts` | one line below `NIOSV_NIRQ` and one above, sections nested twice, a register of two words, two values |
| `Logging` | every log level, a FIFO of two, messages of two and three characters |
| `Printing` | formats of up to four characters from 13, 8-bit integers, six values at the edges |
| `Coherence` | eight bytes in lines of two; buffers that are a line, that share one, and of two lines |
| `Program` | two objects, memory of sixteen bytes, increments of 4 and 5 |
| `Clock` | tick rates 0, 3, 4 of 12 microsecond units, words of 256 values (`Modulus`) and delays at both sides of the switch between the loops (`ShortLoops` 16) |
| `TopV2` | nothing scaled down; `RecoveryTime` is 7 |

Deadlock is checked in all runs but `parts`, where a program halts and a text
ends, and the sweep of the decoder, which ends. The sweep only exhibits the
tag finding; what the decoder's arithmetic does tell apart is proved for every
address (section 5).

Fairness.

* `served`: weak fairness of a clock edge that finds RWDS high. The clock does
  not stop, and the device raises RWDS between the fall of CS# and the
  command/address. The tick is always enabled, so this says no more than that
  RWDS is not low for ever. The machines have no timeout: without the assumption
  they wait in CA. The same holds of `TopV2`.
* `uart`: the task, the handler once its interrupt is up, and the alarm go on.
  That the host takes or polls is not assumed but stated as a premise of the
  property that needs it.
* `parts`: a tick or a handler that has begun goes on; the host reads the log
  port (premise of `HandlersReturn`, a part of `PartsEnd`; without it a handler spins for ever).

Runs that refute what the repository says (findings in `PROJECT.json`):

| run | statement | what the run shows |
|---|---|---|
| `tag_identifies_line` | `wire buffer_hit; //buffer hit, else buffer miss` | address bit 9 is not compared: words 0 and 512 look alike |
| `write_miss` | the comment in IDLE: buffer updated, then written to memory | the line written back is the old one, and the transaction is a read |
| `evict` | "if changed address detected, then write buffer to ram" | a refill drops a changed line |
| `pipelined` | four pending reads (`hyperram_controller_hw.tcl`) | a read strobed while another is served is lost |
| `register_write` | `csr_write` port | the FSM stays in WRREG |
| `endless_tick` | `alt_tick` processes the list of alarms | a callback that stops the alarm behind its own does not keep the walk from going there; the stopped alarm points to itself, and the walk does not leave it: at interrupt level, for ever |
| `fd_lock` | a lock is granted if no other descriptor references the device | the search stops before the highest descriptor |

The passing runs stay on the near side of these: `served` and `pins` show what
does hold of `s0`, the runs above show where it ends. So do the components of
`parts`:

* `PartsEnd` and `CallbacksAreOnTime` are checked with `Meddling` FALSE: callbacks
  stop themselves, start alarms and stop any but the one the walk has read as
  its next. With `Meddling` TRUE run `endless_tick` refutes the first conjunct of
  `PartsEnd`, and an alarm may be called after it was stopped; `LinksMirror` is
  proved for both.
* `TransactionsInOrder` fixes which half is at which pulse and how many pulses a
  transaction has; it does not say that a write sends all it loaded: fifteen of
  its sixteen data halves get to the wires (`LastHalfIsLost`, section 5), although
  `topv2.sv:20` says "32 bytes burst buffer".
* `HeapIsSound` says what `alt_sbrk.c:84` and `89` enforce, where a comment says
  the opposite (section 7).
* `TableIsTheList` states the parents of lists whose interfaces have one branch
  each (`ParentLeadsHere`), the rest of it for all.

## 4. What is only model-checked

* `PrintsNumbers`: the digits come from a recursion over the value, and the
  provers cannot instantiate an induction over data.
* `PartsTypes`, but for the parts of it the proofs of `Alarms`, `Clock`, `Logging` and
  `DflWalker` state again.
* `WordsAreServed` beyond one line for a master that writes, and with more than one
  pending read: there the property fails (runs `evict`, `write_miss`,
  `pipelined`). Likewise the alarms' times and the end of the walk when a
  callback stops the alarm behind its own (run `endless_tick`).
* Liveness (`RequestsEnd`, `EverythingIsSent`, `ReadersAreWoken`, `CallsOutliveTheHost`,
  `PartsEnd`), which is outside the prover's reach, as is ENABLED.

## 5. Proofs

`HyperController_proofs` proves, for every choice of `Strobes`, `Addresses`,
`CsrAddresses`, `WriteWords`, `ReadHalves` and `CompareTags` that satisfies
`ConstantsType`, and with a reset possible at every step:

| theorem | property |
|---|---|
| `WidthsKept` | `TypeOK` |
| `HandshakeHolds` | `Handshake` |
| `BusHasOneOwner` | `OneBusOwner` |
| `CommandsEndWithTheirBurst` | `CommandsAwaitTheirBurst` |

The inductive invariant is `IInv == TypeOK /\ Handshake`. `Handshake` says of each
machine that it is away from IDLE only while its start bit is set and the FSM is
in the state that serves it; that its end bit is up in DONE, down in CA and RUN;
and that a machine at rest with the end bit still up has already been left by the
FSM. The last conjunct is what makes it inductive: DONE lasts one edge, the end
bit two, and without it the FSM might meet the old end bit on its return. The
conjuncts on `rd_tmp` and `wr_tmp` say why `stm_start[2] <= rd_tmp` does not
withdraw the start bit in mid-burst. The argument has two halves that meet in
one lemma:

* `BurstEffect` and the lemmas before it: one edge of a machine keeps its registers' widths and
  moves state and end bit along IDLE, CA, RUN, DONE;
* `CommandEffect`: one edge of the FSM sets, holds or clears each start bit
  (`StartEffect`);
* `InStepKept`: together they keep FSM and machine in step.

The module begins with what the decoder tells apart, for every address:
within 1024 words the groups of 32 words, and nothing else, have
command/addresses of their own (`GroupsHaveOwnColumns`); the row is never sent,
so words 1024 apart are one place although `system.h:185` declares a span of
16 MB (`RowIsNotSent`); address bit 9 is in no field of the tag
(`TagDropsBitNine`, the cause behind run `tag_identifies_line`). `addrmap.csv`
divides the word address by eight where the decoder divides by 32.

`OneBusOwner` and `CommandsAwaitTheirBurst` follow from `IInv`. `TypeOK` is proved
by groups of registers, with the decoder's widths as a lemma (`DecodedWidths`).
The lemmas about a clock edge hold for any input wires can carry (`AnyInputs`),
not only for those of the constants.

`HyperSystem_proofs` uses that to carry the invariant into the closed system:
`SystemInv` adds what the master, the cells and the device hold, so that the wires
between them never leave `AnyInputs` (`WiresAreInputs`). `SystemKeepsHandshake`,
`SystemHasOneOwner` and `SystemCommandsAwait` state the three properties of
`HyperController` for `SysSpec`, for every set of operations, both kinds of master
and any number of pending reads. The system has no reset, so there the last of
them has no exception.

`Pins_proofs` follows a burst from the machine over the pin registers and the `dq`
cells to the device, for every set of operations and addresses:

| theorem | property |
|---|---|
| `PinsInvariantHolds` | the invariant itself |
| `LinesAreWrittenWhole` | `WriteBackOnPins` |
| `ReadsMeetNoContention` | `NoContentionOnReads` |
| `BurstsAreNeverCut` | `BurstsAreWhole` |
| `CommandsReachDevice` | `CommandReachesDevice` |
| `RegisterReadsAnswer` | `RegisterReadAnswers` |
| `ReadsAreRemembered` | `NoReadForgotten` |
| `DeviceRecovers` | `RecoversAfterWriteBack` |

The three machines are one to this proof: `BurstMove` is an edge of any of them,
with the counts at which it releases `dq` and ends as parameters, and each
machine's step is shown to be one. On it stand, in this order:

* `Bus`: phase and counter of a machine fix its outputs (`Position`), and, one to
  three edges behind, the pins and the device's pulse count (`OnWires`); at rest
  the wires are quiet (`BusAtRest`).
* `LineOnWires`: the shift register holds the rest of the line, the cells the
  half before, the device's pulse is the place of the half that is on the wires.
  A line that arrives in `buffer_wrmem` while the machine is away from CA would
  break it; that `inbuffer_valid` is up only at the start rules that out.
* `Carries`: the same for the three halves of the command/address, up to the
  copy in the device. It is stated for a set of command/addresses, so that
  `WholeInv` can say "one of register space" for any master and `PatientInv` "the
  one that was asked for" for a master that waits.
* `Waits`: with such a master there is one command at most, and it is in one of
  four places: none, on the wires, sampled, or being served; reads outstanding
  and answers given agree in each.
* `RecoveryInv`: how long CS# has been high is bounded below by where the FSM is
  (`Recovered`): each edge brings the next burst no more than a cycle closer
  (`RecoveredGrows`), and before a machine leaves IDLE twelve have gone by. The
  theorem assumes that there are no register writes: WRREG starts `wrreg_stm`,
  whose undriven CS# is 0, and does so one cycle earlier than a burst would.

`WordMemory_proofs` proves `WordsServed`: controller, master, cells and device
together implement `WordMemory` (`WordsAreServed`), for every choice of addresses,
words and device contents under `ServedMasters`. What that asks for is what the
refuting runs show to be needed:

* one read at a time (`pipelined`), of a master that waits, or that follows the
  workload of one;
* slots within the eight words of the buffer, and no address whose tag is that
  of the empty buffer at power-up, which would hit before the first refill;
* tags that tell the groups of 32 words apart (`tag_identifies_line`);
* a workload reads only, or keeps to one line while tags are compared: a
  refill of another line would drop what was written (`evict`).

`MemoryInv` adds to the waiting master's invariant that the device keeps its
contents (`RamIsKept`: what a write miss sends is the old line), that the FSM
serves what was issued last (`IssuedInv`), and what the line buffer is in each
state of the FSM (`BufferInv`). A refill is followed half by half (`FillOf`): at
count 16 + 2k of `rdmem_stm` word k - 1 is complete and about to enter, one count
later the first half of word k is in the register, and the k words already
entered are in the last k slots, in order. Each edge is then a read taken, an
answer given, a word stored or none of these (`IdleEdgesServe`, `BusyEdgesServe`),
and each of the four is a step of `WordMemory` or a stutter (`MemoryMoves`).

`TopV2_proofs` proves, for every `RecoveryTime`, `TransactionsHold`
(`TransactionsInOrder`), `StallHolds` (`StallSeparates`) and `LastHalfIsLost`: of the
sixteen halves a write loads the last is never sent (`LastHalfStays`). Of a
transaction under way the counter says how many pulses the machine has made,
which half is first in the shift register and what the last pulse carried. Until
three edges after a reset the stages of `CA_sigr` say how long ago it was, and a
transaction that began within them is marked for its whole length. The recovery
block is described by the edges since CS# rose: its shift register, its count
and the stall follow from that number, whatever strobes arrive.

`JtagUart_proofs` proves, for every size of the rings and FIFOs, every threshold
and every timeout that satisfies `DriverConstants` and `CoreConstants`:

| theorem | property |
|---|---|
| `TypesHold` | `TypeOK` |
| `CopiesAreSafe` | `CopiesOwnCells` |
| `KickIsNotLost` | `NoLostKick` |
| `ReceivingComesBack` | `ReceiverComesBack` |
| `RoomStaysThere` | `RoomIsThere`: a handler that found room in the core does not write more than that |
| `RingsImplementPipes` | `RingsArePipes`: driver and core implement two `BytePipe`s |

The invariant adds to these what relates the processes: the enables the core
holds are `irq_enable` (`EnablesAgree`), the handler's count of room is not more
than there is (`RoomIsKept`), and the chunk a reader or writer has looked up is
still its own (`WriterOwnsChunk`, `ReaderOwnsChunk`): the handler moves the other
index of a ring only. The proof has a lemma per group of actions, and one for
steps that change the task's own variables only.

The refinement needs two facts more (`PipeInv`): a writer's chunk leaves one cell
of the ring free (`WriterLeavesCell`), so that publishing it cannot make a full
ring look empty, and what it copied is in the ring (`ChunkIsThere`). The pipe's
queue is the content of the ring followed (transmit) or preceded (receive) by
that of the FIFO. Three lemmas turn index arithmetic into sequence operations:
giving up the cell at `out` takes the head (`RingGives`), publishing a chunk
appends it (`RingAccepts`), and cells that are not in use do not show
(`FreeCellsDoNotShow`). With them every step of driver, core and host is a
`Put`, a `Take` or an `Offer` of one pipe, or leaves both alone (`StepsArePipeSteps`).

`Alarms_proofs` proves `AlarmsHaveTypes` and `ListIsNotTorn` (`LinksMirror`) for
every set of alarms: insertion and removal keep the links each other's mirror,
removal also of an alarm that is in no list, and the walk never touches a link.
`AlarmsAreOnTime` (`CallbacksAreOnTime`) and `StoppedAlarmsAreSilent`
(`StoppedAlarmIsSilent`) assume `~Meddling`, that no callback stops the alarm behind
its own: run `endless_tick` shows what happens otherwise. Mirrored links do not
say that the walk will reach an alarm, so the invariant has for each node the
set of those from it to the end of the list (`rest` in `Ordered`). With it `OnTime`
says that between ticks all due times are ahead, and that during a walk the
alarms that are due are ahead of it: a callback inserts at the head, behind the
walk, but with a later due time.

`Software_proofs` takes seven components that share no state:

| theorem | property | invariant |
|---|---|---|
| `DestructorsAreRun` | `DestructorsRunOnExit`: all destructors after an exit from `main` or later, none after one from a constructor or with `NoExit` | the step a program is at says which objects have been constructed and destroyed and whether the destructors are registered (`Life`) |
| `HeapStaysSound` | `HeapIsSound` | blocks are in order below the break; while only whole words were asked for, the stack limit is the break (`HeapInv`, `LimitInv`) |
| `WideReadsAreWhole` | `ReadsAreWhole` | a section of the task keeps the handler out; a level that does not run is in no access; words read so far are those of the register, which are alike unless a write is under way (`SectionInv`, `AccessInv`, `WordsInv`) |
| `NoDescriptorLeaks` | `PoolIsWhatIsHeld` | used entries beyond the standard three are the held ones, with the access they were opened with, and `alt_max_fd` is not below any of them (`HeldInv`, `FdInv`) |
| `AccessIsKept` | `CallsNeedTheirAccess` | the same |
| `LocksHold` | `LockKeepsOthersOut` | the same, and what `open` leaves of the pool (`OpenEffect`) |
| `CacheIsCoherent` | `TransfersAreCoherent` | bytes of a buffer that a device has or that has arrived are not dirty; buffers in use are apart; while all received buffers are whole lines, old copies are of arrived ones only (`UsesInv`, `ApartInv`, `CacheInv`) |
| `DelaysAreAsAsked` | `SleepsAsAsked` | none: the arithmetic of one call, by lemmas about quotients and remainders of variables |
| `TimeOfDayIsKept` | `TimeIsKept` | `alt_resettime` is the time last set less the ticks at that moment, in microseconds; its fraction may be negative (`TimeInv`) |
| `TaskAloneLosesNothing` | `LostOnlyToHandlers` | while no handler logs, the core still has the room the task has seen (`PortInv`) |
| `PassesDoAgree` | `PassesAgree` | a pass follows the list's only trail of places; the second pass is at a place of the trail the first one went to its end, and has entered no more interfaces than were counted there (`OnListInv`, `PassInv`, `TableInv`) |
| `TablesAreTheList` | `TableIsTheList` | each call on the stack of parents names the interface whose branch was taken, and the level walked is part of the level that began at that branch; entries not filled yet are zero and own no blocks, and `allocated` is the sum over the entries (`BlocksInv`, `ParentsInv`) |

They hold for every value of the constants that satisfies the assumptions of
the modules: a stack top that is a multiple of four, as the linker script sets
it; a cache of whole lines; an object that is in one of the lists `alt_dev_list`
and `alt_fs_list` at most, as `alt_llist` has one pair of links per entry; lists of
features in which every offset leads to a header and every list of parameters
has a last one (`ListsAreWellFormed`); a processor clock at which short delays fit
a word, as 9 * 50 MHz * 2^16 fits 32 bits (`ClockConstants`). Data, names, devices, files, buffers and their number are free.

Two lemmas of `TablesAreTheList` stand for inductions. `LevelGoesOn`: the
smallest closed sets of addresses (`Rest`) solve the equation of the recursion,
so the function `CHOOSE` takes solves it too. `SumsFollow`: two tables that differ
in one entry have sums that differ by it, for the smallest index at which they
would not leads to a contradiction. The theorem takes the stack of parents to
keep what is pushed; that its allocation may be one entry short is said in 7.

## 6. Not modelled

* The byte order swap in `iobuf.sv`, analogue timing and the PLL; generated and
  vendor code (interconnect, Nios V, `dq`, `ck`, `pll2`); board tops and scripts.
* The copies of the controller and the decoder directly under `src/`, which no
  build file names (the decoder there drives two bits twice and uses an
  undeclared net, so its values are the tool's choice); `bootup.sv`.
* Alternatives chosen at compile time: the polled UART driver, the direct-driver
  variants of the system calls, `alt_log` for other UARTs.
* Registers without logic: exception and ECC handlers, thread-local storage,
  `crt0.S`; the instruction cache and the uncached allocator, which are empty or
  plain `malloc` here; the time zone; the C library.

## 7. Observations

Met while modelling, besides what the runs refute. Lines of the repository that
the code contradicts:

* `topv2.sv:20` calls `buffer_out` a "32 bytes burst buffer", and lines 220 to 238
  load sixteen halves of data; fifteen are sent (`LastHalfIsLost`).
* `alt_sbrk.c:47` says "This simple implementation does not perform any bounds
  checking. Memory will be allocated, even if the request region colides with the
  stack or overflows the available physical memory". Lines 84 and 89 refuse what
  passes the limit of the heap, line 110 reports a collision with the stack.
* `intel_fpga_platform_niosv.h:78` describes `dfh_parent` as "Index to the
  FPGA_INTERFACE_INFO of the parent". What is below a second branch of one
  interface gets the last interface below the first
  (`intel_fpga_api_cmn_dfl.c:439` pushes the current index, which has moved on).
* `altera_avalon_jtag_uart.h:97` describes `timeout` as "Timeout until host is
  assumed inactive". A writer whose wait ended because the handler made room gives
  up all the same while `host_inactive` is not 0 again, after a first second
  without the host (`altera_avalon_jtag_uart_write.c:183`), with `-EIO` if it has
  copied nothing.

What no line contradicts:

* Controller. The packaged sources tie `buffer_hit` to 0, so that a word written
  is not read back. `hyperram_controller_hw.tcl:112` declares a hold time of 0,
  and `s0_writedata` is sampled cycles after the strobe: correct only with the
  interconnect of `sys`, which leaves the word on its wires.
* topv2. `rwr_stall` follows the rise of CS# by three edges: a command at one of
  them is taken at once, commands during the stall are lost. Reset pulls CS#
  low, so that no rise precedes a command at the first edge after it; a command
  within three edges of it has zeros for its command/address. `rst` in the middle
  of a write leaves `rwds_oe` set, and the next transaction waits for an RWDS the
  controller drives low itself. `regw` starts nothing; register data never reach
  the probe.
* Alarms. `alt_nticks` reads 64 bits in two loads without a critical section.
* Interrupts. `alt_vic_msw_isr` leaves its line pending when no handler is set.
  `fpga_read_64` and its kin are several accesses. Without the interrupt
  controller `fpga_register_isr` always fails with `-ENOSYS`.
* Feature lists. The stack of parents is one entry short when its depth is a
  multiple of the increment.
* Logging. `alt_log_system_clock` prints every `INTERVAL + 1` ticks. If the host
  never reads, a handler that logs does not return.
* Caches. `alt_dcache_flush_no_writeback` of a region that is not whole lines drops
  its neighbours' stores; flash writes no longer flush; closing a DMA channel
  does nothing, and `alt_dma_rxchan_depth` does not check for NULL.
* Heap. The stack limit stays behind after an increment that is not a multiple
  of four; `alt_exception_stack` comparisons always report. `__malloc_lock` and
  `__env_lock` are empty.
* Clock. With tick rates that do not divide a million the microseconds drift
  against the seconds. A busy wait of exactly one outer loop may be none at all
  at a clock of a power of two; below one megahertz it divides by zero. The
  timer wait computes its count in 32 bits.

## 8. Left for later

Lists nested deeper than the increment of the stack, with the memory behind it; the
UART's alarm run by `Alarms`; the parts of the board support package listed in
section 6.
