------------------------------ MODULE JtagUart ------------------------------
(***************************************************************************)
(* The interrupt-driven JTAG UART driver (drivers/src), built without an   *)
(* operating system: one task that calls read, write, close and ioctl, the *)
(* interrupt handler, and the alarm that watches for the host.  The        *)
(* handler and the alarm run to completion before the task goes on; the    *)
(* core and the host never stop.  A task's step is one access to a         *)
(* variable the handler shares, or a section with interrupts off.          *)
(***************************************************************************)
EXTENDS JtagUartCore

CONSTANTS
    BufLen,     \* ALTERA_AVALON_JTAG_UART_BUF_LEN
    IntMax,     \* INT_MAX
    DefaultTimeout,
    MaxCount    \* longest transfer a call asks for

ASSUME DriverConstants ==
    /\ BufLen \in Nat \ {0, 1}
    /\ IntMax \in Nat /\ IntMax >= 4
    /\ DefaultTimeout \in 2 .. IntMax - 2
    /\ MaxCount \in Nat \ {0}

VARIABLES
    rx_in, rx_out, rx_buf, tx_in, tx_out, tx_buf,
    irq_enable, host_inactive, timeout,
    isr,        \* the handler: where it is and what it read of CONTROL
    pc,         \* where the task is
    data,       \* what is left to write
    space,      \* room left to read into
    copied,     \* the chunk memcpy'd to the caller last
    seen,       \* the index of the other side as the task read it
    n,          \* size of the chunk in hand
    nonblock,   \* O_NONBLOCK
    moved,      \* ptr # buffer: the call has transferred something
    result      \* of the call that returned last

ringVars == <<rx_in, rx_out, rx_buf, tx_in, tx_out, tx_buf>>
callVars == <<data, space, copied, seen, n, nonblock, moved>>
taskVars == <<pc, callVars, result>>
vars == <<coreVars, ringVars, irq_enable, host_inactive, timeout, isr, taskVars>>

Index == 0 .. BufLen - 1
Unwrapped1(i) == i + 1      \* mutant of Next1
Next1(i) == (i + 1) % BufLen
Smaller(a, b) == IF a < b THEN a ELSE b

\* The cells of a ring that hold characters, and those characters in order.
Used(in, out) == (in + BufLen - out) % BufLen
Holds(in, out, i) == (i + BufLen - out) % BufLen < Used(in, out)
Content(buf, in, out) ==
    [k \in 1 .. Used(in, out) |-> buf[(out + k - 1) % BufLen]]

Handler == [at : {"off", "poll", "rx", "tx"}, pending : SUBSET {"RI", "WI"},
            ravail : BOOLEAN, room : 0 .. WriteDepth]
Rest == [at |-> "off", pending |-> {}, ravail |-> FALSE, room |-> 0]

Writing == {"w_look", "w_copy", "w_publish", "w_kick", "w_wait", "w_check"}
Reading == {"r_look", "r_copy", "r_take", "r_enable", "r_wait", "r_check"}

RingType ==
    /\ rx_in \in Index /\ rx_out \in Index /\ rx_buf \in [Index -> Bytes]
    /\ tx_in \in Index /\ tx_out \in Index /\ tx_buf \in [Index -> Bytes]

DriverType ==
    /\ irq_enable \in SUBSET Enables
    /\ host_inactive \in 0 .. IntMax - 2 /\ timeout \in 2 .. IntMax
    /\ isr \in Handler

CallType ==
    /\ pc \in Writing \cup Reading \cup {"idle", "c_wait"}
    /\ data \in Seq(Bytes) /\ space \in 0 .. MaxCount /\ copied \in Seq(Bytes)
    /\ seen \in Index /\ n \in 0 .. BufLen - 1
    /\ nonblock \in BOOLEAN /\ moved \in BOOLEAN
    /\ result \in {"none", "count", "0", "EWOULDBLOCK", "EIO", "ENOTTY"}

TypeOK == CoreType /\ RingType /\ DriverType /\ CallType

\* altera_avalon_jtag_uart_init: receive interrupts on; without an alarm
\* the timeout is "don't know if host present".
Init ==
    /\ CoreInit
    /\ rx_in = 0 /\ rx_out = 0 /\ tx_in = 0 /\ tx_out = 0
    /\ \E b \in Bytes : rx_buf = [i \in Index |-> b] /\ tx_buf = rx_buf
    /\ irq_enable = {"RE"} /\ ien = irq_enable
    /\ host_inactive = 0
    /\ timeout \in {DefaultTimeout, IntMax}
    /\ isr = Rest
    /\ pc = "idle" /\ data = <<>> /\ space = 0 /\ copied = <<>>
    /\ seen = 0 /\ n = 0 /\ nonblock = FALSE /\ moved = FALSE
    /\ result = "none"

-----------------------------------------------------------------------------
(* altera_avalon_jtag_uart_irq                                             *)

\* Anything but the handler waits while it runs.
TaskRuns == isr.at = "off"

Interrupted ==
    /\ TaskRuns /\ av_irq
    /\ isr' = [Rest EXCEPT !.at = "poll"]
    /\ UNCHANGED <<coreVars, ringVars, irq_enable, host_inactive, timeout, taskVars>>

SetEnables(enables) ==
    /\ irq_enable' = enables
    /\ WriteControl(enables, FALSE)

Poll ==
    LET ri == {b \in {"RI"} : ipen_AF}
        wi == {b \in {"WI"} : ipen_AE}
    IN
    /\ isr.at = "poll"
    /\ isr' = IF ri \cup wi = {} THEN Rest
              ELSE [at |-> IF ri # {} THEN "rx" ELSE "tx", pending |-> ri \cup wi,
                    ravail |-> TRUE, room |-> WSpace]
    /\ UNCHANGED <<coreVars, ringVars, irq_enable, host_inactive, timeout, taskVars>>

AfterReceive == IF "WI" \in isr.pending THEN "tx" ELSE "poll"
RingFull == Next1(rx_in) = rx_out

ReceiveChar ==
    /\ isr.at = "rx" /\ ~RingFull /\ RValid
    /\ ReadData
    /\ rx_buf' = [rx_buf EXCEPT ![rx_in] = Head(rfifo)]
    /\ rx_in' = Next1(rx_in)
    /\ isr' = [isr EXCEPT !.ravail = RAvail]
    /\ UNCHANGED <<rx_out, tx_in, tx_out, tx_buf, irq_enable, host_inactive, timeout, taskVars>>

\* DATA came without RVALID: the FIFO is empty.
ReceiveNothing ==
    /\ isr.at = "rx" /\ ~RingFull /\ ~RValid
    /\ ReadData
    /\ isr' = [isr EXCEPT !.ravail = FALSE,
                          !.at = AfterReceive]
    /\ UNCHANGED <<ringVars, irq_enable, host_inactive, timeout, taskVars>>

\* Mutant of StopReceiving: characters are left, the enable stays on.
StopQuietly ==
    /\ isr.at = "rx" /\ RingFull
    /\ isr' = [isr EXCEPT !.at = AfterReceive]
    /\ UNCHANGED <<coreVars, ringVars, irq_enable, host_inactive, timeout, taskVars>>

\* The ring is full; with characters left in the FIFO receiving is turned off.
StopReceiving ==
    /\ isr.at = "rx" /\ RingFull
    /\ isr' = [isr EXCEPT !.at = AfterReceive]
    /\ IF isr.ravail THEN SetEnables(irq_enable \ {"RE"})
                     ELSE UNCHANGED <<coreVars, irq_enable>>
    /\ UNCHANGED <<ringVars, host_inactive, timeout, taskVars>>

TransmitChar ==
    /\ isr.at = "tx" /\ isr.room > 0 /\ tx_out # tx_in
    /\ WriteData(tx_buf[tx_out])
    /\ tx_out' = Next1(tx_out)
    /\ isr' = [isr EXCEPT !.room = @ - 1]
    /\ UNCHANGED <<rx_in, rx_out, rx_buf, tx_in, tx_buf, irq_enable, host_inactive, timeout, taskVars>>

\* Mutant of StopTransmitting: the room left is not looked at.
StopRegardless ==
    /\ isr.at = "tx" /\ (isr.room = 0 \/ tx_out = tx_in)
    /\ isr' = [isr EXCEPT !.at = "poll"]
    /\ SetEnables(irq_enable \ {"WE"})
    /\ UNCHANGED <<ringVars, host_inactive, timeout, taskVars>>

\* With room left there is nothing more to send: transmitting is turned off.
StopTransmitting ==
    /\ isr.at = "tx" /\ (isr.room = 0 \/ tx_out = tx_in)
    /\ isr' = [isr EXCEPT !.at = "poll"]
    /\ IF isr.room > 0 THEN SetEnables(irq_enable \ {"WE"})
                       ELSE UNCHANGED <<coreVars, irq_enable>>
    /\ UNCHANGED <<ringVars, host_inactive, timeout, taskVars>>

HandlerStep ==
    Poll \/ ReceiveChar \/ ReceiveNothing \/ StopReceiving
    \/ TransmitChar \/ StopTransmitting

-----------------------------------------------------------------------------
(* altera_avalon_jtag_uart_timeout, once a second                          *)

AlarmRuns == timeout # IntMax

Timeout ==
    /\ TaskRuns /\ AlarmRuns
    /\ IF ac
       THEN WriteControl(irq_enable, TRUE) /\ host_inactive' = 0
       ELSE /\ host_inactive' = IF host_inactive < IntMax - 2
                                THEN host_inactive + 1 ELSE host_inactive
            /\ UNCHANGED coreVars
    /\ UNCHANGED <<ringVars, irq_enable, timeout, isr, taskVars>>

HostGoneLate == host_inactive > timeout     \* mutant of HostGone
HostGone == host_inactive >= timeout

-----------------------------------------------------------------------------
(* The task                                                                *)

shared == <<coreVars, ringVars, irq_enable, host_inactive, timeout, isr>>
Goto(place) == TaskRuns /\ pc' = place

\* Locals are set back to 0 when the code is done with them.
\* A call that moved nothing reports why.
Outcome == IF moved THEN "count" ELSE IF nonblock THEN "EWOULDBLOCK" ELSE "EIO"
Return(r) ==
    /\ TaskRuns
    /\ pc' = "idle" /\ result' = r
    /\ data' = <<>> /\ space' = 0 /\ seen' = 0 /\ n' = 0
    /\ nonblock' = FALSE /\ moved' = FALSE /\ UNCHANGED copied

Call(place, d, s, flag) ==
    /\ pc = "idle" /\ Goto(place)
    /\ data' = d /\ space' = s /\ nonblock' = flag /\ result' = "none"
    /\ UNCHANGED <<shared, copied, seen, n, moved>>

(* altera_avalon_jtag_uart_write *)

Write(d, flag) == Call("w_look", d, 0, flag)

TxRoomToOut(in, out) ==     \* mutant of TxRoom: the free cell forgotten
    IF in < out THEN out - in ELSE BufLen - in

\* Cells that can be filled in one go; one cell of the ring stays free.
TxRoom(in, out) ==
    IF in < out THEN out - 1 - in
    ELSE IF out > 0 THEN BufLen - in
    ELSE BufLen - 1 - in

WriteLook ==
    LET room == Smaller(TxRoom(tx_in, tx_out), Len(data)) IN
    /\ pc = "w_look"
    /\ IF data = <<>> THEN UNCHANGED <<seen, n>> ELSE seen' = tx_out /\ n' = room
    /\ Goto(IF data = <<>> \/ room = 0 THEN "w_kick" ELSE "w_copy")
    /\ UNCHANGED <<shared, data, space, copied, nonblock, moved, result>>

WriteCopy ==
    /\ pc = "w_copy" /\ Goto("w_publish")
    /\ tx_buf' = [i \in Index |-> IF i \in tx_in .. tx_in + n - 1
                                 THEN data[i - tx_in + 1] ELSE tx_buf[i]]
    /\ UNCHANGED <<coreVars, rx_in, rx_out, rx_buf, tx_in, tx_out, irq_enable,
                   host_inactive, timeout, isr, callVars, result>>

WritePublish ==
    /\ pc = "w_publish" /\ Goto("w_look")
    /\ tx_in' = (tx_in + n) % BufLen
    /\ data' = SubSeq(data, n + 1, Len(data)) /\ moved' = TRUE
    /\ n' = 0 /\ seen' = 0
    /\ UNCHANGED <<coreVars, rx_in, rx_out, rx_buf, tx_out, tx_buf, irq_enable,
                   host_inactive, timeout, isr, space, copied, nonblock, result>>

WriteKickLate ==    \* mutant of WriteKick: only when something is left
    /\ pc = "w_kick"
    /\ IF data = <<>> THEN UNCHANGED <<irq_enable, coreVars>>
                     ELSE SetEnables(irq_enable \cup {"WE"})
    /\ IF data = <<>> \/ nonblock THEN Return(Outcome)
       ELSE Goto("w_wait") /\ UNCHANGED <<callVars, result>>
    /\ UNCHANGED <<ringVars, host_inactive, timeout, isr>>

\* Interrupts off: the handler is kicked, whatever is left to write.
WriteKick ==
    /\ pc = "w_kick"
    /\ SetEnables(irq_enable \cup {"WE"})
    /\ IF data = <<>> \/ nonblock THEN Return(Outcome)
       ELSE Goto("w_wait") /\ UNCHANGED <<callVars, result>>
    /\ UNCHANGED <<ringVars, host_inactive, timeout, isr>>

WriteWait ==
    /\ pc = "w_wait" /\ (seen # tx_out \/ HostGone)
    /\ Goto("w_check")
    /\ UNCHANGED <<shared, callVars, result>>

\* `if (sp->host_inactive) break;': not the comparison of the wait.
WriteCheck ==
    /\ pc = "w_check"
    /\ IF host_inactive # 0 THEN Return(Outcome)
       ELSE Goto("w_look") /\ UNCHANGED <<callVars, result>>
    /\ UNCHANGED shared

(* altera_avalon_jtag_uart_read *)

Read(s, flag) == Call("r_look", <<>>, s, flag)

RxChunkAcrossEnd(in, out) == Used(in, out)  \* mutant of RxChunk
RxChunk(in, out) == IF in >= out THEN in - out ELSE BufLen - out

\* With nothing to take, a call that took nothing so far returns or waits.
ReadLook ==
    LET chunk == Smaller(RxChunk(rx_in, rx_out), space) IN
    /\ pc = "r_look"
    /\ IF chunk = 0 /\ ~moved /\ (nonblock \/ space = 0) THEN Return(Outcome)
       ELSE /\ Goto(IF chunk > 0 THEN "r_copy" ELSE IF moved THEN "r_enable" ELSE "r_wait")
            /\ seen' = rx_in /\ n' = chunk
            /\ UNCHANGED <<data, space, copied, nonblock, moved, result>>
    /\ UNCHANGED shared

ReadCopy ==
    /\ pc = "r_copy" /\ Goto("r_take")
    /\ copied' = [k \in 1 .. n |-> rx_buf[rx_out + k - 1]]
    /\ UNCHANGED <<shared, data, space, seen, n, nonblock, moved, result>>

ReadTake ==
    /\ pc = "r_take" /\ Goto(IF space > n THEN "r_look" ELSE "r_enable")
    /\ rx_out' = (rx_out + n) % BufLen
    /\ space' = space - n /\ moved' = TRUE
    /\ n' = 0 /\ seen' = 0
    /\ UNCHANGED <<coreVars, rx_in, rx_buf, tx_in, tx_out, tx_buf, irq_enable,
                   host_inactive, timeout, isr, data, copied, nonblock, result>>

ReadWithoutEnable ==    \* mutant of ReadEnable
    /\ pc = "r_enable" /\ Return(Outcome) /\ UNCHANGED shared

\* Interrupts off: there is room in the ring now.
ReadEnable ==
    /\ pc = "r_enable"
    /\ SetEnables(irq_enable \cup {"RE"})
    /\ Return(Outcome)
    /\ UNCHANGED <<ringVars, host_inactive, timeout, isr>>

ReadWait ==
    /\ pc = "r_wait" /\ (seen # rx_in \/ HostGone)
    /\ Goto("r_check")
    /\ UNCHANGED <<shared, callVars, result>>

ReadCheck ==
    /\ pc = "r_check"
    /\ IF seen = rx_in THEN Return(Outcome)
       ELSE Goto("r_look") /\ UNCHANGED <<callVars, result>>
    /\ UNCHANGED shared

(* altera_avalon_jtag_uart_close: wait for the ring to drain.              *)

Close(flag) == Call("c_wait", <<>>, 0, flag)

CloseWait ==
    /\ pc = "c_wait"
    /\ \/ (tx_out = tx_in \/ HostGone) /\ Return("0")
       \/ tx_out # tx_in /\ ~HostGone /\ nonblock /\ Return("EWOULDBLOCK")
    /\ UNCHANGED shared

(* altera_avalon_jtag_uart_ioctl *)

SetTimeout(t) ==        \* TIOCSTIMEOUT
    /\ pc = "idle" /\ TaskRuns
    /\ IF timeout # IntMax
       THEN /\ timeout' = IF t >= 2 /\ t < IntMax THEN t ELSE IntMax - 1
            /\ result' = "0"
       ELSE result' = "ENOTTY" /\ UNCHANGED timeout
    /\ UNCHANGED <<coreVars, ringVars, irq_enable, host_inactive, isr, pc, callVars>>

Connected == ~HostGone  \* TIOCGCONNECTED

-----------------------------------------------------------------------------
TaskStep ==
    \/ WriteLook \/ WriteCopy \/ WritePublish \/ WriteKick \/ WriteWait \/ WriteCheck
    \/ ReadLook \/ ReadCopy \/ ReadTake \/ ReadEnable \/ ReadWait \/ ReadCheck
    \/ CloseWait

Begin ==
    \/ \E k \in 0 .. MaxCount, flag \in BOOLEAN : \E d \in [1 .. k -> Bytes] : Write(d, flag)
    \/ \E k \in 0 .. MaxCount, flag \in BOOLEAN : Read(k, flag)
    \/ \E flag \in BOOLEAN : Close(flag)
    \/ \E t \in 0 .. IntMax : SetTimeout(t)

Host == HostStep /\ UNCHANGED <<ringVars, irq_enable, host_inactive, timeout, isr, taskVars>>

Next == Begin \/ TaskStep \/ Interrupted \/ HandlerStep \/ Timeout \/ Host

Spec == Init /\ [][Next]_vars

\* The processor keeps running: the task, the handler (an interrupt that is
\* pending is taken) and the timer's alarm.  The host owes nothing.
FairSpec == Spec /\ WF_vars(TaskStep) /\ WF_vars(Interrupted)
                 /\ WF_vars(HandlerStep) /\ WF_vars(Timeout)

-----------------------------------------------------------------------------
(* Safety                                                                  *)

(* memcpy stays inside the ring and touches no cell the handler may use:   *)
(* the writer fills free cells, the reader empties used ones.              *)
CopiesOwnCells ==
    /\ pc = "w_copy" => /\ n > 0 /\ tx_in + n <= BufLen
                        /\ \A i \in tx_in .. tx_in + n - 1 : ~Holds(tx_in, tx_out, i)
    /\ pc = "r_copy" => /\ n > 0 /\ rx_out + n <= BufLen
                        /\ \A i \in rx_out .. rx_out + n - 1 : Holds(rx_in, rx_out, i)

(* Characters in the transmit ring have an interrupt that will send them,  *)
(* or a writer on its way to the kick.                                     *)
NoLostKick ==
    tx_in # tx_out => "WE" \in ien \/ pc \in {"w_look", "w_copy", "w_publish", "w_kick"}

(* Receiving is off only while the receive ring has characters, or a       *)
(* reader that took some is on its way to turning it on.                   *)
ReceiverComesBack ==
    "RE" \notin ien =>
        \/ rx_in # rx_out
        \/ pc \in {"r_look", "r_copy"} /\ moved
        \/ pc = "r_enable"

(* The handler never writes a character to a full FIFO, although the host  *)
(* empties it while the handler runs and the room was read before.         *)
RoomIsThere == isr.at = "tx" => isr.room <= WriteDepth - Len(wfifo)
-----------------------------------------------------------------------------
(* What is under way in each direction; a reader has taken a chunk when it *)
(* has copied it.                                                          *)
TxOffer == IF pc \in Writing THEN data ELSE <<>>
TxQueue == wfifo \o Content(tx_buf, tx_in, tx_out)
RxOffer == <<host.next>>
RxLeft == SubSeq(Content(rx_buf, rx_in, rx_out),
                 IF pc = "r_take" THEN n + 1 ELSE 1, Used(rx_in, rx_out))
RxQueue == RxLeft \o rfifo

TxPipe == INSTANCE BytePipe WITH
    offer <- TxOffer, queue <- TxQueue, last <- <<host.got>>
RxPipe == INSTANCE BytePipe WITH
    offer <- RxOffer, queue <- RxQueue, last <- copied

(* Both rings, with the FIFOs of the core, are pipes of bytes: the host    *)
(* receives what was written and readers what the host sent, each          *)
(* character once, in order.                                               *)
RingsArePipes == TxPipe!Spec /\ RxPipe!Spec
=============================================================================
