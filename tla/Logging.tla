------------------------------- MODULE Logging -------------------------------
(***************************************************************************)
(* The alt_log port: every character waits for room in the UART's FIFO and *)
(* is then written to it. The task logs its progress, its handlers log the *)
(* clock and the UART they serve: nothing locks the port between them.     *)
(***************************************************************************)
EXTENDS Integers

CONSTANTS
    LogLevels,      \* values of ALT_LOG_FLAGS
    FifoDepth,      \* characters the port takes while the host reads none
    StatusLen,      \* characters of a boot or status message
    EchoLen,        \* ALT_LOG_WRITE_ECHO_LEN
    WriteLens,      \* lengths of the task's writes
    ClockInterval,  \* ALT_LOG_SYS_CLK_INTERVAL, in ticks
    ReportInterval  \* ALT_LOG_JTAG_UART_TICKS

ASSUME LoggingConstants ==
    /\ LogLevels \subseteq -1..3
    /\ {FifoDepth, StatusLen, EchoLen} \subseteq Nat \ {0}
    /\ WriteLens \subseteq Nat
    /\ {ClockInterval, ReportInterval} \subseteq Nat

VARIABLES
    log_flags,      \* which of the alt_log_*_on_flag are set
    wspace,         \* room in the FIFO
    left,           \* at each level, the characters its call has yet to send
    ready,          \* levels whose alt_log_txchar has seen room
    handler,        \* the handler that runs, or "none"
    sys_clk_count,  \* alt_log_sys_clk_count
    report_in,      \* ticks to the next report, 0 when no alarm was registered
    started,        \* the UART's driver was initialised
    lost            \* a character met a full FIFO

logVars == <<log_flags, wspace, left, ready, handler, sys_clk_count, report_in,
             started, lost>>
clockOnly == <<sys_clk_count, report_in, started>>
portOnly == <<wspace, ready, lost>>

LogLevel == {"task", "isr"}

LogType ==
    /\ log_flags \subseteq {"boot", "sys_clk", "write", "alarm", "startup", "isr"}
    /\ wspace \in 0..FifoDepth
    /\ left \in [LogLevel -> Nat] /\ ready \subseteq LogLevel
    /\ handler \in {"none", "tick", "uart"}
    /\ sys_clk_count \in 0..ClockInterval
    /\ report_in \in 0..ReportInterval
    /\ started \in BOOLEAN /\ lost \in BOOLEAN

\* The flag settings of each level
Flags(level) ==
    (IF level = -1 THEN {} ELSE {"boot"})
    \cup (IF level >= 1 THEN {"sys_clk", "startup"} ELSE {})
    \cup (IF level >= 2 THEN {"write", "alarm"} ELSE {})
    \cup (IF level >= 3 THEN {"isr"} ELSE {})

LogInit ==
    /\ log_flags \in {Flags(level) : level \in LogLevels}
    /\ wspace = FifoDepth
    /\ left = [l \in LogLevel |-> 0] /\ ready = {}
    /\ handler = "none"
    /\ sys_clk_count = 0 /\ report_in = 0
    /\ started = FALSE /\ lost = FALSE

Active(l) == IF handler = "none" THEN l = "task" ELSE l = "isr"

-----------------------------------------------------------------------------
(* alt_log_txchar                                                          *)

RoomForMessage(l) == wspace > StatusLen     \* mutants of HasRoom
RoomIsAssumed(l) == TRUE
HasRoom(l) == wspace # 0

Look(l) ==
    /\ Active(l) /\ left[l] > 0 /\ l \notin ready
    /\ HasRoom(l)
    /\ ready' = ready \cup {l}
    /\ UNCHANGED <<log_flags, wspace, left, handler, clockOnly, lost>>

Put(l) ==
    /\ Active(l) /\ l \in ready
    /\ ready' = ready \ {l}
    /\ left' = [left EXCEPT ![l] = @ - 1]
    /\ IF wspace = 0 THEN lost' = TRUE /\ UNCHANGED wspace
       ELSE wspace' = wspace - 1 /\ UNCHANGED lost
    /\ UNCHANGED <<log_flags, handler, clockOnly>>

HostReads ==
    /\ wspace < FifoDepth
    /\ wspace' = wspace + 1
    /\ UNCHANGED <<log_flags, left, ready, handler, clockOnly, lost>>

-----------------------------------------------------------------------------
(* The task: messages while booting, the UART's initialisation, write      *)

TaskFree == Active("task") /\ left["task"] = 0
Sends(l, n) == left' = [left EXCEPT ![l] = @ + n]
If(flag, n) == IF flag \in log_flags THEN n ELSE 0

\* ALT_LOG_PRINT_BOOT
LogBoot ==
    /\ TaskFree
    /\ Sends("task", If("boot", StatusLen))
    /\ UNCHANGED <<log_flags, handler, clockOnly, portOnly>>

\* ALT_LOG_JTAG_UART_ALARM_REGISTER
LogStartup ==
    /\ TaskFree /\ ~started
    /\ started' = TRUE
    /\ report_in' = If("alarm", ReportInterval)
    /\ Sends("task", If("startup", StatusLen))
    /\ UNCHANGED <<log_flags, handler, sys_clk_count, portOnly>>

\* alt_log_write: the last character becomes a line end; a single one is
\* not echoed at all.
EchoLength(len) ==
    LET n == IF EchoLen > len THEN len ELSE EchoLen
    IN  IF n < 2 THEN 0 ELSE n + 1

LogWrite(len) ==
    /\ TaskFree
    /\ Sends("task", If("write", EchoLength(len)))
    /\ UNCHANGED <<log_flags, handler, clockOnly, portOnly>>

-----------------------------------------------------------------------------
(* The handlers                                                            *)

\* alt_log_system_clock
HeartBeats == "sys_clk" \in log_flags /\ sys_clk_count + 1 > ClockInterval
HeartBeatNeverReset ==          \* mutant of HeartBeat
    sys_clk_count' = IF "sys_clk" \in log_flags THEN sys_clk_count + 1 ELSE sys_clk_count
HeartBeat ==
    sys_clk_count' = IF "sys_clk" \notin log_flags THEN sys_clk_count
                     ELSE IF HeartBeats THEN 0 ELSE sys_clk_count + 1

\* altera_avalon_jtag_uart_report_log, an alarm
Reports == report_in = 1
Report == report_in' = IF Reports THEN ReportInterval
                       ELSE IF report_in > 0 THEN report_in - 1 ELSE 0

TickHandler ==
    /\ handler = "none"
    /\ handler' = "tick"
    /\ HeartBeat /\ Report
    /\ Sends("isr", (IF HeartBeats THEN StatusLen ELSE 0) + (IF Reports THEN StatusLen ELSE 0))
    /\ UNCHANGED <<log_flags, started, portOnly>>

\* alt_log_jtag_uart_isr_proc
UartHandler ==
    /\ handler = "none" /\ started
    /\ handler' = "uart"
    /\ Sends("isr", If("isr", StatusLen))
    /\ UNCHANGED <<log_flags, clockOnly, portOnly>>

HandlerEnds ==
    /\ handler # "none" /\ left["isr"] = 0
    /\ handler' = "none"
    /\ UNCHANGED <<log_flags, left, clockOnly, portOnly>>

-----------------------------------------------------------------------------
InHandler == Look("isr") \/ Put("isr") \/ HandlerEnds

LogNext ==
    \/ LogBoot \/ LogStartup \/ \E len \in WriteLens : LogWrite(len)
    \/ Look("task") \/ Put("task")
    \/ TickHandler \/ UartHandler \/ InHandler
    \/ HostReads

LogSpec == LogInit /\ [][LogNext]_logVars /\ WF_logVars(InHandler) /\ WF_logVars(HostReads)

-----------------------------------------------------------------------------
(* alt_log_txchar looks before it writes: a character is lost only to a    *)
(* handler that logs between the two, never while the task alone logs.     *)
LostOnlyToHandlers ==
    lost => log_flags \cap {"sys_clk", "alarm", "isr"} # {}

(* A handler that logs spins until there is room: it returns as long as    *)
(* the host reads the port.                                                *)
HandlersReturn == handler # "none" ~> handler = "none"
==============================================================================
