-------------------------------- MODULE MCParts --------------------------------
(***************************************************************************)
(* The components of the HAL and the controller topv2, checked one by one  *)
(* in one run: a behaviour picks one of them at the start and the others   *)
(* stand still.                                                            *)
(***************************************************************************)
EXTENDS Alarms, Descriptors, DflWalker, Interrupts, Logging, Printing, Coherence,
        Program, Clock, TopV2, TLC

CONSTANTS
    Parts,          \* the components a run checks
    MCMaxTicks,     \* bound of the alarms' tick counter
    MCMaxTime       \* bound of the ticks an alarm is due at

VARIABLE part       \* the component

partsVars == <<part, alarmVars, fdVars, walkVars, irqVars, logVars, printVars, cohVars,
             programVars, clockVars, topVars>>

-----------------------------------------------------------------------------
(* Instances                                                               *)

\* Descriptors: a UART and a file system that opens, reads, writes and seeks
Uart == <<"dev", "uart">>
NullName == <<"dev", "null">>
MCNameOf == "null" :> NullName @@ "uart" :> Uart @@ "fs" :> <<"fs">>
MCProvides ==
    "null" :> {"write"} @@ "uart" :> {"read", "write", "close", "ioctl"}
    @@ "fs" :> {"open", "read", "write", "close", "fstat", "lseek"}
MCNames == {Uart, <<"fs", "x">>, <<"x">>}
MCDriverErrors == {0, -5}       \* EIO
MCFlagSets == {{}, {"EXCL", "NONBLOCK"}}
MCStdio == {<<NullName, <<"none">>, NullName>>}

\* Feature lists: one level; branches that are relative, absolute, nested and
\* followed by other parameters; one interface with two branches
DfhAt(next_offset, eol, csr, params) ==
    [next_offset |-> next_offset, eol |-> eol, csr |-> csr, params |-> params]
Block(id, words, last, data) == [id |-> id, words |-> words, last |-> last, data |-> data]
Terminator == Block(0, 0, TRUE, 0)
Branch(target) == Block(12, 3, FALSE, target)
OneLevel ==
    [first |-> 64,
     at |-> 64 :> DfhAt(64, FALSE, 17, <<>>) @@ 128 :> DfhAt(0, TRUE, 8, <<Terminator>>)]
Nested ==
    [first |-> 64,
     at |-> 64 :> DfhAt(64, FALSE, 8, <<Block(5, 2, FALSE, 0), Branch(128), Terminator>>)
         @@ 128 :> DfhAt(0, TRUE, 8, <<Block(5, 2, TRUE, 0)>>)
         @@ 192 :> DfhAt(64, FALSE, 8, <<Block(12, 3, TRUE, 64)>>)
         @@ 256 :> DfhAt(0, TRUE, 401, <<Branch(321), Block(5, 3, TRUE, 0)>>)
         @@ 320 :> DfhAt(0, TRUE, 8, <<Branch(64), Terminator>>)
         @@ 384 :> DfhAt(0, TRUE, 8, <<>>)]
TwoBranches ==
    [first |-> 64,
     at |-> 64 :> DfhAt(0, TRUE, 8, <<Branch(128), Branch(64), Terminator>>)
         @@ 128 :> DfhAt(0, TRUE, 8, <<>>) @@ 192 :> DfhAt(0, TRUE, 8, <<>>)]
MCLists == {OneLevel, Nested, TwoBranches}

MCLogLevels == -1..3

\* Formats: conversions of up to four characters, in text and alone
Letters == {"0", "3", ".", "l", "d", "x", "X", "o", "u", "%", "q", "s", "c"}
MCFormats ==
    {<<"%", a>> : a \in Letters} \cup {<<"%", a, b>> : a, b \in Letters}
    \cup {<<"%", a, b, "d">> : a, b \in Letters} \cup {<<"a", "%", a, "b">> : a \in Letters}
    \cup {<<"%">>, <<"a", "b">>, <<"%", "0", "1", "0", "x">>}
MCString == <<"h", "i">>

\* Buffers: a line, a line and its neighbour's half, two lines
MCBuffers == {<<0, 2>>, <<1, 2>>, <<2, 4>>}

MCObjects == <<"first", "second">>

MCTimes == {[tv_sec |-> 0, tv_usec |-> 5], [tv_sec |-> 3, tv_usec |-> 11]}

-----------------------------------------------------------------------------
\* Steps, within the bounds the components leave open: ticks and due times;
\* three interfaces that are opened; delays are asked for at tick zero.
AlarmStep == AlarmNext /\ nticks' <= MCMaxTicks /\ \A a \in Alarm : time'[a] <= MCMaxTime
WalkStep ==
    /\ WalkNext
    /\ \A kind \in {"mmio", "irq"} : \A i \in DOMAIN holders'[kind] :
            i > 3 => holders'[kind][i] = 0
ClockStep ==
    /\ ClockNext
    /\ slept' # slept => ticks = 0
    /\ ticks' > 0 => slept'.us = 0

\* All but p stand still.
Only(p) ==
    /\ part = p /\ UNCHANGED part
    /\ IF p = "alarms" THEN TRUE ELSE UNCHANGED alarmVars
    /\ IF p = "descriptors" THEN TRUE ELSE UNCHANGED fdVars
    /\ IF p = "walker" THEN TRUE ELSE UNCHANGED walkVars
    /\ IF p = "interrupts" THEN TRUE ELSE UNCHANGED irqVars
    /\ IF p = "logging" THEN TRUE ELSE UNCHANGED logVars
    /\ IF p = "printing" THEN TRUE ELSE UNCHANGED printVars
    /\ IF p = "coherence" THEN TRUE ELSE UNCHANGED cohVars
    /\ IF p = "program" THEN TRUE ELSE UNCHANGED programVars
    /\ IF p = "clock" THEN TRUE ELSE UNCHANGED clockVars
    /\ IF p = "topv2" THEN TRUE ELSE UNCHANGED topVars

\* A component that stands still does so in one of its initial states.
Starts(p, values) == IF part = p THEN values ELSE {CHOOSE v \in values : TRUE}

PartsInit ==
    /\ part \in Parts
    /\ dfl \in Starts("walker", Lists)
    /\ wide \in Starts("interrupts", {[i \in 1..Width |-> d] : d \in Data})
    /\ log_flags \in Starts("logging", {Flags(level_) : level_ \in LogLevels})
    /\ format \in Starts("printing", Formats) /\ value \in Starts("printing", Values)
    /\ ticks_per_second \in Starts("clock", TickRates)
    /\ AlarmInit /\ FdInit /\ WalkInit /\ IrqInit /\ LogInit /\ PrintInit /\ CohInit
    /\ ProgramInit /\ ClockInit /\ TopV2Init

PartsNext ==
    \/ part = "alarms" /\ AlarmStep /\ Only("alarms")
    \/ part = "descriptors" /\ FdNext /\ Only("descriptors")
    \/ part = "walker" /\ WalkStep /\ Only("walker")
    \/ part = "interrupts" /\ IrqNext /\ Only("interrupts")
    \/ part = "logging" /\ LogNext /\ Only("logging")
    \/ part = "printing" /\ PrintNext /\ Only("printing")
    \/ part = "coherence" /\ CohNext /\ Only("coherence")
    \/ part = "program" /\ ProgramNext /\ Only("program")
    \/ part = "clock" /\ ClockStep /\ Only("clock")
    \/ part = "topv2" /\ TopV2Next /\ Only("topv2")

\* A tick that has begun goes on, as does a handler that logs; the host reads
\* what is logged; RWDS is high at one edge of topv2's clock after
\* another.
PartsSpec ==
    /\ PartsInit /\ [][PartsNext]_partsVars
    /\ WF_alarmVars(Tick /\ AlarmStep)
    /\ WF_logVars(InHandler) /\ WF_logVars(HostReads)
    /\ WF_topVars(part = "topv2" /\ \E strobes \in SUBSET Strobe : Edge(strobes, 1))

-----------------------------------------------------------------------------
(* Every component's variables have their types.                           *)
PartsTypes ==
    /\ AlarmType /\ FdType /\ WalkType /\ IrqType /\ LogType /\ PrintType
    /\ CohType /\ ProgramType /\ ClockType /\ TopV2Type

(* What a component has begun comes to an end: the walk of a tick, where   *)
(* callbacks start and stop any alarm but the one behind their own (those  *)
(* are WalkEnds with Meddling); a handler that logs; a transaction of      *)
(* topv2.                                                                  *)
PartsEnd ==
    /\ WalkEnds
    /\ HandlersReturn
    /\ TransactionsEnd
==============================================================================
