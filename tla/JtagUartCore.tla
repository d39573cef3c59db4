---------------------------- MODULE JtagUartCore ----------------------------
(***************************************************************************)
(* altera_avalon_jtag_uart: the two FIFOs between processor and JTAG host, *)
(* the interrupt enables and the activity bit, as the driver sees them     *)
(* through the DATA and CONTROL registers.  A step is one register access  *)
(* or one act of the host; `host' is what the host holds ready to send and *)
(* the character it took last.                                             *)
(***************************************************************************)
EXTENDS Naturals, Sequences

CONSTANTS
    Bytes,            \* characters
    ReadDepth, WriteDepth,          \* FIFO sizes
    ReadThreshold, WriteThreshold   \* readIRQThreshold, writeIRQThreshold

ASSUME CoreConstants ==
    /\ Bytes # {}
    /\ ReadDepth \in Nat \ {0} /\ WriteDepth \in Nat \ {0}
    /\ ReadThreshold \in 0 .. ReadDepth - 1
    /\ WriteThreshold \in 0 .. WriteDepth - 1

VARIABLES
    rfifo,      \* characters from the host, oldest first
    wfifo,      \* characters to the host, oldest first
    ien,        \* the interrupt enables set: subset of {"RE", "WE"}
    pause_irq,  \* the host has paused with characters in rfifo
    ac,         \* the host has been active since AC was last cleared
    host        \* [next, got]

coreVars == <<rfifo, wfifo, ien, pause_irq, ac, host>>

Enables == {"RE", "WE"}

CoreType ==
    /\ rfifo \in Seq(Bytes) /\ wfifo \in Seq(Bytes)
    /\ ien \in SUBSET Enables
    /\ pause_irq \in BOOLEAN /\ ac \in BOOLEAN
    /\ host \in [next : Bytes, got : Bytes]

CoreInit ==
    /\ rfifo = <<>> /\ wfifo = <<>>
    /\ pause_irq = FALSE /\ ac = FALSE
    /\ \E b \in Bytes, g \in Bytes : host = [next |-> b, got |-> g]

\* The interrupt conditions, RI and WI in the CONTROL register.
ipen_AE == "WE" \in ien /\ Len(wfifo) <= WriteThreshold
ipen_AF == "RE" \in ien /\ (pause_irq \/ ReadDepth - Len(rfifo) <= ReadThreshold)
av_irq == ipen_AE \/ ipen_AF

WSpace == WriteDepth - Len(wfifo)

\* A read of DATA takes a character when there is one (RVALID); RAVAIL in
\* the same word counts those left.
RValid == rfifo # <<>>
RAvail == Len(rfifo) > 1
ReadData ==
    /\ rfifo' = IF RValid THEN Tail(rfifo) ELSE rfifo
    /\ pause_irq' = FALSE
    /\ UNCHANGED <<wfifo, ien, ac, host>>

\* A write of DATA to a full FIFO is dropped (woverflow).
WriteData(b) ==
    /\ wfifo' = IF Len(wfifo) < WriteDepth THEN Append(wfifo, b) ELSE wfifo
    /\ UNCHANGED <<rfifo, ien, pause_irq, ac, host>>

WriteControl(enables, clearAc) ==
    /\ ien' = enables
    /\ ac' = (ac /\ ~clearAc)
    /\ UNCHANGED <<rfifo, wfifo, pause_irq, host>>

\* t_ena: the host writes a character while t_dav says there is room.
HostSends ==
    /\ Len(rfifo) < ReadDepth
    /\ rfifo' = Append(rfifo, host.next)
    /\ \E b \in Bytes : host' = [host EXCEPT !.next = b]
    /\ ac' = TRUE
    /\ UNCHANGED <<wfifo, ien, pause_irq>>

\* t_pause: the host has nothing more to send for now.
HostPauses ==
    /\ pause_irq' = (pause_irq \/ RValid)
    /\ ac' = TRUE
    /\ UNCHANGED <<rfifo, wfifo, ien, host>>

\* r_ena: the host takes a character; this is no activity to the core.
HostTakes ==
    /\ wfifo # <<>>
    /\ wfifo' = Tail(wfifo)
    /\ host' = [host EXCEPT !.got = Head(wfifo)]
    /\ UNCHANGED <<rfifo, ien, pause_irq, ac>>

HostStep == HostSends \/ HostPauses \/ HostTakes
=============================================================================
