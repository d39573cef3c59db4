------------------------------ MODULE Coherence ------------------------------
(***************************************************************************)
(* Buffers that a DMA engine or a flash driver shares with the processor:  *)
(* the channel calls of sys/alt_dma.h, the flash calls of sys/alt_flash.h, *)
(* and the data cache between them, which the application flushes by       *)
(* region (alt_dcache_flush.c). A byte is known by who holds its newest    *)
(* value; a line is written back whole.                                    *)
(***************************************************************************)
EXTENDS Integers, Sequences

CONSTANTS
    Size,           \* bytes of memory
    LineSize,       \* ALT_CPU_DCACHE_LINE_SIZE
    Buffers,        \* <<start, len>> of the buffers the application uses
    Stores,         \* the bytes it writes
    Space,          \* requests a channel takes
    Drivers         \* the channels and flashes that were registered

ASSUME CoherenceConstants ==
    /\ LineSize \in Nat \ {0} /\ Size \in Nat /\ Size % LineSize = 0
    /\ Buffers \subseteq Nat \X Nat /\ \A b \in Buffers : b[1] + b[2] <= Size
    /\ Stores \subseteq 0..Size - 1
    /\ Space \in Nat
    /\ Drivers \subseteq {"tx", "rx", "flash"}

VARIABLES
    opened,         \* the handles that are not NULL
    cached,         \* lines in the cache
    newer, older,   \* bytes whose cached copy is newer, or older, than memory
    prepared,       \* buffers flushed and given to no channel yet
    queue,          \* what each channel has to do, oldest first
    arrived,        \* received buffers the application has not invalidated yet
    fresh,          \* the last buffer it has invalidated
    sent_stale,     \* a byte was sent that memory did not have yet
    dropped,        \* a byte's newest value is nowhere any more
    ragged          \* a buffer with part of a line was received or invalidated

cohVars == <<opened, cached, newer, older, prepared, queue, arrived, fresh, sent_stale,
             dropped, ragged>>
channelOnly == <<opened, prepared, queue, arrived>>
ghosts == <<fresh, sent_stale, dropped, ragged>>

Byte == 0..Size - 1
LineOf(i) == i \div LineSize
Lines == {LineOf(i) : i \in Byte}
BytesOf(line) == {i \in Byte : LineOf(i) = line}
RegionOf(b) == b[1]..b[1] + b[2] - 1
Channels == {"tx", "rx"}

CohType ==
    /\ opened \subseteq Drivers /\ cached \subseteq Lines
    /\ newer \subseteq Byte /\ older \subseteq Byte
    /\ prepared \subseteq Buffers /\ queue \in [Channels -> Seq(Buffers)]
    /\ arrived \subseteq Buffers /\ fresh \in Buffers \cup {<<0, 0>>}
    /\ {sent_stale, dropped, ragged} \subseteq BOOLEAN

CohInit ==
    /\ opened = {} /\ cached = {} /\ newer = {} /\ older = {}
    /\ prepared = {} /\ queue = [c \in Channels |-> <<>>]
    /\ arrived = {} /\ fresh = <<0, 0>>
    /\ sent_stale = FALSE /\ dropped = FALSE /\ ragged = FALSE

Posted(c) == {queue[c][k] : k \in DOMAIN queue[c]}
Meets(b, set) == \E x \in set : RegionOf(b) \cap RegionOf(x) # {}
IsRagged(b) == b[1] % LineSize # 0 \/ b[2] % LineSize # 0

-----------------------------------------------------------------------------
(* The cache                                                               *)

\* The processor writes no byte of a buffer that is prepared, posted or
\* arrived; a write brings the line into the cache.
Store(i) ==
    /\ \A b \in prepared \cup arrived \cup Posted("tx") \cup Posted("rx") : i \notin RegionOf(b)
    /\ cached' = cached \cup {LineOf(i)}
    /\ newer' = newer \cup {i} /\ older' = older \ {i}
    /\ fresh' = <<0, 0>>
    /\ UNCHANGED <<channelOnly, sent_stale, dropped, ragged>>

Load(i) ==
    /\ cached' = cached \cup {LineOf(i)}
    /\ UNCHANGED <<newer, older, channelOnly, ghosts>>

\* Lines are written back, if they are dirty, and dropped. Old bytes of a
\* dirty line overwrite what memory had.
Dirty(lines) == {i \in newer : LineOf(i) \in lines}
WriteBack(lines) ==
    /\ cached' = cached \ lines
    /\ newer' = newer \ Dirty(lines)
    /\ older' = {i \in older : LineOf(i) \notin lines}
    /\ dropped' = (dropped \/ \E i \in older, j \in Dirty(lines) : LineOf(i) = LineOf(j))

Evict(line) ==
    /\ line \in cached
    /\ WriteBack({line})
    /\ UNCHANGED <<channelOnly, fresh, sent_stale, ragged>>

\* The addresses alt_dcache_flush steps through: one more than the loop when
\* the start is inside a line.
TouchedLoopOnly(b) ==           \* mutant of Touched
    {b[1] + k * LineSize : k \in {n \in 0..Size : n * LineSize < b[2]}}
Touched(b) ==
    LET loop == {b[1] + k * LineSize : k \in {n \in 0..Size : n * LineSize < b[2]}}
        steps == (b[2] + LineSize - 1) \div LineSize
    IN  loop \cup IF b[1] % LineSize # 0 THEN {b[1] + steps * LineSize} ELSE {}

FlushedLines(b) == {LineOf(i) : i \in Touched(b)}

\* Before a buffer goes to a channel the application flushes it.
Flush(b) ==
    /\ ~Meets(b, prepared \cup arrived \cup Posted("tx") \cup Posted("rx"))
    /\ WriteBack(FlushedLines(b))
    /\ prepared' = prepared \cup {b}
    /\ fresh' = <<0, 0>>
    /\ UNCHANGED <<opened, queue, arrived, sent_stale, ragged>>

FlushAll ==
    /\ WriteBack(Lines)
    /\ UNCHANGED <<channelOnly, fresh, sent_stale, ragged>>

\* alt_dcache_flush_no_writeback, once a buffer was received
Invalidate(b) ==
    LET lines == FlushedLines(b)
    IN  /\ b \in arrived
        /\ cached' = cached \ lines
        /\ newer' = {i \in newer : LineOf(i) \notin lines}
        /\ older' = {i \in older : LineOf(i) \notin lines}
        /\ dropped' = (dropped \/ Dirty(lines) # {})
        /\ arrived' = arrived \ {b} /\ fresh' = b
        /\ ragged' = (ragged \/ IsRagged(b))
        /\ UNCHANGED <<opened, prepared, queue, sent_stale>>

-----------------------------------------------------------------------------
(* The channels. A call on a NULL handle returns -ENODEV and does nothing; *)
(* alt_dma_txchan_close and alt_dma_rxchan_close do nothing either.        *)

\* alt_dma_txchan_open, alt_dma_rxchan_open, alt_flash_open_dev
OpenDriver(d) ==
    /\ opened' = opened \cup ({d} \cap Drivers)
    /\ UNCHANGED <<cached, newer, older, prepared, queue, arrived, ghosts>>

HasSpace(c) == c \in opened /\ Len(queue[c]) < Space

PostRequest(c, b) ==
    /\ HasSpace(c) /\ b \in prepared
    /\ queue' = [queue EXCEPT ![c] = Append(@, b)]
    /\ prepared' = prepared \ {b}
    /\ UNCHANGED <<opened, cached, newer, older, arrived, ghosts>>

DmaSend(b) == PostRequest("tx", b)
DmaPrepare(b) == PostRequest("rx", b)

\* The engine reads memory and calls the done routine.
SendDone ==
    /\ queue["tx"] # <<>>
    /\ sent_stale' = (sent_stale \/ RegionOf(queue["tx"][1]) \cap newer # {})
    /\ queue' = [queue EXCEPT !["tx"] = Tail(@)]
    /\ UNCHANGED <<opened, cached, newer, older, prepared, arrived, fresh, dropped, ragged>>

\* Memory changes under the cache.
Arrives(bytes) ==
    /\ older' = older \cup {i \in bytes : LineOf(i) \in cached}
    /\ newer' = newer \ bytes

ReceiveDone ==
    LET b == queue["rx"][1]
    IN  /\ queue["rx"] # <<>>
        /\ Arrives(RegionOf(b))
        /\ queue' = [queue EXCEPT !["rx"] = Tail(@)]
        /\ arrived' = arrived \cup {b}
        /\ ragged' = (ragged \/ IsRagged(b))
        /\ UNCHANGED <<opened, cached, prepared, fresh, sent_stale, dropped>>

\* alt_write_flash, alt_write_flash_block, alt_erase_flash_block: the driver
\* writes the device past the cache, and the flush that followed was removed.
FlashWrite(b) ==
    /\ "flash" \in opened /\ b \in prepared
    /\ Arrives(RegionOf(b))
    /\ prepared' = prepared \ {b} /\ arrived' = arrived \cup {b}
    /\ ragged' = (ragged \/ IsRagged(b))
    /\ UNCHANGED <<opened, cached, queue, fresh, sent_stale, dropped>>

FlashClose ==
    /\ "flash" \in opened
    /\ opened' = opened \ {"flash"}
    /\ UNCHANGED <<cached, newer, older, prepared, queue, arrived, ghosts>>

-----------------------------------------------------------------------------
CohNext ==
    \/ \E i \in Stores : Store(i) \/ Load(i)
    \/ \E line \in Lines : Evict(line)
    \/ FlushAll
    \/ \E b \in Buffers : \/ Flush(b) \/ Invalidate(b)
                          \/ DmaSend(b) \/ DmaPrepare(b) \/ FlashWrite(b)
    \/ \E d \in {"tx", "rx", "flash"} : OpenDriver(d)
    \/ SendDone \/ ReceiveDone \/ FlashClose

CohSpec == CohInit /\ [][CohNext]_cohVars

-----------------------------------------------------------------------------
(* What the engine sends is what the processor wrote: alt_dcache_flush     *)
(* reaches every line of a buffer, wherever in a line it begins and ends.  *)
SentIsWhatWasWritten == ~sent_stale

(* After alt_dcache_flush_no_writeback the processor reads what was        *)
(* received, not what an earlier load left in the cache.                   *)
ReceivedIsRead == fresh # <<0, 0>> => older \cap RegionOf(fresh) = {}

(* Flushing, invalidating and evicting lose no byte of anybody, as long as *)
(* the buffers that are received are whole lines.                          *)
WholeLinesLoseNothing == dropped => ragged

(* Devices, program and memory see the same bytes, where the cache calls   *)
(* of the channels are made as their interfaces ask.                       *)
TransfersAreCoherent == SentIsWhatWasWritten /\ ReceivedIsRead /\ WholeLinesLoseNothing
==============================================================================
