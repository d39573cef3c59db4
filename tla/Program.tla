------------------------------- MODULE Program -------------------------------
(***************************************************************************)
(* The one program a HAL system runs: alt_load and alt_main bring it up,   *)
(* sbrk gives it its heap below the stack, exit, kill and the message API's*)
(* runtime exceptions end it. Calls a single process cannot have fail.     *)
(***************************************************************************)
EXTENDS Integers, Sequences, FiniteSets

CONSTANTS
    Objects,        \* static C++ objects, in the order of __init_array
    Top,            \* __alt_heap_limit, where the stack begins; the heap begins at 0
    Increments,     \* what sbrk is asked for, in bytes
    MaxBlocks,      \* blocks of the heap the program keeps
    StackChecked,   \* ALT_STACK_CHECK
    NoExit          \* ALT_NO_EXIT: nothing leaves main, nor is registered for it

ASSUME ProgramConstants ==
    /\ Top \in Nat \ {0} /\ Top % 4 = 0
    /\ Len(Objects) \in Nat
    /\ Increments \subseteq Nat /\ MaxBlocks \in Nat
    /\ {StackChecked, NoExit} \subseteq BOOLEAN

VARIABLES
    boot,           \* the step of alt_load, alt_main or exit it is at
    copied,         \* sections alt_load has copied
    constructed, destroyed,     \* objects
    at_exit,        \* _do_dtors was registered
    stdout_open,
    ending,         \* how it ended: "", "exit" or "_exit"
    errno,
    heap_end, blocks,           \* the heap, and the blocks handed out, the last first
    stack_pointer, stack_limit,
    odd,            \* a block that was no whole number of words was asked for
    overflow,       \* alt_report_stack_overflow was reached
    throws          \* "exit" or "return": the runtime exception handler registered

bootOnly == <<boot, copied, constructed, destroyed, at_exit, stdout_open, ending>>
memoryOnly == <<heap_end, blocks, stack_pointer, stack_limit, odd, overflow>>
programVars == <<bootOnly, errno, memoryOnly, throws>>

Steps == <<"load", "sync", "irq_init", "os_init", "sem_create", "sys_init", "redirect",
           "ctors", "atexit", "main", "close", "exit", "halt">>
Sections == {"rwdata", "exceptions", "rodata"}

ProgramType ==
    /\ \E i \in DOMAIN Steps : boot = Steps[i]
    /\ copied \subseteq Sections
    /\ constructed \in 0..Len(Objects) /\ destroyed \in 0..Len(Objects)
    /\ {at_exit, stdout_open, odd, overflow} \subseteq BOOLEAN
    /\ ending \in {"", "exit", "_exit"} /\ throws \in {"exit", "return"}
    /\ errno \in {"", "ENOSYS", "ECHILD", "EINVAL", "ESRCH"}
    /\ heap_end \in 0..Top + 4 /\ stack_limit \in 0..Top + 4 /\ stack_pointer \in 0..Top
    /\ \A i \in DOMAIN blocks : blocks[i].at \in Nat /\ blocks[i].size \in Nat

ProgramInit ==
    /\ boot = "load" /\ copied = {}
    /\ constructed = 0 /\ destroyed = 0
    /\ at_exit = FALSE /\ stdout_open = FALSE /\ ending = "" /\ errno = ""
    /\ heap_end = 0 /\ blocks = <<>>
    /\ stack_pointer = Top /\ stack_limit = 0
    /\ odd = FALSE /\ overflow = FALSE
    /\ throws = "exit"

-----------------------------------------------------------------------------
(* alt_load and alt_main                                                   *)

LoadSection(s) ==
    /\ boot = "load" /\ s \notin copied
    /\ copied' = copied \cup {s}
    /\ boot' = IF copied' = Sections THEN "sync" ELSE "load"
    /\ UNCHANGED <<constructed, destroyed, at_exit, stdout_open, ending, errno, memoryOnly, throws>>

Following(step) == Steps[(CHOOSE i \in DOMAIN Steps : Steps[i] = step) + 1]

\* Steps without a state of their own: the flush of both caches, the
\* initialisation of interrupts, kernel, semaphore and drivers.
Initialise ==
    /\ boot \in {"sync", "irq_init", "os_init", "sem_create", "sys_init"}
    /\ boot' = Following(boot)
    /\ UNCHANGED <<copied, constructed, destroyed, at_exit, stdout_open, ending, errno,
                   memoryOnly, throws>>

Redirect ==
    /\ boot = "redirect"
    /\ boot' = "ctors" /\ stdout_open' = TRUE
    /\ UNCHANGED <<copied, constructed, destroyed, at_exit, ending, errno, memoryOnly, throws>>

DoCtors ==
    /\ boot = "ctors"
    /\ IF constructed < Len(Objects)
       THEN constructed' = constructed + 1 /\ UNCHANGED boot
       ELSE boot' = "atexit" /\ UNCHANGED constructed
    /\ UNCHANGED <<copied, destroyed, at_exit, stdout_open, ending, errno, memoryOnly, throws>>

AtExit ==
    /\ boot = "atexit"
    /\ boot' = "main" /\ at_exit' = ~NoExit
    /\ UNCHANGED <<copied, constructed, destroyed, stdout_open, ending, errno, memoryOnly, throws>>

MainReturns ==
    /\ boot = "main" /\ ~NoExit
    /\ boot' = "close"
    /\ UNCHANGED <<copied, constructed, destroyed, at_exit, stdout_open, ending, errno,
                   memoryOnly, throws>>

CloseStdout ==
    /\ boot = "close"
    /\ boot' = "exit" /\ stdout_open' = FALSE /\ ending' = "exit"
    /\ UNCHANGED <<copied, constructed, destroyed, at_exit, errno, memoryOnly, throws>>

RegisteredEarly == TRUE         \* mutant of Registered
\* exit runs what atexit registered, then _exit halts.
Registered == at_exit
DoDtors ==
    /\ boot = "exit"
    /\ IF Registered /\ destroyed < Len(Objects)
       THEN destroyed' = destroyed + 1 /\ UNCHANGED boot
       ELSE boot' = "halt" /\ UNCHANGED destroyed
    /\ UNCHANGED <<copied, constructed, at_exit, stdout_open, ending, errno, memoryOnly, throws>>

-----------------------------------------------------------------------------
(* Calls of the program, from constructors, main and destructors           *)

Running == boot \in {"ctors", "main", "exit"}
Fails(error) == errno' = error /\ UNCHANGED <<bootOnly, memoryOnly, throws>>
Ends(step, how) ==
    /\ boot' = step /\ ending' = how
    /\ UNCHANGED <<copied, constructed, destroyed, at_exit, stdout_open, memoryOnly, throws, errno>>

\* fork, execve, link, unlink, rename; and wait, of a program without children
Stub == Running /\ Fails("ENOSYS")
Wait == Running /\ Fails("ECHILD")

Fatal == {"SIGABRT", "SIGKILL", "SIGTERM"}
Ignored == {"0", "SIGCHLD", "SIGURG"}

Kill(pid, sig) ==
    /\ Running
    /\ IF pid > 0 THEN Fails("ESRCH")
       ELSE IF sig \in Fatal THEN Ends("halt", "_exit")
       ELSE IF sig \in Ignored THEN UNCHANGED programVars
       ELSE Fails("EINVAL")

\* fpga_throw_runtime_exception, and fpga_msg_printf of an unknown type: the
\* default handler exits, in main with 1; one the application registered
\* may return.
Throw ==
    /\ Running /\ boot # "exit"
    /\ IF throws = "exit" THEN Ends("exit", "exit") ELSE UNCHANGED programVars

RegisterHandler ==
    /\ Running
    /\ throws' = "return"
    /\ UNCHANGED <<bootOnly, errno, memoryOnly>>

-----------------------------------------------------------------------------
(* The heap: interrupts are off, so a call is one step                     *)

Aligned(p) == ((p + 3) \div 4) * 4

Exceeds(incr) == Aligned(heap_end) + incr > Top

\* The limit follows the heap only if it still is where the heap ended.
NeverContiguous(p) == FALSE     \* mutant of Contiguous
Contiguous(p) == StackChecked /\ stack_limit = p

Sbrk(incr) ==
    LET start == Aligned(heap_end)
        end == start + incr
    IN  /\ Running /\ Len(blocks) < MaxBlocks
        /\ odd' = (odd \/ incr % 4 # 0)
        /\ IF Exceeds(incr)
           THEN heap_end' = start /\ UNCHANGED <<blocks, stack_limit, overflow>>
           ELSE /\ heap_end' = end
                /\ blocks' = <<[at |-> start, size |-> incr]>> \o blocks
                /\ stack_limit' = IF Contiguous(start) THEN end ELSE stack_limit
                /\ overflow' = (overflow \/ (Contiguous(start) /\ stack_pointer <= end))
        /\ UNCHANGED <<bootOnly, errno, stack_pointer, throws>>

\* The last block is given back: sbrk of a negative increment.
SbrkBack ==
    /\ Running /\ blocks # <<>>
    /\ LET start == Aligned(heap_end)
           end == start - blocks[1].size
       IN  /\ heap_end' = end
           /\ stack_limit' = IF Contiguous(start) THEN end ELSE stack_limit
           /\ overflow' = (overflow \/ (Contiguous(start) /\ stack_pointer <= end))
    /\ blocks' = Tail(blocks)
    /\ UNCHANGED <<bootOnly, errno, stack_pointer, odd, throws>>

\* Calls and returns of the program, checked against the limit when they push.
StackMoves(sp) ==
    /\ Running /\ sp \in 0..Top /\ sp % 4 = 0
    /\ stack_pointer' = sp
    /\ overflow' = (overflow \/ (StackChecked /\ sp <= stack_limit))
    /\ UNCHANGED <<bootOnly, errno, heap_end, blocks, stack_limit, odd, throws>>

-----------------------------------------------------------------------------
ProgramNext ==
    \/ \E s \in Sections : LoadSection(s)
    \/ Initialise \/ Redirect \/ DoCtors \/ AtExit
    \/ MainReturns \/ CloseStdout \/ DoDtors
    \/ Stub \/ Wait \/ Throw \/ RegisterHandler
    \/ \E pid \in {0, 1}, sig \in {"0", "SIGCHLD", "SIGKILL", "SIGNONE"} : Kill(pid, sig)
    \/ \E incr \in Increments : Sbrk(incr)
    \/ SbrkBack
    \/ \E sp \in {Top - 8, Top - 4, Top} : StackMoves(sp)

ProgramSpec == ProgramInit /\ [][ProgramNext]_programVars

-----------------------------------------------------------------------------
(* main runs with the destructors registered, unless ALT_NO_EXIT is        *)
(* defined, and a program that then ends by exit has run all of them. One  *)
(* that ends by exit before, from a constructor, has run none; nor are     *)
(* they run for a part of the objects.                                     *)
DestructorsRunOnExit ==
    /\ boot \in {"main", "close"} => (at_exit <=> ~NoExit)
    /\ boot = "halt" /\ ending = "exit" => destroyed = IF at_exit THEN Len(Objects) ELSE 0
    /\ destroyed > 0 => constructed = Len(Objects) /\ ~NoExit

(* The blocks sbrk hands out start on a word, stay below the limit and do  *)
(* not overlap, whatever was refused or given back between them. This is   *)
(* what alt_sbrk.c:84 and 89 do. The comment at line 47 says otherwise,    *)
(* that there is no bounds checking and memory is allocated even past its  *)
(* end: it is out of date, and no property follows it.                     *)
BlocksAreApart ==
    \A i \in DOMAIN blocks :
        /\ blocks[i].at % 4 = 0 /\ blocks[i].at + blocks[i].size <= Top
        /\ \A j \in DOMAIN blocks : j > i => blocks[j].at + blocks[j].size <= blocks[i].at

(* With stack checking the heap never meets the stack in silence, as long  *)
(* as blocks are whole words: an odd one leaves the limit behind for good. *)
HeapMeetsStackAloud ==
    StackChecked /\ ~odd /\ stack_pointer <= heap_end => overflow

(* The heap keeps to itself: its blocks are apart and it does not grow     *)
(* into the stack unnoticed.                                               *)
HeapIsSound == BlocksAreApart /\ HeapMeetsStackAloud
==============================================================================
