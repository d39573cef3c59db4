--------------------------- MODULE Software_proofs ---------------------------
(***************************************************************************)
(* Proofs about the components of the HAL: a program's start, heap and     *)
(* end (Program), interrupts and wide registers (Interrupts), file         *)
(* descriptors (Descriptors), buffers shared with devices (Coherence),     *)
(* time of day and delays (Clock), the log port (Logging), the two passes  *)
(* over a device feature list (DflWalker).                                 *)
(***************************************************************************)
EXTENDS Program, Interrupts, Descriptors, Coherence, Clock, Logging, DflWalker, TLAPS,
        SequenceTheorems, FiniteSetTheorems, WellFoundedInduction

-----------------------------------------------------------------------------
(* Program: start and end                                                  *)

\* The steps before the constructors; those main has been reached in.
Early == {"load", "sync", "irq_init", "os_init", "sem_create", "sys_init", "redirect"}
Late == {"main", "close"}

\* How far the program is says what has been constructed and destroyed.
Counts ==
    /\ constructed \in Nat /\ destroyed \in Nat
    /\ constructed <= Len(Objects) /\ destroyed <= Len(Objects)

Life ==
    /\ boot \in Early \cup {"ctors", "atexit"} \cup Late \cup {"exit", "halt"}
    /\ boot \in Early \cup {"ctors", "atexit"} \cup Late => ending = ""
    /\ boot \in Early \cup {"ctors", "atexit"} => ~at_exit
    /\ boot \in Late => (at_exit <=> ~NoExit)
    /\ boot = "atexit" => constructed = Len(Objects)
    /\ boot = "exit" => ending = "exit"
    /\ at_exit => constructed = Len(Objects) /\ ~NoExit
    /\ destroyed = 0 \/ (at_exit /\ boot \in {"exit", "halt"})
    /\ boot = "halt" /\ ending = "exit" /\ at_exit => destroyed = Len(Objects)

LifeInv == Counts /\ Life

(* The steps of alt_main that only initialise lead up to the constructors. *)
LEMMA InitialiseIsEarly ==
    ASSUME boot \in {"sync", "irq_init", "os_init", "sem_create", "sys_init"}
    PROVE  Following(boot) \in Early
  <1>1. \E i \in DOMAIN Steps : Steps[i] = boot
    BY DEF Steps
  <1>2. PICK i \in DOMAIN Steps : Following(boot) = Steps[i + 1] /\ Steps[i] = boot
    BY <1>1 DEF Following
  <1>3. i \in 2 .. 6
    BY <1>2 DEF Steps
  <1>. QED BY <1>2, <1>3 DEF Steps, Early

(* Objects are constructed and destroyed one by one.                       *)
LEMMA CountsKept == Counts /\ [ProgramNext]_programVars => Counts'
  <1>. SUFFICES ASSUME Counts, [ProgramNext]_programVars PROVE Counts'
    OBVIOUS
  <1>1. \/ constructed' = constructed /\ destroyed' = destroyed
        \/ constructed < Len(Objects) /\ constructed' = constructed + 1 /\ destroyed' = destroyed
        \/ destroyed < Len(Objects) /\ destroyed' = destroyed + 1 /\ constructed' = constructed
    BY DEF ProgramNext, LoadSection, Initialise, Redirect, DoCtors, AtExit, MainReturns,
           CloseStdout, DoDtors, Stub, Wait, Throw, RegisterHandler, Kill, Sbrk, SbrkBack,
           StackMoves, Ends, Fails, programVars, bootOnly
  <1>2. Len(Objects) \in Nat
    BY ProgramConstants
  <1>. QED BY <1>1, <1>2 DEF Counts

LEMMA AllOfThem ==
    ASSUME Counts
    PROVE  /\ ~(constructed < Len(Objects)) => constructed = Len(Objects)
           /\ ~(destroyed < Len(Objects)) => destroyed = Len(Objects)
  <1>1. Len(Objects) \in Nat
    BY ProgramConstants
  <1>. QED BY <1>1 DEF Counts

LEMMA LifeKept == LifeInv /\ [ProgramNext]_programVars => Life'
  <1>. SUFFICES ASSUME LifeInv, [ProgramNext]_programVars PROVE Life'
    OBVIOUS
  <1>. USE DEF LifeInv, Life, Early, Late
  <1>1. ASSUME NEW s \in Sections, LoadSection(s) PROVE Life'
    BY <1>1 DEF LoadSection
  <1>2. CASE Initialise
    BY <1>2, InitialiseIsEarly DEF Initialise
  <1>3. CASE Redirect
    BY <1>3 DEF Redirect
  <1>4. CASE DoCtors
    BY <1>4, AllOfThem DEF DoCtors
  <1>5. CASE AtExit
    BY <1>5, ProgramConstants DEF AtExit
  <1>6. CASE MainReturns
    BY <1>6 DEF MainReturns
  <1>7. CASE CloseStdout
    BY <1>7 DEF CloseStdout
  <1>8. CASE DoDtors
    BY <1>8, AllOfThem DEF DoDtors, Registered
  <1>9. CASE UNCHANGED bootOnly
    BY <1>9 DEF bootOnly
  <1>10. CASE Throw
    <2>1. UNCHANGED bootOnly \/ (boot \in {"ctors", "main"} /\ Ends("exit", "exit"))
      BY <1>10 DEF Throw, Running, programVars
    <2>2. ASSUME boot \in {"ctors", "main"}, Ends("exit", "exit") PROVE Life'
      BY <2>2 DEF Ends
    <2>. QED BY <1>9, <2>1, <2>2
  <1>11. ASSUME NEW pid \in {0, 1}, NEW sig \in {"0", "SIGCHLD", "SIGKILL", "SIGNONE"},
                Kill(pid, sig)
         PROVE  Life'
    <2>1. UNCHANGED bootOnly \/ (Running /\ Ends("halt", "_exit"))
      BY <1>11 DEF Kill, Fails, programVars
    <2>2. ASSUME Running, Ends("halt", "_exit") PROVE Life'
      BY <2>2 DEF Running, Ends
    <2>. QED BY <1>9, <2>1, <2>2
  <1>12. CASE \/ Stub \/ Wait \/ RegisterHandler \/ SbrkBack
              \/ \E incr \in Increments : Sbrk(incr)
              \/ \E sp \in {Top - 8, Top - 4, Top} : StackMoves(sp)
              \/ UNCHANGED programVars
    <2>1. UNCHANGED bootOnly
      BY <1>12 DEF Stub, Wait, Fails, RegisterHandler, SbrkBack, Sbrk, StackMoves, programVars
    <2>. QED BY <1>9, <2>1
  <1>. QED
    BY <1>1, <1>2, <1>3, <1>4, <1>5, <1>6, <1>7, <1>8, <1>10, <1>11, <1>12 DEF ProgramNext

(* main runs with the destructors registered, but for ALT_NO_EXIT. A       *)
(* program that ends by exit has then run every one of them; one that ends *)
(* before they are registered, or with ALT_NO_EXIT, has run none.          *)
THEOREM DestructorsAreRun == ProgramSpec => []DestructorsRunOnExit
  <1>0. Len(Objects) \in Nat
    BY ProgramConstants
  <1>1. ASSUME ProgramInit PROVE LifeInv
    <2>1. constructed = 0 /\ destroyed = 0
      BY <1>1 DEF ProgramInit
    <2>2. Counts
      BY <1>0, <2>1 DEF Counts
    <2>. QED BY <1>1, <2>2 DEF ProgramInit, LifeInv, Life, Early, Late
  <1>2. ASSUME LifeInv PROVE DestructorsRunOnExit
    <2>1. Counts /\ (destroyed = 0 \/ (constructed = Len(Objects) /\ ~NoExit))
      BY <1>2 DEF LifeInv, Life
    <2>2. destroyed > 0 => constructed = Len(Objects) /\ ~NoExit
      BY <1>0, <2>1 DEF Counts
    <2>. QED BY <1>2, <2>2 DEF LifeInv, Life, Late, DestructorsRunOnExit
  <1>3. LifeInv /\ [ProgramNext]_programVars => LifeInv'
    BY CountsKept, LifeKept DEF LifeInv
  <1>. QED BY <1>1, <1>2, <1>3, PTL DEF ProgramSpec

-----------------------------------------------------------------------------
(* Program: the heap                                                       *)

(* Putting an element before a sequence, and taking the first away.        *)
LEMMA PushFront ==
    ASSUME NEW S, NEW s \in Seq(S), NEW e \in S
    PROVE  /\ <<e>> \o s \in Seq(S) /\ Len(<<e>> \o s) = Len(s) + 1
           /\ (<<e>> \o s)[1] = e
           /\ \A i \in 1 .. Len(s) : (<<e>> \o s)[i + 1] = s[i]
  <1>1. <<e>> \in Seq(S) /\ Len(<<e>>) = 1 /\ <<e>>[1] = e
    OBVIOUS
  <1>. QED BY <1>1, ConcatProperties

LEMMA PopFront ==
    ASSUME NEW S, NEW s \in Seq(S), s # <<>>
    PROVE  /\ Tail(s) \in Seq(S) /\ Len(Tail(s)) = Len(s) - 1 /\ Len(s) \in Nat \ {0}
           /\ \A i \in 1 .. Len(s) - 1 : Tail(s)[i] = s[i + 1]
  BY HeadTailProperties

Block == [at : Nat, size : Nat]

HeapInv ==
    /\ heap_end \in Nat /\ heap_end <= Top /\ blocks \in Seq(Block)
    /\ BlocksAreApart
    /\ \A i \in 1 .. Len(blocks) : blocks[i].at + blocks[i].size <= heap_end

\* While only whole words were asked for, the limit is where the heap ends.
LimitInv ==
    StackChecked /\ ~odd =>
        /\ stack_limit = heap_end /\ heap_end % 4 = 0
        /\ \A i \in 1 .. Len(blocks) : blocks[i].size % 4 = 0
        /\ stack_pointer <= heap_end => overflow

LEMMA AlignedBounds ==
    ASSUME NEW p \in Nat, p <= Top
    PROVE  /\ Aligned(p) \in Nat /\ Aligned(p) % 4 = 0
           /\ p <= Aligned(p) /\ Aligned(p) <= Top
           /\ p % 4 = 0 => Aligned(p) = p
  <1>1. Top \in Nat /\ Top % 4 = 0
    BY ProgramConstants
  <1>. QED BY <1>1 DEF Aligned

(* A block that ends below a place ends below every higher place.          *)
LEMMA EndsBelow ==
    ASSUME NEW at \in Nat, NEW size \in Nat, NEW low \in Nat, NEW high \in Nat,
           at + size <= low, low <= high
    PROVE  at + size <= high
  OBVIOUS

(* A block that is handed out lies above all others.                       *)
LEMMA HandedOut ==
    ASSUME HeapInv, NEW incr \in Nat, ~Exceeds(incr),
           heap_end' = Aligned(heap_end) + incr,
           blocks' = <<[at |-> Aligned(heap_end), size |-> incr]>> \o blocks
    PROVE  HeapInv'
  <1>. DEFINE start == Aligned(heap_end)
              block == [at |-> start, size |-> incr]
  <1>1. /\ start \in Nat /\ start % 4 = 0 /\ heap_end <= start /\ Top \in Nat
        /\ start + incr <= Top /\ block \in Block
        /\ block.at = start /\ block.size = incr
    <2>1. heap_end \in Nat /\ heap_end <= Top /\ Top \in Nat
      BY ProgramConstants DEF HeapInv
    <2>2. /\ start \in Nat /\ start % 4 = 0 /\ heap_end <= start
      BY <2>1, AlignedBounds
    <2>. HIDE DEF start
    <2>3. start + incr <= Top
      BY <2>1, <2>2 DEF Exceeds, start
    <2>. QED BY <2>1, <2>2, <2>3 DEF Block
  <1>. HIDE DEF start
  <1>2. /\ blocks' \in Seq(Block) /\ Len(blocks') = Len(blocks) + 1
        /\ blocks'[1] = block
        /\ \A i \in 1 .. Len(blocks) : blocks'[i + 1] = blocks[i]
    <2>. HIDE DEF block
    <2>1. blocks' = <<block>> \o blocks
      BY DEF block, start
    <2>. QED BY <1>1, <2>1, PushFront DEF HeapInv
  <1>3. /\ heap_end' = start + incr /\ Len(blocks) \in Nat /\ heap_end \in Nat
        /\ \A i \in 1 .. Len(blocks) : blocks[i] \in Block
    BY DEF start, HeapInv
  <1>4. ASSUME NEW i \in 1 .. Len(blocks)
        PROVE  /\ blocks[i].at \in Nat /\ blocks[i].size \in Nat
               /\ blocks[i].at % 4 = 0 /\ blocks[i].at + blocks[i].size <= heap_end
               /\ \A j \in 1 .. Len(blocks) :
                        j > i => blocks[j].at + blocks[j].size <= blocks[i].at
    <2>1. DOMAIN blocks = 1 .. Len(blocks)
      BY DEF HeapInv
    <2>. QED BY <1>3, <1>4, <2>1 DEF HeapInv, BlocksAreApart, Block
  <1>5. ASSUME NEW i \in 1 .. Len(blocks) + 1
        PROVE  /\ blocks'[i].at % 4 = 0 /\ blocks'[i].at + blocks'[i].size <= heap_end'
               /\ \A j \in 1 .. Len(blocks) + 1 :
                        j > i => blocks'[j].at + blocks'[j].size <= blocks'[i].at
    <2>1. CASE i = 1
      <3>1. ASSUME NEW j \in 1 .. Len(blocks) + 1, j > 1
            PROVE  blocks'[j].at + blocks'[j].size <= start
        <4>1. j - 1 \in 1 .. Len(blocks) /\ (j - 1) + 1 = j
          BY <1>3, <3>1
        <4>2. blocks'[j] = blocks[j - 1]
          BY <1>2, <4>1
        <4>3. /\ blocks[j - 1].at \in Nat /\ blocks[j - 1].size \in Nat
              /\ blocks[j - 1].at + blocks[j - 1].size <= heap_end
          BY <1>4, <4>1
        <4>4. heap_end \in Nat /\ start \in Nat /\ heap_end <= start
          BY <1>1, <1>3
        <4>5. blocks[j - 1].at + blocks[j - 1].size <= start
          BY <4>3, <4>4, EndsBelow
        <4>. QED BY <4>2, <4>5
      <3>2. blocks'[i].at = start /\ blocks'[i].size = incr
        BY <1>1, <1>2, <2>1
      <3>. HIDE DEF block
      <3>3. start + incr <= start + incr
        BY <1>1
      <3>4. blocks'[i].at % 4 = 0
        BY <1>1, <3>2
      <3>5. blocks'[i].at + blocks'[i].size <= heap_end'
        BY <1>3, <3>2, <3>3
      <3>6. \A j \in 1 .. Len(blocks) + 1 :
                j > i => blocks'[j].at + blocks'[j].size <= blocks'[i].at
        BY <2>1, <3>1, <3>2
      <3>. QED BY <3>4, <3>5, <3>6
    <2>2. CASE i # 1
      <3>1. i - 1 \in 1 .. Len(blocks) /\ (i - 1) + 1 = i
        BY <1>3, <2>2
      <3>2. blocks'[i] = blocks[i - 1]
        BY <1>2, <3>1
      <3>3. ASSUME NEW j \in 1 .. Len(blocks) + 1, j > i
            PROVE  blocks'[j].at + blocks'[j].size <= blocks'[i].at
        <4>1. j - 1 \in 1 .. Len(blocks) /\ (j - 1) + 1 = j /\ j - 1 > i - 1
          BY <1>3, <3>3
        <4>2. blocks'[j] = blocks[j - 1]
          BY <1>2, <4>1
        <4>3. blocks[j - 1].at + blocks[j - 1].size <= blocks[i - 1].at
          BY <1>4, <3>1, <4>1
        <4>. QED BY <3>2, <4>2, <4>3
      <3>4. /\ blocks[i - 1].at \in Nat /\ blocks[i - 1].size \in Nat
            /\ blocks[i - 1].at % 4 = 0
            /\ blocks[i - 1].at + blocks[i - 1].size <= heap_end
        BY <1>4, <3>1
      <3>5. heap_end <= start + incr /\ start + incr \in Nat /\ heap_end \in Nat
        BY <1>1, <1>3
      <3>6. blocks[i - 1].at + blocks[i - 1].size <= start + incr
        BY <3>4, <3>5, EndsBelow
      <3>. QED BY <1>3, <3>2, <3>3, <3>4, <3>6
    <2>. QED BY <2>1, <2>2
  <1>6. DOMAIN blocks' = 1 .. Len(blocks) + 1
    BY <1>2
  <1>7. heap_end' \in Nat /\ heap_end' <= Top
    BY <1>1, <1>3
  <1>8. start + incr <= Top /\ \A i \in 1 .. Len(blocks) + 1 :
            blocks'[i].at + blocks'[i].size <= Top
    <2>. SUFFICES ASSUME NEW i \in 1 .. Len(blocks) + 1
                  PROVE  blocks'[i].at + blocks'[i].size <= Top
      BY <1>1
    <2>1. blocks'[i] \in Block
      BY <1>2, <1>3
    <2>2. blocks'[i].at \in Nat /\ blocks'[i].size \in Nat
      BY <2>1 DEF Block
    <2>3. blocks'[i].at + blocks'[i].size <= start + incr
      BY <1>3, <1>5
    <2>4. start + incr \in Nat /\ start + incr <= Top /\ Top \in Nat
      BY <1>1
    <2>. QED BY <2>2, <2>3, <2>4, EndsBelow
  <1>. QED BY <1>2, <1>5, <1>6, <1>7, <1>8 DEF HeapInv, BlocksAreApart

(* The last block that is given back leaves the others where they are.     *)
LEMMA GivenBack ==
    ASSUME HeapInv, blocks # <<>>, blocks' = Tail(blocks),
           heap_end' = Aligned(heap_end) - blocks[1].size
    PROVE  HeapInv'
  <1>1. /\ blocks' \in Seq(Block) /\ Len(blocks') = Len(blocks) - 1
        /\ Len(blocks) \in Nat \ {0}
        /\ \A i \in 1 .. Len(blocks) - 1 : blocks'[i] = blocks[i + 1]
    BY PopFront DEF HeapInv
  <1>2. /\ heap_end \in Nat /\ heap_end <= Top /\ Top \in Nat
        /\ Aligned(heap_end) \in Nat /\ heap_end <= Aligned(heap_end)
        /\ Aligned(heap_end) <= Top
    BY AlignedBounds, ProgramConstants DEF HeapInv
  <1>3. ASSUME NEW i \in 1 .. Len(blocks)
        PROVE  /\ blocks[i].at \in Nat /\ blocks[i].size \in Nat /\ blocks[i].at % 4 = 0
               /\ blocks[i].at + blocks[i].size <= heap_end
               /\ blocks[i].at + blocks[i].size <= Top
               /\ \A j \in 1 .. Len(blocks) :
                        j > i => blocks[j].at + blocks[j].size <= blocks[i].at
    <2>1. DOMAIN blocks = 1 .. Len(blocks) /\ blocks[i] \in Block
      BY <1>1, <1>3 DEF HeapInv
    <2>. QED BY <1>3, <2>1 DEF HeapInv, BlocksAreApart, Block
  <1>4. /\ heap_end' \in Nat /\ heap_end' <= Top /\ blocks[1].at <= heap_end'
        /\ blocks[1].at \in Nat
    <2>1. /\ blocks[1].at \in Nat /\ blocks[1].size \in Nat
          /\ blocks[1].at + blocks[1].size <= heap_end
      BY <1>1, <1>3
    <2>2. \A at, size, old, up \in Nat :
              at + size <= old /\ old <= up => up - size \in Nat /\ at <= up - size
      OBVIOUS
    <2>3. \A size, up, top \in Nat : up - size \in Nat /\ up <= top => up - size <= top
      OBVIOUS
    <2>4. /\ Aligned(heap_end) - blocks[1].size \in Nat
          /\ blocks[1].at <= Aligned(heap_end) - blocks[1].size
      BY <1>2, <2>1, <2>2
    <2>5. Aligned(heap_end) - blocks[1].size <= Top
      BY <1>2, <2>1, <2>3, <2>4
    <2>. QED BY <2>1, <2>4, <2>5
  <1>5. ASSUME NEW i \in 1 .. Len(blocks) - 1
        PROVE  /\ blocks'[i].at % 4 = 0 /\ blocks'[i].at + blocks'[i].size <= Top
               /\ blocks'[i].at + blocks'[i].size <= heap_end'
               /\ \A j \in 1 .. Len(blocks) - 1 :
                        j > i => blocks'[j].at + blocks'[j].size <= blocks'[i].at
    <2>1. /\ i + 1 \in 1 .. Len(blocks) /\ 1 \in 1 .. Len(blocks) /\ i + 1 > 1
          /\ blocks'[i] = blocks[i + 1]
      BY <1>1
    <2>2. /\ blocks[i + 1].at \in Nat /\ blocks[i + 1].size \in Nat
          /\ blocks[i + 1].at % 4 = 0
          /\ blocks[i + 1].at + blocks[i + 1].size <= Top
          /\ blocks[i + 1].at + blocks[i + 1].size <= blocks[1].at
      BY <1>3, <2>1
    <2>3. ASSUME NEW j \in 1 .. Len(blocks) - 1, j > i
          PROVE  blocks'[j].at + blocks'[j].size <= blocks'[i].at
      <3>1. j + 1 \in 1 .. Len(blocks) /\ j + 1 > i + 1 /\ blocks'[j] = blocks[j + 1]
        BY <1>1, <2>3
      <3>2. blocks[j + 1].at + blocks[j + 1].size <= blocks[i + 1].at
        BY <1>3, <2>1, <3>1
      <3>. QED BY <2>1, <3>1, <3>2
    <2>4. blocks[i + 1].at + blocks[i + 1].size <= heap_end'
      BY <1>4, <2>2
    <2>. QED BY <2>1, <2>2, <2>3, <2>4
  <1>6. DOMAIN blocks' = 1 .. Len(blocks) - 1
    BY <1>1
  <1>. QED BY <1>1, <1>4, <1>5, <1>6 DEF HeapInv, BlocksAreApart

LEMMA HeapKept == HeapInv /\ [ProgramNext]_programVars => HeapInv'
  <1>. SUFFICES ASSUME HeapInv, [ProgramNext]_programVars PROVE HeapInv'
    OBVIOUS
  <1>1. ASSUME UNCHANGED <<heap_end, blocks>> PROVE HeapInv'
    BY <1>1 DEF HeapInv, BlocksAreApart
  <1>2. ASSUME NEW incr \in Increments, Sbrk(incr) PROVE HeapInv'
    <2>1. incr \in Nat
      BY ProgramConstants
    <2>2. CASE Exceeds(incr)
      <3>1. heap_end' = Aligned(heap_end) /\ blocks' = blocks
        BY <1>2, <2>2 DEF Sbrk
      <3>2. heap_end \in Nat /\ Aligned(heap_end) \in Nat /\ heap_end <= Aligned(heap_end)
            /\ Aligned(heap_end) <= Top
        BY AlignedBounds DEF HeapInv
      <3>3. ASSUME NEW i \in 1 .. Len(blocks)
            PROVE  blocks[i].at + blocks[i].size <= Aligned(heap_end)
        <4>1. /\ blocks[i] \in Block /\ blocks[i].at + blocks[i].size <= heap_end
          BY <3>3 DEF HeapInv
        <4>2. blocks[i].at \in Nat /\ blocks[i].size \in Nat
          BY <4>1 DEF Block
        <4>. QED BY <3>2, <4>1, <4>2
      <3>. QED BY <3>1, <3>2, <3>3 DEF HeapInv, BlocksAreApart
    <2>3. CASE ~Exceeds(incr)
      BY <1>2, <2>1, <2>3, HandedOut DEF Sbrk
    <2>. QED BY <2>2, <2>3
  <1>3. CASE SbrkBack
    BY <1>3, GivenBack DEF SbrkBack
  <1>4. \/ UNCHANGED <<heap_end, blocks>> \/ SbrkBack
        \/ \E incr \in Increments : Sbrk(incr)
    BY DEF ProgramNext, LoadSection, Initialise, Redirect, DoCtors, AtExit, MainReturns,
           CloseStdout, DoDtors, Stub, Wait, Throw, RegisterHandler, Kill, StackMoves,
           Ends, Fails, programVars, memoryOnly
  <1>. QED BY <1>1, <1>2, <1>3, <1>4

\* What LimitInv says of heap, limit and stack once its premise holds.
LimitFollows ==
    /\ stack_limit = heap_end /\ heap_end % 4 = 0
    /\ \A i \in 1 .. Len(blocks) : blocks[i].size % 4 = 0

LEMMA WordsHandedOut ==
    ASSUME HeapInv, LimitFollows, StackChecked, NEW incr \in Nat, incr % 4 = 0, Sbrk(incr)
    PROVE  LimitFollows' /\ (stack_pointer' <= heap_end' =>
                                 overflow' \/ (Exceeds(incr) /\ stack_pointer <= heap_end))
  <1>1. Aligned(heap_end) = heap_end /\ heap_end \in Nat
    BY AlignedBounds DEF HeapInv, LimitFollows
  <1>2. CASE Exceeds(incr)
    <2>1. /\ heap_end' = heap_end /\ blocks' = blocks /\ stack_limit' = stack_limit
          /\ stack_pointer' = stack_pointer
      BY <1>1, <1>2 DEF Sbrk
    <2>. QED BY <1>2, <2>1 DEF LimitFollows
  <1>3. CASE ~Exceeds(incr)
    <2>. DEFINE block == [at |-> heap_end, size |-> incr]
    <2>1. /\ heap_end' = heap_end + incr /\ blocks' = <<block>> \o blocks
          /\ stack_pointer' = stack_pointer
      BY <1>1, <1>3 DEF Sbrk
    <2>2. stack_limit' = heap_end'
      BY <1>1, <1>3 DEF Sbrk, Contiguous, LimitFollows
    <2>3. heap_end' % 4 = 0
      <3>1. heap_end % 4 = 0 /\ heap_end' = heap_end + incr
        BY <2>1 DEF LimitFollows
      <3>. QED BY <1>1, <3>1
    <2>4. block \in Block /\ block.size = incr
      BY <1>1 DEF Block
    <2>5. /\ Len(blocks') = Len(blocks) + 1 /\ Len(blocks) \in Nat /\ blocks'[1] = block
          /\ \A i \in 1 .. Len(blocks) : blocks'[i + 1] = blocks[i]
      <3>. HIDE DEF block
      <3>. QED BY <2>1, <2>4, PushFront DEF HeapInv
    <2>6. ASSUME NEW i \in 1 .. Len(blocks) + 1 PROVE blocks'[i].size % 4 = 0
      <3>1. CASE i = 1
        BY <2>4, <2>5, <3>1
      <3>2. CASE i # 1
        <4>1. i - 1 \in 1 .. Len(blocks) /\ (i - 1) + 1 = i
          BY <2>5, <3>2
        <4>. QED BY <2>5, <4>1 DEF LimitFollows
      <3>. QED BY <3>1, <3>2
    <2>7. stack_pointer <= heap_end' => overflow'
      BY <1>1, <1>3, <2>1 DEF Sbrk, Contiguous, LimitFollows
    <2>. QED BY <2>1, <2>2, <2>3, <2>5, <2>6, <2>7 DEF LimitFollows
  <1>. QED BY <1>2, <1>3

LEMMA WordsGivenBack ==
    ASSUME HeapInv, LimitFollows, StackChecked, SbrkBack
    PROVE  LimitFollows' /\ (stack_pointer' <= heap_end' => overflow')
  <1>1. Aligned(heap_end) = heap_end /\ heap_end \in Nat
    BY AlignedBounds DEF HeapInv, LimitFollows
  <1>2. /\ heap_end' = heap_end - blocks[1].size /\ blocks' = Tail(blocks) /\ blocks # <<>>
        /\ stack_pointer' = stack_pointer
    BY <1>1 DEF SbrkBack
  <1>3. stack_limit' = heap_end'
    BY <1>1 DEF SbrkBack, Contiguous, LimitFollows
  <1>4. /\ Len(blocks') = Len(blocks) - 1 /\ Len(blocks) \in Nat \ {0}
        /\ \A i \in 1 .. Len(blocks) - 1 : blocks'[i] = blocks[i + 1]
    BY <1>2, PopFront DEF HeapInv
  <1>5. heap_end' % 4 = 0
    <2>1. 1 \in 1 .. Len(blocks) /\ blocks[1] \in Block
      BY <1>4 DEF HeapInv
    <2>2. blocks[1].size \in Nat /\ blocks[1].size % 4 = 0 /\ heap_end % 4 = 0
      BY <2>1 DEF Block, LimitFollows
    <2>3. \A h, n \in Nat : h % 4 = 0 /\ n % 4 = 0 => (h - n) % 4 = 0
      OBVIOUS
    <2>. QED BY <1>1, <1>2, <2>2, <2>3
  <1>6. \A i \in 1 .. Len(blocks) - 1 : blocks'[i].size % 4 = 0
    BY <1>4 DEF LimitFollows
  <1>7. stack_pointer <= heap_end' => overflow'
    BY <1>1, <1>2 DEF SbrkBack, Contiguous, LimitFollows
  <1>. QED BY <1>2, <1>3, <1>4, <1>5, <1>6, <1>7 DEF LimitFollows

LEMMA LimitKept ==
    HeapInv /\ LimitInv /\ [ProgramNext]_programVars => LimitInv'
  <1>. SUFFICES ASSUME HeapInv, LimitInv, [ProgramNext]_programVars, StackChecked, ~odd'
                PROVE  LimitFollows' /\ (stack_pointer' <= heap_end' => overflow')
    BY DEF LimitInv, LimitFollows
  <1>1. ASSUME ~odd PROVE LimitFollows /\ (stack_pointer <= heap_end => overflow)
    BY <1>1 DEF LimitInv, LimitFollows
  <1>2. ASSUME UNCHANGED memoryOnly
        PROVE  LimitFollows' /\ (stack_pointer' <= heap_end' => overflow')
    <2>1. /\ UNCHANGED <<heap_end, blocks, stack_limit, stack_pointer>>
          /\ overflow => overflow'
          /\ ~odd
      BY <1>2 DEF memoryOnly
    <2>. QED BY <1>1, <2>1 DEF LimitFollows
  <1>3. ASSUME NEW incr \in Increments, Sbrk(incr)
        PROVE  LimitFollows' /\ (stack_pointer' <= heap_end' => overflow')
    <2>1. incr \in Nat
      BY ProgramConstants
    <2>2. ~odd /\ incr % 4 = 0
      BY <1>3 DEF Sbrk
    <2>3. Exceeds(incr) => (overflow => overflow')
      BY <1>3 DEF Sbrk
    <2>. QED BY <1>1, <1>3, <2>1, <2>2, <2>3, WordsHandedOut
  <1>4. ASSUME SbrkBack PROVE LimitFollows' /\ (stack_pointer' <= heap_end' => overflow')
    <2>1. ~odd
      BY <1>4 DEF SbrkBack
    <2>. QED BY <1>1, <1>4, <2>1, WordsGivenBack
  <1>5. ASSUME NEW sp, StackMoves(sp)
        PROVE  LimitFollows' /\ (stack_pointer' <= heap_end' => overflow')
    <2>1. /\ UNCHANGED <<heap_end, blocks, stack_limit>> /\ stack_pointer' = sp
          /\ sp <= stack_limit => overflow'
          /\ ~odd
      BY <1>5 DEF StackMoves
    <2>. QED BY <1>1, <2>1 DEF LimitFollows
  <1>6. \/ UNCHANGED memoryOnly \/ SbrkBack
        \/ \E incr \in Increments : Sbrk(incr)
        \/ \E sp \in {Top - 8, Top - 4, Top} : StackMoves(sp)
    BY DEF ProgramNext, LoadSection, Initialise, Redirect, DoCtors, AtExit, MainReturns,
           CloseStdout, DoDtors, Stub, Wait, Throw, RegisterHandler, Kill, Ends, Fails,
           programVars
  <1>. QED BY <1>2, <1>3, <1>4, <1>5, <1>6

(* The blocks sbrk hands out are apart and below the limit, and while they *)
(* are whole words the heap does not meet the stack unnoticed.             *)
THEOREM HeapStaysSound == ProgramSpec => []HeapIsSound
  <1>1. ASSUME ProgramInit PROVE HeapInv /\ LimitInv
    <2>1. /\ heap_end = 0 /\ blocks = <<>> /\ stack_limit = 0 /\ stack_pointer = Top
          /\ Top \in Nat \ {0}
      BY <1>1, ProgramConstants DEF ProgramInit
    <2>2. Len(blocks) = 0 /\ DOMAIN blocks = {} /\ blocks \in Seq(Block)
      BY <2>1
    <2>3. HeapInv
      BY <2>1, <2>2 DEF HeapInv, BlocksAreApart
    <2>4. LimitFollows /\ ~(stack_pointer <= heap_end)
      BY <2>1, <2>2 DEF LimitFollows
    <2>. QED BY <2>3, <2>4 DEF LimitInv, LimitFollows
  <1>2. HeapInv /\ LimitInv => HeapIsSound
    BY DEF HeapIsSound, HeapInv, LimitInv, HeapMeetsStackAloud
  <1>3. HeapInv /\ LimitInv /\ [ProgramNext]_programVars => HeapInv' /\ LimitInv'
    BY HeapKept, LimitKept
  <1>. QED BY <1>1, <1>2, <1>3, PTL DEF ProgramSpec

-----------------------------------------------------------------------------
(* Interrupts: sections of the task keep handlers out                      *)

Access == [dir : {"none", "read", "write"}, got : Seq(Data)]

\* A section of the task is open only in the task and with interrupts off,
\* and all but the outermost were entered with interrupts off.
SectionInv ==
    /\ contexts \in [Levels -> Seq({0, 1})] /\ mstatus \in {0, 1}
    /\ contexts["task"] # <<>> => level = "task" /\ mstatus = 0
    /\ \A k \in 2 .. Len(contexts["task"]) : contexts["task"][k] = 0

\* A level in the middle of an access is in a section, or in the handler.
AccessInv ==
    /\ access \in [Levels -> Access]
    /\ \A l \in Levels : access[l].dir # "none" => Len(access[l].got) \in 1 .. Width
    /\ access["task"] # Idle => contexts["task"] # <<>>
    /\ access["isr"] # Idle => level = "isr"

(* The level that runs is the only one that can be in an access.           *)
LEMMA OthersAreIdle ==
    ASSUME SectionInv, AccessInv, NEW l \in Levels, Runs(l), NEW m \in Levels, m # l
    PROVE  access[m] = Idle
  BY DEF SectionInv, AccessInv, Runs, Levels

(* What entering and leaving a section do to a stack of contexts.          *)
LEMMA Entered ==
    ASSUME NEW s \in Seq({0, 1}), NEW c \in {0, 1}
    PROVE  /\ Append(s, c) \in Seq({0, 1}) /\ Append(s, c) # <<>>
           /\ Len(Append(s, c)) = Len(s) + 1 /\ Append(s, c)[Len(s) + 1] = c
           /\ \A k \in 1 .. Len(s) : Append(s, c)[k] = s[k]
  BY AppendProperties

LEMMA Left ==
    ASSUME NEW s \in Seq({0, 1}), Len(s) > 0
    PROVE  /\ SubSeq(s, 1, Len(s) - 1) \in Seq({0, 1})
           /\ Len(SubSeq(s, 1, Len(s) - 1)) = Len(s) - 1
           /\ \A k \in 1 .. Len(s) - 1 : SubSeq(s, 1, Len(s) - 1)[k] = s[k]
           /\ SubSeq(s, 1, Len(s) - 1) # <<>> => Len(s) >= 2
  <1>. DEFINE n == Len(s) - 1
              S == {0, 1}
              less == SubSeq(s, 1, n)
  <1>1. n \in Nat /\ 1 \in Int /\ n \in Int /\ \A k \in 1 .. n : s[k] \in S
    OBVIOUS
  <1>. HIDE DEF n, S
  <1>2. /\ less \in Seq(S)
        /\ Len(less) = IF 1 <= n THEN n - 1 + 1 ELSE 0
        /\ \A k \in 1 .. n - 1 + 1 : less[k] = s[1 + k - 1]
    BY <1>1, SubSeqProperties
  <1>. HIDE DEF less
  <1>3. Len(less) = n /\ \A k \in 1 .. n : less[k] = s[k]
    BY <1>1, <1>2
  <1>4. n = 0 => less = <<>>
    BY <1>2, <1>3
  <1>5. less # <<>> => n >= 1
    BY <1>1, <1>4
  <1>. QED BY <1>2, <1>3, <1>5 DEF less, n, S

LEMMA SectionKept ==
    SectionInv /\ [IrqNext]_irqVars => SectionInv'
  <1>. SUFFICES ASSUME SectionInv, [IrqNext]_irqVars PROVE SectionInv'
    OBVIOUS
  <1>0. /\ "task" \in Levels /\ "isr" \in Levels
        /\ \A l \in Levels : contexts[l] \in Seq({0, 1})
    BY DEF SectionInv, Levels
  <1>1. ASSUME UNCHANGED <<mstatus, level, contexts>> PROVE SectionInv'
    BY <1>1 DEF SectionInv
  <1>2. ASSUME NEW l \in Levels, DisableAll(l) PROVE SectionInv'
    <2>1. /\ contexts' = [contexts EXCEPT ![l] = Append(contexts[l], mstatus)]
          /\ mstatus' = 0 /\ level' = level /\ level = l
      BY <1>2 DEF DisableAll, Runs
    <2>2. contexts' \in [Levels -> Seq({0, 1})]
      BY <1>0, <2>1, Entered DEF SectionInv
    <2>3. CASE l = "task"
      <3>1. contexts'["task"] = Append(contexts["task"], mstatus)
        BY <1>0, <2>1, <2>3 DEF SectionInv
      <3>2. ASSUME NEW k \in 2 .. Len(contexts'["task"]) PROVE contexts'["task"][k] = 0
        <4>1. Len(contexts["task"]) \in Nat
          BY <1>0
        <4>2. k \in 2 .. Len(contexts["task"]) \/ k = Len(contexts["task"]) + 1
          BY <1>0, <3>1, <4>1, Entered DEF SectionInv
        <4>3. CASE k \in 2 .. Len(contexts["task"])
          <5>1. k \in 1 .. Len(contexts["task"])
            BY <4>1, <4>3
          <5>. QED BY <1>0, <3>1, <4>3, <5>1, Entered DEF SectionInv
        <4>4. CASE k = Len(contexts["task"]) + 1
          <5>1. contexts["task"] # <<>>
            BY <1>0, <4>4
          <5>. QED BY <1>0, <3>1, <4>4, <5>1, Entered DEF SectionInv
        <4>. QED BY <4>2, <4>3, <4>4
      <3>. QED BY <2>1, <2>2, <2>3, <3>2 DEF SectionInv
    <2>4. CASE l # "task"
      <3>1. contexts'["task"] = contexts["task"]
        BY <1>0, <2>1, <2>4 DEF SectionInv
      <3>. QED BY <2>1, <2>2, <2>4, <3>1 DEF SectionInv
    <2>. QED BY <2>3, <2>4
  <1>3. ASSUME NEW l \in Levels, EnableAll(l) PROVE SectionInv'
    <2>. DEFINE depth == Len(contexts[l])
    <2>1. /\ contexts' = [contexts EXCEPT ![l] = SubSeq(contexts[l], 1, depth - 1)]
          /\ mstatus' = Restored(contexts[l][depth])
          /\ depth > 0 /\ level' = level /\ level = l
      BY <1>3 DEF EnableAll, Runs
    <2>2. contexts' \in [Levels -> Seq({0, 1})]
      BY <1>0, <2>1, Left DEF SectionInv
    <2>3. mstatus' \in {0, 1}
      BY <2>1 DEF Restored, SectionInv
    <2>4. CASE l = "task"
      <3>1. contexts'["task"] = SubSeq(contexts["task"], 1, depth - 1) /\ depth \in Nat
        BY <1>0, <2>1, <2>4 DEF SectionInv
      <3>2. contexts'["task"] # <<>> => mstatus' = 0
        <4>1. contexts'["task"] # <<>> => depth >= 2
          BY <1>0, <2>1, <2>4, <3>1, Left
        <4>2. depth >= 2 => contexts["task"][depth] = 0 /\ mstatus = 0
          <5>1. depth >= 2 => contexts["task"] # <<>> /\ depth \in 2 .. depth
            BY <1>0, <2>4, <3>1
          <5>. QED BY <2>4, <5>1 DEF SectionInv
        <4>. QED BY <2>1, <2>4, <4>1, <4>2 DEF Restored
      <3>3. ASSUME NEW k \in 2 .. Len(contexts'["task"]) PROVE contexts'["task"][k] = 0
        <4>1. k \in 1 .. depth - 1 /\ k \in 2 .. depth
          BY <1>0, <2>1, <2>4, <3>1, Left
        <4>2. contexts'["task"][k] = contexts["task"][k]
          BY <1>0, <2>1, <2>4, <3>1, <4>1, Left
        <4>. QED BY <2>4, <4>1, <4>2 DEF SectionInv
      <3>. QED BY <2>1, <2>2, <2>3, <2>4, <3>2, <3>3 DEF SectionInv
    <2>5. CASE l # "task"
      <3>1. contexts'["task"] = contexts["task"]
        BY <1>0, <2>1, <2>5 DEF SectionInv
      <3>. QED BY <2>1, <2>2, <2>3, <2>5, <3>1 DEF SectionInv
    <2>. QED BY <2>4, <2>5
  <1>4. CASE CpuEnableInterrupts
    BY <1>4 DEF CpuEnableInterrupts, SectionInv
  <1>5. CASE Mret
    BY <1>5 DEF Mret, Runs, SectionInv
  <1>6. ASSUME NEW line, PlatformIrq(line) PROVE SectionInv'
    BY <1>6 DEF PlatformIrq, SectionInv
  <1>7. \/ UNCHANGED <<mstatus, level, contexts>>
        \/ CpuEnableInterrupts \/ Mret \/ \E line \in Line : PlatformIrq(line)
        \/ \E l \in Levels : DisableAll(l) \/ EnableAll(l)
    BY DEF IrqNext, Calls, RegisterStub, TriggerSoftware, WriteGoesOn, ReadBegins,
           ReadGoesOn, WriteBegins, FpgaEnable, FpgaDisable, Register, Unregister,
           RegisterSoftware, LineAsks, SameLine, Untouched, registers, irqVars
  <1>. QED BY <1>1, <1>2, <1>3, <1>4, <1>5, <1>6, <1>7

LEMMA NoAccess == Idle \in Access /\ Idle.dir = "none" /\ \A l \in Levels : l = "task" \/ l = "isr"
  BY DEF Idle, Access, Levels

LEMMA AccessGrows ==
    ASSUME NEW a \in Access, NEW d \in Data
    PROVE  /\ [a EXCEPT !.got = Append(a.got, d)] \in Access
           /\ [a EXCEPT !.got = Append(a.got, d)].dir = a.dir
           /\ [a EXCEPT !.got = Append(a.got, d)].got = Append(a.got, d)
  <1>1. a.got \in Seq(Data) /\ a.dir \in {"none", "read", "write"}
    BY DEF Access
  <1>2. Append(a.got, d) \in Seq(Data)
    BY <1>1
  <1>. QED BY <1>1, <1>2 DEF Access

\* What the steps of an access do.
Touches(l) ==
    /\ Runs(l) /\ UNCHANGED <<mstatus, level, contexts>>
    /\ \/ access[l] # Idle \/ l = "isr" \/ contexts[l] # <<>>
    /\ access' = [access EXCEPT ![l] = access'[l]] /\ access'[l] \in Access
    /\ access'[l].dir # "none" => Len(access'[l].got) \in 1 .. Width

LEMMA AccessTouches ==
    ASSUME AccessInv, wide \in [1 .. Width -> Data], NEW l \in Levels,
           \/ WriteGoesOn(l) \/ ReadBegins(l) \/ ReadGoesOn(l)
           \/ \E d \in Data : WriteBegins(l, d)
    PROVE  Touches(l)
  <1>0. /\ access \in [Levels -> Access] /\ access[l] \in Access
        /\ access[l].got \in Seq(Data) /\ Len(access[l].got) \in Nat
        /\ access[l].dir # "none" => access[l] # Idle /\ access[l].got[1] \in Data
        /\ 1 \in 1 .. Width
    BY InterruptConstants DEF AccessInv, Access, Idle
  <1>1. ASSUME NEW r \in Access, access' = [access EXCEPT ![l] = r],
               r.dir # "none" => Len(r.got) \in 1 .. Width
        PROVE  /\ access' = [access EXCEPT ![l] = access'[l]] /\ access'[l] \in Access
               /\ access'[l].dir # "none" => Len(access'[l].got) \in 1 .. Width
    BY <1>0, <1>1
  <1>2. ASSUME NEW d \in Data, WriteBegins(l, d) PROVE Touches(l)
    <2>1. [dir |-> "write", got |-> <<d>>] \in Access
      BY DEF Access
    <2>2. /\ access' = [access EXCEPT ![l] = [dir |-> "write", got |-> <<d>>]]
          /\ Runs(l) /\ InSection(l) /\ UNCHANGED <<mstatus, level, contexts>>
      BY <1>2 DEF WriteBegins, Untouched, registers
    <2>3. Len(access'[l].got) = 1
      BY <1>0, <2>2
    <2>. QED BY <1>0, <1>1, <2>1, <2>2, <2>3 DEF Touches, InSection
  <1>3. CASE ReadBegins(l)
    <2>1. [dir |-> "read", got |-> <<wide[1]>>] \in Access
      BY <1>0 DEF Access
    <2>2. /\ access' = [access EXCEPT ![l] = [dir |-> "read", got |-> <<wide[1]>>]]
          /\ Runs(l) /\ InSection(l) /\ UNCHANGED <<mstatus, level, contexts>>
      BY <1>3 DEF ReadBegins, Untouched, registers
    <2>3. Len(access'[l].got) = 1
      BY <1>0, <2>2
    <2>. QED BY <1>0, <1>1, <2>1, <2>2, <2>3 DEF Touches, InSection
  <1>. DEFINE n == Len(access[l].got) + 1
  <1>4. CASE WriteGoesOn(l)
    <2>1. /\ Runs(l) /\ access[l].dir = "write" /\ UNCHANGED <<mstatus, level, contexts>>
      BY <1>4 DEF WriteGoesOn, Untouched, registers
    <2>2. CASE n > Width
      <3>1. access' = [access EXCEPT ![l] = Idle]
        BY <1>4, <2>2 DEF WriteGoesOn
      <3>. QED BY <1>0, <1>1, <2>1, <3>1, NoAccess DEF Touches
    <2>3. CASE ~(n > Width)
      <3>. DEFINE r == [access[l] EXCEPT !.got = Append(access[l].got, access[l].got[1])]
      <3>1. access' = [access EXCEPT ![l] = r]
        BY <1>4, <2>3 DEF WriteGoesOn
      <3>2. r \in Access
        BY <1>0, <2>1, AccessGrows
      <3>3. r.got = Append(access[l].got, access[l].got[1])
        BY <1>0, <2>1, AccessGrows
      <3>. HIDE DEF r
      <3>4. Len(r.got) \in 1 .. Width
        BY <1>0, <2>3, <3>3, InterruptConstants
      <3>. QED BY <1>0, <1>1, <2>1, <3>1, <3>2, <3>4 DEF Touches
    <2>. QED BY <2>2, <2>3
  <1>5. CASE ReadGoesOn(l)
    <2>1. /\ Runs(l) /\ access[l].dir = "read" /\ UNCHANGED <<mstatus, level, contexts>>
      BY <1>5 DEF ReadGoesOn, Untouched, registers
    <2>2. CASE n > Width
      <3>1. access' = [access EXCEPT ![l] = Idle]
        BY <1>5, <2>2 DEF ReadGoesOn
      <3>. QED BY <1>0, <1>1, <2>1, <3>1, NoAccess DEF Touches
    <2>3. CASE ~(n > Width)
      <3>. DEFINE r == [access[l] EXCEPT !.got = Append(access[l].got, wide[n])]
      <3>1. access' = [access EXCEPT ![l] = r]
        BY <1>5, <2>3 DEF ReadGoesOn
      <3>2. r \in Access
        <4>1. n \in 1 .. Width
          BY <1>0, <2>3, InterruptConstants
        <4>. QED BY <1>0, <4>1, AccessGrows
      <3>3. r.got = Append(access[l].got, wide[n])
        <4>1. n \in 1 .. Width
          BY <1>0, <2>3, InterruptConstants
        <4>. QED BY <1>0, <4>1, AccessGrows
      <3>. HIDE DEF r
      <3>4. Len(r.got) \in 1 .. Width
        BY <1>0, <2>3, <3>3, InterruptConstants
      <3>. QED BY <1>0, <1>1, <2>1, <3>1, <3>2, <3>4 DEF Touches
    <2>. QED BY <2>2, <2>3
  <1>. QED BY <1>2, <1>3, <1>4, <1>5

LEMMA AccessKept ==
    SectionInv /\ AccessInv /\ wide \in [1 .. Width -> Data] /\ [IrqNext]_irqVars => AccessInv'
  <1>. SUFFICES ASSUME SectionInv, AccessInv, wide \in [1 .. Width -> Data], [IrqNext]_irqVars
                PROVE  AccessInv'
    OBVIOUS
  <1>1. ASSUME UNCHANGED <<level, contexts, access>> PROVE AccessInv'
    BY <1>1 DEF AccessInv
  <1>2. ASSUME NEW l \in Levels, Touches(l) PROVE AccessInv'
    <2>1. /\ access \in [Levels -> Access] /\ access'[l] \in Access
          /\ access' = [access EXCEPT ![l] = access'[l]]
      BY <1>2 DEF AccessInv, Touches
    <2>2. access' \in [Levels -> Access] /\ \A m \in Levels : m # l => access'[m] = access[m]
      BY <2>1
    <2>3. /\ l = "task" => contexts["task"] # <<>> /\ contexts' = contexts
          /\ level' = l /\ \A m \in Levels : m # l => access[m] = Idle
      BY <1>2, OthersAreIdle DEF Touches, AccessInv, Runs, Levels
    <2>4. /\ "task" \in Levels /\ "isr" \in Levels
          /\ \A m \in Levels : access'[m].dir # "none" => Len(access'[m].got) \in 1 .. Width
      <3>1. ASSUME NEW m \in Levels, access'[m].dir # "none"
            PROVE  Len(access'[m].got) \in 1 .. Width
        BY <1>2, <2>2, <2>3, <3>1, NoAccess DEF Touches
      <3>. QED BY <3>1 DEF Levels
    <2>. QED BY <2>2, <2>3, <2>4, NoAccess DEF AccessInv
  <1>3. ASSUME NEW l \in Levels, DisableAll(l) \/ EnableAll(l) PROVE AccessInv'
    <2>1. /\ level = l /\ access[l] = Idle /\ level' = level /\ access' = access
          /\ \A m \in Levels : m # l => contexts'[m] = contexts[m]
      BY <1>3 DEF DisableAll, EnableAll, Runs, Frees, sharedData, SectionInv
    <2>. QED BY <2>1 DEF AccessInv, Levels
  <1>4. CASE Mret
    BY <1>4 DEF Mret, Runs, Frees, sharedData, AccessInv
  <1>5. ASSUME NEW line, PlatformIrq(line) PROVE AccessInv'
    BY <1>5 DEF PlatformIrq, Runs, sharedData, AccessInv
  <1>6. \/ UNCHANGED <<level, contexts, access>>
        \/ Mret \/ \E line \in Line : PlatformIrq(line)
        \/ \E l \in Levels : \/ DisableAll(l) \/ EnableAll(l)
                             \/ WriteGoesOn(l) \/ ReadBegins(l) \/ ReadGoesOn(l)
                             \/ \E d \in Data : WriteBegins(l, d)
    BY DEF IrqNext, Calls, CpuEnableInterrupts, RegisterStub, TriggerSoftware, FpgaEnable,
           FpgaDisable, Register, Unregister, RegisterSoftware, LineAsks, SameLine,
           sharedData, irqVars
  <1>. QED BY <1>1, <1>2, <1>3, <1>4, <1>5, <1>6, AccessTouches

\* What an access has gone through: the words a write has changed, the words
\* a read has got. No level writes: all words of the register are alike.
WordsOf(l) ==
    /\ access[l].dir = "write" =>
            \A i \in 1 .. Len(access[l].got) : /\ access[l].got[i] = access[l].got[1]
                                               /\ wide[i] = access[l].got[1]
    /\ access[l].dir = "read" =>
            \A i \in 1 .. Len(access[l].got) : access[l].got[i] = wide[i]

Alike == \A i, j \in 1 .. Width : wide[i] = wide[j]

WordsInv ==
    /\ wide \in [1 .. Width -> Data]
    /\ \A l \in Levels : WordsOf(l)
    /\ Alike \/ \E l \in Levels : access[l].dir = "write"

(* One more word of a sequence of words.                                   *)
LEMMA OneMoreWord ==
    ASSUME NEW s \in Seq(Data), NEW d \in Data
    PROVE  /\ Len(s) \in Nat /\ Len(Append(s, d)) = Len(s) + 1
           /\ Append(s, d)[Len(s) + 1] = d
           /\ \A i \in 1 .. Len(s) : Append(s, d)[i] = s[i]
           /\ \A i \in 1 .. Len(Append(s, d)) : i \in 1 .. Len(s) \/ i = Len(s) + 1
  <1>1. /\ Len(s) \in Nat /\ Len(Append(s, d)) = Len(s) + 1
        /\ Append(s, d)[Len(s) + 1] = d
        /\ \A i \in 1 .. Len(s) : Append(s, d)[i] = s[i]
    BY AppendProperties
  <1>. QED BY <1>1

(* A word is written over by a write, got by a read, or the access ends.   *)
LEMMA WordsMove ==
    ASSUME AccessInv, WordsInv, NEW l \in Levels,
           \A m \in Levels : m # l => access[m] = Idle,
           \/ WriteGoesOn(l) \/ ReadBegins(l) \/ ReadGoesOn(l)
           \/ \E d \in Data : WriteBegins(l, d)
    PROVE  /\ wide' \in [1 .. Width -> Data]
           /\ WordsOf(l)' /\ (Alike' \/ access'[l].dir = "write")
  <1>. DEFINE s == access[l].got
              n == Len(s) + 1
  <1>0. /\ access \in [Levels -> Access] /\ access[l] \in Access
        /\ s \in Seq(Data) /\ Len(s) \in Nat /\ n \in Nat \ {0}
        /\ access[l].dir # "none" => Len(s) \in 1 .. Width /\ s[1] \in Data
        /\ access[l].dir # "write" => Alike
        /\ 1 \in 1 .. Width /\ Width \in Nat /\ wide \in [1 .. Width -> Data]
    BY InterruptConstants, NoAccess DEF AccessInv, Access, WordsInv
  <1>1. ASSUME NEW d \in Data, WriteBegins(l, d)
        PROVE  /\ wide' \in [1 .. Width -> Data]
               /\ WordsOf(l)' /\ access'[l].dir = "write"
    <2>1. access'[l] = [dir |-> "write", got |-> <<d>>] /\ wide' = [wide EXCEPT ![1] = d]
      BY <1>0, <1>1 DEF WriteBegins
    <2>2. /\ wide' \in [1 .. Width -> Data] /\ wide'[1] = d
          /\ access'[l].dir = "write" /\ access'[l].got = <<d>>
          /\ Len(access'[l].got) = 1 /\ access'[l].got[1] = d
      BY <1>0, <2>1
    <2>. QED BY <2>2 DEF WordsOf
  <1>2. CASE ReadBegins(l)
    <2>1. access'[l] = [dir |-> "read", got |-> <<wide[1]>>] /\ wide' = wide
      BY <1>0, <1>2 DEF ReadBegins
    <2>2. /\ Alike
          /\ access'[l].dir = "read" /\ access'[l].got = <<wide[1]>>
          /\ Len(access'[l].got) = 1 /\ access'[l].got[1] = wide[1]
      BY <1>0, <1>2, <2>1, NoAccess DEF ReadBegins, Frees
    <2>. QED BY <1>0, <2>1, <2>2 DEF WordsOf, Alike
  <1>3. CASE WriteGoesOn(l) /\ n > Width
    <2>1. access'[l] = Idle /\ wide' = wide /\ access[l].dir = "write"
      BY <1>0, <1>3 DEF WriteGoesOn
    <2>2. \A i \in 1 .. Width : i \in 1 .. Len(s)
      BY <1>0, <1>3, <2>1
    <2>3. \A i \in 1 .. Width : wide[i] = s[1]
      BY <2>1, <2>2 DEF WordsInv, WordsOf
    <2>. QED BY <1>0, <2>1, <2>3, NoAccess DEF WordsOf, Alike
  <1>4. CASE WriteGoesOn(l) /\ ~(n > Width)
    <2>. DEFINE r == [access[l] EXCEPT !.got = Append(s, s[1])]
    <2>1. /\ access' = [access EXCEPT ![l] = r] /\ wide' = [wide EXCEPT ![n] = s[1]]
          /\ access[l].dir = "write" /\ s[1] \in Data
      BY <1>0, <1>4 DEF WriteGoesOn
    <2>2. r.dir = "write" /\ r.got = Append(s, s[1])
      BY <1>0, <2>1, AccessGrows
    <2>. HIDE DEF r
    <2>3. access'[l].dir = "write" /\ access'[l].got = Append(s, s[1])
      BY <1>0, <2>1, <2>2
    <2>4. n \in 1 .. Width
      BY <1>0, <1>4
    <2>5. /\ wide' \in [1 .. Width -> Data] /\ wide'[n] = s[1]
          /\ \A i \in 1 .. Width : i # n => wide'[i] = wide[i]
      BY <1>0, <2>1, <2>4
    <2>6. ASSUME NEW i \in 1 .. Len(access'[l].got)
          PROVE  access'[l].got[i] = s[1] /\ wide'[i] = s[1]
      <3>1. i \in 1 .. Len(s) \/ i = n
        BY <1>0, <2>1, <2>3, OneMoreWord
      <3>2. CASE i \in 1 .. Len(s)
        <4>1. s[i] = s[1] /\ wide[i] = s[1]
          BY <2>1, <3>2 DEF WordsInv, WordsOf
        <4>2. i # n /\ i \in 1 .. Width
          BY <1>0, <2>4, <3>2
        <4>3. Append(s, s[1])[i] = s[i]
          BY <1>0, <2>1, <3>2, OneMoreWord
        <4>. QED BY <2>3, <2>5, <4>1, <4>2, <4>3
      <3>3. CASE i = n
        BY <1>0, <2>1, <2>3, <2>5, <3>3, OneMoreWord
      <3>. QED BY <3>1, <3>2, <3>3
    <2>7. access'[l].got[1] = s[1]
      BY <1>0, <2>1, <2>3, OneMoreWord
    <2>. QED BY <2>3, <2>5, <2>6, <2>7 DEF WordsOf
  <1>5. CASE ReadGoesOn(l) /\ n > Width
    <2>1. access'[l] = Idle /\ wide' = wide /\ access[l].dir = "read"
      BY <1>0, <1>5 DEF ReadGoesOn
    <2>. QED BY <1>0, <2>1, NoAccess DEF WordsOf, Alike
  <1>6. CASE ReadGoesOn(l) /\ ~(n > Width)
    <2>. DEFINE r == [access[l] EXCEPT !.got = Append(s, wide[n])]
    <2>1. /\ access' = [access EXCEPT ![l] = r] /\ wide' = wide
          /\ access[l].dir = "read" /\ wide[n] \in Data
      <3>1. n \in 1 .. Width
        BY <1>0, <1>6
      <3>. QED BY <1>0, <1>6, <3>1 DEF ReadGoesOn
    <2>2. r.dir = "read" /\ r.got = Append(s, wide[n])
      BY <1>0, <2>1, AccessGrows
    <2>. HIDE DEF r
    <2>3. access'[l].dir = "read" /\ access'[l].got = Append(s, wide[n])
      BY <1>0, <2>1, <2>2
    <2>4. ASSUME NEW i \in 1 .. Len(access'[l].got) PROVE access'[l].got[i] = wide'[i]
      <3>1. i \in 1 .. Len(s) \/ i = n
        BY <1>0, <2>1, <2>3, OneMoreWord
      <3>2. CASE i \in 1 .. Len(s)
        <4>1. s[i] = wide[i]
          BY <2>1, <3>2 DEF WordsInv, WordsOf
        <4>2. Append(s, wide[n])[i] = s[i]
          BY <1>0, <2>1, <3>2, OneMoreWord
        <4>. QED BY <2>1, <2>3, <4>1, <4>2
      <3>3. CASE i = n
        BY <1>0, <2>1, <2>3, <3>3, OneMoreWord
      <3>. QED BY <3>1, <3>2, <3>3
    <2>. QED BY <1>0, <2>1, <2>3, <2>4 DEF WordsOf, Alike
  <1>7. \/ \E d \in Data : WriteBegins(l, d)
        \/ ReadBegins(l)
        \/ WriteGoesOn(l) /\ n > Width
        \/ WriteGoesOn(l) /\ ~(n > Width)
        \/ ReadGoesOn(l) /\ n > Width
        \/ ReadGoesOn(l) /\ ~(n > Width)
    OBVIOUS
  <1>. HIDE DEF n, s
  <1>. QED BY <1>1, <1>2, <1>3, <1>4, <1>5, <1>6, <1>7

(* A register wider than the bus is read whole: what a level gets is never *)
(* some words of one write and some of another.                            *)
THEOREM WideReadsAreWhole == IrqSpec => []ReadsAreWhole
  <1>. DEFINE Inv == SectionInv /\ AccessInv /\ WordsInv
  <1>1. ASSUME IrqInit PROVE Inv
    <2>1. /\ contexts \in [Levels -> Seq({0, 1})] /\ contexts["task"] = <<>>
          /\ access \in [Levels -> Access] /\ access = [l \in Levels |-> Idle]
          /\ \A l \in Levels : access[l].dir = "none" /\ access[l] = Idle
      BY <1>1, NoAccess DEF IrqInit, Levels
    <2>2. SectionInv
      BY <1>1, <2>1 DEF IrqInit, SectionInv
    <2>3. AccessInv
      BY <2>1 DEF AccessInv, Levels
    <2>4. WordsInv
      <3>1. PICK d \in Data : wide = [i \in 1 .. Width |-> d]
        BY <1>1 DEF IrqInit
      <3>2. wide \in [1 .. Width -> Data] /\ Alike
        BY <3>1 DEF Alike
      <3>3. \A l \in Levels : WordsOf(l)
        BY <2>1 DEF WordsOf
      <3>. QED BY <3>2, <3>3 DEF WordsInv
    <2>. QED BY <2>2, <2>3, <2>4
  <1>2. ASSUME Inv PROVE ReadsAreWhole
    <2>. SUFFICES ASSUME NEW l \in Levels, access[l].dir = "read",
                         NEW i \in DOMAIN access[l].got, NEW j \in DOMAIN access[l].got
                  PROVE  access[l].got[i] = access[l].got[j]
      BY DEF ReadsAreWhole
    <2>1. access[l] # Idle
      BY NoAccess
    <2>2. \A m \in Levels : m # l => access[m] = Idle
      BY <1>2, <2>1, OthersAreIdle DEF SectionInv, AccessInv, Levels, Runs
    <2>3. Alike
      BY <1>2, <2>2, NoAccess DEF WordsInv
    <2>4. /\ access[l].got \in Seq(Data) /\ Len(access[l].got) \in 1 .. Width
          /\ Width \in Nat
      BY <1>2, InterruptConstants DEF AccessInv, Access
    <2>5. i \in 1 .. Len(access[l].got) /\ j \in 1 .. Len(access[l].got)
      BY <2>4
    <2>6. i \in 1 .. Width /\ j \in 1 .. Width
      BY <2>4, <2>5
    <2>7. access[l].got[i] = wide[i] /\ access[l].got[j] = wide[j]
      BY <1>2, <2>5 DEF WordsInv, WordsOf
    <2>. QED BY <2>3, <2>6, <2>7 DEF Alike
  <1>3. ASSUME Inv, [IrqNext]_irqVars PROVE Inv'
    <2>1. SectionInv'
      BY <1>3, SectionKept
    <2>2. AccessInv'
      BY <1>3, AccessKept DEF WordsInv
    <2>3. ASSUME UNCHANGED <<wide, access>> PROVE WordsInv'
      BY <1>3, <2>3 DEF WordsInv, WordsOf, Alike
    <2>4. ASSUME NEW l \in Levels,
                 \/ WriteGoesOn(l) \/ ReadBegins(l) \/ ReadGoesOn(l)
                 \/ \E d \in Data : WriteBegins(l, d)
          PROVE  WordsInv'
      <3>1. Touches(l)
        BY <1>3, <2>4, AccessTouches DEF WordsInv
      <3>2. \A m \in Levels : m # l => access[m] = Idle
        BY <1>3, <3>1, OthersAreIdle DEF Touches
      <3>3. /\ wide' \in [1 .. Width -> Data]
            /\ WordsOf(l)' /\ (Alike' \/ access'[l].dir = "write")
        BY <1>3, <2>4, <3>2, WordsMove
      <3>4. \A m \in Levels : m # l => access'[m] = Idle
        BY <1>3, <3>1, <3>2 DEF Touches, AccessInv
      <3>5. \A m \in Levels : m # l => WordsOf(m)'
        BY <3>4, NoAccess DEF WordsOf
      <3>. QED BY <3>3, <3>5 DEF WordsInv
    <2>5. \/ UNCHANGED <<wide, access>>
          \/ \E l \in Levels : \/ WriteGoesOn(l) \/ ReadBegins(l) \/ ReadGoesOn(l)
                               \/ \E d \in Data : WriteBegins(l, d)
      BY <1>3 DEF IrqNext, Calls, CpuEnableInterrupts, RegisterStub, TriggerSoftware,
             FpgaEnable, FpgaDisable, Register, Unregister, RegisterSoftware, LineAsks,
             SameLine, sharedData, irqVars, Mret, PlatformIrq, DisableAll, EnableAll
    <2>. QED BY <2>1, <2>2, <2>3, <2>4, <2>5
  <1>. HIDE DEF Inv
  <1>. QED BY <1>1, <1>2, <1>3, PTL DEF IrqSpec

-----------------------------------------------------------------------------
(* Descriptors: finding a device, allocating and opening a descriptor      *)

(* A set of numbers that is not empty has a first one.                     *)
LEMMA FirstOne ==
    ASSUME NEW S \in SUBSET Nat, S # {}
    PROVE  /\ (CHOOSE i \in S : \A j \in S : i <= j) \in S
           /\ \E i \in S : \A j \in S : i <= j
  <1>. DEFINE T == {0 .. i : i \in S}
              R == StrictSubsetOrdering(Nat)
  <1>1. \A i \in Nat : 0 .. i \in FiniteSubsetsOf(Nat)
    BY FS_Interval DEF FiniteSubsetsOf
  <1>2. IsWellFoundedOn(R, FiniteSubsetsOf(Nat))
    BY FS_StrictSubsetOrderingWellFounded
  <1>3. T \subseteq FiniteSubsetsOf(Nat) /\ T # {}
    BY <1>1
  <1>4. \A i, j \in Nat : j < i => <<0 .. j, 0 .. i>> \in R
    <2>. SUFFICES ASSUME NEW i \in Nat, NEW j \in Nat, j < i
                  PROVE  0 .. j \in SUBSET Nat /\ 0 .. i \in SUBSET Nat
                         /\ 0 .. j \subseteq 0 .. i /\ 0 .. j # 0 .. i
      BY DEF StrictSubsetOrdering
    <2>1. i \in 0 .. i /\ i \notin 0 .. j
      OBVIOUS
    <2>. QED BY <2>1
  <1>. HIDE DEF R
  <1>5. \E x \in T : \A y \in T : ~(<<y, x>> \in R)
    <2>. HIDE DEF T
    <2>. QED BY <1>2, <1>3, WFMin
  <1>6. PICK i \in S : \A j \in S : ~(<<0 .. j, 0 .. i>> \in R)
    BY <1>5
  <1>7. ASSUME NEW j \in S PROVE i <= j
    <2>1. ~(j < i) /\ i \in Nat /\ j \in Nat
      BY <1>4, <1>6
    <2>. QED BY <2>1
  <1>. QED BY <1>7

LEMMA FirstIsInList ==
    ASSUME NEW T, NEW list \in Seq(T), NEW hits \in SUBSET (DOMAIN list), hits # {}
    PROVE  First(list, hits) \in T
  <1>1. DOMAIN list = 1 .. Len(list) /\ hits \in SUBSET Nat
    OBVIOUS
  <1>2. (CHOOSE i \in hits : \A j \in hits : i <= j) \in hits
    BY <1>1, FirstOne
  <1>. QED BY <1>2 DEF First

ListsTyped == devs \in Seq(Dev \cup {DevNull}) /\ filesystems \in Seq(Fs)

LEMMA FoundDevices ==
    ASSUME ListsTyped, NEW name
    PROVE  /\ FindDev(name) # NoDev => FindDev(name) \in Dev \cup {DevNull}
           /\ FindFile(name) # NoDev => FindFile(name) \in Fs
  <1>. DEFINE hits == {i \in DOMAIN devs : NameOf[devs[i]] = name}
              under == {i \in DOMAIN filesystems : Under(name, NameOf[filesystems[i]])}
  <1>1. FindDev(name) = IF hits = {} THEN NoDev ELSE First(devs, hits)
    BY DEF FindDev
  <1>2. FindFile(name) = IF under = {} THEN NoDev ELSE First(filesystems, under)
    BY DEF FindFile
  <1>3. hits \in SUBSET (DOMAIN devs) /\ under \in SUBSET (DOMAIN filesystems)
    OBVIOUS
  <1>. HIDE DEF hits, under
  <1>4. hits # {} => First(devs, hits) \in Dev \cup {DevNull}
    BY <1>3, FirstIsInList DEF ListsTyped
  <1>5. under # {} => First(filesystems, under) \in Fs
    BY <1>3, FirstIsInList DEF ListsTyped
  <1>. QED BY <1>1, <1>2, <1>4, <1>5

\* A pool's list, in which the standard descriptors are in use.
Standing(list) ==
    list \in [Fd -> FdRecord] /\ \A i \in Std : list[i].dev # NoDev

LEMMA Allocated ==
    ASSUME NEW list, Standing(list), Free(list) # {}
    PROVE  FirstFree(list) \in Fd \ Std /\ list[FirstFree(list)].dev = NoDev
  <1>1. Free(list) \in SUBSET Nat
    BY DEF Free, Fd
  <1>2. FirstFree(list) \in Free(list)
    BY <1>1, FirstOne DEF FirstFree
  <1>. QED BY <1>2 DEF Free, Standing

NotOpened(o, list, max) ==
    /\ o.fd = -1 /\ o.pool.max \in Fd \cup {-1} /\ o.pool.max >= max
    /\ o.pool.list \in [Fd -> FdRecord]
    /\ \A i \in Fd : \/ o.pool.list[i] = list[i]
                     \/ list[i].dev = NoDev /\ o.pool.list[i] = FreeRecord

IsOpened(o, list, max, mode) ==
    /\ o.fd \in Fd \ Std /\ list[o.fd].dev = NoDev
    /\ o.pool.max = HighWater(o.fd, max)
    /\ \E r \in FdRecord :
          /\ o.pool.list = [list EXCEPT ![o.fd] = r]
          /\ r.mode = mode /\ r.dev # NoDev /\ "EXCL" \notin r.bits
          /\ "DEV" \in r.bits => r.dev \in Dev \cup {DevNull}
          /\ r.dev \in Dev \cup {DevNull} =>
                \A i \in 0 .. o.pool.max : i # o.fd /\ list[i].dev = r.dev
                                           => "EXCL" \notin list[i].bits

(* Records of descriptors with the same fields are the same.               *)
LEMMA SameRecord ==
    ASSUME NEW r \in FdRecord, NEW s \in FdRecord,
           r.dev = s.dev, r.mode = s.mode, r.bits = s.bits
    PROVE  r = s
  BY DEF FdRecord

LEMMA Overwritten ==
    ASSUME NEW r \in FdRecord, NEW dev \in Driver \cup {NoDev}, NEW mode \in AllModes,
           NEW bits \in SUBSET Bits
    PROVE  [r EXCEPT !.dev = dev, !.bits = bits, !.mode = mode]
               = [dev |-> dev, mode |-> mode, bits |-> bits]
  <1>. DEFINE p == [r EXCEPT !.dev = dev, !.bits = bits, !.mode = mode]
              q == [dev |-> dev, mode |-> mode, bits |-> bits]
  <1>1. p \in FdRecord /\ p.dev = dev /\ p.mode = mode /\ p.bits = bits
    BY DEF FdRecord
  <1>2. q \in FdRecord /\ q.dev = dev /\ q.mode = mode /\ q.bits = bits
    BY DEF FdRecord
  <1>. HIDE DEF p, q
  <1>3. p = q
    BY <1>1, <1>2, SameRecord
  <1>. QED BY <1>3 DEF p, q

LEMMA FreeIsRecord == FreeRecord \in FdRecord /\ FreeRecord.dev = NoDev /\ FreeRecord.bits = {}
  BY DEF FreeRecord, FdRecord, AllModes

(* What a descriptor is after its release, and while it is free.           *)
Unused(r) == [r EXCEPT !.dev = NoDev, !.bits = {}, !.mode = "RDONLY"]

LEMMA FreedRecord == \A r \in FdRecord : Unused(r) = FreeRecord
  <1>. SUFFICES ASSUME NEW r \in FdRecord PROVE Unused(r) = FreeRecord
    OBVIOUS
  <1>1. Unused(r) \in FdRecord /\ Unused(r).dev = NoDev /\ Unused(r).mode = "RDONLY"
        /\ Unused(r).bits = {}
    BY DEF Unused, FdRecord, AllModes
  <1>2. FreeRecord \in FdRecord /\ FreeRecord.dev = NoDev /\ FreeRecord.mode = "RDONLY"
        /\ FreeRecord.bits = {}
    BY DEF FreeRecord, FdRecord, AllModes
  <1>. QED BY <1>1, <1>2, SameRecord

LEMMA Released ==
    ASSUME NEW list \in [Fd -> FdRecord], NEW fd \in Fd \ Std
    PROVE  ReleaseFd(list, fd) = [list EXCEPT ![fd] = FreeRecord]
  <1>1. fd > 2
    BY DEF Fd, Std
  <1>2. ReleaseFd(list, fd) = [list EXCEPT ![fd] = Unused(list[fd])]
    BY <1>1 DEF ReleaseFd, Unused
  <1>3. Unused(list[fd]) = FreeRecord
    BY FreedRecord
  <1>. QED BY <1>2, <1>3

LEMMA NotReleased ==
    ASSUME NEW list, NEW fd \in Std \cup {-1}
    PROVE  ReleaseFd(list, fd) = list
  BY DEF ReleaseFd, Std

LEMMA HighWaterBounds ==
    ASSUME NEW i \in Fd, NEW max \in Fd \cup {-1}
    PROVE  /\ HighWater(i, max) \in Fd /\ HighWater(i, max) >= max
           /\ HighWater(i, max) >= i
  BY DescriptorConstants DEF HighWater, Fd

LEMMA PoolFields == \A list, max : Pool(list, max).list = list /\ Pool(list, max).max = max
  BY DEF Pool

\* What an open that has got a descriptor writes to the pool.
Written(list, max, fd, r) == Pool([list EXCEPT ![fd] = r], HighWater(fd, max))

Taken(list, fd, dev) == [list EXCEPT ![fd].dev = dev]
Filled(p, fd, mode, flags) ==
    [p EXCEPT !.list[fd].mode = mode, !.list[fd].bits = flags]

LEMMA OpenWrites ==
    ASSUME NEW list \in [Fd -> FdRecord], NEW max \in Fd \cup {-1}, NEW fd \in Fd,
           NEW dev \in Driver, NEW mode \in AllModes, NEW flags \in SUBSET Bits
    PROVE  Filled(Pool(Taken(list, fd, dev), HighWater(fd, max)), fd, mode, flags)
             = Written(list, max, fd, [dev |-> dev, mode |-> mode, bits |-> flags])
  <1>. DEFINE r0 == [list[fd] EXCEPT !.dev = dev]
              r1 == [r0 EXCEPT !.mode = mode]
              r2 == [r1 EXCEPT !.bits = flags]
              l0 == [list EXCEPT ![fd] = r0]
              l1 == [l0 EXCEPT ![fd] = r1]
              l2 == [l1 EXCEPT ![fd] = r2]
              high == HighWater(fd, max)
              p0 == Pool(l0, high)
              p1 == Pool(l1, high)
  <1>1. /\ r0 \in FdRecord /\ r1 \in FdRecord /\ r2 \in FdRecord
        /\ r2 = [dev |-> dev, mode |-> mode, bits |-> flags]
    <2>1. list[fd] \in FdRecord
      OBVIOUS
    <2>2. r0 \in FdRecord /\ r0.dev = dev
      BY <2>1 DEF FdRecord
    <2>. HIDE DEF r0
    <2>3. r1 \in FdRecord /\ r1.dev = dev /\ r1.mode = mode
      BY <2>2 DEF FdRecord
    <2>. HIDE DEF r1
    <2>4. r2 \in FdRecord /\ r2.dev = dev /\ r2.mode = mode /\ r2.bits = flags
      BY <2>3 DEF FdRecord
    <2>. HIDE DEF r2
    <2>. DEFINE q == [dev |-> dev, mode |-> mode, bits |-> flags]
    <2>5. q \in FdRecord /\ q.dev = dev /\ q.mode = mode /\ q.bits = flags
      BY DEF FdRecord
    <2>. HIDE DEF q
    <2>6. r2 = q
      BY <2>4, <2>5, SameRecord
    <2>. QED BY <2>2, <2>3, <2>4, <2>6 DEF q
  <1>2. /\ l0 \in [Fd -> FdRecord] /\ l1 \in [Fd -> FdRecord] /\ l2 = [list EXCEPT ![fd] = r2]
        /\ l0[fd] = r0 /\ l1[fd] = r1
    <2>. HIDE DEF r0, r1, r2
    <2>. QED BY <1>1
  <1>3. [list EXCEPT ![fd].dev = dev] = l0
    OBVIOUS
  <1>4. [l0 EXCEPT ![fd].mode = mode] = l1
    <2>1. [l0 EXCEPT ![fd].mode = mode] = [l0 EXCEPT ![fd] = [l0[fd] EXCEPT !.mode = mode]]
      OBVIOUS
    <2>. HIDE DEF r0, l0
    <2>. QED BY <1>2, <2>1
  <1>5. [l1 EXCEPT ![fd].bits = flags] = l2
    <2>1. [l1 EXCEPT ![fd].bits = flags] = [l1 EXCEPT ![fd] = [l1[fd] EXCEPT !.bits = flags]]
      OBVIOUS
    <2>. HIDE DEF r1, l1
    <2>. QED BY <1>2, <2>1
  <1>. HIDE DEF l0, l1, l2, r0, r1, r2
  <1>6. [p0 EXCEPT !.list[fd].mode = mode] = p1
    <2>1. [p0 EXCEPT !.list[fd].mode = mode] = Pool([l0 EXCEPT ![fd].mode = mode], high)
      BY DEF Pool
    <2>. QED BY <1>4, <2>1
  <1>7. [p1 EXCEPT !.list[fd].bits = flags] = Pool(l2, high)
    <2>1. [p1 EXCEPT !.list[fd].bits = flags] = Pool([l1 EXCEPT ![fd].bits = flags], high)
      BY DEF Pool
    <2>. QED BY <1>5, <2>1
  <1>8. [p0 EXCEPT !.list[fd].mode = mode, !.list[fd].bits = flags]
            = [[p0 EXCEPT !.list[fd].mode = mode] EXCEPT !.list[fd].bits = flags]
    OBVIOUS
  <1>. QED BY <1>1, <1>2, <1>3, <1>6, <1>7, <1>8 DEF Written, Filled, Taken

(* The ways through open.                                                  *)
LEMMA OpenCases ==
    ASSUME NEW p, NEW name, NEW mode, NEW bits, NEW answer
    PROVE  LET isdev == FindDev(name) # NoDev
               dev == IF isdev THEN FindDev(name) ELSE FindFile(name)
               fd == FirstFree(p.list)
               flags == (bits \ FlagsMask) \cup IF isdev THEN {"DEV"} ELSE {}
               q == Filled(GetFd(p, dev), fd, mode, flags)
           IN  Open(p, name, mode, bits, answer) =
                   IF dev = NoDev THEN OpenFails(p, p, -1, ENODEV)
                   ELSE IF Free(p.list) = {} THEN OpenFails(p, p, -1, EMFILE)
                   ELSE IF isdev /\ FileLocked(q, fd) THEN OpenFails(p, q, fd, EACCES)
                   ELSE IF "open" \in Provides[dev] /\ answer # 0
                   THEN OpenFails(p, q, fd, answer)
                   ELSE Opened(q, fd)
  BY DEF Open, Filled

(* What open does to the pool: nothing that stays, or one free descriptor  *)
(* is in use, and of a device that is locked it never is.                  *)
LEMMA OpenEffect ==
    ASSUME ListsTyped, NEW list, Standing(list), NEW max \in Fd \cup {-1},
           NEW name, NEW mode \in AllModes, NEW bits \in SUBSET Bits, NEW answer
    PROVE  LET o == Open(Pool(list, max), name, mode, bits, answer)
           IN  NotOpened(o, list, max) \/ IsOpened(o, list, max, mode)
  <1>. DEFINE o == Open(Pool(list, max), name, mode, bits, answer)
              isdev == FindDev(name) # NoDev
              dev == IF isdev THEN FindDev(name) ELSE FindFile(name)
              fd == FirstFree(list)
              flags == (bits \ FlagsMask) \cup IF isdev THEN {"DEV"} ELSE {}
              r == [dev |-> dev, mode |-> mode, bits |-> flags]
              q == Written(list, max, fd, r)
  <1>. SUFFICES NotOpened(o, list, max) \/ IsOpened(o, list, max, mode)
    OBVIOUS
  <1>1. /\ list \in [Fd -> FdRecord]
        /\ isdev => dev \in Dev \cup {DevNull}
        /\ ~isdev /\ dev # NoDev => dev \in Fs
        /\ flags \in SUBSET Bits /\ "EXCL" \notin flags /\ ("DEV" \in flags <=> isdev)
    BY FoundDevices DEF Standing, Bits, FlagsMask, FcntlMask
  <1>2. CASE dev = NoDev \/ Free(list) = {}
    <2>1. PICK error : o = OpenFails(Pool(list, max), Pool(list, max), -1, error)
      BY <1>2, PoolFields, OpenCases
    <2>2. o.pool = Pool(ReleaseFd(list, -1), max) /\ o.fd = -1
      BY <2>1, PoolFields DEF OpenFails
    <2>3. o.pool.list = list /\ o.pool.max = max
      BY <2>2, PoolFields, NotReleased
    <2>. HIDE DEF o
    <2>4. max >= max
      BY DEF Fd
    <2>. QED BY <2>2, <2>3, <2>4 DEF NotOpened, Standing
  <1>4. CASE dev # NoDev /\ Free(list) # {}
    <2>1. /\ fd \in Fd \ Std /\ list[fd].dev = NoDev
          /\ dev \in Driver /\ r \in FdRecord
          /\ r.mode = mode /\ r.dev = dev /\ r.bits = flags
      BY <1>1, <1>4, Allocated DEF FdRecord, Driver
    <2>2. q.list = [list EXCEPT ![fd] = r] /\ q.max = HighWater(fd, max)
      BY PoolFields DEF Written
    <2>3. q.list \in [Fd -> FdRecord] /\ q.list[fd] = r /\ fd \in Fd
          /\ \A i \in Fd : i # fd => q.list[i] = list[i]
      <3>. HIDE DEF q, fd, r
      <3>. QED BY <1>1, <2>1, <2>2
    <2>4. Filled(GetFd(Pool(list, max), dev), fd, mode, flags) = q
      <3>1. GetFd(Pool(list, max), dev)
                = Pool(Taken(list, fd, dev), HighWater(fd, max))
        BY PoolFields DEF GetFd, Taken
      <3>2. Filled(Pool(Taken(list, fd, dev), HighWater(fd, max)), fd, mode, flags) = q
        <4>. HIDE DEF fd, dev, flags
        <4>. QED BY <1>1, <2>1, OpenWrites
      <3>. QED BY <3>1, <3>2
    <2>5. \/ o = OpenFails(Pool(list, max), q, fd, EACCES)
          \/ o = OpenFails(Pool(list, max), q, fd, answer)
          \/ o = Opened(q, fd) /\ ~(isdev /\ FileLocked(q, fd))
      <3>. DEFINE w == Filled(GetFd(Pool(list, max), dev), fd, mode, flags)
      <3>1. o = IF isdev /\ FileLocked(w, fd) THEN OpenFails(Pool(list, max), w, fd, EACCES)
                ELSE IF "open" \in Provides[dev] /\ answer # 0
                THEN OpenFails(Pool(list, max), w, fd, answer)
                ELSE Opened(w, fd)
        BY <1>4, PoolFields, OpenCases
      <3>2. w = q
        BY <2>4
      <3>. HIDE DEF o, w, q, isdev, fd, dev
      <3>. QED BY <3>1, <3>2
    <2>6. HighWater(fd, max) \in Fd /\ HighWater(fd, max) >= max
      BY <2>1, HighWaterBounds
    <2>. HIDE DEF q, r, fd, dev, flags, isdev
    <2>7. ASSUME NEW error, o = OpenFails(Pool(list, max), q, fd, error)
          PROVE  NotOpened(o, list, max)
      <3>1. o.fd = -1 /\ o.pool = Pool(ReleaseFd(q.list, fd), q.max)
        BY <2>7 DEF OpenFails
      <3>2. o.pool.list = [q.list EXCEPT ![fd] = FreeRecord] /\ o.pool.max = q.max
        BY <2>1, <2>3, <3>1, Released, PoolFields
      <3>. HIDE DEF o
      <3>3. o.pool.list \in [Fd -> FdRecord]
        BY <2>3, <3>2, FreeIsRecord
      <3>4. \A i \in Fd : \/ o.pool.list[i] = list[i]
                          \/ list[i].dev = NoDev /\ o.pool.list[i] = FreeRecord
        BY <2>1, <2>3, <3>2
      <3>. QED BY <2>2, <2>6, <3>1, <3>2, <3>3, <3>4 DEF NotOpened
    <2>8. ASSUME o = Opened(q, fd), ~(isdev /\ FileLocked(q, fd))
          PROVE  IsOpened(o, list, max, mode)
      <3>1. o.fd = fd /\ o.pool = q
        BY <2>8 DEF Opened
      <3>. HIDE DEF o
      <3>2. dev \in Dev \cup {DevNull} => isdev
        BY <1>1, <1>4, DescriptorConstants DEF Driver
      <3>3. ASSUME isdev, NEW i \in 0 .. q.max, i # fd, list[i].dev = dev
            PROVE  "EXCL" \notin list[i].bits
        <4>1. q.max \in Fd
          BY <2>2, <2>6
        <4>2. i \in Fd
          BY <4>1, DescriptorConstants DEF Fd
        <4>3. q.list[i] = list[i] /\ q.list[fd].dev = dev
          BY <2>1, <2>3, <3>3, <4>2
        <4>. QED BY <2>8, <3>3, <4>3 DEF FileLocked
      <3>. QED BY <1>1, <1>4, <2>1, <2>2, <3>1, <3>2, <3>3 DEF IsOpened
    <2>. QED BY <2>5, <2>7, <2>8
  <1>. QED BY <1>2, <1>4

-----------------------------------------------------------------------------
(* Descriptors: the pool is what is held                                   *)

\* A free record has no bits; only a device's has the lock.
Proper(r) ==
    /\ r.dev = NoDev => r.bits = {}
    /\ "DEV" \in r.bits => r.dev \in Dev \cup {DevNull}
    /\ "EXCL" \in r.bits => "DEV" \in r.bits

AllProper(list) == \A i \in Fd : Proper(list[i])
OnlyStandard(list) == \A i \in Fd \ Std : list[i].dev = NoDev

HeldInv ==
    /\ \A i \in DOMAIN held : /\ i \in Fd \ Std /\ i <= max_fd
                              /\ held[i] \in AllModes /\ fd_list[i].mode = held[i]
    /\ \A i \in Fd \ Std : fd_list[i].dev # NoDev <=> i \in DOMAIN held

FdInv ==
    /\ ListsTyped /\ booted \in BOOLEAN
    /\ Standing(fd_list) /\ max_fd \in Fd \cup {-1} /\ AllProper(fd_list)
    /\ HeldInv
    /\ ~booted => DOMAIN held = {}
    /\ CallsNeedTheirAccess

LEMMA NumbersOfFds == Std \subseteq Fd /\ -1 \notin Fd /\ Fd \subseteq Nat
  BY DescriptorConstants DEF Std, Fd

(* Redirecting a standard descriptor leaves no other in use.               *)
LEMMA Redirected ==
    ASSUME ListsTyped, NEW list, Standing(list), AllProper(list), OnlyStandard(list),
           NEW max \in Fd \cup {-1}, NEW fd \in Std, NEW name, NEW mode \in AllModes
    PROVE  LET p == OpenFd(Pool(list, max), fd, name, mode)
           IN  \E l, m : /\ p = Pool(l, m) /\ m \in Fd \cup {-1}
                         /\ Standing(l) /\ AllProper(l) /\ OnlyStandard(l)
  <1>. DEFINE o == Open(Pool(list, max), name, mode, {}, 0)
              p == OpenFd(Pool(list, max), fd, name, mode)
  <1>. SUFFICES \E l, m : /\ p = Pool(l, m) /\ m \in Fd \cup {-1}
                          /\ Standing(l) /\ AllProper(l) /\ OnlyStandard(l)
    OBVIOUS
  <1>1. p = IF o.fd < 0 THEN Pool(list, max)
            ELSE Pool(ReleaseFd([o.pool.list EXCEPT ![fd] = o.pool.list[o.fd]], o.fd),
                      o.pool.max)
    BY DEF OpenFd
  <1>2. NotOpened(o, list, max) \/ IsOpened(o, list, max, mode)
    BY OpenEffect
  <1>. HIDE DEF o, p
  <1>3. CASE o.fd < 0
    BY <1>1, <1>3
  <1>4. CASE ~(o.fd < 0)
    <2>1. IsOpened(o, list, max, mode)
      BY <1>2, <1>4 DEF NotOpened
    <2>2. PICK r \in FdRecord :
              /\ o.pool.list = [list EXCEPT ![o.fd] = r]
              /\ r.dev # NoDev /\ "EXCL" \notin r.bits
              /\ "DEV" \in r.bits => r.dev \in Dev \cup {DevNull}
      BY <2>1 DEF IsOpened
    <2>3. o.fd \in Fd \ Std /\ o.fd \in Fd /\ fd \in Fd /\ o.fd # fd /\ o.pool.max \in Fd
      BY <2>1, HighWaterBounds, NumbersOfFds DEF IsOpened
    <2>. DEFINE l1 == [o.pool.list EXCEPT ![fd] = o.pool.list[o.fd]]
                l2 == ReleaseFd(l1, o.fd)
    <2>4. /\ l1 \in [Fd -> FdRecord] /\ l1[fd] = r
          /\ \A i \in Fd : i # fd /\ i # o.fd => l1[i] = list[i]
      BY <2>2, <2>3 DEF Standing
    <2>. HIDE DEF l1
    <2>5. l2 = [l1 EXCEPT ![o.fd] = FreeRecord]
      BY <2>3, <2>4, Released
    <2>. HIDE DEF l2
    <2>6. /\ l2 \in [Fd -> FdRecord] /\ l2[fd] = r /\ l2[o.fd] = FreeRecord
          /\ \A i \in Fd : i # fd /\ i # o.fd => l2[i] = list[i]
      BY <2>3, <2>4, <2>5, FreeIsRecord
    <2>7. Proper(r) /\ Proper(FreeRecord)
      BY <2>2, FreeIsRecord DEF Proper
    <2>8. Standing(l2)
      BY <2>2, <2>3, <2>6, NumbersOfFds DEF Standing
    <2>9. AllProper(l2)
      BY <2>6, <2>7 DEF AllProper
    <2>10. OnlyStandard(l2)
      BY <2>3, <2>6, FreeIsRecord DEF OnlyStandard
    <2>11. p = Pool(l2, o.pool.max)
      BY <1>1, <1>4 DEF l1, l2
    <2>. QED BY <2>3, <2>8, <2>9, <2>10, <2>11
  <1>. QED BY <1>3, <1>4

LEMMA RedirectionKeeps ==
    ASSUME FdInv, NEW out, NEW in, NEW err, IoRedirect(out, in, err)
    PROVE  FdInv'
  <1>. DEFINE Good(l, m) == /\ m \in Fd \cup {-1}
                            /\ Standing(l) /\ AllProper(l) /\ OnlyStandard(l)
              p1 == OpenFd(thePool, 1, out, "WRONLY")
              p2 == OpenFd(p1, 0, in, "RDONLY")
              p3 == OpenFd(p2, 2, err, "WRONLY")
  <1>1. /\ fd_list' = p3.list /\ max_fd' = p3.max
        /\ ~booted /\ booted' = TRUE /\ DOMAIN held = {} /\ ListsTyped
        /\ UNCHANGED <<devs, filesystems, held, reached>>
    BY DEF IoRedirect, SetPool, FdInv
  <1>2. /\ 0 \in Std /\ 1 \in Std /\ 2 \in Std
        /\ "WRONLY" \in AllModes /\ "RDONLY" \in AllModes
    BY DEF Std, AllModes
  <1>3. Good(fd_list, max_fd) /\ thePool = Pool(fd_list, max_fd)
    BY <1>1 DEF FdInv, HeldInv, OnlyStandard, thePool
  <1>4. \E l, m : p1 = Pool(l, m) /\ Good(l, m)
    BY <1>1, <1>2, <1>3, Redirected
  <1>. HIDE DEF p1
  <1>5. \E l, m : p2 = Pool(l, m) /\ Good(l, m)
    BY <1>1, <1>2, <1>4, Redirected
  <1>. HIDE DEF p2
  <1>6. PICK l, m : p3 = Pool(l, m) /\ Good(l, m)
    BY <1>1, <1>2, <1>5, Redirected
  <1>. HIDE DEF p3
  <1>7. fd_list' = l /\ max_fd' = m
    BY <1>1, <1>6, PoolFields
  <1>8. HeldInv'
    BY <1>1, <1>6, <1>7 DEF HeldInv, OnlyStandard
  <1>9. CallsNeedTheirAccess'
    BY <1>1 DEF CallsNeedTheirAccess
  <1>. QED BY <1>1, <1>6, <1>7, <1>8, <1>9 DEF FdInv, ListsTyped

LEMMA RegistrationKeeps ==
    ASSUME FdInv, (\E d \in Dev : DevReg(d)) \/ (\E f \in Fs : FsReg(f))
    PROVE  FdInv'
  <1>1. ListsTyped'
    <2>1. ASSUME NEW d \in Dev, DevReg(d) PROVE ListsTyped'
      <3>1. /\ d \in Dev \cup {DevNull} /\ devs \in Seq(Dev \cup {DevNull})
            /\ filesystems \in Seq(Fs)
        BY DEF FdInv, ListsTyped
      <3>2. devs' = <<d>> \o devs /\ filesystems' = filesystems
        BY <2>1 DEF DevReg
      <3>. QED BY <3>1, <3>2, PushFront DEF ListsTyped
    <2>2. ASSUME NEW f \in Fs, FsReg(f) PROVE ListsTyped'
      <3>1. devs \in Seq(Dev \cup {DevNull}) /\ filesystems \in Seq(Fs)
        BY DEF FdInv, ListsTyped
      <3>2. filesystems' = <<f>> \o filesystems /\ devs' = devs
        BY <2>2 DEF FsReg
      <3>. QED BY <3>1, <3>2, PushFront DEF ListsTyped
    <2>. QED BY <2>1, <2>2
  <1>2. UNCHANGED <<fd_list, max_fd, booted, held, reached>>
    BY DEF DevReg, FsReg
  <1>. QED
    BY <1>1, <1>2 DEF FdInv, Standing, AllProper, HeldInv, CallsNeedTheirAccess

\* A call that leaves the pool alone.
LEMMA PoolLeftKeeps ==
    ASSUME FdInv, SamePool, booted, CallsNeedTheirAccess'
    PROVE  FdInv'
  BY DEF FdInv, SamePool, SameFiles, ListsTyped, Standing, AllProper, HeldInv

LEMMA NoCallNeedsNothing ==
    ASSUME FdInv, DOMAIN held' \subseteq DOMAIN held \cup Fd, reached' = NoCall
    PROVE  CallsNeedTheirAccess'
  <1>1. reached'[2] = -1
    BY DEF NoCall
  <1>2. -1 \notin DOMAIN held'
    BY NumbersOfFds DEF FdInv, HeldInv
  <1>. QED BY <1>1, <1>2 DEF CallsNeedTheirAccess

LEMMA CallableAre ==
    ASSUME FdInv, NEW fd \in Callable
    PROVE  fd \in Fd /\ fd_list[fd].dev # NoDev /\ fd_list[fd] \in FdRecord
  BY NumbersOfFds DEF FdInv, HeldInv, Callable, Standing

LEMMA TransferKeeps ==
    ASSUME FdInv, NEW op, NEW fd, NEW answer, Transfer(op, fd, answer)
    PROVE  FdInv'
  <1>1. SamePool /\ booted /\ held' = held /\ fd \in Callable
    BY DEF Transfer, SamePool
  <1>2. CASE reached' = <<op, fd>> /\ fd_list[fd].mode # Forbids(op)
    <2>1. reached'[1] = op /\ reached'[2] = fd
      BY <1>2
    <2>. QED BY <1>1, <1>2, <2>1, PoolLeftKeeps DEF CallsNeedTheirAccess, FdInv, HeldInv
  <1>3. CASE reached' = NoCall
    BY <1>1, <1>3, NoCallNeedsNothing, PoolLeftKeeps
  <1>. QED BY <1>2, <1>3 DEF Transfer

\* What writes to one descriptor leave of it.
SameUser(r, s) == /\ s \in FdRecord /\ s.dev = r.dev /\ s.mode = r.mode /\ Proper(s)

LEMMA UserKeeps ==
    ASSUME FdInv, booted, NEW fd \in Callable, NEW r, SameUser(fd_list[fd], r),
           fd_list' = [fd_list EXCEPT ![fd] = r], reached' = NoCall,
           UNCHANGED <<max_fd, held>>, SameFiles
    PROVE  /\ FdInv'
           /\ \A i \in Fd : fd_list'[i].dev = fd_list[i].dev
  <1>1. fd \in Fd /\ fd_list \in [Fd -> FdRecord] /\ fd_list[fd].dev # NoDev
    BY CallableAre DEF FdInv, Standing
  <1>2. /\ fd_list' \in [Fd -> FdRecord] /\ fd_list'[fd] = r
        /\ \A i \in Fd : i # fd => fd_list'[i] = fd_list[i]
    BY <1>1 DEF SameUser
  <1>3. \A i \in Fd : fd_list'[i].dev = fd_list[i].dev /\ fd_list'[i].mode = fd_list[i].mode
    BY <1>2 DEF SameUser
  <1>4. AllProper(fd_list)'
    BY <1>2 DEF FdInv, AllProper, SameUser
  <1>5. Standing(fd_list)'
    BY <1>2, <1>3, NumbersOfFds DEF FdInv, Standing
  <1>6. HeldInv'
    BY <1>3 DEF FdInv, HeldInv
  <1>7. CallsNeedTheirAccess'
    BY NoCallNeedsNothing
  <1>. QED BY <1>3, <1>4, <1>5, <1>6, <1>7 DEF FdInv, SameFiles, ListsTyped

LEMMA BitsKeepUser ==
    ASSUME FdInv, NEW fd \in Callable, NEW bits \in SUBSET Bits,
           "DEV" \in bits <=> "DEV" \in fd_list[fd].bits, "EXCL" \in bits => "DEV" \in bits
    PROVE  SameUser(fd_list[fd], [fd_list[fd] EXCEPT !.bits = bits])
  <1>. DEFINE r == fd_list[fd]
              s == [r EXCEPT !.bits = bits]
  <1>1. r \in FdRecord /\ r.dev # NoDev /\ Proper(r)
    BY CallableAre DEF FdInv, AllProper
  <1>. HIDE DEF r
  <1>2. s \in FdRecord /\ s.dev = r.dev /\ s.mode = r.mode /\ s.bits = bits
    BY <1>1 DEF FdRecord
  <1>. HIDE DEF s
  <1>3. SameUser(r, s)
    BY <1>1, <1>2 DEF SameUser, Proper, r
  <1>. QED BY <1>3 DEF r, s

LEMMA FlagsKeepUser ==
    ASSUME FdInv, NEW fd \in Callable
    PROVE  /\ \A mode, new : SameUser(fd_list[fd], WithFlags(fd_list[fd], mode, new))
           /\ "DEV" \in fd_list[fd].bits =>
                SameUser(fd_list[fd], [fd_list[fd] EXCEPT !.bits = fd_list[fd].bits \cup {"EXCL"}])
           /\ SameUser(fd_list[fd], [fd_list[fd] EXCEPT !.bits = fd_list[fd].bits \ {"EXCL"}])
  <1>1. /\ fd_list[fd].bits \in SUBSET Bits
        /\ "EXCL" \in fd_list[fd].bits => "DEV" \in fd_list[fd].bits
    BY CallableAre DEF FdRecord, FdInv, AllProper, Proper
  <1>2. ASSUME NEW mode, NEW new
        PROVE  SameUser(fd_list[fd], WithFlags(fd_list[fd], mode, new))
    <2>. DEFINE bits == (fd_list[fd].bits \ FcntlMask) \cup (new \cap FcntlMask)
    <2>1. /\ bits \in SUBSET Bits /\ ("DEV" \in bits <=> "DEV" \in fd_list[fd].bits)
          /\ "EXCL" \in bits <=> "EXCL" \in fd_list[fd].bits
      BY <1>1 DEF Bits, FcntlMask, FlagsMask
    <2>2. WithFlags(fd_list[fd], mode, new) = [fd_list[fd] EXCEPT !.bits = bits]
      BY DEF WithFlags
    <2>. HIDE DEF bits
    <2>. QED BY <1>1, <2>1, <2>2, BitsKeepUser
  <1>3. ASSUME "DEV" \in fd_list[fd].bits
        PROVE  SameUser(fd_list[fd],
                        [fd_list[fd] EXCEPT !.bits = fd_list[fd].bits \cup {"EXCL"}])
    <2>. DEFINE bits == fd_list[fd].bits \cup {"EXCL"}
    <2>1. bits \in SUBSET Bits /\ "DEV" \in bits
      BY <1>1, <1>3 DEF Bits, FlagsMask
    <2>. HIDE DEF bits
    <2>2. SameUser(fd_list[fd], [fd_list[fd] EXCEPT !.bits = bits])
      BY <1>3, <2>1, BitsKeepUser
    <2>. QED BY <2>2 DEF bits
  <1>4. SameUser(fd_list[fd], [fd_list[fd] EXCEPT !.bits = fd_list[fd].bits \ {"EXCL"}])
    <2>. DEFINE bits == fd_list[fd].bits \ {"EXCL"}
    <2>1. /\ bits \in SUBSET Bits /\ "EXCL" \notin bits
          /\ "DEV" \in bits <=> "DEV" \in fd_list[fd].bits
      BY <1>1
    <2>. HIDE DEF bits
    <2>2. SameUser(fd_list[fd], [fd_list[fd] EXCEPT !.bits = bits])
      BY <2>1, BitsKeepUser
    <2>. QED BY <2>2 DEF bits
  <1>. QED BY <1>2, <1>3, <1>4

LEMMA FlagCallsKeep ==
    ASSUME FdInv, NEW fd \in Fd,
           Lock(fd) \/ Unlock(fd) \/ \E new \in FlagSets : SetFl(fd, "RDWR", new)
    PROVE  /\ FdInv'
           /\ \A i \in Fd : fd_list'[i].dev = fd_list[i].dev
  <1>1. fd \in Callable /\ booted /\ reached' = NoCall /\ SameFiles
        /\ UNCHANGED <<max_fd, held>>
    BY DEF Lock, Unlock, SetFl
  <1>2. CASE fd_list' = fd_list
    <2>1. CallsNeedTheirAccess' /\ SamePool
      BY <1>1, <1>2, NoCallNeedsNothing DEF SamePool
    <2>. QED BY <1>1, <1>2, <2>1, PoolLeftKeeps
  <1>3. CASE \E new \in FlagSets : SetFl(fd, "RDWR", new)
    <2>1. PICK new : fd_list' = [fd_list EXCEPT ![fd] = WithFlags(fd_list[fd], "RDWR", new)]
      BY <1>3 DEF SetFl
    <2>. QED BY <1>1, <2>1, FlagsKeepUser, UserKeeps
  <1>4. CASE Lock(fd) /\ fd_list' # fd_list
    <2>1. /\ "DEV" \in fd_list[fd].bits
          /\ fd_list' = [fd_list EXCEPT ![fd] =
                            [fd_list[fd] EXCEPT !.bits = fd_list[fd].bits \cup {"EXCL"}]]
      BY <1>4 DEF Lock
    <2>. QED BY <1>1, <2>1, FlagsKeepUser, UserKeeps
  <1>5. CASE Unlock(fd)
    <2>1. fd_list' = [fd_list EXCEPT ![fd] =
                          [fd_list[fd] EXCEPT !.bits = fd_list[fd].bits \ {"EXCL"}]]
      BY <1>5 DEF Unlock
    <2>. QED BY <1>1, <2>1, FlagsKeepUser, UserKeeps
  <1>. QED BY <1>2, <1>3, <1>4, <1>5

LEMMA CloseKeeps ==
    ASSUME FdInv, NEW fd \in Fd, NEW answer, Close(fd, answer)
    PROVE  /\ FdInv'
           /\ \A i \in Fd : fd_list'[i].dev \in {fd_list[i].dev, NoDev}
  <1>1. /\ booted /\ fd \in Callable /\ reached' = NoCall /\ UNCHANGED max_fd /\ SameFiles
        /\ fd_list' = ReleaseFd(fd_list, fd)
        /\ held' = [i \in DOMAIN held \ {fd} |-> held[i]]
    BY DEF Close
  <1>2. /\ DOMAIN held' = DOMAIN held \ {fd}
        /\ \A i \in DOMAIN held' : held'[i] = held[i]
    BY <1>1
  <1>3. CallsNeedTheirAccess'
    BY <1>1, <1>2, NoCallNeedsNothing
  <1>4. CASE fd \in Std
    <2>1. fd_list' = fd_list /\ DOMAIN held' = DOMAIN held
      BY <1>1, <1>2, <1>4, NotReleased DEF FdInv, HeldInv
    <2>. QED
      BY <1>1, <1>2, <1>3, <2>1 DEF FdInv, HeldInv, SameFiles, ListsTyped, Standing, AllProper
  <1>5. CASE fd \notin Std
    <2>1. fd \in Fd \ Std /\ fd_list \in [Fd -> FdRecord]
      BY <1>5 DEF FdInv, Standing
    <2>2. fd_list' = [fd_list EXCEPT ![fd] = FreeRecord]
      BY <1>1, <2>1, Released
    <2>3. /\ fd_list' \in [Fd -> FdRecord] /\ fd_list'[fd] = FreeRecord
          /\ \A i \in Fd : i # fd => fd_list'[i] = fd_list[i]
      BY <2>1, <2>2, FreeIsRecord
    <2>4. Standing(fd_list)' /\ AllProper(fd_list)'
      BY <2>1, <2>3, FreeIsRecord, NumbersOfFds DEF FdInv, Standing, AllProper, Proper
    <2>5. HeldInv'
      BY <1>1, <1>2, <2>1, <2>3, FreeIsRecord DEF FdInv, HeldInv
    <2>6. \A i \in Fd : fd_list'[i].dev \in {fd_list[i].dev, NoDev}
      BY <2>3, FreeIsRecord
    <2>. QED BY <1>1, <1>3, <2>4, <2>5, <2>6 DEF FdInv, SameFiles, ListsTyped
  <1>. QED BY <1>4, <1>5

(* The pool after an open that came to nothing, or whose descriptor stat   *)
(* has closed again.                                                       *)
AsBefore(l) ==
    /\ l \in [Fd -> FdRecord]
    /\ \A i \in Fd : \/ l[i] = fd_list[i]
                     \/ fd_list[i].dev = NoDev /\ l[i] = FreeRecord

LEMMA AsBeforeKeeps ==
    ASSUME FdInv, AsBefore(fd_list'), booted, SameFiles, held' = held, reached' = NoCall,
           max_fd' \in Fd \cup {-1}, max_fd' >= max_fd
    PROVE  /\ FdInv'
           /\ \A i \in Fd : fd_list'[i].dev = fd_list[i].dev
  <1>1. \A i \in Fd : /\ fd_list'[i].dev = fd_list[i].dev
                      /\ fd_list[i].dev # NoDev => fd_list'[i] = fd_list[i]
    BY FreeIsRecord DEF AsBefore
  <1>2. Standing(fd_list)' /\ AllProper(fd_list)'
    BY <1>1, FreeIsRecord, NumbersOfFds DEF AsBefore, FdInv, Standing, AllProper, Proper
  <1>3. HeldInv'
    <2>1. ASSUME NEW i \in DOMAIN held'
          PROVE  /\ i \in Fd \ Std /\ i <= max_fd'
                 /\ held'[i] \in AllModes /\ fd_list'[i].mode = held'[i]
      <3>1. /\ i \in Fd \ Std /\ i \in Fd /\ i <= max_fd /\ fd_list[i].dev # NoDev
            /\ held[i] \in AllModes /\ fd_list[i].mode = held[i]
        BY <2>1 DEF FdInv, HeldInv
      <3>2. i <= max_fd'
        BY <3>1, NumbersOfFds DEF FdInv
      <3>. QED BY <1>1, <3>1, <3>2
    <2>. QED BY <1>1, <2>1 DEF FdInv, HeldInv
  <1>4. CallsNeedTheirAccess'
    BY NoCallNeedsNothing
  <1>. QED BY <1>1, <1>2, <1>3, <1>4 DEF FdInv, SameFiles, ListsTyped

LEMMA ThePoolOpened ==
    ASSUME FdInv, NEW name, NEW mode \in AllModes, NEW bits \in SUBSET Bits, NEW answer
    PROVE  LET o == Open(thePool, name, mode, bits, answer)
           IN  \/ NotOpened(o, fd_list, max_fd) /\ AsBefore(o.pool.list)
               \/ IsOpened(o, fd_list, max_fd, mode) /\ ~(o.fd < 0)
  <1>. DEFINE o == Open(thePool, name, mode, bits, answer)
  <1>1. NotOpened(o, fd_list, max_fd) \/ IsOpened(o, fd_list, max_fd, mode)
    BY OpenEffect DEF FdInv, thePool
  <1>. HIDE DEF o
  <1>2. NotOpened(o, fd_list, max_fd) => AsBefore(o.pool.list)
    BY DEF NotOpened, AsBefore
  <1>3. IsOpened(o, fd_list, max_fd, mode) => ~(o.fd < 0)
    BY DEF IsOpened, Fd
  <1>. QED BY <1>1, <1>2, <1>3 DEF o

LEMMA StatKeeps ==
    ASSUME FdInv, NEW name, NEW answer, Stat(name, answer)
    PROVE  /\ FdInv'
           /\ \A i \in Fd : fd_list'[i].dev = fd_list[i].dev
  <1>. DEFINE o == Open(thePool, name, "RDONLY", {}, answer)
  <1>1. /\ booted /\ reached' = NoCall /\ held' = held /\ SameFiles
        /\ fd_list' = ReleaseFd(o.pool.list, o.fd) /\ max_fd' = o.pool.max
    BY DEF Stat
  <1>2. \/ NotOpened(o, fd_list, max_fd) /\ AsBefore(o.pool.list)
        \/ IsOpened(o, fd_list, max_fd, "RDONLY") /\ ~(o.fd < 0)
    <2>1. "RDONLY" \in AllModes /\ {} \in SUBSET Bits
      BY DEF AllModes
    <2>. QED BY <2>1, ThePoolOpened
  <1>. HIDE DEF o
  <1>3. CASE NotOpened(o, fd_list, max_fd) /\ AsBefore(o.pool.list)
    <2>1. fd_list' = o.pool.list
      BY <1>1, <1>3, NotReleased DEF NotOpened
    <2>. QED BY <1>1, <1>3, <2>1, AsBeforeKeeps DEF NotOpened
  <1>4. CASE IsOpened(o, fd_list, max_fd, "RDONLY")
    <2>1. PICK r \in FdRecord : o.pool.list = [fd_list EXCEPT ![o.fd] = r]
      BY <1>4 DEF IsOpened
    <2>2. /\ o.fd \in Fd \ Std /\ o.fd \in Fd /\ fd_list[o.fd].dev = NoDev
          /\ max_fd' = HighWater(o.fd, max_fd) /\ fd_list \in [Fd -> FdRecord]
      BY <1>1, <1>4 DEF IsOpened, FdInv, Standing
    <2>3. max_fd' \in Fd /\ max_fd' >= max_fd
      BY <2>2, HighWaterBounds DEF FdInv
    <2>4. o.pool.list \in [Fd -> FdRecord]
      BY <2>1, <2>2
    <2>5. fd_list' = [o.pool.list EXCEPT ![o.fd] = FreeRecord]
      BY <1>1, <2>2, <2>4, Released
    <2>6. AsBefore(fd_list')
      BY <2>1, <2>2, <2>4, <2>5, FreeIsRecord DEF AsBefore
    <2>. QED BY <1>1, <2>3, <2>6, AsBeforeKeeps
  <1>. QED BY <1>2, <1>3, <1>4

\* Where a device is in use already and locked, open does not hand it out again.
NoLockBroken ==
    \A i, j \in Fd : i # j /\ "EXCL" \in fd_list[i].bits /\ fd_list'[j].dev = fd_list[i].dev
                     => fd_list[j].dev = fd_list[i].dev

LEMMA OpenCallKeeps ==
    ASSUME FdInv, NEW name, NEW mode \in Modes, NEW bits \in FlagSets, NEW answer,
           OpenCall(name, mode, bits, answer)
    PROVE  FdInv' /\ NoLockBroken
  <1>. DEFINE o == Open(thePool, name, mode, bits, answer)
  <1>1. /\ booted /\ reached' = NoCall /\ SameFiles
        /\ fd_list' = o.pool.list /\ max_fd' = o.pool.max
        /\ IF o.fd < 0 THEN held' = held ELSE Hold(o.fd, mode)
    BY DEF OpenCall, SetPool
  <1>2. mode \in AllModes /\ bits \in SUBSET Bits
    BY DescriptorConstants DEF AllModes, Bits, FlagsMask, FcntlMask
  <1>3. \/ NotOpened(o, fd_list, max_fd) /\ AsBefore(o.pool.list)
        \/ IsOpened(o, fd_list, max_fd, mode) /\ ~(o.fd < 0)
    BY <1>2, ThePoolOpened
  <1>. HIDE DEF o
  <1>4. CASE NotOpened(o, fd_list, max_fd) /\ AsBefore(o.pool.list)
    <2>1. held' = held
      BY <1>1, <1>4 DEF NotOpened
    <2>. QED BY <1>1, <1>4, <2>1, AsBeforeKeeps DEF NotOpened, NoLockBroken
  <1>5. CASE IsOpened(o, fd_list, max_fd, mode) /\ ~(o.fd < 0)
    <2>1. PICK r \in FdRecord :
              /\ fd_list' = [fd_list EXCEPT ![o.fd] = r]
              /\ r.mode = mode /\ r.dev # NoDev /\ "EXCL" \notin r.bits
              /\ "DEV" \in r.bits => r.dev \in Dev \cup {DevNull}
              /\ r.dev \in Dev \cup {DevNull} =>
                    \A i \in 0 .. max_fd' : i # o.fd /\ fd_list[i].dev = r.dev
                                            => "EXCL" \notin fd_list[i].bits
      BY <1>1, <1>5 DEF IsOpened
    <2>2. /\ o.fd \in Fd \ Std /\ o.fd \in Fd /\ fd_list[o.fd].dev = NoDev
          /\ max_fd' = HighWater(o.fd, max_fd) /\ fd_list \in [Fd -> FdRecord]
      BY <1>1, <1>5 DEF IsOpened, FdInv, Standing
    <2>3. max_fd' \in Fd /\ max_fd' >= max_fd /\ max_fd' >= o.fd
      BY <2>2, HighWaterBounds DEF FdInv
    <2>4. /\ fd_list' \in [Fd -> FdRecord] /\ fd_list'[o.fd] = r
          /\ \A i \in Fd : i # o.fd => fd_list'[i] = fd_list[i]
      BY <2>1, <2>2
    <2>5. /\ DOMAIN held' = DOMAIN held \cup {o.fd} /\ held'[o.fd] = mode
          /\ \A i \in DOMAIN held : i # o.fd => held'[i] = held[i]
      BY <1>1, <1>5 DEF Hold
    <2>6. Standing(fd_list)' /\ AllProper(fd_list)'
      BY <2>1, <2>2, <2>4, NumbersOfFds DEF FdInv, Standing, AllProper, Proper
    <2>7. HeldInv'
      <3>1. ASSUME NEW i \in DOMAIN held'
            PROVE  /\ i \in Fd \ Std /\ i <= max_fd'
                   /\ held'[i] \in AllModes /\ fd_list'[i].mode = held'[i]
        <4>1. CASE i = o.fd
          BY <1>2, <2>1, <2>2, <2>3, <2>4, <2>5, <4>1
        <4>2. CASE i # o.fd
          <5>1. /\ i \in Fd \ Std /\ i \in Fd /\ i <= max_fd
                /\ held[i] \in AllModes /\ fd_list[i].mode = held[i]
            BY <2>5, <3>1, <4>2 DEF FdInv, HeldInv
          <5>2. i <= max_fd'
            BY <2>3, <5>1, NumbersOfFds DEF FdInv
          <5>. QED BY <2>4, <2>5, <3>1, <4>2, <5>1, <5>2
        <4>. QED BY <4>1, <4>2
      <3>2. \A i \in Fd \ Std : fd_list'[i].dev # NoDev <=> i \in DOMAIN held'
        BY <2>1, <2>2, <2>4, <2>5 DEF FdInv, HeldInv
      <3>. QED BY <3>1, <3>2 DEF HeldInv
    <2>8. CallsNeedTheirAccess'
      BY <1>1, <2>2, <2>5, NoCallNeedsNothing
    <2>9. FdInv'
      BY <1>1, <2>3, <2>6, <2>7, <2>8 DEF FdInv, SameFiles, ListsTyped
    <2>10. NoLockBroken
      <3>. SUFFICES ASSUME NEW i \in Fd, NEW j \in Fd, i # j, "EXCL" \in fd_list[i].bits,
                           fd_list'[j].dev = fd_list[i].dev
                    PROVE  fd_list[j].dev = fd_list[i].dev
        BY DEF NoLockBroken
      <3>1. CASE j # o.fd
        BY <2>4, <3>1
      <3>2. CASE j = o.fd
        <4>1. Proper(fd_list[i])
          BY DEF FdInv, AllProper
        <4>2. fd_list[i].dev = r.dev /\ r.dev \in Dev \cup {DevNull} /\ r.dev # NoDev
          BY <2>1, <2>4, <3>2, <4>1 DEF Proper
        <4>3. i \in Nat /\ i <= max_fd'
          <5>1. i \in Nat
            BY NumbersOfFds
          <5>2. CASE i \in Std
            <6>1. i <= 2 /\ o.fd > 2 /\ max_fd' \in Nat /\ o.fd \in Nat
              BY <2>2, <2>3, <5>2, NumbersOfFds DEF Std, Fd
            <6>. QED BY <2>3, <5>1, <6>1
          <5>3. CASE i \notin Std
            <6>1. i \in DOMAIN held
              BY <4>2, <5>3 DEF FdInv, HeldInv
            <6>2. i <= max_fd /\ max_fd \in Int /\ max_fd' \in Int
              BY <2>3, <6>1, NumbersOfFds DEF FdInv, HeldInv
            <6>. QED BY <2>3, <5>1, <6>2
          <5>. QED BY <5>1, <5>2, <5>3
        <4>4. i \in 0 .. max_fd'
          BY <2>3, <4>3, NumbersOfFds
        <4>. QED BY <2>1, <3>2, <4>2, <4>4
      <3>. QED BY <3>1, <3>2
    <2>. QED BY <2>9, <2>10
  <1>. QED BY <1>3, <1>4, <1>5

LEMMA FdInvStarts == FdInit => FdInv
  <1>. SUFFICES ASSUME FdInit PROVE FdInv
    OBVIOUS
  <1>1. /\ devs = <<DevNull>> /\ filesystems = <<>> /\ max_fd = -1 /\ booted = FALSE
        /\ held = <<>> /\ reached = NoCall
        /\ fd_list = [i \in Fd |-> IF i \in Std THEN [FreeRecord EXCEPT !.dev = DevNull]
                                   ELSE FreeRecord]
    BY DEF FdInit
  <1>2. ListsTyped
    BY <1>1 DEF ListsTyped
  <1>3. DOMAIN held = {}
    BY <1>1
  <1>4. ASSUME NEW r, r = [FreeRecord EXCEPT !.dev = DevNull]
        PROVE  r \in FdRecord /\ r.dev = DevNull /\ r.bits = {} /\ r.dev # NoDev
    BY <1>4, FreeIsRecord, DescriptorConstants DEF FdRecord, Driver
  <1>5. Standing(fd_list) /\ AllProper(fd_list) /\ OnlyStandard(fd_list)
    <2>1. \A i \in Std : fd_list[i] = [FreeRecord EXCEPT !.dev = DevNull]
      BY <1>1, NumbersOfFds
    <2>2. \A i \in Fd \ Std : fd_list[i] = FreeRecord
      BY <1>1
    <2>3. \A i \in Fd : fd_list[i] \in FdRecord /\ fd_list[i].bits = {}
      BY <1>4, <2>1, <2>2, FreeIsRecord
    <2>4. fd_list \in [Fd -> FdRecord]
      BY <1>1, <2>3
    <2>. QED
      BY <1>4, <2>1, <2>2, <2>3, <2>4, FreeIsRecord DEF Standing, AllProper, Proper, OnlyStandard
  <1>6. HeldInv
    BY <1>3, <1>5 DEF HeldInv, OnlyStandard
  <1>7. CallsNeedTheirAccess
    BY <1>3, <1>1 DEF CallsNeedTheirAccess, NoCall
  <1>. QED BY <1>1, <1>2, <1>3, <1>5, <1>6, <1>7 DEF FdInv

LEMMA FdStep ==
    ASSUME FdInv, FdNext
    PROVE  FdInv' /\ (booted => NoLockBroken)
  <1>1. CASE Boot
    <2>1. FdInv'
      BY <1>1, RegistrationKeeps, RedirectionKeeps DEF Boot
    <2>2. ~booted
      BY <1>1 DEF Boot, DevReg, FsReg, IoRedirect
    <2>. QED BY <2>1, <2>2
  <1>2. ASSUME SamePool, booted, reached' = NoCall PROVE FdInv' /\ NoLockBroken
    <2>1. FdInv'
      BY <1>2, NoCallNeedsNothing, PoolLeftKeeps DEF SamePool
    <2>. QED BY <1>2, <2>1 DEF NoLockBroken, SamePool
  <1>3. ASSUME \A i \in Fd : fd_list'[i].dev \in {fd_list[i].dev, NoDev} PROVE NoLockBroken
    <2>1. \A i \in Fd : "EXCL" \in fd_list[i].bits => fd_list[i].dev # NoDev
      BY DEF FdInv, AllProper, Proper
    <2>. QED BY <1>3, <2>1 DEF NoLockBroken
  <1>4. ASSUME NEW fd \in Fd, OnDescriptor(fd) PROVE FdInv' /\ NoLockBroken
    <2>1. CASE \/ GetFl(fd)
               \/ \E answer \in DriverErrors :
                     \/ Fstat(fd, answer) \/ IsATty(fd, answer)
                     \/ \E op \in {"lseek", "ioctl"} : Vector(op, fd, answer)
      BY <1>2, <2>1 DEF GetFl, Fstat, IsATty, Vector
    <2>2. CASE Lock(fd) \/ Unlock(fd) \/ \E new \in FlagSets : SetFl(fd, "RDWR", new)
      BY <1>3, <2>2, FlagCallsKeep
    <2>3. ASSUME NEW answer \in DriverErrors, Close(fd, answer) PROVE FdInv' /\ NoLockBroken
      BY <1>3, <2>3, CloseKeeps
    <2>4. ASSUME NEW op, NEW answer, Transfer(op, fd, answer) PROVE FdInv' /\ NoLockBroken
      <3>1. FdInv' /\ fd_list' = fd_list
        BY <2>4, TransferKeeps DEF Transfer, SamePool
      <3>. QED BY <1>3, <3>1
    <2>. QED BY <1>4, <2>1, <2>2, <2>3, <2>4 DEF OnDescriptor
  <1>5. CASE BadFd(EBADFD)
    BY <1>2, <1>5 DEF BadFd
  <1>6. ASSUME NEW name, NEW answer, Stat(name, answer) PROVE FdInv' /\ NoLockBroken
    BY <1>3, <1>6, StatKeeps
  <1>7. ASSUME NEW name, NEW answer, NEW mode \in Modes, NEW bits \in FlagSets,
               OpenCall(name, mode, bits, answer)
        PROVE  FdInv' /\ NoLockBroken
    BY <1>7, OpenCallKeeps
  <1>. QED BY <1>1, <1>4, <1>5, <1>6, <1>7 DEF FdNext

LEMMA FdInvHolds == FdSpec => []FdInv
  <1>1. FdInv /\ UNCHANGED fdVars => FdInv'
    BY DEF FdInv, fdVars, ListsTyped, Standing, AllProper, HeldInv, CallsNeedTheirAccess
  <1>2. FdInv /\ [FdNext]_fdVars => FdInv'
    BY <1>1, FdStep
  <1>. QED BY <1>2, FdInvStarts, PTL DEF FdSpec

(* No descriptor leaks and none is lost: beyond the standard three those   *)
(* in use are those main holds, and the high-water mark covers them.       *)
THEOREM NoDescriptorLeaks == FdSpec => []PoolIsWhatIsHeld
  <1>1. ASSUME FdInv PROVE PoolIsWhatIsHeld
    <2>1. \A i \in DOMAIN held : i \in 0 .. max_fd
      <3>. SUFFICES ASSUME NEW i \in DOMAIN held PROVE i \in 0 .. max_fd
        OBVIOUS
      <3>1. i \in Fd /\ i <= max_fd /\ max_fd \in Fd \cup {-1}
        BY <1>1 DEF FdInv, HeldInv
      <3>2. i \in Nat /\ max_fd \in Int
        BY <3>1, NumbersOfFds
      <3>. QED BY <3>1, <3>2
    <2>. QED BY <1>1, <2>1 DEF FdInv, HeldInv, Standing, PoolIsWhatIsHeld
  <1>. QED BY <1>1, FdInvHolds, PTL

(* A driver's read and write are reached only through descriptors that     *)
(* were opened for them.                                                   *)
THEOREM AccessIsKept == FdSpec => []CallsNeedTheirAccess
  <1>1. FdInv => CallsNeedTheirAccess
    BY DEF FdInv
  <1>. QED BY <1>1, FdInvHolds, PTL

(* While a descriptor has the lock of its device, no other descriptor      *)
(* comes to refer to that device.                                          *)
THEOREM LocksHold == FdSpec => LockKeepsOthersOut
  <1>1. FdInv /\ [FdNext]_fdVars
            => [\A i, j \in Fd : /\ i # j /\ booted
                                 /\ "EXCL" \in fd_list[i].bits
                                 /\ fd_list'[j].dev = fd_list[i].dev
                                 => fd_list[j].dev = fd_list[i].dev]_fdVars
    BY FdStep DEF NoLockBroken
  <1>. QED BY <1>1, FdInvHolds, PTL DEF FdSpec, LockKeepsOthersOut

-----------------------------------------------------------------------------
(* Coherence: the lines of a buffer                                        *)

(* Multiples of a number are at least that number apart, and what a        *)
(* division leaves.                                                        *)
LEMMA Monotone ==
    ASSUME NEW L \in Nat \ {0}, NEW a \in Int, NEW b \in Int, a < b
    PROVE  a * L + L <= b * L
  <1>1. (b - a - 1) * L >= 0
    <2>1. b - a - 1 \in Nat
      OBVIOUS
    <2>2. \A x \in Nat, y \in Nat : x * y >= 0
      OBVIOUS
    <2>. QED BY <2>1, <2>2
  <1>2. (b - a - 1) * L = b * L - a * L - L
    OBVIOUS
  <1>. QED BY <1>1, <1>2

LEMMA Divided ==
    ASSUME NEW L \in Nat \ {0}, NEW i \in Nat
    PROVE  /\ i \div L \in Nat /\ i % L \in 0 .. L - 1
           /\ (i \div L) * L <= i /\ i < (i \div L) * L + L
           /\ i = (i \div L) * L + (i % L)
  OBVIOUS

LEMMA Quotient ==
    ASSUME NEW L \in Nat \ {0}, NEW i \in Nat, NEW q \in Nat, q * L <= i, i < q * L + L
    PROVE  i \div L = q
  <1>. DEFINE p == i \div L
  <1>1. p \in Nat /\ p * L <= i /\ i < p * L + L
    BY Divided
  <1>. HIDE DEF p
  <1>2. ~(p < q)
    <2>1. p < q => p * L + L <= q * L
      BY <1>1, Monotone
    <2>2. p * L \in Int /\ q * L \in Int
      BY <1>1
    <2>. QED BY <1>1, <2>1, <2>2
  <1>3. ~(q < p)
    <2>1. q < p => q * L + L <= p * L
      BY <1>1, Monotone
    <2>2. p * L \in Int /\ q * L \in Int
      BY <1>1
    <2>. QED BY <1>1, <2>1, <2>2
  <1>4. p = q
    BY <1>1, <1>2, <1>3
  <1>. QED BY <1>4 DEF p

(* The bytes of a line are its LineSize numbers.                           *)
LEMMA LineBounds ==
    ASSUME NEW i \in Nat
    PROVE  /\ LineOf(i) \in Nat
           /\ LineOf(i) * LineSize <= i /\ i < LineOf(i) * LineSize + LineSize
  BY Divided, CoherenceConstants DEF LineOf

LEMMA RegionBytes ==
    ASSUME NEW b \in Buffers
    PROVE  /\ b[1] \in Nat /\ b[2] \in Nat /\ b[1] + b[2] <= Size /\ Size \in Nat
           /\ RegionOf(b) \subseteq Byte
           /\ \A i \in RegionOf(b) : i \in Nat /\ b[1] <= i /\ i < b[1] + b[2]
           /\ \A i \in Nat : b[1] <= i /\ i < b[1] + b[2] => i \in RegionOf(b)
  <1>1. b[1] \in Nat /\ b[2] \in Nat /\ b[1] + b[2] <= Size /\ Size \in Nat
    BY CoherenceConstants
  <1>. QED BY <1>1 DEF RegionOf, Byte

(* alt_dcache_flush comes to every line of the buffer.                     *)
LEMMA FlushReaches ==
    ASSUME NEW b \in Buffers, NEW i \in RegionOf(b)
    PROVE  LineOf(i) \in FlushedLines(b)
  <1>. DEFINE L == LineSize
              s == b[1]
              n == b[2]
              d == i - s
              k == d \div L
  <1>1. /\ L \in Nat \ {0} /\ s \in Nat /\ n \in Nat /\ n <= Size /\ Size \in Nat
        /\ i \in Nat /\ d \in Nat /\ d < n /\ i = s + d
    BY RegionBytes, CoherenceConstants
  <1>2. k \in Nat /\ k * L <= d /\ d < k * L + L
    BY <1>1, Divided
  <1>. DEFINE m == k * L
              at == s + m
              loop == {b[1] + j * LineSize : j \in {x \in 0..Size : x * LineSize < b[2]}}
  <1>. HIDE DEF d, k
  <1>3. m \in Nat /\ m <= d /\ d < m + L /\ (k + 1) * L = m + L
    BY <1>1, <1>2
  <1>4. k <= m
    <2>1. \A x \in Nat, y \in Nat \ {0} : x <= x * y
      OBVIOUS
    <2>. QED BY <1>1, <1>2, <2>1
  <1>5. k \in 0..Size /\ m < n
    BY <1>1, <1>2, <1>3, <1>4
  <1>6. at \in loop
    BY <1>5
  <1>7. loop \subseteq Touched(b)
    BY DEF Touched
  <1>. DEFINE q == at \div L
  <1>8. /\ at \in Nat /\ at <= i /\ i < at + L
        /\ q \in Nat /\ q * L <= at /\ at < q * L + L
    <2>1. at \in Nat /\ at <= i /\ i < at + L
      BY <1>1, <1>3
    <2>. HIDE DEF at
    <2>. QED BY <1>1, <2>1, Divided
  <1>. HIDE DEF m, q
  <1>9. CASE i < q * L + L
    <2>1. q * L <= i
      BY <1>1, <1>8, <1>9
    <2>2. LineOf(i) = q
      BY <1>1, <1>8, <1>9, <2>1, Quotient DEF LineOf
    <2>3. LineOf(at) = q
      BY DEF LineOf, q
    <2>. QED BY <1>6, <1>7, <2>2, <2>3 DEF FlushedLines
  <1>10. CASE ~(i < q * L + L)
    <2>. DEFINE next == s + (k + 1) * L
    <2>1. q * L \in Nat /\ (q + 1) * L = q * L + L
      BY <1>1, <1>8
    <2>2. /\ next = at + L /\ next \in Nat
          /\ (q + 1) * L <= next /\ next < (q + 1) * L + L
          /\ (q + 1) * L <= i /\ i < (q + 1) * L + L
      <3>. DEFINE ql == q * L
      <3>1. ql \in Nat /\ (q + 1) * L = ql + L
        BY <2>1
      <3>2. q * L = ql
        OBVIOUS
      <3>. HIDE DEF ql
      <3>. QED BY <1>1, <1>3, <1>8, <1>10, <3>1, <3>2
    <2>3. LineOf(i) = q + 1 /\ LineOf(next) = q + 1
      <3>. HIDE DEF next
      <3>. QED BY <1>1, <1>8, <2>2, Quotient DEF LineOf
    <2>4. next \in Touched(b)
      <3>1. CASE m + L < n
        <4>1. k + 1 \in 0..Size /\ (k + 1) * LineSize < b[2]
          BY <1>1, <1>2, <1>3, <1>4, <3>1
        <4>. QED BY <1>7, <4>1
      <3>2. CASE ~(m + L < n)
        <4>. DEFINE steps == (b[2] + LineSize - 1) \div LineSize
        <4>1. steps = k + 1
          <5>. DEFINE e == n + L - 1
          <5>1. e \in Nat /\ (k + 1) * L <= e /\ e < (k + 1) * L + L /\ k + 1 \in Nat
            BY <1>1, <1>2, <1>3, <1>5, <3>2
          <5>. HIDE DEF e
          <5>2. e \div L = k + 1
            BY <1>1, <5>1, Quotient
          <5>. QED BY <5>2 DEF e
        <4>2. b[1] % LineSize # 0
          <5>. SUFFICES ASSUME b[1] % LineSize = 0 PROVE FALSE
            OBVIOUS
          <5>. DEFINE p == s \div L
          <5>1. p \in Nat /\ s = p * L
            <6>1. p \in Nat /\ s = p * L + (s % L)
              BY <1>1, Divided
            <6>2. s % L = 0 /\ s \in Nat /\ L \in Nat
              BY <1>1
            <6>. HIDE DEF p, s, L
            <6>3. p * L \in Nat
              BY <6>1, <6>2
            <6>. QED BY <6>1, <6>2, <6>3
          <5>. HIDE DEF p
          <5>2. at = (p + k) * L /\ p + k \in Nat
            BY <1>1, <1>2, <5>1 DEF m
          <5>3. (p + k) * L <= at /\ at < (p + k) * L + L
            BY <1>1, <1>8, <5>2
          <5>4. q = p + k
            BY <1>1, <1>8, <5>2, <5>3, Quotient DEF q
          <5>. QED BY <1>1, <1>8, <1>10, <5>2, <5>4
        <4>. QED BY <4>1, <4>2 DEF Touched
      <3>. QED BY <3>1, <3>2
    <2>. QED BY <2>3, <2>4 DEF FlushedLines
  <1>. QED BY <1>9, <1>10

(* A buffer of whole lines has all bytes of its lines, and flushing it     *)
(* comes to no other line.                                                 *)
LEMMA WholeLines ==
    ASSUME NEW b \in Buffers, ~IsRagged(b), NEW i \in RegionOf(b), NEW j \in Nat,
           LineOf(j) = LineOf(i)
    PROVE  j \in RegionOf(b)
  <1>. DEFINE L == LineSize
              s == b[1]
              n == b[2]
              p == s \div L
              m == n \div L
              q == LineOf(i)
  <1>1. /\ L \in Nat \ {0} /\ s \in Nat /\ n \in Nat /\ i \in Nat /\ s <= i /\ i < s + n
        /\ s % L = 0 /\ n % L = 0
    BY RegionBytes, CoherenceConstants DEF IsRagged
  <1>2. /\ p \in Nat /\ m \in Nat /\ s = p * L + (s % L) /\ n = m * L + (n % L)
    BY <1>1, Divided
  <1>3. q \in Nat /\ q * L <= i /\ i < q * L + L /\ q * L <= j /\ j < q * L + L
    BY <1>1, LineBounds
  <1>. HIDE DEF p, m, q, s, n, L
  <1>4. /\ p * L \in Nat /\ m * L \in Nat /\ q * L \in Nat
        /\ s = p * L /\ n = m * L /\ (p + m) * L = p * L + m * L
    BY <1>1, <1>2, <1>3
  <1>5. s <= q * L
    <2>1. CASE q < p
      BY <1>1, <1>2, <1>3, <1>4, <2>1, Monotone
    <2>2. CASE p = q
      BY <1>4, <2>2
    <2>3. CASE p < q
      <3>1. p * L + L <= q * L
        BY <1>1, <1>2, <1>3, <2>3, Monotone
      <3>. QED BY <1>1, <1>4, <3>1
    <2>. QED BY <1>2, <1>3, <2>1, <2>2, <2>3
  <1>6. q * L + L <= s + n
    <2>1. CASE q < p + m
      <3>1. q * L + L <= (p + m) * L
        BY <1>1, <1>2, <1>3, <2>1, Monotone
      <3>. QED BY <1>4, <3>1
    <2>2. CASE q = p + m
      BY <1>1, <1>3, <1>4, <2>2
    <2>3. CASE p + m < q
      <3>1. (p + m) * L + L <= q * L
        BY <1>1, <1>2, <1>3, <2>3, Monotone
      <3>. QED BY <1>1, <1>3, <1>4, <3>1
    <2>. QED BY <1>2, <1>3, <2>1, <2>2, <2>3
  <1>7. s <= j /\ j < s + n
    BY <1>1, <1>3, <1>4, <1>5, <1>6
  <1>. QED BY <1>7, RegionBytes DEF s, n

LEMMA FlushStays ==
    ASSUME NEW b \in Buffers, ~IsRagged(b), NEW j \in Nat, LineOf(j) \in FlushedLines(b)
    PROVE  j \in RegionOf(b)
  <1>1. PICK t \in Touched(b) : LineOf(t) = LineOf(j)
    BY DEF FlushedLines
  <1>2. PICK k \in 0..Size : t = b[1] + k * LineSize /\ k * LineSize < b[2]
    BY DEF Touched, IsRagged
  <1>3. k * LineSize \in Nat
    BY <1>2, CoherenceConstants
  <1>4. t \in RegionOf(b)
    <2>1. t \in Nat /\ b[1] <= t /\ t < b[1] + b[2]
      BY <1>2, <1>3, RegionBytes
    <2>. QED BY <2>1, RegionBytes
  <1>. QED BY <1>1, <1>4, WholeLines

-----------------------------------------------------------------------------
(* Coherence: buffers in use are apart                                     *)

Apart(b, c) == RegionOf(b) \cap RegionOf(c) = {}
Alone(many) == \A b, c \in many : b # c => Apart(b, c)
Between(some, others) == \A b \in some, c \in others : Apart(b, c)
InOrder(q) == \A k, l \in DOMAIN q : k # l => Apart(q[k], q[l])
Used == prepared \cup arrived \cup Posted("tx") \cup Posted("rx")

UsesInv ==
    /\ prepared \in SUBSET Buffers /\ arrived \in SUBSET Buffers
    /\ queue \in [Channels -> Seq(Buffers)]
    /\ fresh \in Buffers \cup {<<0, 0>>}

ApartInv ==
    /\ Alone(prepared) /\ Alone(arrived) /\ \A c \in Channels : InOrder(queue[c])
    /\ Between(prepared, arrived)
    /\ Between(prepared, Posted("tx")) /\ Between(prepared, Posted("rx"))
    /\ Between(arrived, Posted("tx")) /\ Between(arrived, Posted("rx"))
    /\ Between(Posted("tx"), Posted("rx"))
    /\ Between({fresh}, Used)

LEMMA ApartIsMutual == \A b, c : Apart(b, c) <=> Apart(c, b)
  BY DEF Apart

LEMMA FreshIsApart == \A b : Apart(<<0, 0>>, b)
  <1>1. RegionOf(<<0, 0>>) = {}
    BY DEF RegionOf
  <1>. QED BY <1>1 DEF Apart

LEMMA Pushed ==
    ASSUME NEW q \in Seq(Buffers), NEW b \in Buffers, InOrder(q),
           \A k \in DOMAIN q : Apart(q[k], b)
    PROVE  /\ Append(q, b) \in Seq(Buffers) /\ InOrder(Append(q, b))
           /\ {Append(q, b)[k] : k \in DOMAIN Append(q, b)} = {q[k] : k \in DOMAIN q} \cup {b}
  <1>. DEFINE r == Append(q, b)
  <1>1. /\ r \in Seq(Buffers) /\ Len(q) \in Nat /\ Len(r) = Len(q) + 1
        /\ r[Len(q) + 1] = b /\ \A k \in 1 .. Len(q) : r[k] = q[k]
        /\ DOMAIN q = 1 .. Len(q) /\ DOMAIN r = 1 .. Len(r)
    BY AppendProperties
  <1>. HIDE DEF r
  <1>2. ASSUME NEW k \in DOMAIN r
        PROVE  \/ k \in DOMAIN q /\ r[k] = q[k]
               \/ k = Len(q) + 1 /\ r[k] = b
    <2>1. k \in 1 .. Len(q) \/ k = Len(q) + 1
      BY <1>1
    <2>. QED BY <1>1, <2>1
  <1>3. \A k \in DOMAIN q : k \in DOMAIN r /\ k # Len(q) + 1 /\ r[k] = q[k]
    BY <1>1
  <1>4. Len(q) + 1 \in DOMAIN r
    BY <1>1
  <1>5. InOrder(r)
    BY <1>2, ApartIsMutual DEF InOrder
  <1>6. {r[k] : k \in DOMAIN r} = {q[k] : k \in DOMAIN q} \cup {b}
    BY <1>1, <1>2, <1>3, <1>4
  <1>. QED BY <1>1, <1>5, <1>6 DEF r

LEMMA Popped ==
    ASSUME NEW q \in Seq(Buffers), q # <<>>, InOrder(q)
    PROVE  /\ Tail(q) \in Seq(Buffers) /\ InOrder(Tail(q)) /\ q[1] \in Buffers
           /\ 1 \in DOMAIN q
           /\ \A k \in DOMAIN Tail(q) : Apart(q[1], Tail(q)[k])
           /\ {Tail(q)[k] : k \in DOMAIN Tail(q)} \subseteq {q[k] : k \in DOMAIN q}
  <1>. DEFINE r == Tail(q)
  <1>1. /\ r \in Seq(Buffers) /\ Len(q) \in Nat \ {0} /\ Len(r) = Len(q) - 1
        /\ \A k \in 1 .. Len(q) - 1 : r[k] = q[k + 1]
        /\ DOMAIN q = 1 .. Len(q)
    BY PopFront
  <1>. HIDE DEF r
  <1>2. DOMAIN r = 1 .. Len(q) - 1 /\ 1 \in DOMAIN q
    BY <1>1
  <1>3. \A k \in DOMAIN r : k + 1 \in DOMAIN q /\ k + 1 # 1 /\ r[k] = q[k + 1]
    BY <1>1, <1>2
  <1>4. InOrder(r)
    <2>1. \A k, l \in Int : k # l => k + 1 # l + 1
      OBVIOUS
    <2>2. \A k \in DOMAIN r : k \in Int
      BY <1>2
    <2>. QED BY <1>3, <2>1, <2>2 DEF InOrder
  <1>5. \A k \in DOMAIN r : Apart(q[1], r[k])
    BY <1>2, <1>3 DEF InOrder
  <1>6. {r[k] : k \in DOMAIN r} \subseteq {q[k] : k \in DOMAIN q}
    BY <1>3
  <1>. QED BY <1>1, <1>2, <1>4, <1>5, <1>6 DEF r

LEMMA ChannelsAre ==
    /\ Channels = {"tx", "rx"} /\ "tx" \in Channels /\ "rx" \in Channels /\ "tx" # "rx"
  BY DEF Channels

LEMMA InUseAre ==
    ASSUME UsesInv
    PROVE  /\ Posted("tx") \in SUBSET Buffers /\ Posted("rx") \in SUBSET Buffers
           /\ Used \in SUBSET Buffers
  <1>1. queue["tx"] \in Seq(Buffers) /\ queue["rx"] \in Seq(Buffers)
    BY ChannelsAre DEF UsesInv
  <1>2. Posted("tx") \in SUBSET Buffers /\ Posted("rx") \in SUBSET Buffers
    BY <1>1 DEF Posted
  <1>. QED BY <1>2 DEF UsesInv, Used

(* A buffer that is flushed is apart from those in use.                    *)
LEMMA FlushUses ==
    ASSUME UsesInv, ApartInv, NEW b \in Buffers, Flush(b)
    PROVE  (UsesInv /\ ApartInv)'
  <1>1. /\ prepared' = prepared \cup {b} /\ fresh' = <<0, 0>>
        /\ UNCHANGED <<queue, arrived>>
        /\ \A c \in Used : Apart(b, c)
    BY DEF Flush, Meets, Used, Apart
  <1>2. Posted("tx")' = Posted("tx") /\ Posted("rx")' = Posted("rx")
    BY <1>1 DEF Posted
  <1>3. UsesInv'
    BY <1>1 DEF UsesInv
  <1>. QED
    BY <1>1, <1>2, <1>3, ApartIsMutual, FreshIsApart DEF ApartInv, Alone, Between, Used

LEMMA InvalidateUses ==
    ASSUME UsesInv, ApartInv, NEW b \in Buffers, Invalidate(b)
    PROVE  (UsesInv /\ ApartInv)'
  <1>1. /\ b \in arrived /\ arrived' = arrived \ {b} /\ fresh' = b
        /\ UNCHANGED <<queue, prepared>>
    BY DEF Invalidate
  <1>2. Posted("tx")' = Posted("tx") /\ Posted("rx")' = Posted("rx")
    BY <1>1 DEF Posted
  <1>3. UsesInv'
    BY <1>1 DEF UsesInv
  <1>4. \A c \in Used' : Apart(b, c)
    BY <1>1, <1>2, ApartIsMutual DEF ApartInv, Alone, Between, Used
  <1>. QED BY <1>1, <1>2, <1>3, <1>4 DEF ApartInv, Alone, Between, Used

LEMMA PostUses ==
    ASSUME UsesInv, ApartInv, NEW b \in Buffers, NEW c \in Channels, PostRequest(c, b)
    PROVE  (UsesInv /\ ApartInv)' /\ Used' = Used /\ arrived' = arrived
  <1>1. /\ b \in prepared /\ prepared' = prepared \ {b}
        /\ queue' = [queue EXCEPT ![c] = Append(queue[c], b)]
        /\ UNCHANGED <<arrived, fresh>>
        /\ queue[c] \in Seq(Buffers) /\ InOrder(queue[c])
        /\ queue \in [Channels -> Seq(Buffers)]
    BY DEF PostRequest, ghosts, UsesInv, ApartInv
  <1>2. \A k \in DOMAIN queue[c] : Apart(queue[c][k], b)
    BY <1>1, ChannelsAre, ApartIsMutual DEF ApartInv, Between, Posted
  <1>3. /\ Append(queue[c], b) \in Seq(Buffers) /\ InOrder(Append(queue[c], b))
        /\ {Append(queue[c], b)[k] : k \in DOMAIN Append(queue[c], b)} = Posted(c) \cup {b}
    BY <1>1, <1>2, Pushed DEF Posted
  <1>4. /\ queue'[c] = Append(queue[c], b) /\ queue' \in [Channels -> Seq(Buffers)]
        /\ \A d \in Channels : d # c => queue'[d] = queue[d]
    BY <1>1, <1>3
  <1>5. Posted(c)' = Posted(c) \cup {b} /\ \A d \in Channels : d # c => Posted(d)' = Posted(d)
    BY <1>3, <1>4 DEF Posted
  <1>6. UsesInv'
    BY <1>1, <1>4 DEF UsesInv
  <1>7. \A d \in Channels : InOrder(queue'[d])
    BY <1>3, <1>4 DEF ApartInv
  <1>8. Used' = Used
    BY <1>1, <1>5, ChannelsAre DEF Used
  <1>9. CASE c = "tx"
    <2>1. Posted("tx")' = Posted("tx") \cup {b} /\ Posted("rx")' = Posted("rx")
      BY <1>5, <1>9, ChannelsAre
    <2>. QED BY <1>1, <1>6, <1>7, <1>8, <2>1, ApartIsMutual DEF ApartInv, Alone, Between
  <1>10. CASE c = "rx"
    <2>1. Posted("rx")' = Posted("rx") \cup {b} /\ Posted("tx")' = Posted("tx")
      BY <1>5, <1>10, ChannelsAre
    <2>. QED BY <1>1, <1>6, <1>7, <1>8, <2>1, ApartIsMutual DEF ApartInv, Alone, Between
  <1>. QED BY <1>1, <1>8, <1>9, <1>10, ChannelsAre

LEMMA HeadLeaves ==
    ASSUME UsesInv, ApartInv, NEW c \in Channels, queue[c] # <<>>,
           queue' = [queue EXCEPT ![c] = Tail(queue[c])]
    PROVE  /\ queue' \in [Channels -> Seq(Buffers)] /\ \A d \in Channels : InOrder(queue'[d])
           /\ queue[c][1] \in Posted(c) /\ \A b \in Posted(c)' : Apart(queue[c][1], b)
           /\ Posted(c)' \in SUBSET Posted(c)
           /\ \A d \in Channels : d # c => Posted(d)' = Posted(d)
  <1>1. queue \in [Channels -> Seq(Buffers)] /\ queue[c] \in Seq(Buffers) /\ InOrder(queue[c])
    BY DEF UsesInv, ApartInv
  <1>2. /\ queue' \in [Channels -> Seq(Buffers)] /\ queue'[c] = Tail(queue[c])
        /\ \A d \in Channels : d # c => queue'[d] = queue[d]
    BY <1>1, Popped
  <1>3. \A d \in Channels : InOrder(queue'[d])
    BY <1>1, <1>2, Popped DEF ApartInv
  <1>4. /\ \A k \in DOMAIN queue'[c] : Apart(queue[c][1], queue'[c][k])
        /\ {queue'[c][k] : k \in DOMAIN queue'[c]} \subseteq {queue[c][k] : k \in DOMAIN queue[c]}
        /\ 1 \in DOMAIN queue[c]
    BY <1>1, <1>2, Popped
  <1>. QED BY <1>2, <1>3, <1>4 DEF Posted

LEMMA SendUses ==
    ASSUME UsesInv, ApartInv, SendDone
    PROVE  (UsesInv /\ ApartInv)'
  <1>1. /\ queue["tx"] # <<>> /\ queue' = [queue EXCEPT !["tx"] = Tail(queue["tx"])]
        /\ UNCHANGED <<prepared, arrived, fresh>>
    BY DEF SendDone
  <1>2. /\ queue' \in [Channels -> Seq(Buffers)] /\ \A d \in Channels : InOrder(queue'[d])
        /\ Posted("tx")' \in SUBSET Posted("tx") /\ Posted("rx")' = Posted("rx")
    BY <1>1, HeadLeaves, ChannelsAre
  <1>. QED BY <1>1, <1>2 DEF UsesInv, ApartInv, Alone, Between, Used

LEMMA ReceiveUses ==
    ASSUME UsesInv, ApartInv, ReceiveDone
    PROVE  (UsesInv /\ ApartInv)'
  <1>. DEFINE b == queue["rx"][1]
  <1>1. /\ queue["rx"] # <<>> /\ queue' = [queue EXCEPT !["rx"] = Tail(queue["rx"])]
        /\ arrived' = arrived \cup {b} /\ UNCHANGED <<prepared, fresh>>
    BY DEF ReceiveDone
  <1>2. /\ queue' \in [Channels -> Seq(Buffers)] /\ \A d \in Channels : InOrder(queue'[d])
        /\ Posted("rx")' \in SUBSET Posted("rx") /\ Posted("tx")' = Posted("tx")
        /\ b \in Posted("rx") /\ \A d \in Posted("rx")' : Apart(b, d)
    BY <1>1, HeadLeaves, ChannelsAre
  <1>3. b \in Buffers
    BY <1>2, InUseAre
  <1>. HIDE DEF b
  <1>4. UsesInv'
    BY <1>1, <1>2, <1>3 DEF UsesInv
  <1>. QED BY <1>1, <1>2, <1>4, ApartIsMutual DEF ApartInv, Alone, Between, Used

LEMMA FlashUses ==
    ASSUME UsesInv, ApartInv, NEW b \in Buffers, FlashWrite(b)
    PROVE  (UsesInv /\ ApartInv)'
  <1>1. /\ b \in prepared /\ prepared' = prepared \ {b} /\ arrived' = arrived \cup {b}
        /\ UNCHANGED <<queue, fresh>>
    BY DEF FlashWrite
  <1>2. Posted("tx")' = Posted("tx") /\ Posted("rx")' = Posted("rx")
    BY <1>1 DEF Posted
  <1>. QED BY <1>1, <1>2, ApartIsMutual DEF UsesInv, ApartInv, Alone, Between, Used

LEMMA UsesKept ==
    UsesInv /\ ApartInv /\ [CohNext]_cohVars => (UsesInv /\ ApartInv)'
  <1>. SUFFICES ASSUME UsesInv, ApartInv, [CohNext]_cohVars PROVE (UsesInv /\ ApartInv)'
    OBVIOUS
  <1>1. ASSUME UNCHANGED <<prepared, arrived, queue>>, fresh' = fresh \/ fresh' = <<0, 0>>
        PROVE  (UsesInv /\ ApartInv)'
    <2>1. Posted("tx")' = Posted("tx") /\ Posted("rx")' = Posted("rx") /\ Used' = Used
      BY <1>1 DEF Posted, Used
    <2>. QED BY <1>1, <2>1, FreshIsApart DEF UsesInv, ApartInv, Between
  <1>2. \/ UNCHANGED <<prepared, arrived, queue>> /\ (fresh' = fresh \/ fresh' = <<0, 0>>)
        \/ \E b \in Buffers : \/ Flush(b) \/ Invalidate(b) \/ FlashWrite(b)
                              \/ \E c \in Channels : PostRequest(c, b)
        \/ SendDone \/ ReceiveDone
    BY ChannelsAre DEF CohNext, Store, Load, Evict, FlushAll, OpenDriver, FlashClose, DmaSend,
       DmaPrepare, channelOnly, ghosts, cohVars
  <1>. QED
    BY <1>1, <1>2, FlushUses, InvalidateUses, PostUses, SendUses, ReceiveUses, FlashUses

-----------------------------------------------------------------------------
(* Coherence: the cache and the buffers                                    *)

\* While buffers are whole lines only received ones have old copies.
NothingLost ==
    /\ ~dropped /\ \A b \in arrived : ~IsRagged(b)
    /\ \A i \in older : \E b \in arrived : i \in RegionOf(b)

CacheInv ==
    /\ newer \in SUBSET Byte /\ older \in SUBSET Byte
    /\ \A b \in Used : newer \cap RegionOf(b) = {}
    /\ older \cap RegionOf(fresh) = {}
    /\ ~sent_stale
    /\ ragged \/ NothingLost

(* A dirty line has no old byte.                                           *)
LEMMA DirtyIsNew ==
    ASSUME UsesInv, CacheInv, ~ragged, NEW i \in older, NEW j \in newer
    PROVE  LineOf(i) # LineOf(j)
  <1>1. PICK b \in arrived : i \in RegionOf(b)
    BY DEF CacheInv, NothingLost
  <1>2. b \in Buffers /\ ~IsRagged(b) /\ b \in Used
    BY DEF UsesInv, CacheInv, NothingLost, Used
  <1>3. j \in Nat
    BY CoherenceConstants DEF CacheInv, Byte
  <1>4. j \notin RegionOf(b)
    BY <1>2 DEF CacheInv
  <1>. QED BY <1>1, <1>2, <1>3, <1>4, WholeLines

LEMMA WritingBackLosesNothing ==
    ASSUME UsesInv, CacheInv, NEW lines, WriteBack(lines), UNCHANGED <<arrived, ragged>>
    PROVE  /\ newer' \in SUBSET newer /\ older' \in SUBSET older
           /\ \A i \in newer' : LineOf(i) \notin lines
           /\ (ragged \/ NothingLost)'
  <1>1. /\ newer' = newer \ Dirty(lines) /\ older' \in SUBSET older
        /\ dropped' = (dropped \/ \E i \in older, j \in Dirty(lines) : LineOf(i) = LineOf(j))
    BY DEF WriteBack
  <1>2. Dirty(lines) = {i \in newer : LineOf(i) \in lines}
    BY DEF Dirty
  <1>3. ASSUME ~ragged PROVE NothingLost'
    <2>1. ~(\E i \in older, j \in Dirty(lines) : LineOf(i) = LineOf(j))
      BY <1>2, <1>3, DirtyIsNew
    <2>2. NothingLost
      BY <1>3 DEF CacheInv
    <2>3. ~dropped'
      BY <1>1, <2>1, <2>2 DEF NothingLost
    <2>. QED BY <1>1, <2>2, <2>3 DEF NothingLost
  <1>. QED BY <1>1, <1>2, <1>3

LEMMA WrittenBackKeeps ==
    ASSUME UsesInv, CacheInv, NEW lines, WriteBack(lines),
           UNCHANGED <<channelOnly, fresh, sent_stale, ragged>>
    PROVE  CacheInv'
  <1>1. /\ UNCHANGED <<prepared, arrived, queue, fresh, sent_stale, ragged>>
        /\ newer' \in SUBSET newer /\ older' \in SUBSET older /\ (ragged \/ NothingLost)'
    BY WritingBackLosesNothing DEF channelOnly
  <1>2. Used' = Used
    BY <1>1 DEF Used, Posted
  <1>. QED BY <1>1, <1>2 DEF CacheInv

LEMMA FlushKeeps ==
    ASSUME UsesInv, CacheInv, NEW b \in Buffers, Flush(b)
    PROVE  CacheInv'
  <1>1. /\ WriteBack(FlushedLines(b)) /\ prepared' = prepared \cup {b} /\ fresh' = <<0, 0>>
        /\ UNCHANGED <<queue, arrived, sent_stale, ragged>>
    BY DEF Flush
  <1>2. /\ newer' \in SUBSET newer /\ older' \in SUBSET older /\ (ragged \/ NothingLost)'
        /\ \A i \in newer' : LineOf(i) \notin FlushedLines(b)
    BY <1>1, WritingBackLosesNothing
  <1>3. newer' \cap RegionOf(b) = {}
    BY <1>2, FlushReaches
  <1>4. Used' = Used \cup {b}
    BY <1>1 DEF Used, Posted
  <1>5. RegionOf(fresh') = {}
    BY <1>1 DEF RegionOf
  <1>. QED BY <1>1, <1>2, <1>3, <1>4, <1>5 DEF CacheInv

LEMMA StoreKeeps ==
    ASSUME UsesInv, CacheInv, NEW i \in Stores, Store(i)
    PROVE  CacheInv'
  <1>1. /\ \A b \in Used : i \notin RegionOf(b)
        /\ newer' = newer \cup {i} /\ older' = older \ {i} /\ fresh' = <<0, 0>>
        /\ UNCHANGED <<prepared, arrived, queue, sent_stale, dropped, ragged>>
    BY DEF Store, Used, channelOnly
  <1>2. Used' = Used
    BY <1>1 DEF Used, Posted
  <1>3. i \in Byte
    BY CoherenceConstants DEF Byte
  <1>4. RegionOf(fresh') = {}
    BY <1>1 DEF RegionOf
  <1>. QED BY <1>1, <1>2, <1>3, <1>4 DEF CacheInv, NothingLost

LEMMA InvalidateKeeps ==
    ASSUME UsesInv, ApartInv, CacheInv, NEW b \in Buffers, Invalidate(b)
    PROVE  CacheInv'
  <1>. DEFINE lines == FlushedLines(b)
  <1>1. /\ b \in arrived /\ arrived' = arrived \ {b} /\ fresh' = b
        /\ newer' = {i \in newer : LineOf(i) \notin lines}
        /\ older' = {i \in older : LineOf(i) \notin lines}
        /\ dropped' = (dropped \/ Dirty(lines) # {})
        /\ ragged' = (ragged \/ IsRagged(b))
        /\ UNCHANGED <<prepared, queue, sent_stale>>
    BY DEF Invalidate
  <1>2. Used' \in SUBSET Used
    BY <1>1 DEF Used, Posted
  <1>3. \A i \in RegionOf(b) : LineOf(i) \in lines
    BY FlushReaches
  <1>4. ASSUME ~ragged' PROVE NothingLost'
    <2>1. ~ragged /\ ~IsRagged(b) /\ NothingLost
      BY <1>1, <1>4 DEF CacheInv
    <2>2. Dirty(lines) = {}
      <3>. SUFFICES ASSUME NEW j \in newer, LineOf(j) \in lines PROVE FALSE
        BY DEF Dirty
      <3>1. j \in Nat
        BY CoherenceConstants DEF CacheInv, Byte
      <3>2. j \in RegionOf(b)
        BY <2>1, <3>1, FlushStays
      <3>. QED BY <1>1, <3>2 DEF CacheInv, Used
    <2>3. \A i \in older' : \E c \in arrived' : i \in RegionOf(c)
      BY <1>1, <1>3, <2>1 DEF NothingLost
    <2>. QED BY <1>1, <2>1, <2>2, <2>3 DEF NothingLost
  <1>5. older' \cap RegionOf(fresh') = {}
    BY <1>1, <1>3
  <1>6. newer' \in SUBSET newer /\ older' \in SUBSET older
    BY <1>1
  <1>. QED BY <1>1, <1>2, <1>4, <1>5, <1>6 DEF CacheInv

(* What arrives in a buffer that was in use is in nobody else's.           *)
LEMMA ArrivalKeeps ==
    ASSUME UsesInv, ApartInv, CacheInv, NEW b \in Used, Arrives(RegionOf(b)),
           Used' \in SUBSET Used, arrived' = arrived \cup {b},
           ragged' = (ragged \/ IsRagged(b)), UNCHANGED <<fresh, sent_stale, dropped>>
    PROVE  CacheInv'
  <1>1. /\ newer' \in SUBSET newer
        /\ \A i \in older' : i \in older \/ i \in RegionOf(b)
    BY DEF Arrives
  <1>2. b \in Buffers /\ RegionOf(b) \subseteq Byte
    BY InUseAre, RegionBytes
  <1>3. RegionOf(fresh) \cap RegionOf(b) = {}
    BY DEF ApartInv, Between, Apart
  <1>4. ASSUME ~ragged' PROVE NothingLost'
    <2>1. ~IsRagged(b) /\ NothingLost
      BY <1>4 DEF CacheInv
    <2>. QED BY <1>1, <2>1 DEF NothingLost
  <1>5. newer' \in SUBSET Byte /\ older' \in SUBSET Byte
    BY <1>1, <1>2 DEF CacheInv
  <1>. QED BY <1>1, <1>3, <1>4, <1>5 DEF CacheInv

LEMMA CacheKept ==
    UsesInv /\ ApartInv /\ CacheInv /\ [CohNext]_cohVars => CacheInv'
  <1>. SUFFICES ASSUME UsesInv, ApartInv, CacheInv, [CohNext]_cohVars PROVE CacheInv'
    OBVIOUS
  <1>1. ASSUME UNCHANGED <<newer, older, arrived, ghosts>>, Used' = Used PROVE CacheInv'
    BY <1>1 DEF CacheInv, NothingLost, ghosts
  <1>2. ASSUME UNCHANGED <<newer, older, prepared, queue, arrived, ghosts>> PROVE CacheInv'
    <2>1. Used' = Used
      BY <1>2 DEF Used, Posted
    <2>. QED BY <1>1, <1>2, <2>1
  <1>3. ASSUME NEW b \in Buffers, NEW c \in Channels, PostRequest(c, b) PROVE CacheInv'
    BY <1>1, <1>3, PostUses DEF PostRequest
  <1>4. CASE SendDone
    <2>1. /\ queue["tx"] # <<>> /\ queue' = [queue EXCEPT !["tx"] = Tail(queue["tx"])]
          /\ sent_stale' = (sent_stale \/ RegionOf(queue["tx"][1]) \cap newer # {})
          /\ UNCHANGED <<newer, older, prepared, arrived, fresh, dropped, ragged>>
      BY <1>4 DEF SendDone
    <2>2. /\ queue["tx"][1] \in Posted("tx") /\ Posted("tx")' \in SUBSET Posted("tx")
          /\ Posted("rx")' = Posted("rx")
      BY <2>1, HeadLeaves, ChannelsAre
    <2>3. ~sent_stale' /\ Used' \in SUBSET Used
      BY <2>1, <2>2 DEF CacheInv, Used
    <2>. QED BY <2>1, <2>3 DEF CacheInv, NothingLost
  <1>5. CASE ReceiveDone
    <2>. DEFINE b == queue["rx"][1]
    <2>1. /\ queue["rx"] # <<>> /\ queue' = [queue EXCEPT !["rx"] = Tail(queue["rx"])]
          /\ arrived' = arrived \cup {b} /\ Arrives(RegionOf(b))
          /\ ragged' = (ragged \/ IsRagged(b))
          /\ UNCHANGED <<prepared, fresh, sent_stale, dropped>>
      BY <1>5 DEF ReceiveDone
    <2>2. /\ b \in Posted("rx") /\ Posted("rx")' \in SUBSET Posted("rx")
          /\ Posted("tx")' = Posted("tx")
      BY <2>1, HeadLeaves, ChannelsAre
    <2>. HIDE DEF b
    <2>3. b \in Used /\ Used' \in SUBSET Used
      BY <2>1, <2>2 DEF Used
    <2>. QED BY <2>1, <2>3, ArrivalKeeps
  <1>6. ASSUME NEW b \in Buffers, FlashWrite(b) PROVE CacheInv'
    <2>1. /\ b \in prepared /\ prepared' = prepared \ {b} /\ arrived' = arrived \cup {b}
          /\ Arrives(RegionOf(b)) /\ ragged' = (ragged \/ IsRagged(b))
          /\ UNCHANGED <<queue, fresh, sent_stale, dropped>>
      BY <1>6 DEF FlashWrite
    <2>2. b \in Used /\ Used' \in SUBSET Used
      BY <2>1 DEF Used, Posted
    <2>. QED BY <2>1, <2>2, ArrivalKeeps
  <1>7. ASSUME NEW line, Evict(line) \/ FlushAll PROVE CacheInv'
    BY <1>7, WrittenBackKeeps DEF Evict, FlushAll
  <1>8. \/ UNCHANGED <<newer, older, prepared, queue, arrived, ghosts>>
        \/ \E i \in Stores : Store(i)
        \/ \E line \in Lines : Evict(line)
        \/ FlushAll \/ SendDone \/ ReceiveDone
        \/ \E b \in Buffers : \/ Flush(b) \/ Invalidate(b) \/ FlashWrite(b)
                              \/ \E c \in Channels : PostRequest(c, b)
    BY ChannelsAre DEF CohNext, Load, OpenDriver, FlashClose, DmaSend, DmaPrepare,
       channelOnly, ghosts, cohVars
  <1>. QED
    BY <1>2, <1>3, <1>4, <1>5, <1>6, <1>7, <1>8, StoreKeeps, FlushKeeps, InvalidateKeeps

(* Devices, program and memory see the same bytes: what is sent is what    *)
(* was written, what is read is what was received, and as long as buffers  *)
(* are whole lines no byte is lost.                                        *)
THEOREM CacheIsCoherent == CohSpec => []TransfersAreCoherent
  <1>. DEFINE Inv == UsesInv /\ ApartInv /\ CacheInv
  <1>1. ASSUME CohInit PROVE Inv
    <2>1. /\ newer = {} /\ older = {} /\ prepared = {} /\ arrived = {} /\ fresh = <<0, 0>>
          /\ queue = [c \in Channels |-> <<>>]
          /\ sent_stale = FALSE /\ dropped = FALSE
      BY <1>1 DEF CohInit
    <2>2. /\ queue["tx"] = <<>> /\ queue["rx"] = <<>>
          /\ Posted("tx") = {} /\ Posted("rx") = {} /\ Used = {}
      BY <2>1, ChannelsAre DEF Posted, Used
    <2>3. UsesInv
      BY <2>1 DEF UsesInv
    <2>4. \A c \in Channels : InOrder(queue[c])
      BY <2>1 DEF InOrder
    <2>5. ApartInv
      BY <2>1, <2>2, <2>4 DEF ApartInv, Alone, Between
    <2>6. CacheInv
      BY <2>1, <2>2 DEF CacheInv, NothingLost
    <2>. QED BY <2>3, <2>5, <2>6
  <1>2. Inv => TransfersAreCoherent
    BY DEF CacheInv, NothingLost, TransfersAreCoherent, SentIsWhatWasWritten, ReceivedIsRead,
           WholeLinesLoseNothing
  <1>3. Inv /\ [CohNext]_cohVars => Inv'
    BY UsesKept, CacheKept
  <1>. HIDE DEF Inv
  <1>. QED BY <1>1, <1>2, <1>3, PTL DEF CohSpec


-----------------------------------------------------------------------------
(* Clock: delays                                                           *)

(* Quotients and products of natural numbers.                              *)
LEMMA DividedNat ==
    ASSUME NEW a \in Nat, NEW b \in Nat, b > 0
    PROVE  a \div b \in Nat /\ b * (a \div b) <= a /\ (a < b => a \div b = 0)
  OBVIOUS

LEMMA ProductGrows ==
    ASSUME NEW a \in Nat, NEW b \in Nat, NEW c \in Nat, a <= b
    PROVE  a * c <= b * c /\ c * a <= c * b
  OBVIOUS

LEMMA ProductIsNat == \A a, b \in Nat : a * b \in Nat
  OBVIOUS

\* What the assumptions say of a processor clock.
Clocked(mhz) ==
    /\ mhz \in Nat /\ mhz > 0
    /\ {Modulus, LoopClocks, ShortLoops} \subseteq Nat \ {0}
    /\ LoopClocks * ShortLoops * mhz < Modulus

(* The loop below an outer turn neither wraps nor is longer than asked, and*)
(* falls short by less than one inner loop's microseconds.                 *)
LEMMA SmallLoopsFit ==
    ASSUME NEW mhz, Clocked(mhz), NEW us \in Nat,
           us * mhz < LoopClocks * Modulus
    PROVE  /\ SmallLoops(us, mhz) \in Nat
           /\ LoopClocks * SmallLoops(us, mhz) <= us * mhz
           /\ us * mhz < LoopClocks * SmallLoops(us, mhz) + LoopClocks * mhz
  <1>. DEFINE L == LoopClocks
  <1>1. /\ mhz \in Nat /\ mhz > 0 /\ L \in Nat /\ L > 0 /\ Modulus \in Nat
        /\ ShortLoops \in Nat /\ L * ShortLoops * mhz < Modulus
    BY DEF Clocked
  <1>2. CASE us > L * ShortLoops
    <2>. DEFINE q == us \div L
    <2>1. q \in Nat /\ L * q <= us /\ us < L * q + L
      BY <1>1
    <2>2. L * q * mhz <= us * mhz
      <3>1. L * q \in Nat
        BY <1>1, <2>1, ProductIsNat
      <3>. QED BY <1>1, <2>1, <3>1, ProductGrows
    <2>3. us * mhz < L * q * mhz + L * mhz
      <3>1. L * q \in Nat /\ us + 1 \in Nat /\ L * q + L \in Nat
        BY <1>1, <2>1, ProductIsNat
      <3>2. (us + 1) * mhz <= (L * q + L) * mhz
        BY <1>1, <2>1, <3>1, ProductGrows
      <3>3. (us + 1) * mhz = us * mhz + mhz
            /\ (L * q + L) * mhz = L * q * mhz + L * mhz
        BY <1>1, <3>1
      <3>4. us * mhz \in Nat /\ L * q * mhz \in Nat /\ L * mhz \in Nat
        BY <1>1, <3>1, ProductIsNat
      <3>. QED BY <1>1, <3>2, <3>3, <3>4
    <2>4. q * mhz \in Nat /\ q * mhz < Modulus
      <3>1. q * mhz \in Nat /\ L * (q * mhz) = L * q * mhz
        BY <1>1, <2>1, ProductIsNat
      <3>2. L * (q * mhz) < L * Modulus
        <4>1. us * mhz \in Nat /\ L * q * mhz \in Nat /\ L * Modulus \in Nat
          BY <1>1, <2>1, ProductIsNat
        <4>. QED BY <2>2, <3>1, <4>1
      <3>3. ASSUME Modulus <= q * mhz PROVE FALSE
        <4>1. L * Modulus <= L * (q * mhz)
          BY <1>1, <3>1, <3>3, ProductGrows
        <4>2. L * Modulus \in Nat /\ L * (q * mhz) \in Nat
          BY <1>1, <3>1, ProductIsNat
        <4>. QED BY <3>2, <4>1, <4>2
      <3>. QED BY <1>1, <3>1, <3>3
    <2>5. SmallLoops(us, mhz) = q * mhz
      <3>. HIDE DEF q
      <3>1. (q * mhz) % Modulus = q * mhz
        BY <1>1, <2>4
      <3>. QED BY <1>2, <3>1 DEF SmallLoops, q
    <2>6. L * (q * mhz) = L * q * mhz
      BY <1>1, <2>1
    <2>. QED BY <2>2, <2>3, <2>4, <2>5, <2>6
  <1>3. CASE us <= L * ShortLoops
    <2>. DEFINE p == us * mhz
                q == p \div L
    <2>1. L * ShortLoops \in Nat /\ p \in Nat
      BY <1>1, ProductIsNat
    <2>2. p <= L * ShortLoops * mhz
      BY <1>1, <1>3, <2>1, ProductGrows
    <2>3. p < Modulus
      <3>1. L * ShortLoops * mhz \in Nat
        BY <1>1, <2>1, ProductIsNat
      <3>. QED BY <1>1, <2>1, <2>2, <3>1
    <2>4. q \in Nat /\ L * q <= p /\ p < L * q + L
      <3>. HIDE DEF p
      <3>. QED BY <1>1, <2>1
    <2>5. L <= L * mhz
      <3>1. L * 1 <= L * mhz
        BY <1>1, ProductGrows
      <3>. QED BY <1>1, <3>1
    <2>6. SmallLoops(us, mhz) = q
      <3>. HIDE DEF p
      <3>1. p % Modulus = p
        BY <1>1, <2>1, <2>3
      <3>. QED BY <1>1, <1>3, <2>1, <3>1 DEF SmallLoops, p
    <2>7. L * q \in Nat /\ L * mhz \in Nat
      BY <1>1, <2>4, ProductIsNat
    <2>. HIDE DEF q
    <2>. QED BY <1>1, <2>1, <2>4, <2>5, <2>6, <2>7
  <1>. QED
    <2>1. L * ShortLoops \in Nat
      BY <1>1, ProductIsNat
    <2>. QED BY <1>2, <1>3, <2>1


(* One turn of the outer loop, in microseconds, rounded down.              *)
LEMMA OuterTurn ==
    ASSUME NEW mhz, Clocked(mhz)
    PROVE  /\ UsPerOuter(mhz) \in Nat /\ UsPerOuter(mhz) > 0
           /\ UsPerOuter(mhz) * mhz <= LoopClocks * Modulus
           /\ LoopClocks * Modulus < UsPerOuter(mhz) * mhz + mhz
  <1>. DEFINE L == LoopClocks
              turn == L * Modulus
              u == turn \div mhz
  <1>1. /\ mhz \in Nat /\ mhz > 0 /\ L \in Nat /\ L > 0 /\ Modulus \in Nat
        /\ ShortLoops \in Nat /\ ShortLoops > 0 /\ L * ShortLoops * mhz < Modulus
    BY DEF Clocked
  <1>2. turn \in Nat
    BY <1>1, ProductIsNat
  <1>3. u \in Nat /\ u * mhz <= turn /\ turn < u * mhz + mhz
    <2>. HIDE DEF turn
    <2>. QED BY <1>1, <1>2
  <1>4. mhz <= turn
    <2>1. L * ShortLoops \in Nat
      BY <1>1, ProductIsNat
    <2>2. L * ShortLoops # 0
      BY <1>1
    <2>3. 1 * mhz <= L * ShortLoops * mhz
      BY <1>1, <2>1, <2>2, ProductGrows
    <2>4. 1 * Modulus <= L * Modulus
      BY <1>1, ProductGrows
    <2>5. L * ShortLoops * mhz \in Nat
      BY <1>1, <2>1, ProductIsNat
    <2>. QED BY <1>1, <1>2, <2>3, <2>4, <2>5
  <1>5. u # 0
    <2>. HIDE DEF turn, u
    <2>. QED BY <1>1, <1>2, <1>3, <1>4
  <1>. QED BY <1>3, <1>5 DEF UsPerOuter

(* The whole delay of a busy loop, for any clock and word.                 *)
LEMMA BusyLoopDelays ==
    ASSUME NEW mhz, Clocked(mhz), NEW us \in Nat, us # UsPerOuter(mhz)
    PROVE  /\ BusyLoop(us, mhz) \in Nat
           /\ us * mhz < BusyLoop(us, mhz) + LoopClocks * mhz
           /\ BusyLoop(us, mhz) <= us * mhz + (us \div UsPerOuter(mhz)) * mhz
  <1>. DEFINE L == LoopClocks
              U == UsPerOuter(mhz)
              big == us \div U
              rest == us - U * big
              small == SmallLoops(rest, mhz)
  <1>1. /\ mhz \in Nat /\ mhz > 0 /\ L \in Nat /\ L > 0 /\ Modulus \in Nat
        /\ U \in Nat /\ U > 0 /\ U * mhz <= L * Modulus /\ L * Modulus < U * mhz + mhz
    BY OuterTurn DEF Clocked
  <1>. HIDE DEF U
  <1>2. big \in Nat /\ rest \in Nat /\ rest < U /\ (us < U => big = 0) /\ rest = us % U
    BY <1>1
  <1>3. BusyLoop(us, mhz) = L * (big * Modulus + small)
    <2>1. CASE us > U
      <3>1. big # 0
        BY <1>1, <2>1
      <3>. QED BY <1>2, <2>1, <3>1 DEF BusyLoop, U
    <2>2. CASE ~(us > U)
      <3>1. us < U
        BY <1>1, <2>2 DEF U
      <3>2. BusyLoop(us, mhz) = L * (0 * Modulus + SmallLoops(us, mhz))
        BY <2>2 DEF BusyLoop, U
      <3>3. big = 0 /\ rest = us
        BY <1>1, <1>2, <3>1
      <3>. QED BY <3>2, <3>3
    <2>. QED BY <2>1, <2>2
  <1>4. us = U * big + rest /\ U * big \in Nat
    BY <1>1, <1>2, ProductIsNat
  <1>. HIDE DEF big, rest
  <1>5. rest * mhz < L * Modulus /\ rest * mhz \in Nat
    <2>1. (rest + 1) * mhz <= U * mhz
      BY <1>1, <1>2, ProductGrows
    <2>2. (rest + 1) * mhz = rest * mhz + mhz
      BY <1>1, <1>2
    <2>3. rest * mhz \in Nat /\ U * mhz \in Nat /\ L * Modulus \in Nat
      BY <1>1, <1>2, ProductIsNat
    <2>. QED BY <1>1, <2>1, <2>2, <2>3
  <1>6. /\ small \in Nat /\ L * small <= rest * mhz
        /\ rest * mhz < L * small + L * mhz
    BY <1>2, <1>5, SmallLoopsFit
  <1>. HIDE DEF small
  <1>7. us * mhz = big * (U * mhz) + rest * mhz
    BY <1>1, <1>2, <1>4
  <1>8. BusyLoop(us, mhz) = big * (L * Modulus) + L * small
    BY <1>1, <1>2, <1>3, <1>6
  <1>9. big * (U * mhz) <= big * (L * Modulus)
        /\ big * (L * Modulus) <= big * (U * mhz) + big * mhz
    <2>1. U * mhz \in Nat /\ L * Modulus \in Nat /\ U * mhz + mhz \in Nat
      BY <1>1, ProductIsNat
    <2>2. big * (L * Modulus) <= big * (U * mhz + mhz)
      BY <1>1, <1>2, <2>1, ProductGrows
    <2>3. big * (U * mhz + mhz) = big * (U * mhz) + big * mhz
      BY <1>1, <1>2, <2>1
    <2>. QED BY <1>1, <1>2, <2>1, <2>2, <2>3, ProductGrows
  <1>10. /\ big * (U * mhz) \in Nat /\ big * (L * Modulus) \in Nat /\ big * mhz \in Nat
         /\ L * small \in Nat /\ L * mhz \in Nat
    BY <1>1, <1>2, <1>6, ProductIsNat
  <1>. QED BY <1>5, <1>6, <1>7, <1>8, <1>9, <1>10 DEF big, U

(* The busy loop delays for what was asked, less one inner loop's          *)
(* microseconds and more by one for each turn of the outer loop, except at *)
(* exactly one outer turn; the timer exactly, while the clocks fit a word. *)
(* For every processor clock whose short delays fit a word.                *)
THEOREM DelaysAreAsAsked == ClockSpec => []SleepsAsAsked
  <1>1. {Modulus, LoopClocks, ShortLoops} \subseteq Nat \ {0}
    BY ClockConstants
  <1>2. ClockInit => SleepsAsAsked
    <2>. SUFFICES ASSUME ClockInit PROVE SleepsAsAsked
      OBVIOUS
    <2>1. UsPerOuter(1) = LoopClocks * Modulus
      <3>1. LoopClocks * Modulus \in Nat
        BY <1>1, ProductIsNat
      <3>. QED BY <3>1 DEF UsPerOuter
    <2>2. LoopClocks * Modulus \in Nat /\ LoopClocks * Modulus # 0
      BY <1>1
    <2>3. 0 \div (LoopClocks * Modulus) = 0
      BY <2>2, DividedNat
    <2>. QED BY <1>1, <2>1, <2>3 DEF ClockInit, SleepsAsAsked
  <1>3. SleepsAsAsked /\ [ClockNext]_clockVars => SleepsAsAsked'
    <2>. SUFFICES ASSUME SleepsAsAsked, [ClockNext]_clockVars PROVE SleepsAsAsked'
      OBVIOUS
    <2>1. CASE slept' = slept
      BY <2>1 DEF SleepsAsAsked
    <2>2. ASSUME NEW how \in {"loop", "timer"}, NEW us \in Delays, NEW mhz \in CpuMHz,
                 Sleep(how, us, mhz)
          PROVE  SleepsAsAsked'
      <3>1. Clocked(mhz) /\ us \in Nat /\ us * mhz = mhz * us
        BY <1>1, ClockConstants DEF Clocked
      <3>2. slept'.how = how /\ slept'.us = us /\ slept'.mhz = mhz
            /\ slept'.clocks = IF how = "loop" THEN BusyLoop(us, mhz) ELSE TimerWait(us, mhz)
        BY <2>2 DEF Sleep
      <3>3. CASE how = "timer"
        <4>1. us * mhz \in Nat
          BY <3>1, ProductIsNat DEF Clocked
        <4>2. us * mhz < Modulus => (us * mhz) % Modulus = us * mhz
          BY <1>1, <4>1
        <4>. QED BY <3>1, <3>2, <3>3, <4>2 DEF SleepsAsAsked, TimerWait
      <3>4. CASE how = "loop"
        BY <3>1, <3>2, <3>4, BusyLoopDelays DEF SleepsAsAsked
      <3>. QED BY <3>3, <3>4
    <2>3. CASE UNCHANGED clockVars
      BY <2>1, <2>3 DEF clockVars
    <2>4. CASE \E t \in Times : SetTimeOfDay(t)
      BY <2>1, <2>4 DEF SetTimeOfDay
    <2>5. CASE Tock \/ GetTimeOfDay \/ TimesCall
      BY <2>1, <2>5 DEF Tock, GetTimeOfDay, TimesCall
    <2>. QED BY <2>2, <2>3, <2>4, <2>5 DEF ClockNext
  <1>. QED BY <1>2, <1>3, PTL DEF ClockSpec


-----------------------------------------------------------------------------
(* Clock: time of day                                                      *)

(* Quotient and remainder are what they are for a divisor that fits.       *)
LEMMA IsQuotient ==
    ASSUME NEW a \in Nat, NEW b \in Nat, b > 0, NEW q \in Nat, NEW r \in 0..b - 1,
           a = q * b + r
    PROVE  a \div b = q /\ a % b = r
  <1>1. q * b \in Nat
    BY ProductIsNat
  <1>2. q * b <= a /\ a < q * b + b
    BY <1>1
  <1>3. a \div b = q
    BY <1>2, Quotient
  <1>4. a = (a \div b) * b + (a % b) /\ a % b \in Int
    BY Divided
  <1>. QED BY <1>1, <1>3, <1>4

(* Seconds and fraction are the time of the ticks, when the rate divides   *)
(* the microseconds of a second.                                           *)
LEMMA TicksAreTime ==
    ASSUME ticks_per_second \in Nat, ticks_per_second # 0, ticks \in Nat,
           US % ticks_per_second = 0
    PROVE  /\ Seconds \in Nat /\ Fraction \in 0..US - 1 /\ US \div ticks_per_second \in Nat
           /\ Seconds * US + Fraction = ticks * (US \div ticks_per_second)
  <1>. DEFINE rate == ticks_per_second
              q == US \div rate
              s == ticks \div rate
              b == ticks % rate
  <1>1. US \in Nat /\ US > 0 /\ rate \in Nat /\ rate > 0
    BY ClockConstants
  <1>2. q \in Nat /\ US = q * rate
    <2>1. q \in Nat /\ US = q * rate + (US % rate)
      BY <1>1, Divided
    <2>2. q * rate \in Nat
      BY <1>1, <2>1, ProductIsNat
    <2>. QED BY <2>1, <2>2
  <1>3. s \in Nat /\ b \in 0..rate - 1 /\ ticks = s * rate + b
    BY <1>1, Divided
  <1>. HIDE DEF q, s, b
  <1>4. ticks * q = s * US + b * q
    BY <1>1, <1>2, <1>3
  <1>5. b * q \in 0..US - 1
    <2>1. b * q \in Nat /\ (b + 1) * q <= rate * q
      BY <1>1, <1>2, <1>3, ProductIsNat, ProductGrows
    <2>2. (b + 1) * q = b * q + q /\ rate * q = US
      BY <1>1, <1>2, <1>3
    <2>3. q # 0
      BY <1>1, <1>2
    <2>. QED BY <1>1, <1>2, <2>1, <2>2, <2>3
  <1>6. ticks * q \in Nat
    BY <1>2, ProductIsNat
  <1>7. (ticks * q) % US = b * q
    <2>. DEFINE p == ticks * q
                r == b * q
    <2>1. p \in Nat /\ r \in 0..US - 1 /\ p = s * US + r
      BY <1>4, <1>5, <1>6
    <2>. HIDE DEF p, r
    <2>2. p % US = r
      BY <1>1, <1>3, <2>1, IsQuotient
    <2>. QED BY <2>2 DEF p, r
  <1>. QED BY <1>2, <1>3, <1>4, <1>5, <1>7 DEF Seconds, Fraction, q, s

(* A time that is not before zero keeps its value and gets a normal form.  *)
LEMMA NormalisedKeeps ==
    ASSUME NEW t \in TimeVal, Total(t) >= 0
    PROVE  /\ Normalised(t).tv_usec \in 0..US - 1
           /\ Total(Normalised(t)) = Total(t)
  <1>. DEFINE sec == t.tv_sec
              usec == t.tv_usec
              n == [tv_sec |-> sec + usec \div US, tv_usec |-> usec % US]
  <1>1. US \in Int /\ US > 0 /\ sec \in Int /\ usec \in Int /\ sec * US \in Int
    BY ClockConstants DEF TimeVal
  <1>2. ~(usec < 0 /\ sec <= (-usec - 1) \div US)
    <2>. SUFFICES ASSUME usec < 0, sec <= (-usec - 1) \div US PROVE FALSE
      OBVIOUS
    <2>. DEFINE d == -usec - 1
                k == d \div US
    <2>1. d \in Nat /\ k \in Nat /\ k * US <= d /\ k * US \in Nat
      <3>1. d \in Nat
        BY <1>1
      <3>. HIDE DEF d
      <3>2. US \in Nat \ {0}
        BY <1>1
      <3>3. k \in Nat /\ k * US <= d
        BY <3>1, <3>2, Divided
      <3>. QED BY <3>1, <3>2, <3>3, ProductIsNat
    <2>2. sec <= k
      OBVIOUS
    <2>. HIDE DEF k
    <2>3. sec * US <= k * US
      <3>1. k - sec \in Nat /\ US \in Nat
        BY <1>1, <2>1, <2>2
      <3>2. (k - sec) * US \in Nat
        BY <3>1, ProductIsNat
      <3>3. (k - sec) * US = k * US - sec * US
        BY <1>1, <2>1
      <3>. QED BY <1>1, <2>1, <3>2, <3>3
    <2>. QED BY <1>1, <2>1, <2>3 DEF Total
  <1>3. usec \div US \in Int /\ usec % US \in 0..US - 1
        /\ usec = US * (usec \div US) + (usec % US)
    BY <1>1
  <1>4. Normalised(t) = n
    BY <1>2 DEF Normalised
  <1>5. Total(n) = Total(t)
    <2>. DEFINE k == usec \div US
                m == usec % US
    <2>1. k \in Int /\ m \in Int /\ usec = US * k + m
      BY <1>3
    <2>2. Total(n) = (sec + k) * US + m
      BY DEF Total
    <2>. HIDE DEF k, m
    <2>3. (sec + k) * US + m = sec * US + usec
      BY <1>1, <2>1
    <2>. QED BY <2>2, <2>3 DEF Total
  <1>. QED BY <1>3, <1>4, <1>5

\* The clock runs at a rate that divides the microseconds of a second.
EvenRate == ticks_per_second # 0 /\ US % ticks_per_second = 0

TimeInv ==
    /\ ticks_per_second \in Nat /\ ticks \in Nat /\ resettime \in TimeVal
    /\ set.time \in Nat /\ set.at \in Nat /\ set.at <= ticks
    /\ EvenRate =>
         Total(resettime) = set.time - set.at * (US \div ticks_per_second)

LEMMA ClockStarts == ClockInit => TimeInv
  <1>. SUFFICES ASSUME ClockInit PROVE TimeInv
    OBVIOUS
  <1>1. US \in Nat /\ ticks_per_second \in Nat
    <2>1. US \in Nat /\ TickRates \subseteq 0..US
      BY ClockConstants
    <2>2. ticks_per_second \in TickRates
      BY DEF ClockInit
    <2>. QED BY <2>1, <2>2
  <1>2. Total(resettime) = 0
    BY <1>1 DEF ClockInit, Total, Zero
  <1>3. EvenRate => set.at * (US \div ticks_per_second) = 0
    BY <1>1, TicksAreTime DEF ClockInit, EvenRate
  <1>. QED BY <1>1, <1>2, <1>3 DEF ClockInit, TimeInv, TimeVal, Zero

(* Setting the time makes tick zero the time set less that of the ticks.   *)
LEMMA SettingKeepsTime ==
    ASSUME TimeInv, NEW t \in Times, SetTimeOfDay(t), ticks_per_second # 0
    PROVE  TimeInv'
  <1>1. US \in Nat /\ US > 0 /\ t.tv_sec \in Nat /\ t.tv_usec \in 0..US - 1
    BY ClockConstants
  <1>2. Seconds \in Int /\ Fraction \in Int
    BY <1>1 DEF Seconds, Fraction, TimeInv
  <1>3. /\ resettime' = [tv_sec |-> t.tv_sec - Seconds, tv_usec |-> t.tv_usec - Fraction]
        /\ set' = [time |-> Total(t), at |-> ticks]
        /\ ticks_per_second' = ticks_per_second /\ ticks' = ticks
    BY DEF SetTimeOfDay
  <1>4. Total(t) \in Nat
    BY <1>1, ProductIsNat DEF Total
  <1>5. ASSUME EvenRate
        PROVE  Total(resettime)' = Total(t) - ticks * (US \div ticks_per_second)
    <2>1. Seconds * US + Fraction = ticks * (US \div ticks_per_second)
      BY <1>5, TicksAreTime DEF TimeInv, EvenRate
    <2>2. Total(resettime)' = (t.tv_sec - Seconds) * US + (t.tv_usec - Fraction)
      BY <1>3 DEF Total
    <2>3. (t.tv_sec - Seconds) * US = t.tv_sec * US - Seconds * US
      BY <1>1, <1>2
    <2>4. t.tv_sec * US \in Int /\ Seconds * US \in Int
      BY <1>1, <1>2
    <2>. QED BY <1>1, <1>2, <2>1, <2>2, <2>3, <2>4 DEF Total
  <1>6. resettime' \in TimeVal
    BY <1>1, <1>2, <1>3 DEF TimeVal
  <1>. QED BY <1>3, <1>4, <1>5, <1>6 DEF TimeInv, EvenRate

LEMMA ClockKeepsTime == TimeInv /\ [ClockNext]_clockVars => TimeInv'
  <1>. SUFFICES ASSUME TimeInv, [ClockNext]_clockVars PROVE TimeInv'
    OBVIOUS
  <1>1. CASE /\ UNCHANGED <<ticks_per_second, resettime, set>>
             /\ ticks' \in Nat /\ ticks <= ticks'
    BY <1>1 DEF TimeInv, EvenRate, Total
  <1>2. ticks \in Nat /\ ticks <= ticks /\ ticks + 1 \in Nat /\ ticks <= ticks + 1
    BY DEF TimeInv
  <1>3. ASSUME NEW t \in Times, SetTimeOfDay(t) PROVE TimeInv'
    BY <1>1, <1>2, <1>3, SettingKeepsTime DEF SetTimeOfDay
  <1>4. CASE Tock
    BY <1>1, <1>2, <1>4 DEF Tock
  <1>5. CASE GetTimeOfDay \/ TimesCall \/ UNCHANGED clockVars
    BY <1>1, <1>2, <1>5 DEF GetTimeOfDay, TimesCall, clockVars
  <1>6. ASSUME NEW how, NEW us, NEW mhz, Sleep(how, us, mhz) PROVE TimeInv'
    BY <1>1, <1>2, <1>6 DEF Sleep
  <1>. QED BY <1>3, <1>4, <1>5, <1>6 DEF ClockNext

(* gettimeofday gives the time last set and the ticks since, in normal     *)
(* form, at every rate that divides the microseconds of a second: the      *)
(* negative fraction that settimeofday may leave is borrowed back, and the *)
(* time never goes below zero.                                             *)
THEOREM TimeOfDayIsKept == ClockSpec => TimeIsKept
  <1>1. ASSUME TimeInv, GetTimeOfDay, told'.result = "ok", US % ticks_per_second = 0
        PROVE  /\ told'.time.tv_usec \in 0..US - 1
               /\ Total(told'.time) = set.time
                      + (ticks - set.at) * (US \div ticks_per_second)
    <2>. DEFINE q == US \div ticks_per_second
                now == [tv_sec |-> resettime.tv_sec + Seconds,
                        tv_usec |-> resettime.tv_usec + Fraction]
    <2>1. ticks_per_second # 0 /\ told'.time = Normalised(now)
      BY <1>1 DEF GetTimeOfDay
    <2>2. EvenRate /\ US \in Nat /\ ticks_per_second \in Nat /\ ticks \in Nat
          /\ resettime \in TimeVal /\ set.time \in Nat /\ set.at \in Nat /\ set.at <= ticks
      BY <1>1, <2>1, ClockConstants DEF TimeInv, EvenRate
    <2>3. Seconds \in Nat /\ Fraction \in Nat /\ q \in Nat
          /\ Seconds * US + Fraction = ticks * q
      BY <1>1, <2>1, <2>2, TicksAreTime
    <2>4. Total(resettime) = set.time - set.at * q
      BY <1>1, <2>2 DEF TimeInv
    <2>. HIDE DEF q
    <2>5. now \in TimeVal
      BY <2>2, <2>3 DEF TimeVal
    <2>6. Total(now) = Total(resettime) + ticks * q
      <3>1. Total(now) = (resettime.tv_sec + Seconds) * US + (resettime.tv_usec + Fraction)
        BY DEF Total
      <3>2. (resettime.tv_sec + Seconds) * US = resettime.tv_sec * US + Seconds * US
        BY <2>2, <2>3 DEF TimeVal
      <3>3. /\ resettime.tv_sec * US \in Int /\ Seconds * US \in Int
            /\ resettime.tv_usec \in Int
        BY <2>2, <2>3 DEF TimeVal
      <3>. QED BY <2>3, <3>1, <3>2, <3>3 DEF Total
    <2>7. Total(now) = set.time + (ticks - set.at) * q /\ Total(now) >= 0
      <3>1. (ticks - set.at) * q = ticks * q - set.at * q
        BY <2>2, <2>3
      <3>2. ticks * q \in Nat /\ set.at * q \in Nat /\ (ticks - set.at) * q \in Nat
        <4>1. ticks - set.at \in Nat
          BY <2>2
        <4>. QED BY <2>2, <2>3, <4>1, ProductIsNat
      <3>. QED BY <2>2, <2>4, <2>6, <3>1, <3>2
    <2>. HIDE DEF now
    <2>. QED BY <2>1, <2>5, <2>7, NormalisedKeeps DEF q
  <1>2. TimeInv /\ [ClockNext]_clockVars =>
          [ GetTimeOfDay /\ told'.result = "ok" /\ US % ticks_per_second = 0 =>
                /\ told'.time.tv_usec \in 0..US - 1
                /\ Total(told'.time) = set.time
                       + (ticks - set.at) * (US \div ticks_per_second) ]_clockVars
    BY <1>1
  <1>. QED BY <1>2, ClockStarts, ClockKeepsTime, PTL DEF ClockSpec, TimeIsKept


-----------------------------------------------------------------------------
(* Logging                                                                 *)

\* The task alone logs: no flag of a handler is set.
TaskAlone == log_flags \cap {"sys_clk", "alarm", "isr"} = {}

PortType ==
    /\ left \in [LogLevel -> Nat] /\ ready \subseteq LogLevel
    /\ wspace \in 0..FifoDepth /\ report_in \in Nat
    /\ \A l \in ready : left[l] > 0

(* Then no handler has characters to send, so the room that the task has   *)
(* seen is still there when it writes.                                     *)
PortInv ==
    /\ PortType
    /\ TaskAlone => /\ left["isr"] = 0 /\ report_in = 0 /\ ~lost
                    /\ "task" \in ready => wspace > 0

LEMMA PortStarts == LogInit => PortInv
  BY LoggingConstants DEF LogInit, PortInv, PortType, LogLevel

LEMMA PortIsKept ==
    ASSUME PortInv, NEW l \in LogLevel, Look(l) \/ Put(l) \/ HostReads
    PROVE  PortInv'
  <1>. USE LoggingConstants DEF PortInv, PortType, LogLevel
  <1>1. log_flags' = log_flags /\ report_in' = report_in
    BY DEF Look, Put, HostReads, clockOnly
  <1>2. CASE Look(l)
    BY <1>1, <1>2 DEF Look, HasRoom, TaskAlone
  <1>3. CASE HostReads
    BY <1>1, <1>3 DEF HostReads, TaskAlone
  <1>4. CASE Put(l)
    <2>1. /\ ready' = ready \ {l} /\ l \in ready /\ left[l] > 0
          /\ left' = [left EXCEPT ![l] = @ - 1]
      BY <1>4 DEF Put
    <2>2. wspace' \in 0..FifoDepth
      BY <1>4 DEF Put
    <2>3. PortType'
      BY <1>1, <2>1, <2>2
    <2>4. ASSUME TaskAlone
          PROVE  left'["isr"] = 0 /\ report_in' = 0 /\ ~lost' /\ "task" \notin ready'
      <3>1. l = "task" /\ wspace > 0
        BY <2>1, <2>4
      <3>. QED BY <1>1, <1>4, <2>1, <2>4, <3>1 DEF Put
    <2>. QED BY <1>1, <2>3, <2>4 DEF TaskAlone
  <1>. QED BY <1>2, <1>3, <1>4

LEMMA SendingIsKept ==
    ASSUME PortInv, NEW l \in LogLevel, NEW n \in Nat, Sends(l, n),
           UNCHANGED <<log_flags, portOnly>>, report_in' \in Nat,
           TaskAlone => report_in' = 0 /\ (l = "isr" => n = 0)
    PROVE  PortInv'
  <1>1. /\ left \in [LogLevel -> Nat] /\ left' = [left EXCEPT ![l] = @ + n]
        /\ ready' = ready /\ wspace' = wspace /\ lost' = lost /\ log_flags' = log_flags
    BY DEF PortInv, PortType, Sends, portOnly
  <1>2. /\ left' \in [LogLevel -> Nat] /\ \A k \in LogLevel : left'[k] >= left[k]
        /\ \A k \in LogLevel : k # l \/ n = 0 => left'[k] = left[k]
    BY <1>1
  <1>3. PortType'
    BY <1>1, <1>2 DEF PortInv, PortType
  <1>. QED BY <1>1, <1>2, <1>3 DEF PortInv, TaskAlone, LogLevel

LEMMA LoggingKeepsPort == PortInv /\ [LogNext]_logVars => PortInv'
  <1>. SUFFICES ASSUME PortInv, [LogNext]_logVars PROVE PortInv'
    OBVIOUS
  <1>. USE LoggingConstants DEF LogLevel
  <1>1. report_in \in Nat /\ (TaskAlone => report_in = 0) /\ StatusLen \in Nat
        /\ ReportInterval \in Nat
    BY DEF PortInv, PortType
  <1>2. CASE LogBoot
    BY <1>1, <1>2, SendingIsKept DEF LogBoot, If, clockOnly
  <1>3. CASE LogStartup
    BY <1>1, <1>3, SendingIsKept DEF LogStartup, If, TaskAlone
  <1>4. ASSUME NEW len \in WriteLens, LogWrite(len) PROVE PortInv'
    <2>1. EchoLength(len) \in Nat
      BY DEF EchoLength
    <2>. QED BY <1>1, <1>4, <2>1, SendingIsKept DEF LogWrite, If, clockOnly
  <1>5. CASE TickHandler
    <2>. DEFINE n == (IF HeartBeats THEN StatusLen ELSE 0) + (IF Reports THEN StatusLen ELSE 0)
    <2>1. n \in Nat /\ (TaskAlone => n = 0)
      BY <1>1 DEF HeartBeats, Reports, TaskAlone
    <2>2. report_in' \in Nat /\ (TaskAlone => report_in' = 0)
      BY <1>1, <1>5 DEF TickHandler, Report, Reports
    <2>3. Sends("isr", n) /\ UNCHANGED <<log_flags, portOnly>>
      BY <1>5 DEF TickHandler
    <2>. HIDE DEF n
    <2>. QED BY <2>1, <2>2, <2>3, SendingIsKept
  <1>6. CASE UartHandler
    BY <1>1, <1>6, SendingIsKept DEF UartHandler, If, clockOnly, TaskAlone
  <1>7. CASE HandlerEnds \/ UNCHANGED logVars
    <2>1. UNCHANGED <<log_flags, left, report_in, portOnly>>
      BY <1>7 DEF HandlerEnds, logVars, clockOnly, portOnly
    <2>. QED BY <2>1 DEF portOnly, PortInv, PortType, TaskAlone
  <1>. QED BY <1>2, <1>3, <1>4, <1>5, <1>6, <1>7, PortIsKept DEF LogNext, InHandler

(* At the port a character is lost only to a handler that logs between the *)
(* task's look and its write, for every size of the FIFO and every length  *)
(* of the messages.                                                        *)
THEOREM TaskAloneLosesNothing == LogSpec => []LostOnlyToHandlers
  <1>1. PortInv => LostOnlyToHandlers
    BY DEF PortInv, LostOnlyToHandlers, TaskAlone
  <1>. QED BY <1>1, PortStarts, LoggingKeepsPort, PTL DEF LogSpec


-----------------------------------------------------------------------------
(* Device feature lists: the walk stays on the list                        *)

\* At a header that is there, and at a parameter that is there.
Spots == [step : {"enter", "params", "next"}, dfh : DOMAIN dfl.at, param : Int]
OnList(s) ==
    /\ s \in Spots
    /\ s.step = "params" => s.param \in DOMAIN Header(s.dfh).params

OnListInv ==
    /\ dfl \in Lists /\ pass \in {"idle", "counting", "collecting"}
    /\ IF pass = "idle" THEN spot.step = "off" ELSE OnList(spot)
    /\ calls \in Seq(Spots)
    /\ \A i \in 1..Len(calls) : OnList(calls[i]) /\ calls[i].step = "params"

\* A list of parameters that has one has a first and a last.
LEMMA ParametersEnd ==
    ASSUME dfl \in Lists, NEW a \in DOMAIN dfl.at, Header(a).params # <<>>
    PROVE  /\ 1 \in DOMAIN Header(a).params
           /\ \A i \in DOMAIN Header(a).params :
                 i \in Nat \ {0} /\
                 (~Header(a).params[i].last => i + 1 \in DOMAIN Header(a).params)
           /\ \E i \in DOMAIN Header(a).params : Header(a).params[i].last
  <1>1. PICK n \in DOMAIN Header(a).params :
            n \in Nat /\ DOMAIN Header(a).params = 1..n /\ Header(a).params[n].last
    BY ListsAreWellFormed DEF WellFormed, Header
  <1>. QED BY <1>1

LEMMA AfterIsOnList ==
    ASSUME dfl \in Lists, NEW s, OnList(s), s.step = "params"
    PROVE  OnList(After(s)) /\ OnList(Skipped(s))
  <1>1. WellFormed(dfl)
    BY ListsAreWellFormed
  <1>2. s.dfh \in DOMAIN dfl.at /\ s.param \in DOMAIN dfl.at[s.dfh].params /\ s \in Spots
    BY DEF OnList, Spots, Header
  <1>3. ~dfl.at[s.dfh].params[s.param].last => s.param + 1 \in DOMAIN dfl.at[s.dfh].params
    <2>1. DOMAIN <<>> = {}
      OBVIOUS
    <2>2. dfl.at[s.dfh].params # <<>>
      BY <1>2, <2>1
    <2>. QED BY <1>2, <2>2, ParametersEnd DEF Header
  <1>4. OnList([s EXCEPT !.step = "next"])
    BY <1>2 DEF OnList, Spots
  <1>5. OnList(After(s))
    <2>1. CASE dfl.at[s.dfh].params[s.param].last
      BY <1>4, <2>1 DEF After, Header
    <2>2. CASE ~dfl.at[s.dfh].params[s.param].last
      <3>1. After(s) = [s EXCEPT !.step = "params", !.param = @ + 1]
        BY <2>2 DEF After, Header
      <3>2. After(s) = [step |-> "params", dfh |-> s.dfh, param |-> s.param + 1]
        BY <1>2, <3>1 DEF Spots
      <3>. QED BY <1>2, <1>3, <2>2, <3>2 DEF OnList, Spots, Header
    <2>. QED BY <2>1, <2>2
  <1>. QED BY <1>4, <1>5 DEF Skipped

LEMMA WalkStaysOnList == OnListInv /\ [WalkNext]_walkVars => OnListInv'
  <1>. SUFFICES ASSUME OnListInv, [WalkNext]_walkVars PROVE OnListInv'
    OBVIOUS
  <1>1. WellFormed(dfl)
    BY ListsAreWellFormed DEF OnListInv
  <1>2. CASE UNCHANGED <<dfl, pass, spot, calls>>
    BY <1>2 DEF OnListInv, OnList, Spots, Header
  <1>3. CASE \/ UNCHANGED walkVars \/ Cleanup
             \/ \E kind \in {"mmio", "irq"}, i \in DOMAIN table :
                    FpgaOpen(kind, i) \/ FpgaClose(kind, i)
    BY <1>2, <1>3 DEF walkVars, walkerOnly, Cleanup, FpgaOpen, FpgaClose
  <1>4. ASSUME dfl' = dfl, pass' \in {"idle", "counting", "collecting"}, calls' = calls,
               IF pass' = "idle" THEN spot'.step = "off" ELSE OnList(spot')
        PROVE  OnListInv'
    BY <1>4 DEF OnListInv, OnList, Spots, Header
  <1>5. CASE Scan \/ CountingEnds
    <2>1. /\ dfl' = dfl /\ calls' = calls /\ pass' \in {"counting", "collecting"}
          /\ spot' = [step |-> "enter", dfh |-> dfl.first, param |-> 1]
      BY <1>5 DEF Scan, CountingEnds
    <2>2. OnList(spot')
      BY <1>1, <2>1 DEF OnList, Spots, WellFormed
    <2>. QED BY <1>4, <2>1, <2>2
  <1>6. CASE CollectingEnds
    BY <1>4, <1>6 DEF CollectingEnds, Nowhere
  <1>8. CASE pass # "idle" /\ (Enter \/ NextHeader)
    <2>1. OnList(spot) /\ spot \in Spots
      BY <1>8 DEF OnListInv, OnList
    <2>2. CASE Enter
      <3>1. spot' = [step |-> IF HasParams(spot.dfh) THEN "params" ELSE "next",
                     dfh |-> spot.dfh, param |-> 1]
        BY <2>1, <2>2 DEF Enter, Spots
      <3>2. HasParams(spot.dfh) => 1 \in DOMAIN Header(spot.dfh).params
        <4>1. spot.dfh \in DOMAIN dfl.at /\ dfl \in Lists
          BY <2>1 DEF Spots, OnListInv
        <4>. QED BY <4>1, ParametersEnd DEF HasParams
      <3>3. OnList(spot')
        BY <2>1, <3>1, <3>2 DEF OnList, Spots
      <3>. QED BY <1>4, <2>2, <3>3 DEF Enter, OnListInv
    <2>3. CASE NextHeader
      <3>1. spot' = [step |-> "enter", dfh |-> NextDfh(spot.dfh), param |-> spot.param]
        BY <2>1, <2>3 DEF NextHeader, Spots
      <3>2. NextDfh(spot.dfh) \in DOMAIN dfl.at
        BY <1>1, <2>1, <2>3 DEF NextHeader, IsEol, NextDfh, Header, WellFormed, Spots
      <3>3. OnList(spot')
        BY <2>1, <3>1, <3>2 DEF OnList, Spots
      <3>. QED BY <1>4, <2>3, <3>3 DEF NextHeader, OnListInv
    <2>. QED BY <1>8, <2>2, <2>3
  <1>9. CASE pass # "idle" /\ Param
    <2>. DEFINE block == Header(spot.dfh).params[spot.param]
    <2>1. OnList(spot) /\ spot \in Spots /\ spot.step = "params"
          /\ dfl' = dfl /\ pass' = pass
      BY <1>9 DEF OnListInv, OnList, Param
    <2>2. CASE ~IsNull(block) /\ block.id = BranchId
      <3>1. /\ spot' = [step |-> "enter", dfh |-> BranchTarget(spot.dfh, block), param |-> 1]
            /\ calls' = Append(calls, spot)
        BY <1>9, <2>2 DEF Param
      <3>2. BranchTarget(spot.dfh, block) \in DOMAIN dfl.at
        BY <1>1, <2>1, <2>2 DEF OnList, Spots, Header, WellFormed
      <3>3. OnList(spot')
        BY <3>1, <3>2 DEF OnList, Spots
      <3>4. calls \in Seq(Spots) /\ \A i \in 1..Len(calls) :
                OnList(calls[i]) /\ calls[i].step = "params"
        BY DEF OnListInv
      <3>5. calls' \in Seq(Spots) /\ \A i \in 1..Len(calls') :
                OnList(calls'[i]) /\ calls'[i].step = "params"
        <4>. HIDE DEF Spots, OnList
        <4>. QED BY <2>1, <3>1, <3>4
      <3>6. Spots' = Spots /\ \A s : OnList(s)' <=> OnList(s)
        BY <2>1 DEF OnList, Spots, Header
      <3>. HIDE DEF OnList, Spots
      <3>. QED BY <2>1, <3>3, <3>5, <3>6 DEF OnListInv
    <2>3. CASE ~(~IsNull(block) /\ block.id = BranchId)
      <3>1. spot' = Skipped(spot) /\ calls' = calls
        BY <1>9, <2>3 DEF Param
      <3>2. OnList(spot')
        BY <2>1, <3>1, AfterIsOnList DEF OnListInv
      <3>. QED BY <1>4, <2>1, <3>1, <3>2 DEF OnListInv
    <2>. QED BY <2>2, <2>3
  <1>10. CASE pass # "idle" /\ LevelEnds
    <2>. DEFINE n == Len(calls)
    <2>1. /\ calls \in Seq(Spots) /\ calls # <<>> /\ dfl' = dfl /\ pass' = pass
          /\ spot' = After(calls[n]) /\ calls' = SubSeq(calls, 1, n - 1)
          /\ \A i \in 1..n : OnList(calls[i]) /\ calls[i].step = "params"
      BY <1>10 DEF LevelEnds, OnListInv
    <2>2. n \in Nat /\ n > 0
      BY <2>1
    <2>3. OnList(spot')
      BY <2>1, <2>2, AfterIsOnList DEF OnListInv
    <2>4. calls' \in Seq(Spots) /\ \A i \in 1..Len(calls') :
              OnList(calls'[i]) /\ calls'[i].step = "params"
      <3>. HIDE DEF Spots, OnList
      <3>. DEFINE m == n - 1
      <3>1. m \in Nat /\ \A i \in 1..m : calls[i] \in Spots
        BY <2>1, <2>2
      <3>. HIDE DEF m
      <3>2. /\ SubSeq(calls, 1, m) \in Seq(Spots) /\ Len(SubSeq(calls, 1, m)) = m
            /\ \A i \in 1..m : SubSeq(calls, 1, m)[i] = calls[i]
        BY <3>1, SubSeqProperties
      <3>3. calls' = SubSeq(calls, 1, m) /\ m <= n
        BY <2>1, <2>2 DEF m
      <3>. QED BY <2>1, <2>2, <3>1, <3>2, <3>3
    <2>5. Spots' = Spots /\ \A s : OnList(s)' <=> OnList(s)
      BY <2>1 DEF OnList, Spots, Header
    <2>. HIDE DEF OnList, Spots
    <2>6. dfl' \in Lists /\ pass' \in {"idle", "counting", "collecting"} /\ pass' # "idle"
      BY <1>10, <2>1 DEF OnListInv
    <2>. QED BY <2>3, <2>4, <2>5, <2>6 DEF OnListInv
  <1>11. CASE pass = "idle" /\ (Enter \/ Param \/ NextHeader \/ LevelEnds)
    BY <1>11 DEF OnListInv, Enter, Param, NextHeader, LevelEnds
  <1>. QED BY <1>3, <1>5, <1>6, <1>8, <1>9, <1>10, <1>11 DEF WalkNext, Walk


-----------------------------------------------------------------------------
(* Device feature lists: the two passes                                    *)

\* Where the walk is; and what comes next, which depends on nothing else.
Place == [spot |-> spot, calls |-> calls]
Start == [spot |-> [step |-> "enter", dfh |-> dfl.first, param |-> 1], calls |-> <<>>]
AtEnd(p) == p.spot.step = "next" /\ IsEol(p.spot.dfh) /\ p.calls = <<>>
Entries(p) == IF p.spot.step = "enter" THEN 1 ELSE 0

Onward(p) ==
    LET s == p.spot
        block == Header(s.dfh).params[s.param]
    IN  CASE s.step = "enter" ->
               [spot |-> [s EXCEPT !.step = IF HasParams(s.dfh) THEN "params" ELSE "next",
                                   !.param = 1],
                calls |-> p.calls]
          [] s.step = "params" /\ ~IsNull(block) /\ block.id = BranchId ->
               [spot |-> [step |-> "enter", dfh |-> BranchTarget(s.dfh, block), param |-> 1],
                calls |-> Append(p.calls, s)]
          [] s.step = "params" /\ (IsNull(block) \/ block.id # BranchId) ->
               [spot |-> Skipped(s), calls |-> p.calls]
          [] s.step = "next" /\ ~IsEol(s.dfh) ->
               [spot |-> [s EXCEPT !.step = "enter", !.dfh = NextDfh(s.dfh)],
                calls |-> p.calls]
          [] s.step = "next" /\ IsEol(s.dfh) ->
               [spot |-> After(p.calls[Len(p.calls)]),
                calls |-> SubSeq(p.calls, 1, Len(p.calls) - 1)]

\* The first n moves of a pass from the start: its places, and how many
\* interfaces were entered before each.
Trail(places, entered, n) ==
    /\ n \in Nat /\ entered \in [Nat -> Nat]
    /\ places[0] = Start /\ entered[0] = 0
    /\ \A k \in 0..n - 1 : /\ ~AtEnd(places[k]) /\ places[k + 1] = Onward(places[k])
                           /\ entered[k + 1] = entered[k] + Entries(places[k])
    /\ \A k \in 0..n : entered[k] <= entered[n]

\* The first pass is at the end of its trail.
Counts1(places, entered, n) ==
    Trail(places, entered, n) /\ places[n] = Place /\ entered[n] = scanned

\* The second goes the same way, up to where the first ended.
Follows(places, entered, n, m) ==
    /\ Trail(places, entered, n) /\ AtEnd(places[n]) /\ entered[n] = scanned
    /\ m \in 0..n /\ places[m] = Place /\ entered[m] = interface_index + 1

PassInv ==
    /\ scanned \in Nat /\ interface_index \in Int
    /\ pass = "idle" => calls = <<>>
    /\ pass = "counting" => \E places, entered, n : Counts1(places, entered, n)
    /\ pass = "collecting" =>
         \E places, entered, n, m : Follows(places, entered, n, m)

(* Every step of a pass but its last is the move from the place it is at.  *)
LEMMA WalkMovesOnward ==
    ASSUME OnListInv, Enter \/ Param \/ NextHeader \/ LevelEnds
    PROVE  /\ Place' = Onward(Place) /\ ~AtEnd(Place) /\ dfl' = dfl /\ pass' = pass
           /\ Entries(Place) = IF Enter THEN 1 ELSE 0
  <1>. DEFINE block == Header(spot.dfh).params[spot.param]
  <1>1. spot.step # "off" => spot \in Spots
    BY DEF OnListInv, OnList
  <1>2. CASE Enter
    BY <1>2 DEF Enter, Place, Onward, AtEnd, Entries
  <1>3. CASE NextHeader
    BY <1>3 DEF NextHeader, Enter, Place, Onward, AtEnd, Entries
  <1>4. CASE Param
    <2>1. CASE ~IsNull(block) /\ block.id = BranchId
      <3>1. /\ spot.step = "params" /\ dfl' = dfl /\ pass' = pass
            /\ spot' = [step |-> "enter", dfh |-> BranchTarget(spot.dfh, block), param |-> 1]
            /\ calls' = Append(calls, spot)
        BY <1>4, <2>1 DEF Param
      <3>2. Onward(Place) = [spot |-> spot', calls |-> calls']
        BY <2>1, <3>1 DEF Place, Onward
      <3>. HIDE DEF block
      <3>. QED BY <3>1, <3>2 DEF Place, AtEnd, Entries, Enter
    <2>2. CASE ~(~IsNull(block) /\ block.id = BranchId)
      <3>1. /\ spot.step = "params" /\ dfl' = dfl /\ pass' = pass
            /\ spot' = Skipped(spot) /\ calls' = calls
        BY <1>4, <2>2 DEF Param
      <3>2. Onward(Place) = [spot |-> Skipped(spot), calls |-> calls]
        BY <2>2, <3>1 DEF Place, Onward
      <3>. HIDE DEF block
      <3>. QED BY <3>1, <3>2 DEF Place, AtEnd, Entries, Enter
    <2>. QED BY <2>1, <2>2
  <1>5. CASE LevelEnds
    BY <1>5 DEF LevelEnds, Enter, Place, Onward, AtEnd, Entries
  <1>. QED BY <1>2, <1>3, <1>4, <1>5

\* A trail is of the list that the hardware holds.
LEMMA TrailStays ==
    ASSUME dfl' = dfl, NEW places, NEW entered, NEW n, Trail(places, entered, n)
    PROVE  Trail(places, entered, n)'
  <1>1. Start' = Start
    BY DEF Start
  <1>2. ASSUME NEW p PROVE AtEnd(p)' = AtEnd(p)
    BY DEF AtEnd, IsEol, Header
  <1>3. ASSUME NEW p PROVE Onward(p)' = Onward(p)
    BY DEF Onward, IsEol, Header, HasParams, NextDfh, Skipped, After
  <1>4. ASSUME NEW p PROVE Entries(p)' = Entries(p)
    BY DEF Entries
  <1>. QED BY <1>1, <1>2, <1>3, <1>4 DEF Trail

(* A trail goes on by the next move.                                       *)
LEMMA TrailGrows ==
    ASSUME NEW places, NEW entered, NEW n, Trail(places, entered, n),
           ~AtEnd(places[n]), NEW next1, next1 = Onward(places[n])
    PROVE  \E p, e : /\ Trail(p, e, n + 1) /\ p[n + 1] = next1
                     /\ e[n + 1] = entered[n] + Entries(places[n])
  <1>. DEFINE p == [k \in Nat |-> IF k = n + 1 THEN next1 ELSE places[k]]
              e == [k \in Nat |-> IF k = n + 1 THEN entered[n] + Entries(places[n])
                                  ELSE entered[k]]
  <1>1. /\ n \in Nat /\ entered \in [Nat -> Nat] /\ places[0] = Start /\ entered[0] = 0
        /\ \A k \in 0..n - 1 : /\ ~AtEnd(places[k]) /\ places[k + 1] = Onward(places[k])
                               /\ entered[k + 1] = entered[k] + Entries(places[k])
        /\ \A k \in 0..n : entered[k] <= entered[n]
    BY DEF Trail
  <1>2. Entries(places[n]) \in {0, 1}
    BY DEF Entries
  <1>3. /\ \A k \in 0..n : p[k] = places[k] /\ e[k] = entered[k]
        /\ p[n + 1] = next1 /\ e[n + 1] = entered[n] + Entries(places[n])
        /\ e \in [Nat -> Nat]
    BY <1>1, <1>2
  <1>. HIDE DEF p, e
  <1>4. ASSUME NEW k \in 0..n
        PROVE  /\ ~AtEnd(p[k]) /\ p[k + 1] = Onward(p[k])
               /\ e[k + 1] = e[k] + Entries(p[k])
    <2>1. CASE k = n
      BY <1>1, <1>3, <2>1
    <2>2. CASE k # n
      <3>1. k \in 0..n - 1 /\ k + 1 \in 0..n
        BY <1>1, <2>2
      <3>. QED BY <1>1, <1>3, <3>1
    <2>. QED BY <2>1, <2>2
  <1>5. \A k \in 0..n + 1 : e[k] <= e[n + 1]
    <2>. SUFFICES ASSUME NEW k \in 0..n + 1 PROVE e[k] <= e[n + 1]
      OBVIOUS
    <2>1. CASE k = n + 1
      BY <1>1, <1>3, <2>1
    <2>2. CASE k # n + 1
      <3>1. k \in 0..n /\ entered[k] \in Nat /\ entered[n] \in Nat
        BY <1>1, <2>2
      <3>. QED BY <1>1, <1>2, <1>3, <3>1
    <2>. QED BY <2>1, <2>2
  <1>6. n + 1 \in Nat /\ (n + 1) - 1 = n /\ 0 \in 0..n
    BY <1>1
  <1>7. Trail(p, e, n + 1)
    BY <1>1, <1>3, <1>4, <1>5, <1>6 DEF Trail
  <1>. QED BY <1>3, <1>7

(* The second pass enters no more than the first has counted.              *)
LEMMA FollowerIsInside ==
    ASSUME NEW places, NEW entered, NEW n, NEW m, Follows(places, entered, n, m),
           scanned \in Nat, interface_index \in Int
    PROVE  /\ interface_index + Entries(Place) < scanned
           /\ AtEnd(Place) => interface_index + 1 = scanned
           /\ ~AtEnd(Place) => m + 1 \in 0..n
           /\ interface_index >= -1
  <1>1. /\ n \in Nat /\ m \in 0..n /\ entered \in [Nat -> Nat] /\ AtEnd(places[n])
        /\ entered[n] = scanned /\ places[m] = Place /\ entered[m] = interface_index + 1
        /\ \A k \in 0..n - 1 : /\ ~AtEnd(places[k])
                               /\ entered[k + 1] = entered[k] + Entries(places[k])
        /\ \A k \in 0..n : entered[k] <= entered[n]
    BY DEF Follows, Trail
  <1>2. Entries(Place) \in {0, 1} /\ entered[m] \in Nat
    BY <1>1 DEF Entries
  <1>3. CASE m = n
    <2>1. Entries(Place) = 0
      BY <1>1, <1>3 DEF AtEnd, Entries
    <2>. QED BY <1>1, <1>2, <1>3, <2>1
  <1>4. CASE m # n
    <2>1. m \in 0..n - 1 /\ m + 1 \in 0..n
      BY <1>1, <1>4
    <2>2. ~AtEnd(Place) /\ entered[m] + Entries(Place) <= scanned
      BY <1>1, <2>1
    <2>. QED BY <1>1, <1>2, <2>1, <2>2
  <1>. QED BY <1>3, <1>4

LEMMA PassesStart == WalkInit => OnListInv /\ PassInv
  BY DEF WalkInit, OnListInv, PassInv, Nowhere

(* A step of the first pass adds to its trail; one of the second follows.  *)
LEMMA PassGoesOn ==
    ASSUME OnListInv, PassInv, Enter \/ Param \/ NextHeader \/ LevelEnds
    PROVE  PassInv'
  <1>1. /\ Place' = Onward(Place) /\ ~AtEnd(Place) /\ dfl' = dfl /\ pass' = pass
        /\ Entries(Place) = IF Enter THEN 1 ELSE 0
    BY WalkMovesOnward
  <1>2. /\ scanned \in Nat /\ interface_index \in Int
        /\ pass \in {"counting", "collecting"}
    BY DEF PassInv, OnListInv, Enter, Param, NextHeader, LevelEnds
  <1>3. /\ scanned' = scanned + (IF pass = "counting" THEN Entries(Place) ELSE 0)
        /\ interface_index' = interface_index
                                + (IF pass = "collecting" THEN Entries(Place) ELSE 0)
    <2>1. CASE Enter
      BY <1>1, <1>2, <2>1 DEF Enter, EnterCounts
    <2>2. CASE ~Enter
      BY <1>1, <1>2, <2>2 DEF Param, NextHeader, LevelEnds
    <2>. QED BY <2>1, <2>2
  <1>4. Entries(Place) \in {0, 1}
    BY DEF Entries
  <1>5. CASE pass = "counting"
    <2>1. PICK places, entered, n : Counts1(places, entered, n)
      BY <1>5 DEF PassInv
    <2>2. PICK p, e : /\ Trail(p, e, n + 1) /\ p[n + 1] = Place'
                      /\ e[n + 1] = entered[n] + Entries(places[n])
      <3>. DEFINE q == Place'
      <3>1. q = Onward(places[n]) /\ ~AtEnd(places[n]) /\ Trail(places, entered, n)
        BY <1>1, <2>1 DEF Counts1
      <3>. HIDE DEF q
      <3>2. \E p, e : /\ Trail(p, e, n + 1) /\ p[n + 1] = q
                      /\ e[n + 1] = entered[n] + Entries(places[n])
        BY <3>1, TrailGrows
      <3>. QED BY <3>2 DEF q
    <2>3. Counts1(p, e, n + 1)'
      BY <1>1, <1>3, <1>5, <2>1, <2>2, TrailStays DEF Counts1
    <2>. QED BY <1>1, <1>2, <1>3, <1>4, <1>5, <2>3 DEF PassInv
  <1>6. CASE pass = "collecting"
    <2>1. PICK places, entered, n, m : Follows(places, entered, n, m)
      BY <1>6 DEF PassInv
    <2>2. m + 1 \in 0..n /\ m \in 0..n /\ n \in Nat
      BY <1>1, <1>2, <2>1, FollowerIsInside DEF Follows, Trail
    <2>3. /\ places[m + 1] = Onward(places[m])
          /\ entered[m + 1] = entered[m] + Entries(places[m])
      BY <2>1, <2>2 DEF Follows, Trail
    <2>4. /\ places[m + 1] = Place'
          /\ entered[m + 1] = interface_index' + 1
      BY <1>1, <1>2, <1>3, <1>4, <1>6, <2>1, <2>3 DEF Follows
    <2>5. AtEnd(places[n])' /\ Trail(places, entered, n)'
      BY <1>1, <2>1, TrailStays DEF Follows, AtEnd, IsEol, Header
    <2>6. scanned' = scanned
      BY <1>2, <1>3, <1>6
    <2>7. Follows(places, entered, n, m + 1)'
      BY <2>1, <2>2, <2>4, <2>5, <2>6 DEF Follows
    <2>. QED BY <1>1, <1>2, <1>3, <1>4, <1>6, <2>7 DEF PassInv
  <1>. QED BY <1>2, <1>5, <1>6

LEMMA PassBegins ==
    ASSUME OnListInv, PassInv, Scan \/ CountingEnds
    PROVE  PassInv'
  <1>1. /\ dfl' = dfl /\ calls' = <<>>
        /\ spot' = [step |-> "enter", dfh |-> dfl.first, param |-> 1]
    BY DEF Scan, CountingEnds, PassInv
  <1>2. Place' = Start /\ Start' = Start
    BY <1>1 DEF Place, Start
  <1>3. CASE Scan
    <2>. DEFINE places == [k \in Nat |-> Place']
                entered == [k \in Nat |-> 0]
    <2>1. pass' = "counting" /\ scanned' = 0 /\ interface_index' = interface_index
      BY <1>3 DEF Scan
    <2>2. Trail(places, entered, 0)
      BY <1>2 DEF Trail
    <2>3. places[0] = Place' /\ entered[0] = 0
      OBVIOUS
    <2>. HIDE DEF places, entered
    <2>4. PICK p, e : Trail(p, e, 0) /\ p[0] = Place' /\ e[0] = 0
      BY <2>2, <2>3
    <2>5. Counts1(p, e, 0)'
      BY <1>1, <2>1, <2>4, TrailStays DEF Counts1
    <2>. QED BY <2>1, <2>5 DEF PassInv
  <1>4. CASE CountingEnds
    <2>1. /\ pass = "counting" /\ pass' = "collecting" /\ scanned' = scanned
          /\ interface_index' = -1 /\ AtEnd(Place)
      BY <1>4 DEF CountingEnds, AtEnd, Place
    <2>2. PICK places, entered, n : Counts1(places, entered, n)
      BY <2>1 DEF PassInv
    <2>3. /\ Trail(places, entered, n)' /\ n \in Nat /\ places[0] = Start /\ entered[0] = 0
          /\ AtEnd(places[n])' /\ entered[n] = scanned
      <3>1. /\ Trail(places, entered, n) /\ entered[n] = scanned /\ places[n] = Place
        BY <2>2 DEF Counts1
      <3>2. AtEnd(places[n])'
        BY <1>1, <2>1, <3>1 DEF AtEnd, IsEol, Header
      <3>3. n \in Nat /\ places[0] = Start /\ entered[0] = 0
        BY <3>1 DEF Trail
      <3>. QED BY <1>1, <3>1, <3>2, <3>3, TrailStays
    <2>4. Follows(places, entered, n, 0)'
      BY <1>2, <2>1, <2>3 DEF Follows
    <2>. QED BY <2>1, <2>4 DEF PassInv
  <1>. QED BY <1>3, <1>4

LEMMA PassesAreKept == OnListInv /\ PassInv /\ [WalkNext]_walkVars => PassInv'
  <1>. SUFFICES ASSUME OnListInv, PassInv, [WalkNext]_walkVars PROVE PassInv'
    OBVIOUS
  <1>1. CASE UNCHANGED <<dfl, pass, spot, calls, scanned, interface_index>>
    <2>1. Place' = Place /\ \A p : AtEnd(p)' <=> AtEnd(p)
      BY <1>1 DEF Place, AtEnd, IsEol, Header
    <2>2. ASSUME NEW places, NEW entered, NEW n, Counts1(places, entered, n)
          PROVE  Counts1(places, entered, n)'
      BY <1>1, <2>1, <2>2, TrailStays DEF Counts1
    <2>3. ASSUME NEW places, NEW entered, NEW n, NEW m, Follows(places, entered, n, m)
          PROVE  Follows(places, entered, n, m)'
      BY <1>1, <2>1, <2>3, TrailStays DEF Follows
    <2>4. CASE pass = "counting"
      <3>1. PICK places, entered, n : Counts1(places, entered, n)
        BY <2>4 DEF PassInv
      <3>2. Counts1(places, entered, n)'
        BY <2>2, <3>1
      <3>. QED BY <1>1, <2>4, <3>2 DEF PassInv
    <2>5. CASE pass = "collecting"
      <3>1. PICK places, entered, n, m : Follows(places, entered, n, m)
        BY <2>5 DEF PassInv
      <3>2. Follows(places, entered, n, m)'
        BY <2>3, <3>1
      <3>. QED BY <1>1, <2>5, <3>2 DEF PassInv
    <2>. QED BY <1>1, <2>4, <2>5 DEF PassInv
  <1>2. CASE \/ UNCHANGED walkVars \/ Cleanup
             \/ \E kind \in {"mmio", "irq"}, i \in DOMAIN table :
                    FpgaOpen(kind, i) \/ FpgaClose(kind, i)
    BY <1>1, <1>2 DEF walkVars, walkerOnly, Cleanup, FpgaOpen, FpgaClose
  <1>3. CASE CollectingEnds
    BY <1>3 DEF CollectingEnds, PassInv
  <1>. QED BY <1>2, <1>3, PassBegins, PassGoesOn DEF WalkNext, Walk


-----------------------------------------------------------------------------
(* Device feature lists: the table is filled                               *)

\* Sequences of whatever, whose entries have what matters here.
Fields == {"dfh", "dfh_parent", "parameters"}
IsTable(t) ==
    /\ \E S : t \in Seq(S)
    /\ \A i \in 1..Len(t) : Fields \subseteq DOMAIN t[i]

TableInv ==
    /\ IsTable(table)
    /\ pass = "counting" => table = <<>>
    /\ pass = "collecting" => /\ Len(table) = scanned
                              /\ \A i \in 1..interface_index + 1 : table[i].dfh # -1
    /\ pass = "idle" => \A i \in 1..Len(table) : table[i].dfh # -1

\* One entry of a table is replaced.
Replaced(t, i, e, u) ==
    /\ IsTable(u) /\ Len(u) = Len(t) /\ u[i] = e
    /\ \A j \in 1..Len(t) : j # i => u[j] = t[j]

LEMMA EntryReplaced ==
    ASSUME NEW t, IsTable(t), NEW i \in 1..Len(t), NEW e, Fields \subseteq DOMAIN e,
           NEW u, u = [t EXCEPT ![i] = e]
    PROVE  Replaced(t, i, e, u)
  <1>1. PICK S : t \in Seq(S)
    BY DEF IsTable
  <1>. DEFINE T == S \cup {e}
  <1>2. t \in Seq(T) /\ e \in T
    <2>1. \A k \in 1..Len(t) : t[k] \in T
      BY <1>1
    <2>2. Len(t) \in Nat /\ t = [k \in 1..Len(t) |-> t[k]]
      BY <1>1
    <2>. HIDE DEF T
    <2>3. [k \in 1..Len(t) |-> t[k]] \in Seq(T)
      BY <2>1, <2>2
    <2>. QED BY <2>2, <2>3 DEF T
  <1>. HIDE DEF T
  <1>3. /\ u \in Seq(T) /\ Len(u) = Len(t) /\ u[i] = e
        /\ \A j \in 1..Len(t) : j # i => u[j] = t[j]
    BY <1>2, ExceptSeq
  <1>. QED BY <1>3 DEF IsTable, Replaced

\* No entry is left.
LEMMA NothingLeft ==
    ASSUME IsTable(table), VecResize(0)
    PROVE  table' = <<>>
  <1>1. Len(table) \in Nat
    BY DEF IsTable
  <1>. QED BY <1>1 DEF VecResize

LEMMA EmptyIsTable == IsTable(<<>>) /\ Len(<<>>) = 0
  BY DEF IsTable

LEMMA TableIsSized ==
    ASSUME table = <<>>, scanned \in Nat, VecResize(scanned)
    PROVE  IsTable(table') /\ Len(table') = scanned
  <1>1. CASE scanned = 0
    BY <1>1, EmptyIsTable, NothingLeft
  <1>2. CASE scanned > 0
    <2>1. table' = <<>> \o Zeros(scanned)
      BY <1>2 DEF VecResize
    <2>2. Zeros(scanned) \in Seq({ZeroInfo}) /\ Len(Zeros(scanned)) = scanned
      BY DEF Zeros
    <2>3. <<>> \o Zeros(scanned) = Zeros(scanned)
      BY <2>2
    <2>4. \A i \in 1..scanned : Zeros(scanned)[i] = ZeroInfo
      BY DEF Zeros
    <2>5. Fields \subseteq DOMAIN ZeroInfo
      BY DEF ZeroInfo, Fields
    <2>. HIDE DEF Zeros, ZeroInfo
    <2>. QED BY <2>1, <2>2, <2>3, <2>4, <2>5 DEF IsTable
  <1>. QED BY <1>1, <1>2

LEMMA TableStarts == WalkInit => TableInv
  BY EmptyIsTable DEF WalkInit, TableInv

(* The second pass fills the entry after the last one it has filled.       *)
LEMMA EnterReplaces ==
    ASSUME OnListInv, PassInv, TableInv, Enter, pass = "collecting"
    PROVE  LET i == interface_index + 2
               u == table'
           IN  /\ i \in 1..Len(table) /\ interface_index \in Int
               /\ Replaced(table, i, u[i], u)
               /\ u[i].dfh = spot.dfh /\ u[i].dfh_parent = parents[Len(parents)]
               /\ u[i].parameters = Parameters(spot.dfh)
  <1>. DEFINE i == interface_index + 2
              a == spot.dfh
              e == [table[i] EXCEPT !.dfh = a, !.base_address = BaseAddress(a),
                                    !.dfh_parent = parents[Len(parents)],
                                    !.parameters = Parameters(a),
                                    !.is_mmio_opened = FALSE, !.is_interrupt_opened = FALSE]
  <1>1. PICK places, entered, n, m : Follows(places, entered, n, m)
    BY DEF PassInv
  <1>2. /\ Entries(Place) = 1 /\ scanned \in Nat /\ interface_index \in Int
    BY DEF Enter, Entries, Place, PassInv
  <1>3. interface_index + 1 < scanned /\ interface_index >= -1
    BY <1>1, <1>2, FollowerIsInside
  <1>4. IsTable(table) /\ Len(table) = scanned
    BY DEF TableInv
  <1>5. i \in 1..Len(table) /\ Fields \subseteq DOMAIN table[i]
    BY <1>2, <1>3, <1>4 DEF IsTable
  <1>6. /\ e.dfh = a /\ e.dfh_parent = parents[Len(parents)] /\ e.parameters = Parameters(a)
        /\ Fields \subseteq DOMAIN e
    BY <1>5 DEF Fields
  <1>7. table' = [table EXCEPT ![i] = e]
    <2>1. (interface_index + 1) + 1 = i
      BY <1>2
    <2>. QED BY <2>1 DEF Enter, SetProperties
  <1>. DEFINE u == table'
  <1>8. /\ IsTable(table) /\ i \in 1..Len(table) /\ Fields \subseteq DOMAIN e
        /\ u = [table EXCEPT ![i] = e]
    BY <1>4, <1>5, <1>6, <1>7
  <1>9. Replaced(table, i, e, u)
    <2>. HIDE DEF i, e, u
    <2>. QED BY <1>8, EntryReplaced
  <1>10. u[i] = e
    <2>. HIDE DEF i, e, u
    <2>. QED BY <1>9 DEF Replaced
  <1>. HIDE DEF e, a, u
  <1>. QED BY <1>2, <1>5, <1>6, <1>9, <1>10 DEF u, a

LEMMA EnterFillsTable ==
    ASSUME OnListInv, PassInv, TableInv, Enter, pass = "collecting"
    PROVE  TableInv'
  <1>. DEFINE i == interface_index + 2
              u == table'
  <1>1. /\ i \in 1..Len(table) /\ interface_index \in Int
        /\ Replaced(table, i, u[i], u) /\ u[i].dfh = spot.dfh
    BY EnterReplaces
  <1>2. /\ IsTable(table) /\ Len(table) = scanned
        /\ \A k \in 1..interface_index + 1 : table[k].dfh # -1
    BY DEF TableInv
  <1>3. spot.dfh # -1
    <2>1. spot.dfh \in DOMAIN dfl.at /\ dfl \in Lists
      BY DEF OnListInv, OnList, Spots
    <2>2. DOMAIN dfl.at \subseteq Nat
      BY <2>1, ListsAreWellFormed DEF WellFormed
    <2>. QED BY <2>1, <2>2
  <1>4. /\ pass' = "collecting" /\ scanned' = scanned /\ interface_index' = interface_index + 1
    BY DEF Enter
  <1>. HIDE DEF u
  <1>5. ASSUME NEW j \in 1..interface_index' + 1 PROVE u[j].dfh # -1
    <2>1. CASE j = i
      BY <1>1, <1>3, <2>1
    <2>2. CASE j # i
      <3>1. j \in 1..interface_index + 1 /\ j \in 1..Len(table)
        BY <1>1, <1>2, <1>4, <2>2
      <3>. QED BY <1>1, <1>2, <2>2, <3>1 DEF Replaced
    <2>. QED BY <2>1, <2>2
  <1>6. IsTable(u) /\ Len(u) = Len(table)
    BY <1>1 DEF Replaced
  <1>. QED BY <1>2, <1>4, <1>5, <1>6 DEF TableInv, u

(* Opening and closing change nothing but a flag of an entry.              *)
LEMMA CallersSetFlags ==
    ASSUME IsTable(table), NEW kind \in {"mmio", "irq"}, NEW i \in DOMAIN table,
           FpgaOpen(kind, i) \/ FpgaClose(kind, i)
    PROVE  /\ IsTable(table') /\ Len(table') = Len(table)
           /\ \A j \in 1..Len(table) : \A f \in Fields : table'[j][f] = table[j][f]
  <1>1. DOMAIN table = 1..Len(table)
    BY DEF IsTable
  <1>2. PICK value \in BOOLEAN : SetOpened(kind, i, value)
    BY DEF FpgaOpen, FpgaClose
  <1>3. PICK e : /\ table' = [table EXCEPT ![i] = e] /\ Fields \subseteq DOMAIN e
                 /\ \A f \in Fields : e[f] = table[i][f]
    <2>. DEFINE e1 == [table[i] EXCEPT !.is_mmio_opened = value]
                e2 == [table[i] EXCEPT !.is_interrupt_opened = value]
    <2>1. Fields \subseteq DOMAIN table[i]
      BY <1>1 DEF IsTable
    <2>2. /\ Fields \subseteq DOMAIN e1 /\ \A f \in Fields : e1[f] = table[i][f]
          /\ Fields \subseteq DOMAIN e2 /\ \A f \in Fields : e2[f] = table[i][f]
      BY <2>1 DEF Fields
    <2>3. table' = [table EXCEPT ![i] = e1] \/ table' = [table EXCEPT ![i] = e2]
      BY <1>2 DEF SetOpened
    <2>. HIDE DEF e1, e2
    <2>. QED BY <2>2, <2>3
  <1>. DEFINE u == table'
  <1>4. IsTable(table) /\ i \in 1..Len(table) /\ u = [table EXCEPT ![i] = e]
    BY <1>1, <1>3
  <1>. HIDE DEF u
  <1>5. Replaced(table, i, e, u)
    BY <1>3, <1>4, EntryReplaced
  <1>6. /\ IsTable(u) /\ Len(u) = Len(table) /\ u[i] = e
        /\ \A j \in 1..Len(table) : j # i => u[j] = table[j]
    BY <1>5 DEF Replaced
  <1>7. ASSUME NEW j \in 1..Len(table), NEW f \in Fields PROVE u[j][f] = table[j][f]
    BY <1>3, <1>6
  <1>. QED BY <1>6, <1>7 DEF u

LEMMA CallersKeepTable ==
    ASSUME TableInv, NEW kind \in {"mmio", "irq"}, NEW i \in DOMAIN table,
           FpgaOpen(kind, i) \/ FpgaClose(kind, i)
    PROVE  TableInv'
  <1>1. /\ pass = "idle" /\ pass' = pass /\ IsTable(table)
        /\ \A j \in 1..Len(table) : table[j].dfh # -1
    BY DEF TableInv, FpgaOpen, FpgaClose, walkerOnly
  <1>2. /\ IsTable(table') /\ Len(table') = Len(table)
        /\ \A j \in 1..Len(table) : table'[j].dfh = table[j].dfh
    BY <1>1, CallersSetFlags DEF Fields
  <1>. QED BY <1>1, <1>2 DEF TableInv

LEMMA TableIsKept ==
    OnListInv /\ PassInv /\ TableInv /\ [WalkNext]_walkVars => TableInv'
  <1>. SUFFICES ASSUME OnListInv, PassInv, TableInv, [WalkNext]_walkVars PROVE TableInv'
    OBVIOUS
  <1>1. CASE UNCHANGED <<table, pass, scanned, interface_index>>
    BY <1>1 DEF TableInv
  <1>2. CASE UNCHANGED walkVars \/ Param \/ NextHeader \/ LevelEnds
    BY <1>1, <1>2 DEF walkVars, Param, NextHeader, LevelEnds, tableOnly
  <1>3. CASE Scan \/ Cleanup
    <2>1. table' = <<>> /\ pass' # "collecting"
      BY <1>3, NothingLeft DEF Scan, Cleanup, TableInv, walkerOnly
    <2>. QED BY <2>1, EmptyIsTable DEF TableInv
  <1>4. CASE CountingEnds
    <2>1. /\ pass' = "collecting" /\ scanned' = scanned /\ interface_index' = -1
          /\ IsTable(table') /\ Len(table') = scanned
      BY <1>4, TableIsSized DEF CountingEnds, TableInv, PassInv
    <2>. QED BY <2>1 DEF TableInv
  <1>5. CASE CollectingEnds
    <2>1. /\ pass = "collecting" /\ pass' = "idle" /\ table' = table /\ AtEnd(Place)
      BY <1>5 DEF CollectingEnds, tableOnly, AtEnd, Place
    <2>2. PICK places, entered, n, m : Follows(places, entered, n, m)
      BY <2>1 DEF PassInv
    <2>3. interface_index + 1 = scanned
      BY <2>1, <2>2, FollowerIsInside DEF PassInv
    <2>. QED BY <2>1, <2>3 DEF TableInv
  <1>6. CASE Enter
    <2>1. CASE pass = "collecting"
      BY <1>6, <2>1, EnterFillsTable
    <2>2. CASE pass = "counting"
      BY <1>6, <2>2 DEF Enter, tableOnly, TableInv
    <2>3. pass # "idle"
      BY <1>6 DEF Enter, OnListInv
    <2>. QED BY <2>1, <2>2, <2>3 DEF OnListInv
  <1>. QED BY <1>2, <1>3, <1>4, <1>5, <1>6, CallersKeepTable DEF WalkNext, Walk

(* The second pass stays inside the table the first has sized and fills    *)
(* it, for every well-formed list of features, whatever its branches, and  *)
(* for scans, opens, closes and clean-ups in any order.                    *)
THEOREM PassesDoAgree == WalkSpec => []PassesAgree
  <1>1. OnListInv /\ PassInv /\ TableInv => PassesAgree
    <2>. SUFFICES ASSUME OnListInv, PassInv, TableInv PROVE PassesAgree
      OBVIOUS
    <2>1. ASSUME pass = "collecting"
          PROVE  interface_index + (IF spot.step = "enter" THEN 1 ELSE 0) < scanned
      <3>1. PICK places, entered, n, m : Follows(places, entered, n, m)
        BY <2>1 DEF PassInv
      <3>2. interface_index + Entries(Place) < scanned
        BY <3>1, FollowerIsInside DEF PassInv
      <3>. QED BY <3>2 DEF Entries, Place
    <2>2. DOMAIN table = 1..Len(table)
      BY DEF TableInv, IsTable
    <2>. QED BY <2>1, <2>2 DEF PassesAgree, TableInv
  <1>. QED BY <1>1, PassesStart, TableStarts, WalkStaysOnList, PassesAreKept, TableIsKept,
              PTL DEF WalkSpec


-----------------------------------------------------------------------------
(* Device feature lists: levels                                            *)

\* What a level has that begins at a: what no set can leave out that goes on
\* from a to the end.
GoesOn(C) == \A x \in C : ~IsEol(x) => NextDfh(x) \in C
Rest(a) == {b \in DOMAIN dfl.at : \A C \in SUBSET DOMAIN dfl.at : a \in C /\ GoesOn(C) => b \in C}

LEMMA RestGoesOn ==
    ASSUME dfl \in Lists, NEW a \in DOMAIN dfl.at
    PROVE  Rest(a) = {a} \cup IF IsEol(a) THEN {} ELSE Rest(NextDfh(a))
  <1>. DEFINE D == DOMAIN dfl.at
              C == {a} \cup IF IsEol(a) THEN {} ELSE Rest(NextDfh(a))
  <1>1. \A x \in D : ~IsEol(x) => NextDfh(x) \in D
    BY ListsAreWellFormed DEF WellFormed, IsEol, NextDfh, Header
  <1>2. \A x \in D : x \in Rest(x) /\ Rest(x) \subseteq D /\ GoesOn(Rest(x))
    BY <1>1 DEF Rest, GoesOn
  <1>3. C \subseteq D /\ a \in C /\ GoesOn(C)
    BY <1>1, <1>2 DEF GoesOn
  <1>4. Rest(a) \subseteq C
    <2>. HIDE DEF C
    <2>. QED BY <1>3 DEF Rest
  <1>5. ~IsEol(a) => Rest(NextDfh(a)) \subseteq Rest(a)
    BY DEF Rest, GoesOn
  <1>. QED BY <1>2, <1>4, <1>5

\* A level is its first header, and the level that begins at the next.
LEMMA LevelGoesOn ==
    ASSUME dfl \in Lists, NEW a \in DOMAIN dfl.at
    PROVE  Level(a) = {a} \cup IF IsEol(a) THEN {} ELSE Level(NextDfh(a))
  <1>. DEFINE D == DOMAIN dfl.at
              Is(f) == f = [x \in D |-> {x} \cup IF IsEol(x) THEN {} ELSE f[NextDfh(x)]]
              from == CHOOSE f : Is(f)
              rest == [x \in D |-> Rest(x)]
  <1>1. \A x \in D : ~IsEol(x) => NextDfh(x) \in D
    BY ListsAreWellFormed DEF WellFormed, IsEol, NextDfh, Header
  <1>2. Is(rest)
    BY <1>1, RestGoesOn
  <1>. HIDE DEF rest
  <1>3. Is(from)
    BY <1>2
  <1>4. \A x : Level(x) = from[x]
    BY DEF Level
  <1>5. from[a] = {a} \cup IF IsEol(a) THEN {} ELSE from[NextDfh(a)]
    <2>. HIDE DEF from
    <2>. QED BY <1>3
  <1>. HIDE DEF from
  <1>. QED BY <1>4, <1>5

-----------------------------------------------------------------------------
(* Device feature lists: sums                                              *)

\* The partial sums of n numbers.
Sums(f, c, n) ==
    /\ f \in [0..n -> Nat] /\ f[0] = 0
    /\ \A i \in 1..n : f[i] = f[i - 1] + c[i]

LEMMA SumsExist ==
    ASSUME NEW n \in Nat, NEW c \in [1..n -> Nat]
    PROVE  \E f : Sums(f, c, n)
  <1>. DEFINE Without == {m \in 0..n : ~\E f : Sums(f, c, m)}
  <1>0. n \in 0..n
    OBVIOUS
  <1>1. SUFFICES ASSUME Without # {} PROVE FALSE
    BY <1>0, <1>1, Zenon
  <1>2. PICK first \in Without : \A j \in Without : first <= j
    <2>1. Without \in SUBSET Nat
      OBVIOUS
    <2>. HIDE DEF Without
    <2>. QED BY <1>1, <2>1, FirstOne
  <1>4. CASE first = 0
    <2>1. Sums([i \in 0..0 |-> 0], c, 0)
      BY DEF Sums
    <2>. QED BY <1>2, <1>4, <2>1
  <1>5. CASE first # 0
    <2>1. first - 1 \in 0..n /\ first - 1 \notin Without
      BY <1>2, <1>5
    <2>2. PICK f : Sums(f, c, first - 1)
      BY <2>1
    <2>. DEFINE g == [i \in 0..first |-> IF i = first THEN f[first - 1] + c[first] ELSE f[i]]
    <2>3. first \in 1..n /\ f[first - 1] \in Nat /\ c[first] \in Nat
      BY <1>2, <1>5, <2>2 DEF Sums
    <2>4. Sums(g, c, first)
      BY <2>2, <2>3 DEF Sums
    <2>. QED BY <1>2, <2>4
  <1>. QED BY <1>4, <1>5

\* Two lists of n numbers that differ by k, at j, and their sums.
Differ(f, c, g, d, n, j, k) ==
    /\ n \in Nat /\ c \in [1..n -> Nat] /\ d \in [1..n -> Nat]
    /\ Sums(f, c, n) /\ Sums(g, d, n) /\ j \in Nat \ {0} /\ k \in Int
    /\ \A i \in 1..n : d[i] = c[i] + (IF i = j THEN k ELSE 0)

(* When one number is changed, so is the sum.                              *)
LEMMA SumsFollow ==
    ASSUME NEW f, NEW c, NEW g, NEW d, NEW n, NEW j, NEW k, Differ(f, c, g, d, n, j, k)
    PROVE  g[n] = f[n] + (IF j <= n THEN k ELSE 0)
  <1>. DEFINE Off == {m \in 0..n : g[m] # f[m] + (IF j <= m THEN k ELSE 0)}
  <1>0. n \in 0..n
    BY DEF Differ
  <1>1. SUFFICES ASSUME Off # {} PROVE FALSE
    BY <1>0, <1>1, Zenon
  <1>. USE DEF Differ
  <1>2. PICK first \in Off : \A m \in Off : first <= m
    <2>1. Off \in SUBSET Nat
      OBVIOUS
    <2>. HIDE DEF Off
    <2>. QED BY <1>1, <2>1, FirstOne
  <1>4. first # 0
    BY <1>2 DEF Sums
  <1>5. /\ first - 1 \in 0..n /\ first - 1 \notin Off /\ first \in 1..n
    BY <1>2, <1>4
  <1>6. g[first - 1] = f[first - 1] + (IF j <= first - 1 THEN k ELSE 0)
    BY <1>5
  <1>7. /\ g[first] = g[first - 1] + d[first] /\ f[first] = f[first - 1] + c[first]
        /\ f[first - 1] \in Nat /\ c[first] \in Nat
    BY <1>5 DEF Sums
  <1>8. g[first] = f[first] + (IF j <= first THEN k ELSE 0)
    <2>. HIDE DEF Off
    <2>1. /\ j \in Nat /\ k \in Int /\ d[first] = c[first] + (IF first = j THEN k ELSE 0)
          /\ first \in Nat
      BY <1>5
    <2>. QED BY <1>6, <1>7, <2>1
  <1>. QED BY <1>2, <1>8


-----------------------------------------------------------------------------
(* Device feature lists: blocks of memory                                  *)

Costs(t) == [i \in 1..Len(t) |-> Cardinality(BlocksOf(t[i]))]
Costed(t) == IsTable(t) /\ \A i \in 1..Len(t) : Cardinality(BlocksOf(t[i])) \in Nat

LEMMA CostsAreNumbers ==
    ASSUME NEW t, Costed(t)
    PROVE  Len(t) \in Nat /\ Costs(t) \in [1..Len(t) -> Nat]
  BY DEF Costed, IsTable, Costs

\* The count is the last of the partial sums.
LEMMA CountIsSum ==
    ASSUME NEW t, Costed(t)
    PROVE  \E f : Sums(f, Costs(t), Len(t)) /\ CountBlocks(t) = f[Len(t)]
  <1>. DEFINE n == Len(t)
              Is(f) == f = [i \in 0..n |->
                               IF i = 0 THEN 0 ELSE f[i - 1] + Cardinality(BlocksOf(t[i]))]
              sum == CHOOSE f : Is(f)
  <1>1. n \in Nat /\ Costs(t) \in [1..n -> Nat]
    BY CostsAreNumbers
  <1>2. PICK f : Sums(f, Costs(t), n)
    <2>. HIDE DEF n
    <2>. QED BY <1>1, SumsExist
  <1>3. Is(f)
    <2>1. f = [i \in 0..n |-> f[i]]
      BY <1>2 DEF Sums
    <2>2. \A i \in 0..n : f[i] = IF i = 0 THEN 0 ELSE f[i - 1] + Cardinality(BlocksOf(t[i]))
      BY <1>1, <1>2 DEF Sums, Costs
    <2>. QED BY <2>1, <2>2
  <1>4. Is(sum)
    BY <1>3
  <1>5. CountBlocks(t) = sum[n]
    BY DEF CountBlocks
  <1>6. \A i \in 0..n : sum[i] = IF i = 0 THEN 0 ELSE sum[i - 1] + Cardinality(BlocksOf(t[i]))
    <2>. HIDE DEF sum
    <2>. QED BY <1>4
  <1>7. \A i \in 0..n : f[i] = IF i = 0 THEN 0 ELSE f[i - 1] + Cardinality(BlocksOf(t[i]))
    BY <1>1, <1>2 DEF Sums, Costs
  <1>. DEFINE Off == {m \in 0..n : sum[m] # f[m]}
  <1>. HIDE DEF sum, Is
  <1>8. Off = {}
    <2>1. SUFFICES ASSUME Off # {} PROVE FALSE
      OBVIOUS
    <2>2. Off \in SUBSET Nat
      BY <1>1
    <2>3. PICK first \in Off : \A m \in Off : first <= m
      <3>. HIDE DEF Off
      <3>. QED BY <2>1, <2>2, FirstOne
    <2>4. first # 0 /\ first \in 0..n
      BY <1>1, <1>6, <1>7, <2>3
    <2>5. first - 1 \in 0..n /\ first - 1 \notin Off
      BY <1>1, <2>3, <2>4
    <2>. QED BY <1>6, <1>7, <2>3, <2>4, <2>5
  <1>9. n \in 0..n /\ sum[n] = f[n]
    BY <1>1, <1>8
  <1>. QED BY <1>2, <1>5, <1>9

(* When the blocks of one entry change, so does the count.                 *)
LEMMA CountFollows ==
    ASSUME NEW t, NEW u, Costed(t), Costed(u), Len(u) = Len(t), NEW j \in 1..Len(t),
           \A i \in 1..Len(t) : i # j => BlocksOf(u[i]) = BlocksOf(t[i])
    PROVE  /\ CountBlocks(t) \in Nat /\ CountBlocks(u) \in Nat
           /\ CountBlocks(u) = CountBlocks(t) + Cardinality(BlocksOf(u[j]))
                                              - Cardinality(BlocksOf(t[j]))
  <1>. DEFINE n == Len(t)
              k == Cardinality(BlocksOf(u[j])) - Cardinality(BlocksOf(t[j]))
  <1>1. n \in Nat /\ Costs(t) \in [1..n -> Nat] /\ Costs(u) \in [1..n -> Nat]
    BY CostsAreNumbers
  <1>2. PICK f : Sums(f, Costs(t), n) /\ CountBlocks(t) = f[n]
    BY CountIsSum
  <1>3. PICK g : Sums(g, Costs(u), n) /\ CountBlocks(u) = g[n]
    BY CountIsSum
  <1>4. /\ Cardinality(BlocksOf(u[j])) \in Nat /\ Cardinality(BlocksOf(t[j])) \in Nat
        /\ k \in Int /\ j \in Nat \ {0} /\ j <= n
    BY <1>1 DEF Costed
  <1>5. ASSUME NEW i \in 1..n
        PROVE  Costs(u)[i] = Costs(t)[i] + (IF i = j THEN k ELSE 0)
    <2>1. /\ Costs(u)[i] = Cardinality(BlocksOf(u[i])) /\ Costs(u)[i] \in Nat
          /\ Costs(t)[i] = Cardinality(BlocksOf(t[i])) /\ Costs(t)[i] \in Nat
      BY <1>1 DEF Costs
    <2>2. i # j => BlocksOf(u[i]) = BlocksOf(t[i])
      OBVIOUS
    <2>. QED BY <1>4, <2>1, <2>2
  <1>6. g[n] = f[n] + (IF j <= n THEN k ELSE 0)
    <2>1. Differ(f, Costs(t), g, Costs(u), n, j, k)
      <3>. HIDE DEF n, k
      <3>. QED BY <1>1, <1>2, <1>3, <1>4, <1>5 DEF Differ
    <2>. HIDE DEF n, k
    <2>. QED BY <2>1, SumsFollow
  <1>7. f[n] \in Nat /\ g[n] \in Nat
    BY <1>1, <1>2, <1>3 DEF Sums
  <1>. QED BY <1>2, <1>3, <1>4, <1>6, <1>7

LEMMA CountNothing ==
    ASSUME NEW t, IsTable(t), \A i \in 1..Len(t) : BlocksOf(t[i]) = {}
    PROVE  Costed(t) /\ CountBlocks(t) = 0
  <1>. DEFINE n == Len(t)
              none == [i \in 1..n |-> 0]
              zero == [i \in 0..n |-> 0]
  <1>1. Costed(t)
    <2>1. ASSUME NEW i \in 1..Len(t) PROVE Cardinality(BlocksOf(t[i])) \in Nat
      <3>1. BlocksOf(t[i]) = {} /\ Cardinality({}) = 0
        BY FS_EmptySet
      <3>. QED BY <3>1
    <2>. QED BY <2>1 DEF Costed
  <1>2. n \in Nat /\ Costs(t) = none /\ none \in [1..n -> Nat]
    BY <1>1, CostsAreNumbers, FS_EmptySet DEF Costs
  <1>3. PICK f : Sums(f, none, n) /\ CountBlocks(t) = f[n]
    BY <1>1, <1>2, CountIsSum
  <1>4. Sums(zero, none, n)
    BY <1>2 DEF Sums
  <1>5. \A i \in 1..n : none[i] = none[i] + (IF i = 1 THEN 0 ELSE 0)
    OBVIOUS
  <1>6. f[n] = zero[n] + (IF 1 <= n THEN 0 ELSE 0)
    <2>. HIDE DEF none, zero, n
    <2>1. Differ(zero, none, f, none, n, 1, 0)
      BY <1>2, <1>3, <1>4, <1>5 DEF Differ
    <2>. QED BY <2>1, SumsFollow
  <1>. QED BY <1>1, <1>2, <1>3, <1>6

LEMMA CountOne ==
    ASSUME NEW e, Fields \subseteq DOMAIN e, Cardinality(BlocksOf(e)) \in Nat
    PROVE  CountBlocks(<<e>>) = Cardinality(BlocksOf(e))
  <1>. DEFINE t == <<e>>
  <1>1. t \in Seq({e}) /\ Len(t) = 1 /\ t[1] = e
    OBVIOUS
  <1>. HIDE DEF t
  <1>2. Costed(t)
    BY <1>1 DEF Costed, IsTable
  <1>3. PICK f : Sums(f, Costs(t), 1) /\ CountBlocks(t) = f[1]
    BY <1>1, <1>2, CountIsSum
  <1>4. f[1] = f[0] + Costs(t)[1] /\ f[0] = 0 /\ Costs(t)[1] = Cardinality(BlocksOf(e))
    <2>1. 1 \in 1..1 /\ 1 - 1 = 0
      OBVIOUS
    <2>. QED BY <1>1, <1>3, <2>1 DEF Sums, Costs
  <1>. QED BY <1>3, <1>4 DEF t


\* What the list has at a header needs finitely many blocks.
LEMMA BlocksAreFew ==
    ASSUME dfl \in Lists, NEW a \in DOMAIN dfl.at, NEW e, e.parameters = Parameters(a)
    PROVE  Cardinality(BlocksOf(e)) \in Nat
  <1>. DEFINE p == Header(a).params
              last == {i \in DOMAIN p : p[i].last /\ \A j \in 1..i - 1 : ~p[j].last}
              stop == CHOOSE i \in DOMAIN p : p[i].last /\ \A j \in 1..i - 1 : ~p[j].last
  <1>1. CASE Parameters(a) = <<>>
    <2>1. BlocksOf(e) = {} /\ Cardinality({}) = 0
      BY <1>1, FS_EmptySet DEF BlocksOf
    <2>. QED BY <2>1
  <1>2. CASE Parameters(a) # <<>>
    <2>1. p # <<>>
      BY <1>2 DEF Parameters
    <2>2. stop \in Nat /\ stop \in DOMAIN p
      <3>. DEFINE Last == {i \in DOMAIN p : p[i].last}
      <3>1. /\ \A i \in DOMAIN p : i \in Nat \ {0}
            /\ \E i \in DOMAIN p : p[i].last
        BY <2>1, ParametersEnd
      <3>2. Last \in SUBSET Nat /\ Last # {}
        BY <3>1
      <3>3. PICK first \in Last : \A j \in Last : first <= j
        <4>. HIDE DEF Last
        <4>. QED BY <3>2, FirstOne
      <3>4. ASSUME NEW n \in DOMAIN p, p[n].last
            PROVE  \A j \in 1..first - 1 : ~p[j].last
        <4>1. PICK m \in DOMAIN p : m \in Nat /\ DOMAIN p = 1..m
          BY <2>1, ListsAreWellFormed DEF WellFormed, Header
        <4>2. first \in 1..m /\ first \in Nat
          BY <3>2, <3>3, <4>1
        <4>. QED BY <3>3, <4>1, <4>2
      <3>5. first \in DOMAIN p /\ p[first].last /\ \A j \in 1..first - 1 : ~p[j].last
        BY <3>3, <3>4
      <3>6. stop \in DOMAIN p
        <4>. HIDE DEF p
        <4>. QED BY <3>5
      <3>. QED BY <3>1, <3>6
    <2>3. DOMAIN Parameters(a) = 1..stop
      BY <1>2 DEF Parameters
    <2>. HIDE DEF stop
    <2>4. BlocksOf(e) \in SUBSET (0..stop)
      BY <2>2, <2>3 DEF BlocksOf
    <2>5. IsFiniteSet(0..stop)
      BY <2>2, FS_Interval
    <2>6. IsFiniteSet(BlocksOf(e))
      BY <2>4, <2>5, FS_Subset
    <2>. QED BY <2>6, FS_CardinalityType
  <1>. QED BY <1>1, <1>2

LEMMA ZeroHasNoBlocks == BlocksOf(ZeroInfo) = {}
  BY DEF ZeroInfo, BlocksOf

\* Every block is of an entry; those not filled yet have none.
BlocksInv ==
    /\ Costed(table) /\ allocated = CountBlocks(table)
    /\ pass = "collecting" =>
         \A i \in 1..Len(table) : i > interface_index + 1 => table[i] = ZeroInfo

LEMMA NothingCounts == Costed(<<>>) /\ CountBlocks(<<>>) = 0
  <1>1. IsTable(<<>>) /\ \A i \in 1..Len(<<>>) : BlocksOf(<<>>[i]) = {}
    BY EmptyIsTable
  <1>. QED BY <1>1, CountNothing

LEMMA BlocksStart == WalkInit => BlocksInv
  BY NothingCounts DEF WalkInit, BlocksInv

\* Nothing is left, and nothing of it.
LEMMA AllIsFreed ==
    ASSUME BlocksInv, VecResize(0)
    PROVE  table' = <<>> /\ allocated' = 0
  <1>1. PICK S : table \in Seq(S)
    BY DEF BlocksInv, Costed, IsTable
  <1>2. IsTable(table) /\ allocated = CountBlocks(table) /\ Len(table) \in Nat
    BY <1>1 DEF BlocksInv, Costed
  <1>3. CASE Len(table) > 0
    <2>1. SubSeq(table, 1, Len(table)) = table
      BY <1>1
    <2>2. 0 + 1 = 1 /\ allocated' = Freed(0)
      BY <1>2, <1>3 DEF VecResize
    <2>3. CountBlocks(table) \in Nat
      <3>1. 1 \in 1..Len(table) /\ Costed(table)
        BY <1>2, <1>3 DEF BlocksInv
      <3>. QED BY <3>1, CountFollows
    <2>4. allocated' = CountBlocks(table) - CountBlocks(table)
      BY <1>2, <2>1, <2>2 DEF Freed
    <2>. QED BY <1>2, <2>3, <2>4, NothingLeft
  <1>4. CASE Len(table) = 0
    <2>1. table = <<>> /\ allocated' = allocated
      BY <1>1, <1>4 DEF VecResize
    <2>. QED BY <1>2, <2>1, NothingCounts, NothingLeft
  <1>. QED BY <1>2, <1>3, <1>4

LEMMA EnterCountsBlocks ==
    ASSUME OnListInv, PassInv, TableInv, BlocksInv, Enter, pass = "collecting"
    PROVE  BlocksInv'
  <1>. DEFINE i == interface_index + 2
              u == table'
              a == spot.dfh
  <1>1. /\ i \in 1..Len(table) /\ interface_index \in Int
        /\ Replaced(table, i, u[i], u) /\ u[i].parameters = Parameters(a)
    BY EnterReplaces
  <1>2. /\ Costed(table) /\ allocated = CountBlocks(table) /\ table[i] = ZeroInfo
    BY <1>1 DEF BlocksInv
  <1>3. a \in DOMAIN dfl.at /\ dfl \in Lists
    BY DEF OnListInv, OnList, Spots
  <1>4. /\ IsTable(u) /\ Len(u) = Len(table)
        /\ \A j \in 1..Len(table) : j # i => u[j] = table[j]
    BY <1>1 DEF Replaced
  <1>. DEFINE one == [ZeroInfo EXCEPT !.parameters = Parameters(a)]
  <1>5. allocated' = allocated + CountBlocks(<<one>>) /\ pass' = pass
        /\ interface_index' = interface_index + 1
    BY DEF Enter, SetProperties
  <1>6. one.parameters = Parameters(a) /\ Fields \subseteq DOMAIN one
    BY DEF ZeroInfo, Fields
  <1>. HIDE DEF u, a, one
  <1>7. Cardinality(BlocksOf(u[i])) \in Nat /\ Cardinality(BlocksOf(one)) \in Nat
    BY <1>1, <1>3, <1>6, BlocksAreFew
  <1>8. BlocksOf(u[i]) = BlocksOf(one)
    BY <1>1, <1>6 DEF BlocksOf
  <1>9. CountBlocks(<<one>>) = Cardinality(BlocksOf(one))
    BY <1>6, <1>7, CountOne
  <1>10. Costed(u)
    <2>1. ASSUME NEW j \in 1..Len(u) PROVE Cardinality(BlocksOf(u[j])) \in Nat
      <3>1. CASE j = i
        BY <1>7, <3>1
      <3>2. CASE j # i
        <4>1. j \in 1..Len(table) /\ u[j] = table[j]
          BY <1>4, <3>2
        <4>. QED BY <1>2, <4>1 DEF Costed
      <3>. QED BY <3>1, <3>2
    <2>. QED BY <1>4, <2>1 DEF Costed
  <1>11. /\ CountBlocks(table) \in Nat
         /\ CountBlocks(u) = CountBlocks(table) + Cardinality(BlocksOf(u[i]))
                                                - Cardinality(BlocksOf(table[i]))
    <2>1. \A j \in 1..Len(table) : j # i => BlocksOf(u[j]) = BlocksOf(table[j])
      BY <1>4
    <2>. HIDE DEF i
    <2>. QED BY <1>1, <1>2, <1>4, <1>10, <2>1, CountFollows
  <1>12. Cardinality(BlocksOf(table[i])) = 0
    BY <1>2, ZeroHasNoBlocks, FS_EmptySet
  <1>13. allocated' = CountBlocks(u)
    BY <1>2, <1>5, <1>7, <1>8, <1>9, <1>11, <1>12
  <1>14. ASSUME NEW j \in 1..Len(u), j > interface_index' + 1 PROVE u[j] = ZeroInfo
    <2>1. j \in 1..Len(table) /\ j # i /\ j > interface_index + 1
      BY <1>1, <1>4, <1>5, <1>14
    <2>. QED BY <1>4, <2>1 DEF BlocksInv
  <1>. QED BY <1>10, <1>13, <1>14 DEF BlocksInv, u

LEMMA BlocksAreKept ==
    OnListInv /\ PassInv /\ TableInv /\ BlocksInv /\ [WalkNext]_walkVars => BlocksInv'
  <1>. SUFFICES ASSUME OnListInv, PassInv, TableInv, BlocksInv, [WalkNext]_walkVars
                PROVE  BlocksInv'
    OBVIOUS
  <1>1. CASE UNCHANGED <<table, allocated, interface_index>> /\ (pass' = pass \/ pass' = "idle")
    BY <1>1 DEF BlocksInv
  <1>2. CASE UNCHANGED walkVars \/ Param \/ NextHeader \/ LevelEnds \/ CollectingEnds
    BY <1>1, <1>2 DEF walkVars, Param, NextHeader, LevelEnds, CollectingEnds, tableOnly
  <1>3. CASE Scan \/ Cleanup
    <2>1. table' = <<>> /\ allocated' = 0 /\ pass' # "collecting"
      BY <1>3, AllIsFreed DEF Scan, Cleanup, walkerOnly
    <2>. QED BY <2>1, NothingCounts DEF BlocksInv
  <1>4. CASE CountingEnds
    <2>1. /\ pass' = "collecting" /\ scanned \in Nat /\ table = <<>> /\ VecResize(scanned)
          /\ IsTable(table') /\ Len(table') = scanned
      BY <1>4, TableIsSized DEF CountingEnds, TableInv, PassInv
    <2>2. allocated' = 0
      <3>1. allocated = 0 /\ Len(table) = 0
        BY <2>1, NothingCounts, EmptyIsTable DEF BlocksInv
      <3>. QED BY <2>1, <3>1 DEF VecResize
    <2>3. \A i \in 1..Len(table') : table'[i] = ZeroInfo
      <3>1. CASE scanned > 0
        <4>1. table' = <<>> \o Zeros(scanned)
          BY <2>1, <3>1, EmptyIsTable DEF VecResize
        <4>2. Zeros(scanned) \in Seq({ZeroInfo}) /\ Len(Zeros(scanned)) = scanned
          BY <2>1 DEF Zeros
        <4>3. <<>> \o Zeros(scanned) = Zeros(scanned)
          BY <4>2
        <4>. QED BY <2>1, <4>1, <4>3 DEF Zeros
      <3>2. CASE scanned = 0
        BY <2>1, <3>2
      <3>. QED BY <2>1, <3>1, <3>2
    <2>4. Costed(table') /\ CountBlocks(table') = 0
      <3>. DEFINE u == table'
      <3>1. IsTable(u) /\ \A i \in 1..Len(u) : BlocksOf(u[i]) = {}
        BY <2>1, <2>3, ZeroHasNoBlocks
      <3>. HIDE DEF u
      <3>2. Costed(u) /\ CountBlocks(u) = 0
        BY <3>1, CountNothing
      <3>. QED BY <3>2 DEF u
    <2>. QED BY <2>2, <2>3, <2>4 DEF BlocksInv
  <1>5. CASE Enter
    <2>1. CASE pass = "collecting"
      BY <1>5, <2>1, EnterCountsBlocks
    <2>2. CASE pass = "counting"
      BY <1>1, <1>5, <2>2 DEF Enter, tableOnly
    <2>3. pass # "idle"
      BY <1>5 DEF Enter, OnListInv
    <2>. QED BY <2>1, <2>2, <2>3 DEF OnListInv
  <1>6. ASSUME NEW kind \in {"mmio", "irq"}, NEW i \in DOMAIN table,
               FpgaOpen(kind, i) \/ FpgaClose(kind, i)
        PROVE  BlocksInv'
    <2>. DEFINE u == table'
    <2>1. /\ pass' = "idle" /\ allocated' = allocated
          /\ Costed(table) /\ IsTable(table) /\ allocated = CountBlocks(table)
      BY <1>6 DEF FpgaOpen, FpgaClose, walkerOnly, BlocksInv, Costed
    <2>2. /\ IsTable(u) /\ Len(u) = Len(table)
          /\ \A j \in 1..Len(table) : u[j].parameters = table[j].parameters
      BY <1>6, <2>1, CallersSetFlags DEF Fields
    <2>. HIDE DEF u
    <2>3. \A j \in 1..Len(table) : BlocksOf(u[j]) = BlocksOf(table[j])
      BY <2>2 DEF BlocksOf
    <2>4. Costed(u)
      BY <2>1, <2>2, <2>3 DEF Costed
    <2>5. i \in 1..Len(table)
      BY <2>1 DEF IsTable
    <2>6. /\ CountBlocks(table) \in Nat /\ CountBlocks(u) \in Nat
          /\ CountBlocks(u) = CountBlocks(table) + Cardinality(BlocksOf(u[i]))
                                                 - Cardinality(BlocksOf(table[i]))
      BY <2>1, <2>2, <2>3, <2>4, <2>5, CountFollows
    <2>7. Cardinality(BlocksOf(table[i])) \in Nat /\ BlocksOf(u[i]) = BlocksOf(table[i])
      BY <2>1, <2>3, <2>5 DEF Costed
    <2>8. allocated' = CountBlocks(u)
      BY <2>1, <2>6, <2>7
    <2>. QED BY <2>1, <2>4, <2>8 DEF BlocksInv, u
  <1>. QED BY <1>2, <1>3, <1>4, <1>5, <1>6 DEF WalkNext, Walk


-----------------------------------------------------------------------------
(* Device feature lists: parents                                           *)

\* Where the level begins that is walked under the first i of the calls cs.
Begin(cs, i) ==
    IF i = 0 THEN dfl.first
    ELSE BranchTarget(cs[i].dfh, Header(cs[i].dfh).params[cs[i].param])

\* The first n entries of t have parents before them that lead to them.
LeadsHere(t, i) ==
    IF t[i].dfh_parent = -1 THEN t[i].dfh \in Level(dfl.first)
    ELSE LET up == t[t[i].dfh_parent + 1].dfh
         IN  \E k \in Branches(up) :
                t[i].dfh \in Level(BranchTarget(up, Header(up).params[k]))

EntriesInv(t, n) ==
    \A i \in 1..n : t[i].dfh_parent \in -1..i - 2 /\ (OneBranchEach => LeadsHere(t, i))

\* The calls cs, whose parents are up, have led from level to level to s, with
\* n entries filled. Where no interface has two branches the last entry is the
\* one whose parameters are looked at, until its branch has been taken.
CallsInv(t, up, cs, s, n) ==
    /\ up[1] = -1 /\ n \in Nat /\ (n = 0 => s.step = "enter" /\ Len(cs) = 0)
    /\ \A i \in 1..Len(cs) :
          /\ up[i + 1] \in 0..n - 1 /\ cs[i].param \in Branches(cs[i].dfh)
          /\ OneBranchEach => t[up[i + 1] + 1].dfh = cs[i].dfh
          /\ Level(cs[i].dfh) \subseteq Level(Begin(cs, i - 1))
    /\ Level(s.dfh) \subseteq Level(Begin(cs, Len(cs)))
    /\ OneBranchEach /\ s.step = "params" =>
          t[n].dfh = s.dfh \/ \E k \in Branches(s.dfh) : k < s.param

Listed == IF pass = "collecting" THEN interface_index + 1 ELSE Len(table)

ParentsInv ==
    /\ parents \in Seq(Int) /\ Len(parents) = Len(calls) + IF pass = "idle" THEN 0 ELSE 1
    /\ EntriesInv(table, Listed)
    /\ pass = "collecting" => CallsInv(table, parents, calls, spot, interface_index + 1)

\* All this is of the list that the hardware holds.
LEMMA ListIsRigid ==
    ASSUME dfl' = dfl
    PROVE  /\ \A t, n : EntriesInv(t, n)' <=> EntriesInv(t, n)
           /\ \A t, up, cs, s, n : CallsInv(t, up, cs, s, n)' <=> CallsInv(t, up, cs, s, n)
  <1>1. \A a : Level(a)' = Level(a)
    BY DEF Level, IsEol, NextDfh, Header
  <1>2. \A a : Header(a)' = Header(a)
    BY DEF Header
  <1>3. \A a : Branches(a)' = Branches(a)
    BY <1>2 DEF Branches
  <1>4. OneBranchEach' <=> OneBranchEach
    BY <1>3 DEF OneBranchEach
  <1>5. \A t, i : LeadsHere(t, i)' <=> LeadsHere(t, i)
    BY <1>1, <1>2, <1>3 DEF LeadsHere
  <1>6. \A cs, i : Begin(cs, i)' = Begin(cs, i)
    BY <1>2 DEF Begin
  <1>7. \A t, n : EntriesInv(t, n)' <=> EntriesInv(t, n)
    BY <1>4, <1>5 DEF EntriesInv
  <1>8. ASSUME NEW t, NEW up, NEW cs, NEW s, NEW n
        PROVE  CallsInv(t, up, cs, s, n)' <=> CallsInv(t, up, cs, s, n)
    BY <1>1, <1>3, <1>4, <1>6 DEF CallsInv
  <1>. QED BY <1>7, <1>8

\* Entries that are not touched keep what leads to them.
LEMMA EntriesStay ==
    ASSUME NEW t, NEW u, NEW n \in Nat, EntriesInv(t, n),
           \A i \in 1..n : u[i].dfh = t[i].dfh /\ u[i].dfh_parent = t[i].dfh_parent
    PROVE  EntriesInv(u, n)
  <1>1. ASSUME NEW i \in 1..n
        PROVE  u[i].dfh_parent \in -1..i - 2 /\ (OneBranchEach => LeadsHere(u, i))
    <2>1. /\ t[i].dfh_parent \in -1..i - 2 /\ (OneBranchEach => LeadsHere(t, i))
          /\ u[i].dfh = t[i].dfh /\ u[i].dfh_parent = t[i].dfh_parent
      BY DEF EntriesInv
    <2>2. t[i].dfh_parent # -1 => t[i].dfh_parent + 1 \in 1..n
      BY <2>1
    <2>. QED BY <2>1, <2>2 DEF LeadsHere
  <1>. QED BY <1>1 DEF EntriesInv

\* An interface is entered: the last call leads to it.
LEMMA EntryIsLed ==
    ASSUME NEW t, NEW u, NEW up, NEW cs, NEW s, NEW r, NEW n, dfl \in Lists,
           CallsInv(t, up, cs, s, n), EntriesInv(t, n), Len(cs) \in Nat,
           s.dfh \in DOMAIN dfl.at, r.dfh = s.dfh,
           \A i \in 1..n : u[i] = t[i], u[n + 1].dfh = s.dfh,
           u[n + 1].dfh_parent = up[Len(cs) + 1]
    PROVE  EntriesInv(u, n + 1) /\ CallsInv(u, up, cs, r, n + 1)
  <1>. DEFINE m == Len(cs)
  <1>1. /\ n \in Nat /\ up[1] = -1 /\ Level(s.dfh) \subseteq Level(Begin(cs, m))
        /\ \A i \in 1..m :
              /\ up[i + 1] \in 0..n - 1 /\ cs[i].param \in Branches(cs[i].dfh)
              /\ OneBranchEach => t[up[i + 1] + 1].dfh = cs[i].dfh
              /\ Level(cs[i].dfh) \subseteq Level(Begin(cs, i - 1))
    BY DEF CallsInv
  <1>2. EntriesInv(u, n)
    BY <1>1, EntriesStay
  <1>3. s.dfh \in Level(Begin(cs, m))
    BY <1>1, LevelGoesOn
  <1>4. up[m + 1] \in -1..n - 1 /\ (OneBranchEach => LeadsHere(u, n + 1))
    <2>1. CASE m = 0
      BY <1>1, <1>3, <2>1 DEF LeadsHere, Begin
    <2>2. CASE m # 0
      <3>1. /\ m \in 1..m /\ up[m + 1] \in 0..n - 1 /\ cs[m].param \in Branches(cs[m].dfh)
            /\ OneBranchEach => t[up[m + 1] + 1].dfh = cs[m].dfh
        BY <1>1, <2>2
      <3>2. u[up[m + 1] + 1] = t[up[m + 1] + 1] /\ up[m + 1] # -1
        BY <1>1, <3>1
      <3>. QED BY <1>1, <1>3, <2>2, <3>1, <3>2 DEF LeadsHere, Begin
    <2>. QED BY <2>1, <2>2
  <1>5. EntriesInv(u, n + 1)
    <2>1. ASSUME NEW i \in 1..n + 1
          PROVE  u[i].dfh_parent \in -1..i - 2 /\ (OneBranchEach => LeadsHere(u, i))
      <3>1. CASE i = n + 1
        BY <1>1, <1>4, <3>1
      <3>2. CASE i # n + 1
        <4>1. i \in 1..n
          BY <1>1, <3>2
        <4>. QED BY <1>2, <4>1 DEF EntriesInv
      <3>. QED BY <3>1, <3>2
    <2>. QED BY <2>1 DEF EntriesInv
  <1>6. ASSUME NEW i \in 1..m
        PROVE  up[i + 1] \in 0..n /\ (OneBranchEach => u[up[i + 1] + 1].dfh = cs[i].dfh)
    <2>1. /\ up[i + 1] \in 0..n - 1
          /\ OneBranchEach => t[up[i + 1] + 1].dfh = cs[i].dfh
      BY <1>1
    <2>2. up[i + 1] \in 0..n /\ up[i + 1] + 1 \in 1..n
      BY <1>1, <2>1
    <2>3. u[up[i + 1] + 1] = t[up[i + 1] + 1]
      BY <2>2
    <2>. QED BY <2>1, <2>2, <2>3
  <1>7. n + 1 \in Nat /\ n + 1 # 0 /\ (n + 1) - 1 = n
    BY <1>1
  <1>8. CallsInv(u, up, cs, r, n + 1)
    BY <1>1, <1>6, <1>7 DEF CallsInv
  <1>. QED BY <1>5, <1>8

\* The walk goes on in the level, or in the parameters of an interface.
LEMMA CallsStay ==
    ASSUME NEW t, NEW up, NEW cs, NEW s, NEW r, NEW n, CallsInv(t, up, cs, s, n),
           s.step # "enter", Level(r.dfh) \subseteq Level(s.dfh),
           r.step = "params" => /\ s.step = "params" /\ r.dfh = s.dfh
                                /\ s.param \in Int /\ r.param = s.param + 1,
           Branches(s.dfh) \subseteq Int
    PROVE  CallsInv(t, up, cs, r, n)
  <1>1. Level(r.dfh) \subseteq Level(Begin(cs, Len(cs)))
    BY DEF CallsInv
  <1>2. OneBranchEach /\ r.step = "params" =>
          t[n].dfh = r.dfh \/ \E k \in Branches(r.dfh) : k < r.param
    <2>. SUFFICES ASSUME OneBranchEach, r.step = "params"
                  PROVE  t[n].dfh = r.dfh \/ \E k \in Branches(r.dfh) : k < r.param
      OBVIOUS
    <2>1. t[n].dfh = s.dfh \/ \E k \in Branches(s.dfh) : k < s.param
      BY DEF CallsInv
    <2>. QED BY <2>1
  <1>. QED BY <1>1, <1>2 DEF CallsInv

\* A branch is taken: the last entry is the parent of what is below.
LEMMA CallsGrow ==
    ASSUME NEW t, NEW up, NEW cs, NEW s, NEW r, NEW n, NEW S, NEW pars, NEW cs2,
           CallsInv(t, up, cs, s, n), s.step = "params", s.param \in Branches(s.dfh),
           s.param \in Int, s.dfh \in DOMAIN dfl.at, Branches(s.dfh) \subseteq Int,
           cs \in Seq(S), s \in S, cs2 = Append(cs, s),
           up \in Seq(Int), Len(up) = Len(cs) + 1, pars = Append(up, n - 1),
           r.dfh = BranchTarget(s.dfh, Header(s.dfh).params[s.param]), r.step = "enter"
    PROVE  CallsInv(t, pars, cs2, r, n)
  <1>. DEFINE m == Len(cs)
  <1>1. /\ n \in Nat /\ n # 0 /\ up[1] = -1
        /\ Level(s.dfh) \subseteq Level(Begin(cs, m))
        /\ \A i \in 1..m :
              /\ up[i + 1] \in 0..n - 1 /\ cs[i].param \in Branches(cs[i].dfh)
              /\ OneBranchEach => t[up[i + 1] + 1].dfh = cs[i].dfh
              /\ Level(cs[i].dfh) \subseteq Level(Begin(cs, i - 1))
    BY DEF CallsInv
  <1>2. /\ m \in Nat /\ Len(cs2) = m + 1 /\ cs2[m + 1] = s
        /\ \A i \in 1..m : cs2[i] = cs[i]
    OBVIOUS
  <1>3. /\ pars[m + 2] = n - 1 /\ \A i \in 1..m + 1 : pars[i] = up[i]
    BY <1>1, <1>2
  <1>4. OneBranchEach => t[n].dfh = s.dfh
    <2>. SUFFICES ASSUME OneBranchEach PROVE t[n].dfh = s.dfh
      OBVIOUS
    <2>1. \A k \in Branches(s.dfh) : k = s.param
      BY DEF OneBranchEach
    <2>2. t[n].dfh = s.dfh \/ \E k \in Branches(s.dfh) : k < s.param
      BY DEF CallsInv
    <2>. QED BY <2>1, <2>2
  <1>5. \A i \in 0..m : Begin(cs2, i) = Begin(cs, i)
    BY <1>2 DEF Begin
  <1>6. Begin(cs2, m + 1) = r.dfh
    BY <1>2 DEF Begin
  <1>. HIDE DEF m
  <1>7. ASSUME NEW i \in 1..m + 1
        PROVE  /\ pars[i + 1] \in 0..n - 1 /\ cs2[i].param \in Branches(cs2[i].dfh)
               /\ OneBranchEach => t[pars[i + 1] + 1].dfh = cs2[i].dfh
               /\ Level(cs2[i].dfh) \subseteq Level(Begin(cs2, i - 1))
    <2>1. CASE i = m + 1
      <3>1. /\ i + 1 = m + 2 /\ (n - 1) + 1 = n /\ n - 1 \in 0..n - 1 /\ i - 1 = m
            /\ m \in 0..m
        BY <1>1, <1>2, <2>1
      <3>. QED BY <1>1, <1>2, <1>3, <1>4, <1>5, <2>1, <3>1
    <2>2. CASE i # m + 1
      <3>1. i \in 1..m /\ i + 1 \in 1..m + 1 /\ i - 1 \in 0..m
        BY <1>2, <2>2
      <3>. QED BY <1>1, <1>2, <1>3, <1>5, <3>1
    <2>. QED BY <2>1, <2>2
  <1>8. pars[1] = -1
    BY <1>1, <1>2, <1>3
  <1>. QED BY <1>1, <1>2, <1>6, <1>7, <1>8 DEF CallsInv

\* A level ends: its caller goes on behind its branch.
LEMMA CallsShrink ==
    ASSUME NEW t, NEW up, NEW cs, NEW s, NEW r, NEW n, NEW m, NEW pars, NEW cs2,
           CallsInv(t, up, cs, s, n), m \in Nat, Len(cs) = m + 1, Len(cs2) = m,
           \A i \in 1..m : cs2[i] = cs[i], \A i \in 1..m + 1 : pars[i] = up[i],
           r.dfh = cs[m + 1].dfh, r.step # "enter", cs[m + 1].param \in Int,
           r.step = "params" => r.param = cs[m + 1].param + 1
    PROVE  CallsInv(t, pars, cs2, r, n)
  <1>1. /\ n \in Nat /\ n # 0 /\ up[1] = -1
        /\ \A i \in 1..m + 1 :
              /\ up[i + 1] \in 0..n - 1 /\ cs[i].param \in Branches(cs[i].dfh)
              /\ OneBranchEach => t[up[i + 1] + 1].dfh = cs[i].dfh
              /\ Level(cs[i].dfh) \subseteq Level(Begin(cs, i - 1))
    BY DEF CallsInv
  <1>2. \A i \in 0..m : Begin(cs2, i) = Begin(cs, i)
    BY DEF Begin
  <1>3. ASSUME NEW i \in 1..m
        PROVE  /\ pars[i + 1] \in 0..n - 1 /\ cs2[i].param \in Branches(cs2[i].dfh)
               /\ OneBranchEach => t[pars[i + 1] + 1].dfh = cs2[i].dfh
               /\ Level(cs2[i].dfh) \subseteq Level(Begin(cs2, i - 1))
    <2>1. i \in 1..m + 1 /\ i + 1 \in 1..m + 1 /\ i - 1 \in 0..m
      OBVIOUS
    <2>. QED BY <1>1, <1>2, <2>1
  <1>4. Level(r.dfh) \subseteq Level(Begin(cs2, m))
    <2>1. m + 1 \in 1..m + 1 /\ (m + 1) - 1 = m /\ m \in 0..m
      OBVIOUS
    <2>. QED BY <1>1, <1>2, <2>1
  <1>5. cs[m + 1].param \in Branches(r.dfh) /\ pars[1] = -1
    <2>1. m + 1 \in 1..m + 1 /\ 1 \in 1..m + 1
      OBVIOUS
    <2>. QED BY <1>1, <2>1
  <1>6. r.step = "params" => \E k \in Branches(r.dfh) : k < r.param
    <2>1. cs[m + 1].param < cs[m + 1].param + 1
      OBVIOUS
    <2>. QED BY <1>5, <2>1
  <1>. QED BY <1>1, <1>3, <1>4, <1>5, <1>6 DEF CallsInv

LEMMA ParentsStart == WalkInit => ParentsInv
  BY EmptyIsTable DEF WalkInit, ParentsInv, Listed, EntriesInv

\* Where the walk is, and what it can do there.
LEMMA SpotIs ==
    ASSUME OnListInv, pass # "idle"
    PROVE  /\ dfl \in Lists /\ spot \in Spots /\ OnList(spot) /\ spot.dfh \in DOMAIN dfl.at
           /\ calls \in Seq(Spots) /\ Len(calls) \in Nat
           /\ Branches(spot.dfh) \subseteq Int
           /\ spot.step = "params" => spot.param \in Nat /\ spot.param \in DOMAIN Header(spot.dfh).params
           /\ \A i \in 1..Len(calls) : calls[i].param \in Int
  <1>1. dfl \in Lists /\ spot \in Spots /\ OnList(spot) /\ calls \in Seq(Spots)
    BY DEF OnListInv, OnList
  <1>2. spot.dfh \in DOMAIN dfl.at
    BY <1>1 DEF Spots
  <1>3. \A i \in DOMAIN Header(spot.dfh).params : i \in Nat
    <2>1. DOMAIN <<>> = {}
      OBVIOUS
    <2>. QED BY <1>1, <1>2, <2>1, ParametersEnd
  <1>4. \A i \in 1..Len(calls) : calls[i] \in Spots
    <2>. HIDE DEF Spots
    <2>. QED BY <1>1
  <1>. QED BY <1>1, <1>2, <1>3, <1>4 DEF Branches, OnList, Spots

LEMMA PassKeepsParents ==
    ASSUME OnListInv, PassInv, TableInv, ParentsInv, Enter \/ Param \/ NextHeader \/ LevelEnds
    PROVE  ParentsInv'
  <1>. DEFINE n == interface_index + 1
              m == Len(calls)
  <1>1. /\ pass \in {"counting", "collecting"} /\ pass' = pass /\ dfl' = dfl
    BY DEF OnListInv, Enter, Param, NextHeader, LevelEnds
  <1>2. /\ dfl \in Lists /\ spot \in Spots /\ OnList(spot) /\ spot.dfh \in DOMAIN dfl.at
        /\ calls \in Seq(Spots) /\ m \in Nat /\ Branches(spot.dfh) \subseteq Int
        /\ spot.step = "params" =>
              spot.param \in Nat /\ spot.param \in DOMAIN Header(spot.dfh).params
        /\ \A i \in 1..m : calls[i].param \in Int
    BY <1>1, SpotIs
  <1>3. /\ parents \in Seq(Int) /\ Len(parents) = m + 1 /\ EntriesInv(table, Listed)
        /\ pass = "collecting" => CallsInv(table, parents, calls, spot, n)
    BY <1>1 DEF ParentsInv
  <1>4. /\ \A t, k : EntriesInv(t, k)' <=> EntriesInv(t, k)
        /\ \A t, up, cs, s, k : CallsInv(t, up, cs, s, k)' <=> CallsInv(t, up, cs, s, k)
    BY <1>1, ListIsRigid
  <1>5. pass = "counting" => Listed = 0 /\ Len(table) = 0
    BY EmptyIsTable DEF TableInv, Listed
  <1>6. interface_index \in Int
    BY DEF PassInv
  <1>7. ASSUME parents' \in Seq(Int), Len(parents') = Len(calls') + 1,
               table' = table, interface_index' = interface_index,
               pass = "collecting" => CallsInv(table, parents', calls', spot', n)
        PROVE  ParentsInv'
    <2>1. Listed' = Listed
      BY <1>1, <1>7 DEF Listed
    <2>2. EntriesInv(table, Listed)'
      BY <1>3, <1>4, <1>7, <2>1
    <2>3. pass = "collecting" =>
            CallsInv(table', parents', calls', spot', interface_index' + 1)
      BY <1>7
    <2>. QED BY <1>1, <1>4, <1>7, <2>2, <2>3 DEF ParentsInv
  <1>8. CASE Enter
    <2>1. /\ spot.step = "enter" /\ parents' = parents /\ calls' = calls
          /\ spot' = [spot EXCEPT !.step = IF HasParams(spot.dfh) THEN "params" ELSE "next",
                                  !.param = 1]
      BY <1>8 DEF Enter
    <2>2. spot'.dfh = spot.dfh
      BY <1>2, <2>1 DEF Spots
    <2>3. CASE pass = "counting"
      BY <1>3, <1>7, <1>8, <2>1, <2>3 DEF Enter, tableOnly
    <2>4. CASE pass = "collecting"
      <3>. DEFINE u == table'
                  r == spot'
      <3>1. /\ n + 1 \in 1..Len(table) /\ n \in Int
            /\ Replaced(table, n + 1, u[n + 1], u)
            /\ u[n + 1].dfh = spot.dfh /\ u[n + 1].dfh_parent = parents[m + 1]
        <4>1. interface_index + 2 = n + 1
          BY <1>6
        <4>. QED BY <1>3, <1>6, <1>8, <2>4, <4>1, EnterReplaces
      <3>2. \A i \in 1..n : u[i] = table[i]
        <4>. HIDE DEF u, n
        <4>1. ASSUME NEW i \in 1..n PROVE i \in 1..Len(table) /\ i # n + 1
          BY <3>1
        <4>. QED BY <3>1, <4>1 DEF Replaced
      <3>3. EntriesInv(table, n) /\ CallsInv(table, parents, calls, spot, n)
        BY <1>3, <2>4 DEF Listed
      <3>4. r.dfh = spot.dfh
        BY <2>2
      <3>5. EntriesInv(u, n + 1) /\ CallsInv(u, parents, calls, r, n + 1)
        <4>. HIDE DEF u, n, r, Spots
        <4>. QED BY <1>2, <3>1, <3>2, <3>3, <3>4, EntryIsLed
      <3>6. interface_index' = n
        BY <1>8, <2>4 DEF Enter
      <3>7. Listed' = n + 1
        BY <1>1, <2>4, <3>6 DEF Listed
      <3>8. EntriesInv(table', Listed') /\ CallsInv(table', parents', calls', spot', interface_index' + 1)
        BY <2>1, <3>5, <3>6, <3>7
      <3>. QED BY <1>1, <1>3, <1>4, <2>1, <3>8 DEF ParentsInv
    <2>. QED BY <1>1, <2>3, <2>4
  <1>9. CASE Param
    <2>. DEFINE block == Header(spot.dfh).params[spot.param]
    <2>1. /\ spot.step = "params" /\ table' = table /\ interface_index' = interface_index
      BY <1>9 DEF Param, tableOnly
    <2>2. CASE ~IsNull(block) /\ block.id = BranchId
      <3>1. /\ spot' = [step |-> "enter", dfh |-> BranchTarget(spot.dfh, block), param |-> 1]
            /\ calls' = Append(calls, spot) /\ parents' = Append(parents, interface_index)
        BY <1>9, <2>2 DEF Param, Push
      <3>2. spot.param \in Branches(spot.dfh)
        BY <1>2, <2>1, <2>2 DEF Branches
      <3>3. parents' \in Seq(Int) /\ Len(parents') = Len(calls') + 1
        <4>. HIDE DEF Spots
        <4>. QED BY <1>2, <1>3, <1>6, <3>1
      <3>. DEFINE r == spot'
                  cs2 == calls'
                  pars == parents'
      <3>4. /\ r.dfh = BranchTarget(spot.dfh, Header(spot.dfh).params[spot.param])
            /\ r.step = "enter" /\ cs2 = Append(calls, spot) /\ pars = Append(parents, n - 1)
            /\ spot.param \in Int
        <4>1. n - 1 = interface_index
          BY <1>6
        <4>. QED BY <1>2, <2>1, <3>1, <4>1
      <3>5. pass = "collecting" => CallsInv(table, pars, cs2, r, n)
        <4>. HIDE DEF r, cs2, pars, n, Spots
        <4>. QED BY <1>2, <1>3, <2>1, <3>2, <3>4, CallsGrow
      <3>. QED BY <1>7, <2>1, <3>3, <3>5
    <2>3. CASE ~(~IsNull(block) /\ block.id = BranchId)
      <3>1. spot' = Skipped(spot) /\ calls' = calls /\ parents' = parents
        BY <1>9, <2>3 DEF Param
      <3>. DEFINE r == spot'
      <3>2. /\ r.dfh = spot.dfh
            /\ r.step = "params" => r.param = spot.param + 1
        BY <1>2, <3>1 DEF Skipped, After, Spots
      <3>3. pass = "collecting" => CallsInv(table, parents, calls, r, n)
        <4>. HIDE DEF r, n, Spots
        <4>. QED BY <1>2, <1>3, <2>1, <3>2, CallsStay
      <3>. QED BY <1>3, <1>7, <2>1, <3>1, <3>3
    <2>. QED BY <2>2, <2>3
  <1>10. CASE NextHeader
    <2>1. /\ spot.step = "next" /\ table' = table /\ interface_index' = interface_index
          /\ calls' = calls /\ parents' = parents /\ ~IsEol(spot.dfh)
          /\ spot' = [spot EXCEPT !.step = "enter", !.dfh = NextDfh(spot.dfh)]
      BY <1>10 DEF NextHeader, tableOnly
    <2>. DEFINE r == spot'
    <2>2. r.step = "enter" /\ r.dfh = NextDfh(spot.dfh)
      BY <1>2, <2>1 DEF Spots
    <2>3. Level(r.dfh) \subseteq Level(spot.dfh)
      BY <1>2, <2>1, <2>2, LevelGoesOn
    <2>4. pass = "collecting" => CallsInv(table, parents, calls, r, n)
      <3>. HIDE DEF r, n, Spots
      <3>. QED BY <1>2, <1>3, <2>1, <2>2, <2>3, CallsStay
    <2>. QED BY <1>3, <1>7, <2>1, <2>4
  <1>11. CASE LevelEnds
    <2>. DEFINE l == m - 1
    <2>1. /\ table' = table /\ interface_index' = interface_index
          /\ calls # <<>> /\ spot' = After(calls[m])
          /\ calls' = SubSeq(calls, 1, l) /\ parents' = SubSeq(parents, 1, Len(parents) - 1)
      BY <1>11 DEF LevelEnds, tableOnly, Pop
    <2>2. l \in Nat /\ m = l + 1 /\ Len(parents) - 1 = l + 1
      <3>. HIDE DEF Spots
      <3>. QED BY <1>2, <1>3, <2>1
    <2>. HIDE DEF l
    <2>3. /\ calls' \in Seq(Spots) /\ Len(calls') = l /\ \A i \in 1..l : calls'[i] = calls[i]
      <3>. HIDE DEF Spots
      <3>1. \A i \in 1..l : calls[i] \in Spots
        BY <1>2, <2>2
      <3>. QED BY <2>1, <2>2, <3>1, SubSeqProperties
    <2>4. /\ parents' \in Seq(Int) /\ Len(parents') = l + 1
          /\ \A i \in 1..l + 1 : parents'[i] = parents[i]
      <3>1. parents' = SubSeq(parents, 1, l + 1)
        BY <2>1, <2>2
      <3>2. \A i \in 1..l + 1 : parents[i] \in Int
        BY <1>3, <2>2
      <3>. QED BY <2>2, <3>1, <3>2, SubSeqProperties
    <2>. DEFINE r == spot'
                cs2 == calls'
                pars == parents'
    <2>5. /\ r.dfh = calls[l + 1].dfh /\ r.step # "enter" /\ calls[l + 1].param \in Int
          /\ r.step = "params" => r.param = calls[l + 1].param + 1
      <3>1. l + 1 \in 1..m /\ r = After(calls[l + 1])
        BY <2>1, <2>2
      <3>2. calls[l + 1] \in Spots
        <4>. HIDE DEF Spots
        <4>. QED BY <1>2, <3>1
      <3>3. calls[l + 1].step = "params"
        BY <3>1 DEF OnListInv
      <3>. HIDE DEF r
      <3>. QED BY <1>2, <3>1, <3>2, <3>3 DEF After, Spots
    <2>6. pass = "collecting" => CallsInv(table, pars, cs2, r, n)
      <3>1. /\ Len(calls) = l + 1 /\ Len(cs2) = l /\ \A i \in 1..l : cs2[i] = calls[i]
            /\ \A i \in 1..l + 1 : pars[i] = parents[i]
        BY <2>2, <2>3, <2>4
      <3>. HIDE DEF r, n, Spots, cs2, pars
      <3>. QED BY <1>3, <2>2, <2>5, <3>1, CallsShrink
    <2>. QED BY <1>7, <2>1, <2>3, <2>4, <2>6
  <1>. QED BY <1>8, <1>9, <1>10, <1>11


LEMMA ParentsAreKept ==
    OnListInv /\ PassInv /\ TableInv /\ BlocksInv /\ ParentsInv /\ [WalkNext]_walkVars
        => ParentsInv'
  <1>. SUFFICES ASSUME OnListInv, PassInv, TableInv, BlocksInv, ParentsInv, [WalkNext]_walkVars
                PROVE  ParentsInv'
    OBVIOUS
  <1>1. /\ parents \in Seq(Int) /\ EntriesInv(table, Listed)
        /\ Len(parents) = Len(calls) + IF pass = "idle" THEN 0 ELSE 1
        /\ pass = "collecting" => CallsInv(table, parents, calls, spot, interface_index + 1)
    BY DEF ParentsInv
  <1>2. dfl' = dfl =>
          /\ \A t, k : EntriesInv(t, k)' <=> EntriesInv(t, k)
          /\ \A t, up, cs, s, k : CallsInv(t, up, cs, s, k)' <=> CallsInv(t, up, cs, s, k)
    BY ListIsRigid
  <1>3. CASE UNCHANGED walkVars
    <2>1. Listed' = Listed
      BY <1>3 DEF walkVars, Listed
    <2>. QED BY <1>1, <1>2, <1>3, <2>1 DEF walkVars, ParentsInv
  <1>4. CASE Scan \/ Cleanup
    <2>1. /\ dfl' = dfl /\ calls' = calls /\ pass' # "collecting" /\ pass = "idle"
          /\ table' = <<>> /\ Listed' = 0
      BY <1>4, AllIsFreed, EmptyIsTable DEF Scan, Cleanup, walkerOnly, Listed
    <2>2. /\ parents' \in Seq(Int)
          /\ Len(parents') = Len(calls') + IF pass' = "idle" THEN 0 ELSE 1
      <3>1. CASE Cleanup
        BY <1>1, <2>1, <3>1 DEF Cleanup, walkerOnly
      <3>2. CASE Scan
        <4>1. parents' = Append(parents, -1) /\ pass' = "counting"
          BY <3>2 DEF Scan, Push
        <4>2. calls = <<>> /\ Len(calls) = 0
          BY <2>1, EmptyIsTable DEF PassInv
        <4>. QED BY <1>1, <2>1, <4>1, <4>2
      <3>. QED BY <1>4, <3>1, <3>2
    <2>3. EntriesInv(table', Listed')
      BY <2>1 DEF EntriesInv
    <2>. QED BY <1>2, <2>1, <2>2, <2>3 DEF ParentsInv
  <1>5. CASE CountingEnds
    <2>1. /\ dfl' = dfl /\ calls = <<>> /\ calls' = <<>> /\ pass = "counting"
          /\ pass' = "collecting" /\ interface_index' = -1
          /\ parents' = [parents EXCEPT ![Len(parents)] = -1]
          /\ spot' = [step |-> "enter", dfh |-> dfl.first, param |-> 1]
      BY <1>5 DEF CountingEnds
    <2>2. /\ Len(parents) = 1 /\ Len(<<>>) = 0
      BY <1>1, <2>1, EmptyIsTable
    <2>3. parents' \in Seq(Int) /\ Len(parents') = 1 /\ parents'[1] = -1
      <3>. DEFINE q == parents'
      <3>1. q = [parents EXCEPT ![1] = -1] /\ -1 \in Int /\ 1 \in 1..Len(parents)
        BY <2>1, <2>2
      <3>. HIDE DEF q
      <3>2. q \in Seq(Int) /\ Len(q) = Len(parents) /\ q[1] = -1
        BY <1>1, <3>1, ExceptSeq
      <3>. QED BY <2>2, <3>2 DEF q
    <2>4. Listed' = 0
      BY <2>1 DEF Listed
    <2>5. EntriesInv(table', Listed')
      BY <2>4 DEF EntriesInv
    <2>6. CallsInv(table', parents', calls', spot', interface_index' + 1)
      <3>1. interface_index' + 1 = 0 /\ spot'.dfh = dfl.first /\ spot'.step = "enter"
        BY <2>1
      <3>. DEFINE t == table'
                  s == spot'
                  q == parents'
                  n == interface_index' + 1
      <3>. HIDE DEF t, s, q, n
      <3>2. CallsInv(t, q, <<>>, s, n)
        BY <2>2, <2>3, <3>1 DEF CallsInv, Begin, s, q, n
      <3>. QED BY <2>1, <3>2 DEF t, s, q, n
    <2>. QED BY <1>2, <2>1, <2>2, <2>3, <2>5, <2>6 DEF ParentsInv
  <1>6. CASE CollectingEnds
    <2>1. /\ dfl' = dfl /\ calls = <<>> /\ calls' = <<>> /\ pass = "collecting"
          /\ pass' = "idle" /\ table' = table /\ interface_index' = interface_index
          /\ parents' = SubSeq(parents, 1, Len(parents) - 1) /\ AtEnd(Place)
      BY <1>6 DEF CollectingEnds, tableOnly, Pop, AtEnd, Place
    <2>2. Len(parents) = 1 /\ Len(<<>>) = 0
      BY <1>1, <2>1, EmptyIsTable
    <2>3. parents' \in Seq(Int) /\ Len(parents') = 0
      BY <1>1, <2>1, <2>2
    <2>4. PICK places, entered, n, m : Follows(places, entered, n, m)
      BY <2>1 DEF PassInv
    <2>5. interface_index + 1 = scanned
      BY <2>1, <2>4, FollowerIsInside DEF PassInv
    <2>6. Listed' = Listed
      BY <2>1, <2>5 DEF Listed, TableInv
    <2>. QED BY <1>1, <1>2, <2>1, <2>2, <2>3, <2>6 DEF ParentsInv
  <1>7. ASSUME NEW kind \in {"mmio", "irq"}, NEW i \in DOMAIN table,
               FpgaOpen(kind, i) \/ FpgaClose(kind, i)
        PROVE  ParentsInv'
    <2>. DEFINE u == table'
    <2>1. /\ dfl' = dfl /\ calls' = calls /\ parents' = parents /\ pass = "idle" /\ pass' = "idle"
          /\ IsTable(table)
      BY <1>7 DEF FpgaOpen, FpgaClose, walkerOnly, TableInv
    <2>2. /\ Len(u) = Len(table) /\ Len(table) \in Nat
          /\ \A j \in 1..Len(table) :
                u[j].dfh = table[j].dfh /\ u[j].dfh_parent = table[j].dfh_parent
      BY <1>7, <2>1, CallersSetFlags DEF Fields, IsTable
    <2>3. Listed = Len(table) /\ Listed' = Len(table)
      BY <2>1, <2>2 DEF Listed
    <2>. HIDE DEF u
    <2>4. EntriesInv(u, Len(table))
      BY <1>1, <2>2, <2>3, EntriesStay
    <2>5. EntriesInv(table', Listed')
      BY <2>3, <2>4 DEF u
    <2>. QED BY <1>1, <1>2, <2>1, <2>5 DEF ParentsInv
  <1>. QED BY <1>3, <1>4, <1>5, <1>6, <1>7, PassKeepsParents DEF WalkNext, Walk

(* The parent an interface is given is the one whose branch leads to its     *)
(* level, as long as no interface has two branches; and between scans the    *)
(* live blocks are those of the table. For every well-formed list, and scans,*)
(* opens, closes and clean-ups in any order. The stack of parents is taken   *)
(* to keep what is pushed, also where its allocation is one short.           *)
THEOREM TablesAreTheList == WalkSpec => []TableIsTheList
  <1>. DEFINE AllInv == OnListInv /\ PassInv /\ TableInv /\ BlocksInv /\ ParentsInv
  <1>1. AllInv => TableIsTheList
    <2>. SUFFICES ASSUME AllInv PROVE TableIsTheList
      OBVIOUS
    <2>1. NothingLeaks
      BY DEF NothingLeaks, BlocksInv
    <2>2. ParentLeadsHere
      <3>. SUFFICES ASSUME OneBranchEach, NEW i \in DOMAIN table, table[i].dfh # -1
                    PROVE  LeadsHere(table, i)
        BY DEF ParentLeadsHere, ParentIsTheBranching, LeadsHere
      <3>1. DOMAIN table = 1..Len(table)
        BY DEF TableInv, IsTable
      <3>2. i \in 1..Listed
        <4>1. CASE pass = "collecting"
          <5>1. table[i] # ZeroInfo
            BY DEF ZeroInfo
          <5>2. i <= interface_index + 1
            BY <3>1, <4>1, <5>1 DEF BlocksInv, PassInv
          <5>. QED BY <3>1, <4>1, <5>2 DEF Listed, PassInv
        <4>2. CASE pass # "collecting"
          BY <3>1, <4>2 DEF Listed
        <4>. QED BY <4>1, <4>2
      <3>. QED BY <3>2 DEF ParentsInv, EntriesInv
    <2>. QED BY <2>1, <2>2 DEF TableIsTheList
  <1>2. WalkInit => AllInv
    BY PassesStart, TableStarts, BlocksStart, ParentsStart
  <1>3. AllInv /\ [WalkNext]_walkVars => AllInv'
    BY WalkStaysOnList, PassesAreKept, TableIsKept, BlocksAreKept, ParentsAreKept
  <1>. QED BY <1>1, <1>2, <1>3, PTL DEF WalkSpec
=============================================================================
