--------------------------------- MODULE Clock ---------------------------------
(***************************************************************************)
(* Time of day and delays: gettimeofday, settimeofday and times on top of  *)
(* the tick counter, and the busy loop below usleep. The tick counter is   *)
(* read in one step: a wrap of its low word between two loads is left out. *)
(***************************************************************************)
EXTENDS Integers

CONSTANTS
    US,             \* ALT_US, microseconds in a second
    TickRates,      \* rates of the system clock, 0 for none
    Times,          \* what settimeofday is given
    MaxTicks,       \* bound of the tick counter
    Modulus,        \* the values of a word, 2^32
    LoopClocks,     \* CLOCKS_PER_LOOP_ITERATION
    ShortLoops,     \* loops of the longest short delay, 1 << 16
    CpuMHz,         \* values of CPU_FREQUENCY_MHZ
    Delays          \* what usleep is asked for

ASSUME ClockConstants ==
    /\ US \in Nat \ {0} /\ TickRates \subseteq 0..US /\ MaxTicks \in Nat
    /\ Times \subseteq [tv_sec : Nat, tv_usec : 0..US - 1]
    /\ {Modulus, LoopClocks, ShortLoops} \subseteq Nat \ {0}
    /\ CpuMHz \subseteq Nat \ {0} /\ Delays \subseteq 0..Modulus - 1
    \* a short delay fits a word, as 9 * 50 MHz << 16 does
    /\ \A mhz \in CpuMHz : LoopClocks * ShortLoops * mhz < Modulus

VARIABLES
    ticks_per_second, ticks,
    resettime,      \* alt_resettime: the time of tick zero
    told,           \* what the last call gave: [result, time]
    set,            \* the time last set, in microseconds, and its tick
    slept           \* the last delay: [how, mhz, us, clocks]

clockVars == <<ticks_per_second, ticks, resettime, told, set, slept>>

TimeVal == [tv_sec : Int, tv_usec : Int]
Total(t) == t.tv_sec * US + t.tv_usec

ClockType ==
    /\ ticks_per_second \in TickRates /\ ticks \in 0..MaxTicks
    /\ resettime \in TimeVal
    /\ told.result \in {"ok", "ENOTSUP", "ENOSYS"} /\ told.time \in TimeVal
    /\ set.time \in Nat /\ set.at \in 0..ticks
    /\ slept.clocks \in Nat

Zero == [tv_sec |-> 0, tv_usec |-> 0]

ClockInit ==
    /\ ticks_per_second \in TickRates /\ ticks = 0
    /\ resettime = Zero /\ told = [result |-> "ENOSYS", time |-> Zero]
    /\ set = [time |-> 0, at |-> 0]
    /\ slept = [how |-> "loop", mhz |-> 1, us |-> 0, clocks |-> 0]

Tock ==
    /\ ticks_per_second # 0 /\ ticks < MaxTicks
    /\ ticks' = ticks + 1
    /\ UNCHANGED <<ticks_per_second, resettime, told, set, slept>>

-----------------------------------------------------------------------------
(* Time of day                                                             *)

Seconds == ticks \div ticks_per_second
Fraction == (ticks * (US \div ticks_per_second)) % US

OnlyCarried(t) ==               \* mutant of Normalised: no borrow
    IF t.tv_usec < US THEN t
    ELSE [tv_sec |-> t.tv_sec + t.tv_usec \div US, tv_usec |-> t.tv_usec % US]

\* A negative fraction borrows seconds while there are any; a large one carries.
Normalised(t) ==
    IF t.tv_usec < 0 /\ t.tv_sec <= (-t.tv_usec - 1) \div US THEN Zero
    ELSE [tv_sec |-> t.tv_sec + t.tv_usec \div US, tv_usec |-> t.tv_usec % US]

GetTimeOfDay ==
    /\ told' = IF ticks_per_second = 0 THEN [told EXCEPT !.result = "ENOTSUP"]
               ELSE [result |-> "ok",
                     time |-> Normalised([tv_sec |-> resettime.tv_sec + Seconds,
                                          tv_usec |-> resettime.tv_usec + Fraction])]
    /\ UNCHANGED <<ticks_per_second, ticks, resettime, set, slept>>

SetTimeOfDay(t) ==
    /\ IF ticks_per_second = 0
       THEN told' = [told EXCEPT !.result = "ENOSYS"] /\ UNCHANGED <<resettime, set>>
       ELSE /\ resettime' = [tv_sec |-> t.tv_sec - Seconds,
                             tv_usec |-> t.tv_usec - Fraction]
            /\ set' = [time |-> Total(t), at |-> ticks]
            /\ told' = [result |-> "ok", time |-> t]
    /\ UNCHANGED <<ticks_per_second, ticks, slept>>

\* times: the ticks are its result.
TimesCall ==
    /\ told' = [told EXCEPT !.result = IF ticks_per_second = 0 THEN "ENOSYS" ELSE "ok"]
    /\ UNCHANGED <<ticks_per_second, ticks, resettime, set, slept>>

-----------------------------------------------------------------------------
(* alt_busy_sleep, in words of Modulus values. The loop takes LoopClocks   *)
(* clocks a turn; its register starts at zero in the outer loop and so     *)
(* turns Modulus times.                                                    *)

UsPerOuter(mhz) == (LoopClocks * Modulus) \div mhz

ProductFirst(us, mhz) ==        \* mutant of SmallLoops: one formula for all delays
    ((us * mhz) % Modulus) \div LoopClocks
SmallLoops(us, mhz) ==
    IF us > LoopClocks * ShortLoops
    THEN ((us \div LoopClocks) * mhz) % Modulus
    ELSE ((us * mhz) % Modulus) \div LoopClocks

BusyLoop(us, mhz) ==
    LET big == IF us > UsPerOuter(mhz) THEN us \div UsPerOuter(mhz) ELSE 0
        rest == IF big > 0 THEN us % UsPerOuter(mhz) ELSE us
    IN  LoopClocks * (big * Modulus + SmallLoops(rest, mhz))

\* With a timestamp or the machine timer: CPU_FREQUENCY_MHZ * us is a word.
TimerWait(us, mhz) == (mhz * us) % Modulus

Sleep(how, us, mhz) ==
    /\ slept' = [how |-> how, mhz |-> mhz, us |-> us,
                 clocks |-> IF how = "loop" THEN BusyLoop(us, mhz) ELSE TimerWait(us, mhz)]
    /\ UNCHANGED <<ticks_per_second, ticks, resettime, told, set>>

-----------------------------------------------------------------------------
ClockNext ==
    \/ Tock \/ GetTimeOfDay \/ TimesCall
    \/ \E t \in Times : SetTimeOfDay(t)
    \/ \E how \in {"loop", "timer"}, us \in Delays, mhz \in CpuMHz : Sleep(how, us, mhz)

ClockSpec == ClockInit /\ [][ClockNext]_clockVars

-----------------------------------------------------------------------------
(* gettimeofday gives the time last set plus the time since, in normal     *)
(* form, when the clock's rate divides the microseconds of a second. (At   *)
(* other rates the fraction drifts and the time can go back.)              *)
TimeIsKept ==
    [][ GetTimeOfDay /\ told'.result = "ok" /\ US % ticks_per_second = 0 =>
            /\ told'.time.tv_usec \in 0..US - 1
            /\ Total(told'.time) = set.time + (ticks - set.at) * (US \div ticks_per_second)
      ]_clockVars

(* The busy loop delays for what was asked, less one inner loop's          *)
(* microseconds and more by one microsecond for every turn of the outer    *)
(* loop; except at exactly one outer loop, where the count may wrap to     *)
(* zero. The timer delays exactly, while the clocks fit a word.            *)
SleepsAsAsked ==
    LET asked == slept.us * slept.mhz
    IN  IF slept.how = "timer" THEN asked < Modulus => slept.clocks = asked
        ELSE slept.us = UsPerOuter(slept.mhz) \/
             /\ asked < slept.clocks + LoopClocks * slept.mhz
             /\ slept.clocks <= asked + (slept.us \div UsPerOuter(slept.mhz)) * slept.mhz
==============================================================================
