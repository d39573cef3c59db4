-------------------------------- MODULE Alarms --------------------------------
(***************************************************************************)
(* The system clock and its alarms: the doubly linked list of sys/alt_llist*)
(* that alt_alarm_start and alt_alarm_stop change and alt_tick walks.      *)
(* alt_tick runs at interrupt level; the callbacks it makes are code of    *)
(* the application, which starts and stops alarms itself.                  *)
(***************************************************************************)
EXTENDS Integers

CONSTANTS
    Alarm,          \* the alt_alarm structures of the application
    AlarmList,      \* alt_alarm_list
    Null,
    Rates,          \* clock rates a driver may announce, in ticks per second
    Intervals,      \* what callers and callbacks ask for, in ticks
    Meddling        \* a callback may stop the alarm behind its own

ASSUME AlarmConstants ==
    /\ AlarmList \notin Alarm /\ Null \notin Alarm \cup {AlarmList}
    /\ Rates \subseteq Nat
    /\ Intervals \subseteq Nat \ {0}
    /\ Meddling \in BOOLEAN

VARIABLES
    next, previous,     \* the links; NULL before an alarm's first start
    time,               \* when an alarm is due, in ticks
    tick_rate,          \* _alt_tick_rate
    nticks,             \* _alt_nticks
    walk,               \* alt_tick: where it is, its alarm and the successor it read
    armed               \* started, and since then neither stopped nor returned zero

alarmVars == <<next, previous, time, tick_rate, nticks, walk, armed>>
listVars == <<next, previous, time, armed>>

Node == Alarm \cup {AlarmList}
Links == [Node -> Node \cup {Null}]
NotWalking == [at |-> "off", alarm |-> AlarmList, next |-> AlarmList]

AlarmType ==
    /\ next \in Links /\ previous \in Links
    /\ time \in [Alarm -> Nat]
    /\ tick_rate \in Rates \cup {0} /\ nticks \in Nat
    /\ walk \in [at : {"off", "look", "callback"}, alarm : Node, next : Node]
    /\ armed \subseteq Alarm

AlarmInit ==
    /\ next = [x \in Node |-> IF x = AlarmList THEN AlarmList ELSE Null]
    /\ previous = next
    /\ time = [a \in Alarm |-> 0]
    /\ tick_rate = 0 /\ nticks = 0
    /\ walk = NotWalking
    /\ armed = {}

-----------------------------------------------------------------------------
(* sys/alt_llist.h                                                         *)

InsertOneWay(a) ==      \* mutant of Insert: the old first keeps its previous
    /\ next' = [next EXCEPT ![a] = next[AlarmList], ![AlarmList] = a]
    /\ previous' = [previous EXCEPT ![a] = AlarmList]

\* An entry becomes the first of the list.
Insert(a) ==
    /\ next' = [next EXCEPT ![a] = next[AlarmList], ![AlarmList] = a]
    /\ previous' = [previous EXCEPT ![a] = AlarmList, ![next[AlarmList]] = a]

\* A removed entry points to itself: removing it again does nothing.
Remove(a) ==
    /\ previous' = [previous EXCEPT ![next[a]] = previous[a], ![a] = a]
    /\ next' = [next EXCEPT ![previous[a]] = next[a], ![a] = a]

-----------------------------------------------------------------------------
(* alt_alarm_start and alt_alarm_stop, with interrupts off; from the task, *)
(* or from the callback of the alarm being looked at.                      *)

Calling == walk.at \in {"off", "callback"}

DueWithoutExtra(n) == nticks + n        \* mutant of Due
Due(n) == nticks + n + 1

\* -ENOTSUP without a system clock, -EINVAL without an alarm; the caller
\* starts no alarm that is armed.
AlarmStart(a, n) ==
    /\ Calling /\ tick_rate # 0
    /\ a \notin armed
    /\ time' = [time EXCEPT ![a] = Due(n)]
    /\ Insert(a)
    /\ armed' = armed \cup {a}
    /\ UNCHANGED <<tick_rate, nticks, walk>>

AlarmStop(a) ==
    /\ Calling /\ next[a] # Null
    /\ walk.at = "callback" /\ ~Meddling => a # walk.next
    /\ Remove(a)
    /\ armed' = armed \ {a}
    /\ UNCHANGED <<time, tick_rate, nticks, walk>>

\* alt_sysclk_init: the first clock driver sets the rate.
SysclkInit(rate) ==
    /\ walk.at = "off" /\ tick_rate = 0
    /\ tick_rate' = rate
    /\ UNCHANGED <<listVars, nticks, walk>>

-----------------------------------------------------------------------------
(* alt_tick                                                                *)

TickBegins ==
    /\ walk.at = "off" /\ tick_rate # 0
    /\ nticks' = nticks + 1
    /\ walk' = [walk EXCEPT !.at = "look", !.alarm = next[AlarmList]]
    /\ UNCHANGED <<listVars, tick_rate>>

Expired(a) == time[a] <= nticks

\* The successor is read before the callback is made.
TickLooks ==
    /\ walk.at = "look" /\ walk.alarm # AlarmList
    /\ walk' = IF Expired(walk.alarm)
               THEN [walk EXCEPT !.at = "callback", !.next = next[walk.alarm]]
               ELSE [walk EXCEPT !.alarm = next[walk.alarm]]
    /\ UNCHANGED <<listVars, tick_rate, nticks>>

ToNextNow ==    \* mutant of ToSuccessor: the successor is read after the callback
    walk' = [at |-> "look", alarm |-> next[walk.alarm], next |-> AlarmList]
ToSuccessor == walk' = [at |-> "look", alarm |-> walk.next, next |-> AlarmList]

CallbackEnds ==         \* it returns zero
    /\ walk.at = "callback"
    /\ Remove(walk.alarm)
    /\ armed' = armed \ {walk.alarm}
    /\ ToSuccessor
    /\ UNCHANGED <<time, tick_rate, nticks>>

CallbackRepeats(n) ==
    /\ walk.at = "callback"
    /\ time' = [time EXCEPT ![walk.alarm] = @ + n]
    /\ ToSuccessor
    /\ UNCHANGED <<next, previous, armed, tick_rate, nticks>>

TickEnds ==
    /\ walk.at = "look" /\ walk.alarm = AlarmList
    /\ walk' = NotWalking
    /\ UNCHANGED <<listVars, tick_rate, nticks>>

-----------------------------------------------------------------------------
Tick ==
    \/ TickLooks \/ TickEnds
    \/ CallbackEnds \/ \E n \in Intervals : CallbackRepeats(n)

AlarmNext ==
    \/ \E rate \in Rates : SysclkInit(rate)
    \/ \E a \in Alarm : AlarmStop(a) \/ \E n \in Intervals \cup {0} : AlarmStart(a, n)
    \/ TickBegins \/ Tick

AlarmSpec == AlarmInit /\ [][AlarmNext]_alarmVars

-----------------------------------------------------------------------------
(* The links are each other's mirror, also in the middle of a walk, after  *)
(* stops from callbacks and after stopping what is stopped already.        *)
LinksMirror ==
    \A x \in Node : next[x] # Null => /\ next[x] \in Node /\ previous[x] \in Node
                                      /\ previous[next[x]] = x
                                      /\ next[previous[x]] = x

(* Callbacks are made at the very tick they were asked for, counted from   *)
(* the last one, and between two ticks no armed alarm is overdue: neither  *)
(* insertions nor removals make the walk miss one.                         *)
CallbacksAreOnTime ==
    [][ /\ walk.at = "look" /\ walk'.at = "callback" => time[walk.alarm] = nticks
        /\ walk'.at = "off" => \A a \in armed' : time'[a] > nticks' ]_alarmVars

(* alt_alarm.h:73, "alt_alarm_stop() is used to unregister a callback":    *)
(* the callback of an alarm that is not armed is not made.                 *)
StoppedAlarmIsSilent ==
    [][ walk.at = "look" /\ walk'.at = "callback" => walk.alarm \in armed ]_alarmVars

(* alt_tick.c:76, "alt_tick() is periodically called by the system clock   *)
(* driver in order to process the registered list of alarms": it comes to  *)
(* the list's end. A removed entry points to itself (alt_llist.h:111), and *)
(* a walk that has got to one stays there.                                 *)
WalkEnds == walk.at # "off" ~> walk.at = "off"
=============================================================================
