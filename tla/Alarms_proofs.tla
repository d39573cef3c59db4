---------------------------- MODULE Alarms_proofs ----------------------------
(***************************************************************************)
(* The links of the alarm list stay each other's mirror, and callbacks are *)
(* made on time, for any number of alarms and whatever callbacks start and *)
(* stop.                                                                   *)
(***************************************************************************)
EXTENDS Alarms, TLAPS

(* The walk only holds nodes that have links.                              *)
WalkIsLinked ==
    /\ next[AlarmList] # Null
    /\ next[walk.alarm] # Null /\ next[walk.next] # Null
    /\ walk.at = "callback" => walk.alarm \in Alarm

\* The links and the set of armed alarms, apart from everything else.
Shape(nxt, prv, set) ==
    /\ nxt \in Links /\ prv \in Links
    /\ \A x \in Node : nxt[x] # Null => /\ nxt[x] \in Node /\ prv[x] \in Node
                                        /\ prv[nxt[x]] = x /\ nxt[prv[x]] = x
    /\ \A a \in Alarm : a \notin set => nxt[a] \in {a, Null}
    /\ \A x \in Node : nxt[x] = Null <=> prv[x] = Null

(* An alarm outside the list that becomes its first leaves a list.         *)
LEMMA InsertKeepsShape ==
    ASSUME NEW nxt, NEW prv, NEW set, Shape(nxt, prv, set),
           NEW a \in Alarm, a \notin set, nxt[AlarmList] # Null
    PROVE  /\ Shape([nxt EXCEPT ![a] = nxt[AlarmList], ![AlarmList] = a],
                    [prv EXCEPT ![a] = AlarmList, ![nxt[AlarmList]] = a], set \cup {a})
           /\ \A x \in Node : nxt[x] # Null =>
                 [nxt EXCEPT ![a] = nxt[AlarmList], ![AlarmList] = a][x] # Null
  <1>. USE AlarmConstants DEF Node
  <1>. DEFINE first == nxt[AlarmList]
              n2 == [nxt EXCEPT ![a] = first, ![AlarmList] = a]
              p2 == [prv EXCEPT ![a] = AlarmList, ![first] = a]
  <1>1. first \in Node /\ prv[first] = AlarmList /\ a # AlarmList /\ nxt[a] \in {a, Null}
    BY DEF Shape
  <1>2. first # a
    BY <1>1 DEF Shape
  <1>3. /\ n2 \in Links /\ p2 \in Links
        /\ n2[a] = first /\ n2[AlarmList] = a /\ p2[a] = AlarmList /\ p2[first] = a
        /\ \A x \in Node \ {a, AlarmList} : n2[x] = nxt[x]
        /\ \A x \in Node \ {a, first} : p2[x] = prv[x]
    BY <1>1, <1>2 DEF Shape, Links
  <1>. HIDE DEF n2, p2, first
  <1>4. ASSUME NEW x \in Node, x # a, nxt[x] # Null
        PROVE  nxt[x] # a /\ prv[x] # a
    BY <1>1, <1>4 DEF Shape
  <1>5. ASSUME NEW x \in Node, n2[x] # Null
        PROVE  /\ n2[x] \in Node /\ p2[x] \in Node
               /\ p2[n2[x]] = x /\ n2[p2[x]] = x
    <2>1. CASE x = a
      BY <1>1, <1>2, <1>3, <2>1
    <2>2. CASE x = AlarmList
      <3>1. CASE first = AlarmList
        BY <1>1, <1>3, <2>2, <3>1
      <3>2. CASE first # AlarmList
        <4>1. prv[AlarmList] \in Node /\ nxt[prv[AlarmList]] = AlarmList /\ prv[AlarmList] # a
          BY <1>4, <1>1 DEF Shape, first
        <4>2. prv[AlarmList] # AlarmList
          BY <3>2, <4>1 DEF first
        <4>. QED BY <1>1, <1>3, <2>2, <3>2, <4>1, <4>2
      <3>. QED BY <3>1, <3>2
    <2>3. CASE x # a /\ x # AlarmList
      <3>1. nxt[x] # Null /\ nxt[x] \in Node /\ prv[x] \in Node
            /\ prv[nxt[x]] = x /\ nxt[prv[x]] = x /\ nxt[x] # a /\ prv[x] # a
        BY <1>3, <1>4, <1>5, <2>3 DEF Shape
      <3>2. nxt[x] # first
        BY <1>1, <2>3, <3>1
      <3>3. CASE x = first
        BY <1>3, <2>3, <3>1, <3>2, <3>3
      <3>4. CASE x # first
        <4>1. prv[x] # AlarmList
          BY <3>1, <3>4 DEF first
        <4>. QED BY <1>3, <2>3, <3>1, <3>2, <3>4, <4>1
      <3>. QED BY <3>3, <3>4
    <2>. QED BY <2>1, <2>2, <2>3
  <1>6. \A b \in Alarm : b \notin set \cup {a} => n2[b] \in {b, Null}
    BY <1>1, <1>2, <1>3 DEF Shape, first
  <1>7. \A x \in Node : n2[x] = Null <=> p2[x] = Null
    BY <1>1, <1>3 DEF Shape, first
  <1>8. \A x \in Node : nxt[x] # Null => n2[x] # Null
    BY <1>1, <1>3 DEF Shape, first
  <1>. QED BY <1>3, <1>5, <1>6, <1>7, <1>8 DEF Shape, n2, p2, first

(* So does an alarm that is taken out, or was out already.                 *)
LEMMA RemoveKeepsShape ==
    ASSUME NEW nxt, NEW prv, NEW set, Shape(nxt, prv, set),
           NEW a \in Alarm, nxt[a] # Null
    PROVE  /\ Shape([nxt EXCEPT ![prv[a]] = nxt[a], ![a] = a],
                    [prv EXCEPT ![nxt[a]] = prv[a], ![a] = a], set \ {a})
           /\ \A x \in Node : nxt[x] # Null =>
                 [nxt EXCEPT ![prv[a]] = nxt[a], ![a] = a][x] # Null
  <1>. USE AlarmConstants DEF Node
  <1>. DEFINE after == nxt[a]
              before == prv[a]
              n2 == [nxt EXCEPT ![before] = after, ![a] = a]
              p2 == [prv EXCEPT ![after] = before, ![a] = a]
  <1>1. /\ after \in Node /\ before \in Node
        /\ prv[after] = a /\ nxt[before] = a /\ after # Null /\ before # Null
    BY DEF Shape
  <1>2. /\ n2 \in Links /\ p2 \in Links
        /\ n2[a] = a /\ p2[a] = a
        /\ before # a => n2[before] = after
        /\ after # a => p2[after] = before
        /\ \A x \in Node \ {a, before} : n2[x] = nxt[x]
        /\ \A x \in Node \ {a, after} : p2[x] = prv[x]
    BY <1>1 DEF Shape, Links
  <1>3. after = a <=> before = a
    BY <1>1
  <1>. HIDE DEF n2, p2
  <1>4. ASSUME NEW x \in Node, n2[x] # Null
        PROVE  /\ n2[x] \in Node /\ p2[x] \in Node
               /\ p2[n2[x]] = x /\ n2[p2[x]] = x
    <2>1. CASE x = a
      BY <1>2, <2>1
    <2>2. CASE x # a
      <3>1. nxt[x] # Null
        BY <1>1, <1>2, <1>4, <2>2
      <3>2. /\ nxt[x] \in Node /\ prv[x] \in Node
            /\ prv[nxt[x]] = x /\ nxt[prv[x]] = x
        BY <3>1 DEF Shape
      <3>3. n2[x] \in Node /\ p2[n2[x]] = x
        <4>1. CASE x = before
          BY <1>1, <1>2, <1>3, <2>2, <4>1
        <4>2. CASE x # before
          BY <1>1, <1>2, <2>2, <3>2, <4>2
        <4>. QED BY <4>1, <4>2
      <3>4. p2[x] \in Node /\ n2[p2[x]] = x
        <4>1. CASE x = after
          BY <1>1, <1>2, <1>3, <2>2, <4>1
        <4>2. CASE x # after
          BY <1>1, <1>2, <2>2, <3>2, <4>2
        <4>. QED BY <4>1, <4>2
      <3>. QED BY <3>3, <3>4
    <2>. QED BY <2>1, <2>2
  <1>5. \A b \in Alarm : b \notin set \ {a} => n2[b] \in {b, Null}
    BY <1>1, <1>2 DEF Shape
  <1>6. \A x \in Node : n2[x] = Null <=> p2[x] = Null
    BY <1>1, <1>2 DEF Shape
  <1>7. \A x \in Node : nxt[x] # Null => n2[x] # Null
    BY <1>1, <1>2
  <1>. QED BY <1>2, <1>4, <1>5, <1>6, <1>7 DEF Shape, n2, p2, after, before

-----------------------------------------------------------------------------
LinkedInv == Shape(next, previous, armed) /\ WalkIsLinked
ScalarType ==
    /\ time \in [Alarm -> Nat]
    /\ tick_rate \in Rates \cup {0} /\ nticks \in Nat
    /\ walk \in [at : {"off", "look", "callback"}, alarm : Node, next : Node]
    /\ armed \subseteq Alarm

Inv == ScalarType /\ LinkedInv

(* What the walk holds stays linked while the list changes under it.       *)
LEMMA WalkStaysLinked ==
    ASSUME WalkIsLinked, ScalarType, walk' = walk, AlarmList \in Node,
           \A x \in Node : next[x] # Null => next'[x] # Null
    PROVE  WalkIsLinked'
  BY DEF WalkIsLinked, ScalarType

(* A node that is somebody's successor has links itself.                   *)
LEMMA SuccessorIsLinked ==
    ASSUME LinkedInv, NEW x \in Node, next[x] # Null
    PROVE  next[x] \in Node /\ next[next[x]] # Null
  <1>1. next[x] \in Node /\ previous[next[x]] = x /\ x # Null
    BY AlarmConstants DEF LinkedInv, Shape, Node
  <1>. QED BY <1>1 DEF LinkedInv, Shape

LEMMA AlarmStartKeepsInv ==
    ASSUME Inv, NEW a \in Alarm, NEW n \in Intervals \cup {0}, AlarmStart(a, n)
    PROVE  Inv'
  <1>. USE AlarmConstants
  <1>1. next[AlarmList] # Null /\ a \notin armed /\ AlarmList \in Node
    BY DEF Inv, LinkedInv, WalkIsLinked, AlarmStart, Node
  <1>2. /\ Shape(next', previous', armed')
        /\ \A x \in Node : next[x] # Null => next'[x] # Null
    BY <1>1, InsertKeepsShape DEF Inv, LinkedInv, AlarmStart, Insert
  <1>3. WalkIsLinked'
    BY <1>1, <1>2, WalkStaysLinked DEF Inv, LinkedInv, AlarmStart
  <1>4. ScalarType'
    BY DEF Inv, ScalarType, AlarmStart, Due
  <1>. QED BY <1>2, <1>3, <1>4 DEF Inv, LinkedInv

LEMMA AlarmStopKeepsInv ==
    ASSUME Inv, NEW a \in Alarm, AlarmStop(a)
    PROVE  Inv'
  <1>. USE AlarmConstants
  <1>1. next[a] # Null /\ AlarmList \in Node
    BY DEF AlarmStop, Node
  <1>2. /\ Shape(next', previous', armed')
        /\ \A x \in Node : next[x] # Null => next'[x] # Null
    BY <1>1, RemoveKeepsShape DEF Inv, LinkedInv, AlarmStop, Remove
  <1>3. WalkIsLinked'
    BY <1>1, <1>2, WalkStaysLinked DEF Inv, LinkedInv, AlarmStop
  <1>4. ScalarType'
    BY DEF Inv, ScalarType, AlarmStop
  <1>. QED BY <1>2, <1>3, <1>4 DEF Inv, LinkedInv

LEMMA TickKeepsInv ==
    ASSUME Inv, TickBegins \/ Tick
    PROVE  Inv'
  <1>. USE AlarmConstants
  <1>1. CASE TickBegins
    <2>1. next[AlarmList] \in Node /\ next[next[AlarmList]] # Null
      BY SuccessorIsLinked DEF Inv, LinkedInv, WalkIsLinked, Node
    <2>2. WalkIsLinked'
      BY <1>1, <2>1 DEF TickBegins, listVars, Inv, LinkedInv, WalkIsLinked, ScalarType
    <2>3. walk' = [at |-> "look", alarm |-> next[AlarmList], next |-> walk.next]
      BY <1>1 DEF TickBegins, Inv, ScalarType
    <2>4. walk' \in [at : {"off", "look", "callback"}, alarm : Node, next : Node]
      BY <2>1, <2>3 DEF Inv, ScalarType
    <2>5. ScalarType'
      BY <1>1, <2>4 DEF TickBegins, listVars, Inv, ScalarType
    <2>. QED BY <1>1, <2>2, <2>5 DEF Inv, LinkedInv, TickBegins, listVars
  <1>2. CASE TickLooks
    <2>1. walk.alarm \in Node /\ walk.alarm # AlarmList
      BY <1>2 DEF TickLooks, Inv, ScalarType
    <2>2. next[walk.alarm] \in Node /\ next[next[walk.alarm]] # Null
      BY <2>1, SuccessorIsLinked DEF Inv, LinkedInv, WalkIsLinked
    <2>3. WalkIsLinked'
      BY <1>2, <2>1, <2>2 DEF TickLooks, listVars, Inv, LinkedInv, WalkIsLinked, ScalarType, Node
    <2>4. ScalarType'
      BY <1>2, <2>2 DEF TickLooks, listVars, Inv, ScalarType
    <2>. QED BY <1>2, <2>3, <2>4 DEF Inv, LinkedInv, TickLooks, listVars
  <1>3. CASE TickEnds
    BY <1>3 DEF TickEnds, listVars, NotWalking, Inv, LinkedInv, WalkIsLinked,
                ScalarType, Node
  <1>4. CASE CallbackEnds
    <2>1. walk.alarm \in Alarm /\ next[walk.alarm] # Null /\ next[walk.next] # Null
          /\ walk.next \in Node /\ next[AlarmList] # Null /\ AlarmList \in Node
      BY <1>4 DEF CallbackEnds, Inv, LinkedInv, WalkIsLinked, ScalarType, Node
    <2>2. /\ Shape(next', previous', armed')
          /\ \A x \in Node : next[x] # Null => next'[x] # Null
      BY <1>4, <2>1, RemoveKeepsShape DEF Inv, LinkedInv, CallbackEnds, Remove
    <2>3. WalkIsLinked'
      BY <1>4, <2>1, <2>2 DEF CallbackEnds, ToSuccessor, WalkIsLinked
    <2>4. ScalarType'
      BY <1>4, <2>1 DEF CallbackEnds, ToSuccessor, Inv, ScalarType
    <2>. QED BY <2>2, <2>3, <2>4 DEF Inv, LinkedInv
  <1>5. ASSUME NEW n \in Intervals, CallbackRepeats(n)
        PROVE  Inv'
    <2>1. walk.alarm \in Alarm /\ next[walk.next] # Null
          /\ walk.next \in Node /\ next[AlarmList] # Null /\ AlarmList \in Node
      BY <1>5 DEF CallbackRepeats, Inv, LinkedInv, WalkIsLinked, ScalarType, Node
    <2>2. WalkIsLinked'
      BY <1>5, <2>1 DEF CallbackRepeats, ToSuccessor, WalkIsLinked
    <2>3. ScalarType'
      BY <1>5, <2>1 DEF CallbackRepeats, ToSuccessor, Inv, ScalarType
    <2>. QED BY <1>5, <2>2, <2>3 DEF Inv, LinkedInv, CallbackRepeats
  <1>. QED BY <1>1, <1>2, <1>3, <1>4, <1>5 DEF Tick

LEMMA NextKeepsInv == Inv /\ [AlarmNext]_alarmVars => Inv'
  <1>. SUFFICES ASSUME Inv, [AlarmNext]_alarmVars PROVE Inv'
    OBVIOUS
  <1>1. CASE UNCHANGED alarmVars
    BY <1>1 DEF alarmVars, Inv, ScalarType, LinkedInv, Shape, WalkIsLinked
  <1>2. ASSUME NEW rate \in Rates, SysclkInit(rate) PROVE Inv'
    BY <1>2 DEF SysclkInit, listVars, Inv, ScalarType, LinkedInv, WalkIsLinked
  <1>. QED BY <1>1, <1>2, AlarmStartKeepsInv, AlarmStopKeepsInv, TickKeepsInv
           DEF AlarmNext

LEMMA InitHasInv == AlarmInit => Inv
  <1>. SUFFICES ASSUME AlarmInit PROVE Inv
    OBVIOUS
  <1>. USE AlarmConstants
  <1>1. next[AlarmList] = AlarmList /\ previous[AlarmList] = AlarmList
        /\ \A a \in Alarm : next[a] = Null /\ previous[a] = Null
    BY DEF AlarmInit, Node
  <1>2. next \in Links /\ previous \in Links
    BY DEF AlarmInit, Links, Node
  <1>3. Shape(next, previous, armed)
    BY <1>1, <1>2 DEF Shape, Node
  <1>4. ScalarType /\ WalkIsLinked
    BY <1>1 DEF AlarmInit, ScalarType, WalkIsLinked, NotWalking, Node
  <1>. QED BY <1>3, <1>4 DEF Inv, LinkedInv

(* Every field keeps its type, the count of ticks and the due times        *)
(* included: no link ever becomes NULL again.                              *)
THEOREM AlarmsHaveTypes == AlarmSpec => []AlarmType
  <1>1. Inv => AlarmType
    BY DEF Inv, LinkedInv, Shape, ScalarType, AlarmType
  <1>. QED BY <1>1, InitHasInv, NextKeepsInv, PTL DEF AlarmSpec

(* The list is never torn: whatever the task and the callbacks start and   *)
(* stop, in the middle of a walk too.                                      *)
THEOREM ListIsNotTorn == AlarmSpec => []LinksMirror
  <1>1. Inv => LinksMirror
    BY DEF Inv, LinkedInv, Shape, LinksMirror
  <1>. QED BY <1>1, InitHasInv, NextKeepsInv, PTL DEF AlarmSpec


-----------------------------------------------------------------------------
(* The order of the list and the times in it.                              *)

\* rest[x] is what the list holds from node x on: nothing from its head, all
\* that is armed from its first entry, and of an entry itself and what follows.
Ordered(rest, nxt, on) ==
    /\ rest \in [Node -> SUBSET Alarm]
    /\ rest[AlarmList] = {}
    /\ nxt[AlarmList] \in on \cup {AlarmList} /\ rest[nxt[AlarmList]] = on
    /\ \A x \in on : /\ nxt[x] \in on \cup {AlarmList}
                     /\ x \notin rest[nxt[x]]
                     /\ rest[x] = rest[nxt[x]] \cup {x}

\* No armed alarm is overdue; during a walk those that are due are ahead of it.
OnTime(rest, due, now, on, w) ==
    /\ \A y \in on : due[y] >= now
    /\ w.at = "off" => \A y \in on : due[y] > now
    /\ w.at = "look" =>
         /\ w.alarm \in on \cup {AlarmList}
         /\ \A y \in on : due[y] > now \/ y \in rest[w.alarm]
    /\ w.at = "callback" =>
         /\ w.next \in on \cup {AlarmList} /\ w.next # w.alarm
         /\ due[w.alarm] >= now
         /\ \A y \in on : due[y] > now \/ y \in rest[w.next] \/ y = w.alarm

TimesInv ==
    \E rest : Ordered(rest, next, armed) /\ OnTime(rest, time, nticks, armed, walk)

(* An alarm that becomes the first is followed by all that were armed.     *)
LEMMA InsertKeepsOrder ==
    ASSUME NEW rest, NEW nxt, NEW on, Ordered(rest, nxt, on), on \subseteq Alarm,
           nxt \in Links, NEW a \in Alarm, a \notin on
    PROVE  Ordered([rest EXCEPT ![a] = on \cup {a}],
                   [nxt EXCEPT ![a] = nxt[AlarmList], ![AlarmList] = a], on \cup {a})
  <1>. USE AlarmConstants DEF Node
  <1>. DEFINE first == nxt[AlarmList]
              n2 == [nxt EXCEPT ![a] = first, ![AlarmList] = a]
              r2 == [rest EXCEPT ![a] = on \cup {a}]
  <1>1. /\ first \in on \cup {AlarmList} /\ rest[first] = on /\ rest[AlarmList] = {}
        /\ rest \in [Node -> SUBSET Alarm] /\ a # AlarmList /\ a \in Node
    BY DEF Ordered
  <1>2. /\ n2[a] = first /\ n2[AlarmList] = a
        /\ \A x \in on : n2[x] = nxt[x]
    BY <1>1 DEF Links
  <1>3. /\ r2 \in [Node -> SUBSET Alarm] /\ r2[a] = on \cup {a}
        /\ \A x \in Node : x # a => r2[x] = rest[x]
    BY <1>1
  <1>. HIDE DEF n2, r2, first
  <1>4. r2[first] = on /\ r2[AlarmList] = {}
    BY <1>1, <1>3
  <1>5. ASSUME NEW x \in on
        PROVE  /\ n2[x] \in on \cup {AlarmList}
               /\ x \notin r2[n2[x]]
               /\ r2[x] = r2[n2[x]] \cup {x}
    <2>1. /\ nxt[x] \in on \cup {AlarmList} /\ x \notin rest[nxt[x]]
          /\ rest[x] = rest[nxt[x]] \cup {x}
      BY DEF Ordered
    <2>2. x # a /\ nxt[x] # a /\ x \in Node /\ nxt[x] \in Node
      BY <1>1, <2>1
    <2>. QED BY <1>2, <1>3, <2>1, <2>2
  <1>6. /\ n2[a] \in on \cup {AlarmList} /\ a \notin r2[n2[a]]
        /\ r2[a] = r2[n2[a]] \cup {a}
    BY <1>1, <1>2, <1>3, <1>4
  <1>7. Ordered(r2, n2, on \cup {a})
    BY <1>2, <1>3, <1>4, <1>5, <1>6 DEF Ordered
  <1>. QED BY <1>7 DEF n2, r2, first

(* One that is taken out is taken from what follows every other.           *)
LEMMA RemoveKeepsOrder ==
    ASSUME NEW rest, NEW nxt, NEW prv, NEW on, Ordered(rest, nxt, on),
           Shape(nxt, prv, on), on \subseteq Alarm,
           NEW a \in Alarm, nxt[a] # Null
    PROVE  Ordered([x \in Node |-> rest[x] \ {a}],
                   [nxt EXCEPT ![prv[a]] = nxt[a], ![a] = a], on \ {a})
  <1>. USE AlarmConstants DEF Node
  <1>. DEFINE after == nxt[a]
              before == prv[a]
              n2 == [nxt EXCEPT ![before] = after, ![a] = a]
              r2 == [x \in Node |-> rest[x] \ {a}]
  <1>1. /\ after \in Node /\ before \in Node /\ a \in Node
        /\ prv[after] = a /\ nxt[before] = a /\ nxt \in Links /\ a # AlarmList
    BY DEF Shape
  <1>2. /\ rest \in [Node -> SUBSET Alarm] /\ rest[AlarmList] = {}
        /\ nxt[AlarmList] \in on \cup {AlarmList} /\ rest[nxt[AlarmList]] = on
        /\ \A x \in on : /\ nxt[x] \in on \cup {AlarmList}
                         /\ x \notin rest[nxt[x]]
                         /\ rest[x] = rest[nxt[x]] \cup {x}
    BY DEF Ordered
  <1>3. /\ before # a => n2[before] = after
        /\ \A x \in Node \ {a, before} : n2[x] = nxt[x]
    BY <1>1 DEF Links
  <1>4. \A x \in Node : r2[x] = rest[x] \ {a}
    OBVIOUS
  <1>5. r2 \in [Node -> SUBSET Alarm]
    BY <1>2
  <1>. HIDE DEF n2, r2, after, before
  <1>6. ASSUME NEW x \in Node, x # a, nxt[x] = a
        PROVE  x = before
    BY <1>6 DEF Shape, before
  <1>7. a \in on => /\ after \in (on \ {a}) \cup {AlarmList} /\ a \notin rest[after]
                    /\ rest[a] = rest[after] \cup {a}
    BY <1>2 DEF after
  <1>8. a \notin on => before = a
    <2>. SUFFICES ASSUME a \notin on PROVE before = a
      OBVIOUS
    <2>1. after = a
      BY DEF Shape, after
    <2>. QED BY <1>1, <2>1 DEF before
  <1>9. n2[AlarmList] \in (on \ {a}) \cup {AlarmList} /\ r2[n2[AlarmList]] = on \ {a}
    <2>1. CASE before = AlarmList
      <3>1. a \in on /\ n2[AlarmList] = after
        BY <1>1, <1>3, <1>8, <2>1
      <3>2. rest[a] = on
        BY <1>1, <1>2, <2>1
      <3>. QED BY <1>1, <1>4, <1>7, <3>1, <3>2
    <2>2. CASE before # AlarmList
      <3>1. n2[AlarmList] = nxt[AlarmList] /\ nxt[AlarmList] # a
        BY <1>1, <1>3, <1>6, <2>2
      <3>. QED BY <1>2, <1>4, <3>1
    <2>. QED BY <2>1, <2>2
  <1>10. ASSUME NEW x \in on \ {a}
         PROVE  /\ n2[x] \in (on \ {a}) \cup {AlarmList}
                /\ x \notin r2[n2[x]]
                /\ r2[x] = r2[n2[x]] \cup {x}
    <2>1. x \in Node /\ x # a
      OBVIOUS
    <2>2. CASE x = before
      <3>1. a \in on /\ n2[x] = after /\ nxt[x] = a
        BY <1>1, <1>3, <1>8, <2>1, <2>2
      <3>. QED BY <1>1, <1>2, <1>4, <1>7, <2>1, <3>1
    <2>3. CASE x # before
      <3>1. n2[x] = nxt[x] /\ nxt[x] # a
        BY <1>3, <1>6, <2>1, <2>3
      <3>2. nxt[x] \in Node
        BY <1>2
      <3>. QED BY <1>2, <1>4, <2>1, <3>1, <3>2
    <2>. QED BY <2>2, <2>3
  <1>11. r2[AlarmList] = {}
    BY <1>2, <1>4
  <1>. QED BY <1>5, <1>9, <1>10, <1>11 DEF Ordered, n2, r2, after, before


LEMMA StartKeepsTimes ==
    ASSUME Inv, TimesInv, ~Meddling, NEW a \in Alarm, NEW n \in Intervals \cup {0},
           AlarmStart(a, n)
    PROVE  TimesInv'
  <1>. USE AlarmConstants
  <1>1. PICK rest : Ordered(rest, next, armed) /\ OnTime(rest, time, nticks, armed, walk)
    BY DEF TimesInv
  <1>. DEFINE r2 == [rest EXCEPT ![a] = armed \cup {a}]
  <1>2. /\ a \notin armed /\ armed' = armed \cup {a} /\ armed \subseteq Alarm
        /\ time \in [Alarm -> Nat] /\ nticks \in Nat /\ n \in Nat
        /\ time' = [time EXCEPT ![a] = nticks + n + 1]
        /\ nticks' = nticks /\ walk' = walk /\ walk.at \in {"off", "callback"}
        /\ walk.alarm \in Node /\ walk.next \in Node
        /\ walk.at = "callback" => walk.alarm \in Alarm
    BY DEF AlarmStart, Calling, Due, Inv, LinkedInv, WalkIsLinked, ScalarType
  <1>3. Ordered(r2, next', armed')
    <2>1. next \in Links
      BY DEF Inv, LinkedInv, Shape
    <2>2. next' = [next EXCEPT ![a] = next[AlarmList], ![AlarmList] = a]
      BY DEF AlarmStart, Insert
    <2>3. Ordered(r2, [next EXCEPT ![a] = next[AlarmList], ![AlarmList] = a], armed \cup {a})
      BY <1>1, <1>2, <2>1, InsertKeepsOrder
    <2>. QED BY <1>2, <2>2, <2>3
  <1>4. /\ time'[a] > nticks
        /\ \A y \in Alarm : y # a => time'[y] = time[y]
    BY <1>2
  <1>5. \A x \in Node : x # a => r2[x] = rest[x]
    BY <1>1 DEF Ordered
  <1>. HIDE DEF r2
  <1>6. \A y \in Alarm : time[y] \in Nat /\ time'[y] \in Nat
    BY <1>2, <1>4
  <1>7. OnTime(r2, time', nticks', armed', walk')
    <2>1. CASE walk.at = "off"
      BY <1>1, <1>2, <1>4, <1>6, <2>1 DEF OnTime
    <2>2. CASE walk.at = "callback"
      <3>1. walk.next # a
        BY <1>1, <1>2, <2>2 DEF OnTime
      <3>. QED BY <1>1, <1>2, <1>4, <1>5, <1>6, <2>2, <3>1 DEF OnTime
    <2>. QED BY <1>2, <2>1, <2>2
  <1>. QED BY <1>3, <1>7 DEF TimesInv

\* An alarm is taken out, and no time changes.
LEMMA RemoveKeepsRest ==
    ASSUME Inv, NEW rest, Ordered(rest, next, armed), NEW a \in Alarm, next[a] # Null,
           Remove(a), armed' = armed \ {a}
    PROVE  \E r2 : /\ Ordered(r2, next', armed')
                   /\ \A x \in Node : r2[x] = rest[x] \ {a}
  <1>1. Ordered([x \in Node |-> rest[x] \ {a}], next', armed')
    BY RemoveKeepsOrder DEF Remove, Inv, LinkedInv, ScalarType
  <1>. QED BY <1>1

LEMMA StopKeepsTimes ==
    ASSUME Inv, TimesInv, ~Meddling, NEW a \in Alarm, AlarmStop(a)
    PROVE  TimesInv'
  <1>. USE AlarmConstants
  <1>1. PICK rest : Ordered(rest, next, armed) /\ OnTime(rest, time, nticks, armed, walk)
    BY DEF TimesInv
  <1>2. /\ next[a] # Null /\ Remove(a) /\ armed' = armed \ {a}
        /\ time' = time /\ nticks' = nticks /\ walk' = walk
        /\ walk.at \in {"off", "callback"} /\ walk.next \in Node
        /\ walk.at = "callback" => a # walk.next
    BY DEF AlarmStop, Calling, Inv, ScalarType
  <1>3. PICK r2 : /\ Ordered(r2, next', armed')
                  /\ \A x \in Node : r2[x] = rest[x] \ {a}
    BY <1>1, <1>2, RemoveKeepsRest
  <1>4. OnTime(r2, time', nticks', armed', walk')
    BY <1>1, <1>2, <1>3 DEF OnTime
  <1>. QED BY <1>3, <1>4 DEF TimesInv

LEMMA CallbackEndsOnTime ==
    ASSUME Inv, TimesInv, CallbackEnds
    PROVE  TimesInv'
  <1>. USE AlarmConstants
  <1>1. PICK rest : Ordered(rest, next, armed) /\ OnTime(rest, time, nticks, armed, walk)
    BY DEF TimesInv
  <1>. DEFINE a == walk.alarm
  <1>2. /\ a \in Alarm /\ next[a] # Null /\ Remove(a) /\ armed' = armed \ {a}
        /\ time' = time /\ nticks' = nticks /\ walk.at = "callback" /\ walk.next \in Node
        /\ walk' = [at |-> "look", alarm |-> walk.next, next |-> AlarmList]
    BY DEF CallbackEnds, ToSuccessor, Inv, LinkedInv, WalkIsLinked, ScalarType
  <1>3. PICK r2 : /\ Ordered(r2, next', armed')
                  /\ \A x \in Node : r2[x] = rest[x] \ {a}
    BY <1>1, <1>2, RemoveKeepsRest
  <1>4. /\ walk.next \in armed \cup {AlarmList} /\ walk.next # a
        /\ \A y \in armed : time[y] >= nticks
        /\ \A y \in armed : time[y] > nticks \/ y \in rest[walk.next] \/ y = a
    BY <1>1, <1>2 DEF OnTime
  <1>5. walk'.at = "look" /\ walk'.alarm = walk.next /\ r2[walk.next] = rest[walk.next] \ {a}
    BY <1>2, <1>3
  <1>. HIDE DEF a
  <1>6. OnTime(r2, time', nticks', armed', walk')
    BY <1>2, <1>4, <1>5 DEF OnTime
  <1>. QED BY <1>3, <1>6 DEF TimesInv

LEMMA CallbackRepeatsOnTime ==
    ASSUME Inv, TimesInv, NEW n \in Intervals, CallbackRepeats(n)
    PROVE  TimesInv'
  <1>. USE AlarmConstants
  <1>1. PICK rest : Ordered(rest, next, armed) /\ OnTime(rest, time, nticks, armed, walk)
    BY DEF TimesInv
  <1>. DEFINE a == walk.alarm
  <1>2. /\ a \in Alarm /\ time \in [Alarm -> Nat] /\ nticks \in Nat /\ n \in Nat /\ n > 0
        /\ time' = [time EXCEPT ![a] = @ + n] /\ armed \subseteq Alarm
        /\ next' = next /\ armed' = armed /\ nticks' = nticks
        /\ walk.at = "callback" /\ walk.next \in Node
        /\ walk' = [at |-> "look", alarm |-> walk.next, next |-> AlarmList]
    BY DEF CallbackRepeats, ToSuccessor, Inv, LinkedInv, WalkIsLinked, ScalarType
  <1>3. time[a] >= nticks
    BY <1>1, <1>2 DEF OnTime
  <1>4. /\ time'[a] = time[a] + n
        /\ \A y \in Alarm : time[y] \in Nat /\ (y # a => time'[y] = time[y])
    BY <1>2
  <1>5. time'[a] > nticks
    BY <1>2, <1>3, <1>4
  <1>6. OnTime(rest, time', nticks', armed', walk')
    <2>1. \A y \in armed : time'[y] >= nticks /\ (time'[y] > nticks \/ y \in rest[walk.next])
      <3>. SUFFICES ASSUME NEW y \in armed
                    PROVE  /\ time'[y] >= nticks
                           /\ time'[y] > nticks \/ y \in rest[walk.next]
        OBVIOUS
      <3>1. CASE y = a
        BY <1>2, <1>4, <1>5, <3>1
      <3>2. CASE y # a
        BY <1>1, <1>2, <1>4, <3>2 DEF OnTime
      <3>. QED BY <3>1, <3>2
    <2>. QED BY <1>1, <1>2, <2>1 DEF OnTime
  <1>. QED BY <1>1, <1>2, <1>6 DEF TimesInv

LEMMA WalkKeepsTimes ==
    ASSUME Inv, TimesInv, TickBegins \/ TickLooks \/ TickEnds
    PROVE  TimesInv'
  <1>. USE AlarmConstants
  <1>1. PICK rest : Ordered(rest, next, armed) /\ OnTime(rest, time, nticks, armed, walk)
    BY DEF TimesInv
  <1>2. /\ next' = next /\ armed' = armed /\ time' = time
        /\ \A y \in armed : time[y] \in Nat
        /\ nticks \in Nat /\ armed \subseteq Alarm
        /\ walk \in [at : {"off", "look", "callback"}, alarm : Node, next : Node]
    BY DEF TickBegins, TickLooks, TickEnds, listVars, Inv, ScalarType
  <1>3. CASE TickBegins
    <2>1. /\ walk.at = "off" /\ nticks' = nticks + 1
          /\ walk' = [at |-> "look", alarm |-> next[AlarmList], next |-> walk.next]
      BY <1>2, <1>3 DEF TickBegins
    <2>2. /\ next[AlarmList] \in armed \cup {AlarmList}
          /\ rest[next[AlarmList]] = armed
      BY <1>1 DEF Ordered
    <2>3. \A y \in armed : time[y] >= nticks + 1
      BY <1>1, <1>2, <2>1 DEF OnTime
    <2>4. OnTime(rest, time', nticks', armed', walk')
      BY <1>2, <2>1, <2>2, <2>3 DEF OnTime
    <2>. QED BY <1>1, <1>2, <2>4 DEF TimesInv
  <1>4. CASE TickLooks
    <2>. DEFINE a == walk.alarm
    <2>1. a \in armed /\ walk.at = "look" /\ nticks' = nticks
          /\ \A y \in armed : time[y] >= nticks /\ (time[y] > nticks \/ y \in rest[a])
      BY <1>1, <1>4 DEF OnTime, TickLooks
    <2>2. /\ next[a] \in armed \cup {AlarmList} /\ a \notin rest[next[a]]
          /\ rest[a] = rest[next[a]] \cup {a}
      BY <1>1, <2>1 DEF Ordered
    <2>3. next[a] # a
      BY <2>2
    <2>4. CASE Expired(a)
      <3>1. walk' = [at |-> "callback", alarm |-> a, next |-> next[a]]
        BY <1>2, <1>4, <2>4 DEF TickLooks
      <3>2. OnTime(rest, time', nticks', armed', walk')
        BY <1>2, <2>1, <2>2, <2>3, <3>1 DEF OnTime
      <3>. QED BY <1>1, <1>2, <3>2 DEF TimesInv
    <2>5. CASE ~Expired(a)
      <3>1. walk' = [at |-> "look", alarm |-> next[a], next |-> walk.next]
        BY <1>2, <1>4, <2>5 DEF TickLooks
      <3>2. time[a] > nticks
        BY <1>2, <2>1, <2>5 DEF Expired
      <3>3. OnTime(rest, time', nticks', armed', walk')
        BY <1>2, <2>1, <2>2, <3>1, <3>2 DEF OnTime
      <3>. QED BY <1>1, <1>2, <3>3 DEF TimesInv
    <2>. QED BY <2>4, <2>5
  <1>5. CASE TickEnds
    <2>1. /\ walk.at = "look" /\ walk.alarm = AlarmList /\ nticks' = nticks
          /\ walk'.at = "off"
      BY <1>5 DEF TickEnds, NotWalking
    <2>2. \A y \in armed : time[y] > nticks
      BY <1>1, <2>1 DEF OnTime, Ordered
    <2>3. OnTime(rest, time', nticks', armed', walk')
      BY <1>1, <1>2, <2>1, <2>2 DEF OnTime
    <2>. QED BY <1>1, <1>2, <2>3 DEF TimesInv
  <1>. QED BY <1>3, <1>4, <1>5

LEMMA NextKeepsTimes ==
    ASSUME ~Meddling
    PROVE  Inv /\ TimesInv /\ [AlarmNext]_alarmVars => TimesInv'
  <1>. SUFFICES ASSUME Inv, TimesInv, [AlarmNext]_alarmVars PROVE TimesInv'
    OBVIOUS
  <1>1. CASE UNCHANGED <<listVars, nticks, walk>>
    BY <1>1 DEF TimesInv, listVars
  <1>2. CASE UNCHANGED alarmVars \/ \E rate \in Rates : SysclkInit(rate)
    BY <1>1, <1>2 DEF alarmVars, SysclkInit, listVars
  <1>. QED BY <1>2, StartKeepsTimes, StopKeepsTimes, CallbackEndsOnTime,
              CallbackRepeatsOnTime, WalkKeepsTimes DEF AlarmNext, Tick

LEMMA InitHasTimes == AlarmInit => TimesInv
  <1>. SUFFICES ASSUME AlarmInit PROVE TimesInv
    OBVIOUS
  <1>. DEFINE rest == [x \in Node |-> {}]
  <1>1. next[AlarmList] = AlarmList /\ armed = {} /\ walk.at = "off"
    BY DEF AlarmInit, Node, NotWalking
  <1>2. rest \in [Node -> SUBSET Alarm] /\ rest[AlarmList] = {}
    BY DEF Node
  <1>. HIDE DEF rest
  <1>3. Ordered(rest, next, armed) /\ OnTime(rest, time, nticks, armed, walk)
    BY <1>1, <1>2 DEF Ordered, OnTime
  <1>. QED BY <1>3 DEF TimesInv

(* A callback is made of an armed alarm, at the tick it is due.            *)
LEMMA CallbackIsDue ==
    ASSUME Inv, TimesInv, [AlarmNext]_alarmVars, walk.at = "look", walk'.at = "callback"
    PROVE  time[walk.alarm] = nticks /\ walk.alarm \in armed
  <1>1. TickLooks /\ Expired(walk.alarm)
    <2>1. walk' # walk
      OBVIOUS
    <2>2. ~TickEnds
      BY DEF TickEnds, NotWalking
    <2>3. TickLooks
      BY <2>1, <2>2 DEF AlarmNext, alarmVars, AlarmStart, AlarmStop, SysclkInit,
                        TickBegins, Tick, CallbackEnds, CallbackRepeats
    <2>4. ASSUME ~Expired(walk.alarm) PROVE FALSE
      <3>1. walk' = [walk EXCEPT !.alarm = next[walk.alarm]]
        BY <2>3, <2>4 DEF TickLooks
      <3>2. walk'.at = walk.at
        BY <3>1 DEF Inv, ScalarType
      <3>. QED BY <3>2
    <2>. QED BY <2>3, <2>4
  <1>2. PICK rest : Ordered(rest, next, armed) /\ OnTime(rest, time, nticks, armed, walk)
    BY DEF TimesInv
  <1>3. walk.alarm \in armed
    BY <1>1, <1>2 DEF TickLooks, OnTime
  <1>4. time[walk.alarm] >= nticks /\ time[walk.alarm] <= nticks
    BY <1>1, <1>2, <1>3 DEF OnTime, Expired
  <1>5. time[walk.alarm] \in Nat /\ nticks \in Nat
    BY <1>3 DEF Inv, ScalarType
  <1>. QED BY <1>3, <1>4, <1>5

(* Callbacks are made at the very tick they were asked for, and after a    *)
(* tick no armed alarm is overdue, for any number of alarms and whatever   *)
(* callbacks start and stop, unless one stops the alarm behind its own.    *)
THEOREM AlarmsAreOnTime ==
    ASSUME ~Meddling
    PROVE  AlarmSpec => CallbacksAreOnTime
  <1>1. Inv /\ TimesInv /\ TimesInv' /\ [AlarmNext]_alarmVars =>
          [ /\ walk.at = "look" /\ walk'.at = "callback" => time[walk.alarm] = nticks
            /\ walk'.at = "off" => \A a \in armed' : time'[a] > nticks' ]_alarmVars
    <2>1. TimesInv' /\ walk'.at = "off" => \A a \in armed' : time'[a] > nticks'
      BY DEF TimesInv, OnTime
    <2>. QED BY <2>1, CallbackIsDue
  <1>. QED BY <1>1, InitHasInv, InitHasTimes, NextKeepsInv, NextKeepsTimes, PTL
           DEF AlarmSpec, CallbacksAreOnTime

(* alt_alarm.h:73, "alt_alarm_stop() is used to unregister a callback":    *)
(* but for callbacks that stop their successor, an alarm that was stopped, *)
(* or whose callback returned zero, is called no more.                     *)
THEOREM StoppedAlarmsAreSilent ==
    ASSUME ~Meddling
    PROVE  AlarmSpec => StoppedAlarmIsSilent
  <1>1. Inv /\ TimesInv /\ [AlarmNext]_alarmVars =>
          [ walk.at = "look" /\ walk'.at = "callback" => walk.alarm \in armed ]_alarmVars
    BY CallbackIsDue
  <1>. QED BY <1>1, InitHasInv, InitHasTimes, NextKeepsInv, NextKeepsTimes, PTL
           DEF AlarmSpec, StoppedAlarmIsSilent
=============================================================================
