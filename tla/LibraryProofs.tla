---------------------------- MODULE LibraryProofs ----------------------------
(***************************************************************************)
(* Proofs about the libraries: TimerOne, for every period; the dynamic     *)
(* threads, the registry and the heap of ChibiOS/RT, for every number of   *)
(* threads and areas and every size of memory.                             *)
(***************************************************************************)
EXTENDS Library, FiniteSetTheorems, WellFoundedInduction, TLAPS

------------------------------------------------------------------------------
(* TimerOne *)

(* The bits of the five clocks differ, so they tell the prescaler.         *)
LEMMA ClockValues ==
  /\ Clock[1] = [bits |-> {"CS10"}, scale |-> 1]
  /\ Clock[2] = [bits |-> {"CS11"}, scale |-> 8]
  /\ Clock[3] = [bits |-> {"CS10", "CS11"}, scale |-> 64]
  /\ Clock[4] = [bits |-> {"CS12"}, scale |-> 256]
  /\ Clock[5] = [bits |-> {"CS10", "CS12"}, scale |-> 1024]
BY DEF Clock

LEMMA ClocksDiffer ==
  \A i, j \in 1..5 : Clock[i].bits = Clock[j].bits => i = j
<1>1. /\ {"CS10"} # {"CS11"} /\ {"CS10"} # {"CS10", "CS11"} /\ {"CS10"} # {"CS12"}
      /\ {"CS10"} # {"CS10", "CS12"} /\ {"CS11"} # {"CS10", "CS11"}
      /\ {"CS11"} # {"CS12"} /\ {"CS11"} # {"CS10", "CS12"}
      /\ {"CS10", "CS11"} # {"CS12"} /\ {"CS10", "CS11"} # {"CS10", "CS12"}
      /\ {"CS12"} # {"CS10", "CS12"}
  OBVIOUS
<1> QED
  BY <1>1, ClockValues

LEMMA ScaleOfClock ==
  ASSUME NEW i \in 1..5
  PROVE  ScaleOf(Clock[i].bits) = Clock[i].scale /\ Clock[i].bits # {}
<1> DEFINE C == {Clock[j] : j \in 1..5}
           c == CHOOSE x \in C : x.bits = Clock[i].bits
<1>1. c \in C /\ c.bits = Clock[i].bits
  <2>1. Clock[i] \in C
    OBVIOUS
  <2> QED
    BY <2>1, Zenon
<1>2. ScaleOf(Clock[i].bits) = c.scale
  BY DEF ScaleOf
<1> HIDE DEF c
<1>3. PICK j \in 1..5 : c = Clock[j]
  BY <1>1
<1>4. i = j
  BY <1>1, <1>3, ClocksDiffer
<1> QED
  BY <1>2, <1>3, <1>4, ClockValues

(* The timer runs with the bits of its period or stands, and those bits    *)
(* are of a clock on which the period fits as well as it can.              *)
Fits(i) ==
  /\ clockSelectBits = Clock[i].bits
  /\ \/ ICR1 * Clock[i].scale <= 8 * period /\ 8 * period < (ICR1 + 1) * Clock[i].scale
     \/ ICR1 = RESOLUTION - 1 /\ 8 * period >= RESOLUTION * 1024
TimerInv ==
  /\ ICR1 \in 0..RESOLUTION - 1 /\ TOIE1 \in 0..1 /\ period \in Nat
  /\ TCCR1B \in {{}, clockSelectBits}
  /\ clockSelectBits = {} \/ \E i \in 1..5 : Fits(i)

LEMMA NoBits ==
  ASSUME NEW B
  PROVE  {} \cup B = B /\ B \cup {} = B /\ B \cup B = B
OBVIOUS

LEMMA ResolutionNat == RESOLUTION \in Nat \ {0}
BY DEF RESOLUTION

LEMMA Prescaled ==
  ASSUME NEW n \in Nat, NEW p \in Nat \ {0}, n \div p < RESOLUTION
  PROVE  /\ (n \div p) * p <= n /\ n < (n \div p + 1) * p
         /\ n \div p \in 0..RESOLUTION - 1
<1> DEFINE q == n \div p
<1>1. q \in Nat /\ n = (p * q) + (n % p) /\ n % p \in 0..p - 1
  OBVIOUS
<1>2. q < RESOLUTION
  OBVIOUS
<1> HIDE DEF q
<1>3. q * p = p * q /\ (q + 1) * p = (p * q) + p
  BY <1>1
<1>4. q * p <= n /\ n < (q + 1) * p
  BY <1>1, <1>3
<1>5. q \in 0..RESOLUTION - 1
  <2>1. q \in Nat
    BY <1>1
  <2> QED
    BY <1>2, <2>1, ResolutionNat
<1> QED
  BY <1>4, <1>5 DEF q

LEMMA PeriodFits ==
  ASSUME NEW us \in Nat, setPeriod(us)
  PROVE  /\ ICR1' \in 0..RESOLUTION - 1 /\ period' = us
         /\ TCCR1B' = clockSelectBits'
         /\ \E i \in 1..5 : Fits(i)'
<1> DEFINE cycles == 8 * us
           fits == {i \in 1..5 : cycles \div Clock[i].scale < RESOLUTION}
           i == CHOOSE j \in fits : \A l \in fits : j <= l
<1>1. CASE fits = {}
  <2>1. ~(cycles \div 1024 < RESOLUTION)
    BY <1>1, ClockValues
  <2>2. cycles >= RESOLUTION * 1024
    BY <2>1 DEF RESOLUTION
  <2>3. Fits(5)'
    BY <1>1, <2>2 DEF setPeriod, Fits
  <2>4. /\ ICR1' = RESOLUTION - 1 /\ period' = us
        /\ TCCR1B' = {} \cup clockSelectBits'
    BY <1>1 DEF setPeriod, ClockCleared
  <2> QED
    BY <2>3, <2>4, NoBits DEF RESOLUTION
<1>2. CASE fits # {}
  <2>1. \E j \in fits : \A l \in fits : j <= l
    BY <1>2
  <2>2. i \in fits
    BY <2>1
  <2>3. /\ ICR1' = cycles \div Clock[i].scale /\ clockSelectBits' = Clock[i].bits
        /\ TCCR1B' = clockSelectBits' /\ period' = us
    BY <1>2, NoBits DEF setPeriod, ClockCleared
  <2> HIDE DEF i
  <2>4. /\ ICR1' * Clock[i].scale <= cycles /\ cycles < (ICR1' + 1) * Clock[i].scale
        /\ ICR1' \in 0..RESOLUTION - 1
    <3>1. Clock[i].scale \in Nat \ {0} /\ cycles \div Clock[i].scale < RESOLUTION
      BY <2>2, ClockValues
    <3>2. cycles \in Nat
      OBVIOUS
    <3> HIDE DEF cycles, fits
    <3> QED
      BY <2>3, <3>1, <3>2, Prescaled
  <2>5. Fits(i)'
    BY <2>3, <2>4 DEF Fits
  <2> QED
    BY <2>2, <2>3, <2>4, <2>5
<1> QED
  BY <1>1, <1>2

LEMMA TimerStep ==
  ASSUME TimerInv, TimerCalls \/ UNCHANGED timerVars
  PROVE  TimerInv'
<1>1. ASSUME NEW us \in Nat, setPeriod(us), TOIE1' \in 0..1
      PROVE  TimerInv'
  BY <1>1, PeriodFits DEF TimerInv
<1>2. Micros \subseteq Nat
  BY TimerAssumption
<1>3. CASE \E us \in Micros : initialize(us) \/ (setPeriod(us) /\ UNCHANGED TOIE1)
  BY <1>1, <1>2, <1>3 DEF initialize, TimerInv
<1>4. ASSUME NEW us \in Micros \cup {0}, attachInterrupt(us)
      PROVE  TimerInv'
  <2>1. CASE us > 0
    BY <1>1, <1>2, <1>4, <2>1 DEF attachInterrupt
  <2>2. CASE ~(us > 0)
    BY <1>4, <2>2, NoBits DEF attachInterrupt, TimerInv, Fits
  <2> QED
    BY <2>1, <2>2
<1>5. CASE detachInterrupt \/ resume \/ start \/ stop \/ UNCHANGED timerVars
  BY <1>5, NoBits DEF detachInterrupt, resume, start, stop, timerVars, TimerInv, Fits
<1> QED
  BY <1>3, <1>4, <1>5 DEF TimerCalls

(* Both ways of counting, from the bottom to the top and back: up to the   *)
(* top the counter is the time since the bottom, and after it the rest.    *)
LEMMA CountUpDown ==
  ASSUME ICR1 \in Nat, NEW n \in Nat, n < 2 * ICR1
  PROVE  TCNT1(n) = IF n <= ICR1 THEN n ELSE 2 * ICR1 - n
<1>1. \A m \in Nat \ {0} : n < m => n % m = n
  OBVIOUS
<1>2. n % (2 * ICR1) = n
  BY <1>1
<1> QED
  BY <1>2 DEF TCNT1

(* What read() makes of two looks: the time of one of them in ticks, and   *)
(* of that in microseconds.                                                *)
Ticks(n) == IF n < ICR1 THEN n ELSE n + 1
LEMMA ReadTicks ==
  ASSUME ICR1 \in Nat, NEW n \in Nat, n + 1 < 2 * ICR1
  PROVE  read(n) = ((Ticks(n) * 1000) \div 16000) * ScaleOf(clockSelectBits)
<1>1. TCNT1(n) = IF n <= ICR1 THEN n ELSE 2 * ICR1 - n
  BY CountUpDown
<1>2. TCNT1(n + 1) = IF n + 1 <= ICR1 THEN n + 1 ELSE 2 * ICR1 - (n + 1)
  BY CountUpDown
<1>3. (IF TCNT1(n + 1) > TCNT1(n) THEN TCNT1(n) ELSE ICR1 - TCNT1(n + 1) + ICR1) = Ticks(n)
  BY <1>1, <1>2 DEF Ticks
<1> QED
  BY <1>3 DEF read

(* Thousandths of sixteen thousandths are sixteenths, rounded down.        *)
LEMMA Sixteenths ==
  ASSUME NEW t \in Nat, NEW u \in Nat
  PROVE  /\ (t * 1000) \div 16000 \in Nat
         /\ 16 * ((t * 1000) \div 16000) <= t
         /\ t < 16 * ((t * 1000) \div 16000) + 16
         /\ t <= u => (t * 1000) \div 16000 <= (u * 1000) \div 16000
OBVIOUS

LEMMA TimerIsRight ==
  ASSUME TimerInv
  PROVE  TimerRight
<1>0. TimerTypeOK
  BY DEF TimerInv, TimerTypeOK
<1> SUFFICES ASSUME TCCR1B # {} PROVE TimerRight
  BY <1>0 DEF TimerRight, ClockRight, ReadRight
<1>1. PICK i \in 1..5 : Fits(i)
  BY DEF TimerInv
<1>2. TCCR1B = Clock[i].bits /\ clockSelectBits = Clock[i].bits
  BY <1>1 DEF TimerInv, Fits
<1> DEFINE tick == Clock[i].scale
<1>3. ScaleOf(TCCR1B) = tick /\ ScaleOf(clockSelectBits) = tick
  BY <1>2, ScaleOfClock
<1>4. tick \in Nat \ {0}
  BY ClockValues
<1>5. ClockRight
  BY <1>1, <1>2, <1>3 DEF ClockRight, Fits
<1> HIDE DEF tick
<1>6. ICR1 \in Nat
  BY ResolutionNat DEF TimerInv
<1>7. ASSUME NEW n \in Nat, n + 1 < 2 * ICR1
      PROVE  /\ \E look \in {n, n + 1} :
                   /\ 16 * read(n) <= look * tick
                   /\ look * tick < 16 * (read(n) + tick)
             /\ n + 2 < 2 * ICR1 => read(n) <= read(n + 1)
  <2> DEFINE micros(m) == (Ticks(m) * 1000) \div 16000
  <2>1. Ticks(n) \in {n, n + 1} /\ Ticks(n) \in Nat
        /\ Ticks(n + 1) \in Nat /\ Ticks(n) <= Ticks(n + 1)
    BY <1>6 DEF Ticks
  <2>2. /\ micros(n) \in Nat /\ micros(n + 1) \in Nat
        /\ 16 * micros(n) <= Ticks(n) /\ Ticks(n) < 16 * micros(n) + 16
        /\ micros(n) <= micros(n + 1)
    BY <2>1, Sixteenths
  <2>3. read(n) = micros(n) * tick
    BY <1>3, <1>6, <1>7, ReadTicks
  <2>4. n + 2 < 2 * ICR1 => read(n + 1) = micros(n + 1) * tick
    BY <1>3, <1>6, ReadTicks
  <2> HIDE DEF micros
  <2>5. 16 * read(n) <= Ticks(n) * tick
    BY <1>4, <2>1, <2>2, <2>3
  <2>6. Ticks(n) * tick < 16 * (read(n) + tick)
    BY <1>4, <2>1, <2>2, <2>3
  <2>7. n + 2 < 2 * ICR1 => read(n) <= read(n + 1)
    BY <1>4, <2>2, <2>3, <2>4
  <2> QED
    BY <2>1, <2>5, <2>6, <2>7
<1>8. ReadRight
  <2> SUFFICES ASSUME ICR1 > 1,
                      NEW n \in {0, 1, 15, 16, ICR1 - 1, ICR1, ICR1 + 1, 2 * ICR1 - 2}
                                   \cap (0..2 * ICR1 - 2)
               PROVE  /\ \E look \in {n, n + 1} :
                            /\ 16 * read(n) <= look * tick
                            /\ look * tick < 16 * (read(n) + tick)
                      /\ n < 2 * ICR1 - 2 => read(n) <= read(n + 1)
    BY <1>3 DEF ReadRight
  <2>1. n \in Nat /\ n + 1 < 2 * ICR1 /\ (n < 2 * ICR1 - 2 => n + 2 < 2 * ICR1)
    BY <1>6
  <2> QED
    BY <1>7, <2>1
<1> QED
  BY <1>0, <1>5, <1>8 DEF TimerRight

(* For every sequence of calls and all periods the timer interrupts with   *)
(* the period asked for last, as closely as the clock it chose can, and    *)
(* the time read does not run backwards.                                   *)
THEOREM TimerCorrect == Spec => []TimerRight
<1>1. Init => TimerInv
  BY ResolutionNat DEF Init, TimerInit, TimerInv
<1>2. TimerInv /\ [Next]_vars => TimerInv'
  BY TimerStep DEF Next, vars, timerVars
<1>3. TimerInv => TimerRight
  BY TimerIsRight
<1> QED
  BY <1>1, <1>2, <1>3, PTL DEF Spec

------------------------------------------------------------------------------
(* Dynamic threads: what is always true of the areas *)

(* The places where a holder may be in a call.                             *)
Point ==
  {<<"idle">>} \cup ({"create", "wait", "remove", "free"} \X Area)
    \cup ({"release"} \X Area \X (0..MaxRefs))
Node == Area \cup {RLIST}

DynType ==
  /\ mp_next \in Seq(PoolArea)
  /\ p_state \in [Area -> {"NONE", "ALIVE", "FINAL"}]
  /\ p_refs \in [Area -> 0..MaxRefs]
  /\ p_waiting \in [Area -> SUBSET Holder]
  /\ useRegistry \in BOOLEAN
  /\ p_newer \in [Node -> Node] /\ p_older \in [Node -> Node]
  /\ doing \in [Holder -> Point]
  /\ has \in [Holder -> [Area -> 0..MaxRefs]]

(* The pool has every area that nobody uses, once.                         *)
PoolInv ==
  /\ \A i, j \in DOMAIN mp_next : mp_next[i] = mp_next[j] => i = j
  /\ InPool = PoolArea \ Given

(* The kernel's count is the number of references that are held.           *)
CountInv == \A a \in Area : p_refs[a] = HeldOf(a)

(* Who gives up the last reference is the only one to do so, and stays the *)
(* last one who knows the area until it is given back.                     *)
EndInv == \A a \in Area, h \in Holder :
  /\ doing[h] \in Ending(a) => \A g \in Holder : doing[g] \in Ending(a) => g = h
  /\ doing[h] \in Ending(a) \ {<<"create", a>>} => p_refs[a] = 0 /\ p_state[a] # "NONE"
  /\ doing[h] \in {<<"remove", a>>, <<"free", a>>} => p_state[a] = "FINAL"
  /\ doing[h] = <<"create", a>> => p_state[a] = "NONE"
  /\ doing[h] = <<"wait", a>> => has[h][a] > 0
StateInv == \A a \in Area :
  /\ p_state[a] = "NONE" => p_refs[a] = 0
  /\ p_state[a] # "ALIVE" => p_waiting[a] = {}

(* The registry's list is a ring r of m threads and its end r[0], which    *)
(* newer and older follow in the two directions.                           *)
Ring(m, r, newer, older) ==
  /\ m \in Nat /\ r \in [0..m -> Node] /\ r[0] = RLIST
  /\ \A i, j \in 0..m : r[i] = r[j] => i = j
  /\ \A i \in 0..m - 1 : newer[r[i]] = r[i + 1] /\ older[r[i + 1]] = r[i]
  /\ newer[r[m]] = RLIST /\ older[RLIST] = r[m]

(* It has all threads but those that are being freed, and the one that is  *)
(* being removed: of that the second store is still to come.               *)
Listed == {a \in Area : /\ p_state[a] # "NONE"
                        /\ ~\E h \in Holder : doing[h] \in {<<"remove", a>>, <<"free", a>>}}
Older(older) ==
  /\ (\A h \in Holder : ~IsAt(h, "remove")) => older = p_older
  /\ \A h \in Holder : IsAt(h, "remove") =>
       older = [p_older EXCEPT ![p_newer[doing[h][2]]] = p_older[doing[h][2]]]
RingOf(m, r, older) ==
  Ring(m, r, p_newer, older) /\ Older(older) /\ {r[i] : i \in 1..m} = Listed
ListInv ==
  /\ useRegistry => \E m \in Nat : \E r \in [0..m -> Node], older \in [Node -> Node] :
                       RingOf(m, r, older)
  /\ \A g, h \in Holder : IsAt(g, "remove") /\ IsAt(h, "remove") => g = h
  /\ ~useRegistry => \A h \in Holder : ~IsAt(h, "remove")

DynInv == DynType /\ PoolInv /\ CountInv /\ EndInv /\ StateInv /\ ListInv

(* References are pairs of a holder and a number.                          *)
Refs(a) == {r \in Holder \X (1..MaxRefs) : r[2] <= has[r[1]][a]}

LEMMA RefsFinite == ASSUME NEW a PROVE IsFiniteSet(Refs(a)) /\ Cardinality(Refs(a)) = HeldOf(a)
<1>1. IsFiniteSet(1..MaxRefs)
  BY FS_Interval, DynamicAssumption
<1>2. IsFiniteSet(Holder \X (1..MaxRefs))
  BY <1>1, FS_Product, DynamicAssumption
<1>3. Refs(a) \subseteq Holder \X (1..MaxRefs)
  BY DEF Refs
<1>4. IsFiniteSet(Refs(a))
  BY <1>2, <1>3, FS_Subset
<1> QED
  BY <1>4 DEF Refs, HeldOf

(* No holder has more references than are counted.                         *)
LEMMA HeldBound ==
  ASSUME DynType, NEW h \in Holder, NEW a \in Area
  PROVE  has[h][a] <= HeldOf(a) /\ HeldOf(a) \in Nat
<1> DEFINE n == has[h][a]
           f == [i \in 1..n |-> <<h, i>>]
<1>1. n \in Nat /\ n <= MaxRefs
  BY DynamicAssumption DEF DynType
<1>2. f \in Injection(1..n, Refs(a))
  <2>1. \A i \in 1..n : <<h, i>> \in Refs(a)
    BY <1>1, DynamicAssumption DEF Refs
  <2> HIDE DEF n
  <2>2. f \in [1..n -> Refs(a)] /\ \A i, j \in 1..n : f[i] = f[j] => i = j
    BY <2>1
  <2> QED
    BY <2>2 DEF Injection, IsInjective
<1> HIDE DEF f, n
<1>3. Cardinality(1..n) = n /\ IsFiniteSet(1..n)
  BY <1>1, FS_Interval
<1>4. n <= Cardinality(Refs(a))
  BY <1>2, <1>3, RefsFinite, FS_Injection
<1>5. Cardinality(Refs(a)) \in Nat
  BY RefsFinite, FS_CardinalityType
<1> QED
  BY <1>4, <1>5, RefsFinite DEF n

(* One reference more or less is counted as one.                           *)
LEMMA HeldMore ==
  ASSUME DynType, NEW h \in Holder, NEW a \in Area, has[h][a] < MaxRefs,
         has' = [has EXCEPT ![h][a] = @ + 1]
  PROVE  \A b \in Area : HeldOf(b)' = IF b = a THEN HeldOf(b) + 1 ELSE HeldOf(b)
<1>1. ASSUME NEW b \in Area, b # a PROVE HeldOf(b)' = HeldOf(b)
  <2>1. \A g \in Holder : has'[g][b] = has[g][b]
    BY <1>1 DEF DynType
  <2> QED
    BY <2>1 DEF HeldOf
<1>2. HeldOf(a)' = HeldOf(a) + 1
  <2> DEFINE new == <<h, has[h][a] + 1>>
  <2>1. Refs(a)' = Refs(a) \cup {new} /\ new \notin Refs(a)
    <3>1. has[h][a] + 1 \in 1..MaxRefs /\ has[h][a] \in Nat
      BY DynamicAssumption DEF DynType
    <3>2. \A g \in Holder : has'[g][a] = IF g = h THEN has[h][a] + 1 ELSE has[g][a]
      BY DEF DynType
    <3> QED
      BY <3>1, <3>2 DEF Refs, DynType
  <2> HIDE DEF new
  <2>2. Cardinality(Refs(a)') = Cardinality(Refs(a)) + 1
    <3>1. IsFiniteSet(Refs(a))
      BY RefsFinite
    <3>2. Cardinality(Refs(a) \cup {new})
            = IF new \in Refs(a) THEN Cardinality(Refs(a))
              ELSE Cardinality(Refs(a)) + 1
      BY <3>1, FS_AddElement, Zenon
    <3> QED
      BY <2>1, <3>2
  <2>3. HeldOf(a) = Cardinality(Refs(a)) /\ HeldOf(a)' = Cardinality(Refs(a)')
    BY DEF HeldOf, Refs
  <2> QED
    BY <2>2, <2>3
<1> QED
  BY <1>1, <1>2

LEMMA HeldLess ==
  ASSUME DynType, NEW h \in Holder, NEW a \in Area, has[h][a] > 0,
         has' = [has EXCEPT ![h][a] = @ - 1]
  PROVE  \A b \in Area : HeldOf(b)' = IF b = a THEN HeldOf(b) - 1 ELSE HeldOf(b)
<1>1. ASSUME NEW b \in Area, b # a PROVE HeldOf(b)' = HeldOf(b)
  <2>1. \A g \in Holder : has'[g][b] = has[g][b]
    BY <1>1 DEF DynType
  <2> QED
    BY <2>1 DEF HeldOf
<1>2. HeldOf(a)' = HeldOf(a) - 1
  <2> DEFINE old == <<h, has[h][a]>>
  <2>1. Refs(a)' = Refs(a) \ {old} /\ old \in Refs(a)
    <3>1. has[h][a] \in 1..MaxRefs
      BY DynamicAssumption DEF DynType
    <3>2. \A g \in Holder : has'[g][a] = IF g = h THEN has[h][a] - 1 ELSE has[g][a]
      BY DEF DynType
    <3> QED
      BY <3>1, <3>2 DEF Refs, DynType
  <2> HIDE DEF old
  <2>2. Cardinality(Refs(a)') = Cardinality(Refs(a)) - 1
    <3>1. IsFiniteSet(Refs(a))
      BY RefsFinite
    <3>2. Cardinality(Refs(a) \ {old})
            = IF old \in Refs(a) THEN Cardinality(Refs(a)) - 1
              ELSE Cardinality(Refs(a))
      BY <3>1, FS_RemoveElement, Zenon
    <3> QED
      BY <2>1, <3>2
  <2>3. HeldOf(a) = Cardinality(Refs(a)) /\ HeldOf(a)' = Cardinality(Refs(a)')
    BY DEF HeldOf, Refs
  <2> QED
    BY <2>2, <2>3
<1> QED
  BY <1>1, <1>2

LEMMA HeldSame == ASSUME has' = has PROVE \A b \in Area : HeldOf(b)' = HeldOf(b)
BY DEF HeldOf

LEMMA MaxRefsNat == MaxRefs \in Nat \ {0}
BY DynamicAssumption

LEMMA Counted ==
  ASSUME DynType, CountInv, NEW h \in Holder, NEW a \in Area
  PROVE  has[h][a] <= p_refs[a] /\ has[h][a] \in 0..MaxRefs /\ p_refs[a] \in 0..MaxRefs
BY HeldBound DEF CountInv, DynType

LEMMA WhereHolder ==
  ASSUME DynType, NEW h \in Holder
  PROVE  /\ doing[h] \in Point
         /\ doing[h][1] \in {"create", "wait", "remove", "free", "release"} =>
              doing[h][2] \in Area
         /\ doing[h][1] \in {"create", "wait", "remove", "free"} =>
              doing[h] = <<doing[h][1], doing[h][2]>>
         /\ doing[h][1] = "release" =>
              /\ doing[h][3] \in 0..MaxRefs
              /\ doing[h] = <<"release", doing[h][2], doing[h][3]>>
<1>1. doing[h] \in Point
  BY DEF DynType
<1> QED
  BY <1>1 DEF Point

(* A step either changes the references of one area by one, or of none.    *)
LEMMA DropCounts ==
  ASSUME DynType, CountInv, NEW h \in Holder, NEW a \in Area, has[h][a] > 0, Drop(h, a)
  PROVE  /\ p_refs' \in [Area -> 0..MaxRefs] /\ has' \in [Holder -> [Area -> 0..MaxRefs]]
         /\ doing' \in [Holder -> Point]
         /\ CountInv'
<1>1. /\ p_refs[a] - 1 \in 0..MaxRefs /\ p_refs[a] \in 1..MaxRefs
      /\ has[h][a] - 1 \in 0..MaxRefs
  BY Counted, MaxRefsNat
<1>2. p_refs' \in [Area -> 0..MaxRefs] /\ \A b \in Area :
        p_refs'[b] = IF b = a THEN p_refs[b] - 1 ELSE p_refs[b]
  BY <1>1 DEF Drop, DynType
<1>3. has' \in [Holder -> [Area -> 0..MaxRefs]]
  BY <1>1 DEF Drop, DynType
<1>4. <<"release", a, p_refs[a] - 1>> \in Point
  BY <1>1 DEF Point
<1>5. doing' \in [Holder -> Point]
  BY <1>4 DEF Drop, Goes, DynType
<1>6. \A b \in Area : HeldOf(b)' = IF b = a THEN HeldOf(b) - 1 ELSE HeldOf(b)
  BY HeldLess DEF Drop
<1>7. CountInv'
  BY <1>2, <1>6 DEF CountInv
<1> QED
  BY <1>2, <1>3, <1>5, <1>7

LEMMA TakeCounts ==
  ASSUME DynType, CountInv, NEW h \in Holder, NEW a \in Area, p_refs[a] < MaxRefs,
         p_refs' = [p_refs EXCEPT ![a] = @ + 1], has' = [has EXCEPT ![h][a] = @ + 1]
  PROVE  /\ p_refs' \in [Area -> 0..MaxRefs] /\ has' \in [Holder -> [Area -> 0..MaxRefs]]
         /\ CountInv'
<1>1. p_refs[a] + 1 \in 0..MaxRefs /\ has[h][a] < MaxRefs /\ has[h][a] + 1 \in 0..MaxRefs
  BY Counted, DynamicAssumption
<1>2. p_refs' \in [Area -> 0..MaxRefs] /\ \A b \in Area :
        p_refs'[b] = IF b = a THEN p_refs[b] + 1 ELSE p_refs[b]
  BY <1>1 DEF DynType
<1>3. has' \in [Holder -> [Area -> 0..MaxRefs]]
  BY <1>1 DEF DynType
<1>4. \A b \in Area : HeldOf(b)' = IF b = a THEN HeldOf(b) + 1 ELSE HeldOf(b)
  BY <1>1, HeldMore
<1>5. CountInv'
  BY <1>2, <1>4 DEF CountInv
<1> QED
  BY <1>2, <1>3, <1>5

LEMMA SameCounts ==
  ASSUME DynType, CountInv, UNCHANGED <<p_refs, has>>
  PROVE  /\ p_refs' \in [Area -> 0..MaxRefs] /\ has' \in [Holder -> [Area -> 0..MaxRefs]]
         /\ CountInv'
BY HeldSame DEF CountInv, DynType

LEMMA CreateCounts ==
  ASSUME DynType, CountInv, EndInv, StateInv, NEW h \in Holder, Create(h)
  PROVE  /\ p_refs' \in [Area -> 0..MaxRefs] /\ has' \in [Holder -> [Area -> 0..MaxRefs]]
         /\ CountInv'
<1> DEFINE a == doing[h][2]
<1>1. a \in Area /\ doing[h] = <<"create", a>>
  BY WhereHolder DEF Create, IsAt
<1>2. p_refs[a] = 0
  BY <1>1 DEF EndInv, StateInv
<1>3. has[h][a] = 0
  BY <1>1, <1>2, Counted
<1>4. p_refs' = [p_refs EXCEPT ![a] = 1] /\ has' = [has EXCEPT ![h][a] = 1]
  BY DEF Create
<1> HIDE DEF a
<1>5. p_refs' = [p_refs EXCEPT ![a] = @ + 1] /\ has' = [has EXCEPT ![h][a] = @ + 1]
  BY <1>1, <1>2, <1>3, <1>4 DEF DynType
<1>6. p_refs[a] < MaxRefs
  BY <1>2, MaxRefsNat
<1> QED
  BY <1>1, <1>5, <1>6, TakeCounts

(* All calls in one list, to go through them one by one.                   *)
LEMMA DynCases ==
  ASSUME [DynCalls]_dynVars, NEW G,
         UNCHANGED dynVars => G,
         \A h \in Holder : Create(h) \/ WaitDone(h) \/ LookAtState(h) \/ Remove(h)
                             \/ FreeArea(h) => G,
         \A h \in Holder, a \in Area :
           GetArea(h, a) \/ chThdRelease(h, a) \/ ThreadWait(h, a) => G,
         \A h, other \in Holder, a \in Area : chThdAddRef(h, other, a) => G,
         \A h \in Holder, tp \in Node : chRegNextThread(h, tp) => G,
         \A a \in Area : ThreadExits(a) => G
  PROVE  G
BY DEF DynCalls, NoArea, Node

LEMMA CountStep ==
  ASSUME DynType, CountInv, EndInv, StateInv, [DynCalls]_dynVars
  PROVE  /\ p_refs' \in [Area -> 0..MaxRefs] /\ has' \in [Holder -> [Area -> 0..MaxRefs]]
         /\ CountInv'
<1> DEFINE G == /\ p_refs' \in [Area -> 0..MaxRefs]
                /\ has' \in [Holder -> [Area -> 0..MaxRefs]]
                /\ CountInv'
<1>1. UNCHANGED dynVars => G
  BY SameCounts DEF dynVars
<1>2. ASSUME NEW h \in Holder,
             Create(h) \/ WaitDone(h) \/ LookAtState(h) \/ Remove(h) \/ FreeArea(h)
      PROVE  G
  <2>1. CASE Create(h)
    BY <2>1, CreateCounts
  <2>2. CASE WaitDone(h)
    <3>1. doing[h] = <<"wait", doing[h][2]>> /\ doing[h][2] \in Area
      BY <2>2, WhereHolder DEF WaitDone, IsAt
    <3>2. has[h][doing[h][2]] > 0
      BY <3>1 DEF EndInv
    <3> QED
      BY <2>2, <3>1, <3>2, DropCounts DEF WaitDone
  <2>3. CASE LookAtState(h) \/ Remove(h) \/ FreeArea(h)
    BY <2>3, SameCounts DEF LookAtState, Remove, FreeArea
  <2> QED
    BY <1>2, <2>1, <2>2, <2>3
<1>3. ASSUME NEW h \in Holder, NEW a \in Area,
             GetArea(h, a) \/ chThdRelease(h, a) \/ ThreadWait(h, a)
      PROVE  G
  BY <1>3, SameCounts, DropCounts DEF GetArea, chThdRelease, ThreadWait
<1>4. ASSUME NEW h \in Holder, NEW other \in Holder, NEW a \in Area, chThdAddRef(h, other, a)
      PROVE  G
  BY <1>4, TakeCounts DEF chThdAddRef
<1>5. ASSUME NEW h \in Holder, NEW tp \in Node, chRegNextThread(h, tp)
      PROVE  G
  <2>1. p_newer[tp] \in Node
    BY DEF DynType
  <2>2. CASE p_newer[tp] = RLIST
    BY <1>5, <2>2, SameCounts DEF chRegNextThread
  <2>3. CASE p_newer[tp] # RLIST
    <3>1. p_newer[tp] \in Area
      BY <2>1, <2>3 DEF Node
    <3> QED
      BY <1>5, <2>3, <3>1, TakeCounts DEF chRegNextThread
  <2> QED
    BY <2>2, <2>3
<1>6. ASSUME NEW a \in Area, ThreadExits(a)
      PROVE  G
  BY <1>6, SameCounts DEF ThreadExits
<1> HIDE DEF G
<1>7. G
  BY <1>1, <1>2, <1>3, <1>4, <1>5, <1>6, DynCases
<1> QED
  BY <1>7 DEF G

LEMMA PointIn ==
  /\ <<"idle">> \in Point
  /\ \A a \in Area : {<<"create", a>>, <<"wait", a>>, <<"remove", a>>, <<"free", a>>} \subseteq Point
BY DEF Point

LEMMA DoingStep ==
  ASSUME DynType, CountInv, EndInv, [DynCalls]_dynVars
  PROVE  doing' \in [Holder -> Point]
<1> DEFINE G == doing' \in [Holder -> Point]
<1>0. ASSUME NEW h \in Holder, NEW p \in Point, Goes(h, p) PROVE G
  BY <1>0 DEF Goes, DynType
<1>1. doing' = doing => G
  BY DEF DynType
<1>2. ASSUME NEW h \in Holder,
             Create(h) \/ WaitDone(h) \/ LookAtState(h) \/ Remove(h) \/ FreeArea(h)
      PROVE  G
  <2>1. CASE Create(h) \/ FreeArea(h)
    BY <1>0, <2>1, PointIn DEF Create, FreeArea
  <2>2. CASE WaitDone(h)
    <3>1. doing[h] = <<"wait", doing[h][2]>> /\ doing[h][2] \in Area
      BY <2>2, WhereHolder DEF WaitDone, IsAt
    <3>2. has[h][doing[h][2]] > 0
      BY <3>1 DEF EndInv
    <3> QED
      BY <2>2, <3>1, <3>2, DropCounts DEF WaitDone
  <2>3. CASE LookAtState(h)
    <3>1. doing[h][2] \in Area
      BY <2>3, WhereHolder DEF LookAtState, IsAt
    <3> QED
      BY <1>0, <2>3, <3>1, PointIn DEF LookAtState
  <2>4. CASE Remove(h)
    <3>1. doing[h][2] \in Area
      BY <2>4, WhereHolder DEF Remove, IsAt
    <3> QED
      BY <1>0, <2>4, <3>1, PointIn DEF Remove
  <2> QED
    BY <1>2, <2>1, <2>2, <2>3, <2>4
<1>3. ASSUME NEW h \in Holder, NEW a \in Area,
             GetArea(h, a) \/ chThdRelease(h, a) \/ ThreadWait(h, a)
      PROVE  G
  BY <1>0, <1>3, PointIn, DropCounts DEF GetArea, chThdRelease, ThreadWait
<1>4. ASSUME NEW h \in Holder, NEW other \in Holder, NEW a \in Area, chThdAddRef(h, other, a)
      PROVE  G
  BY <1>1, <1>4 DEF chThdAddRef
<1>5. ASSUME NEW h \in Holder, NEW tp \in Node, chRegNextThread(h, tp)
      PROVE  G
  <2>1. tp # RLIST => tp \in Area
    BY DEF Node
  <2> QED
    BY <1>0, <1>5, <2>1, PointIn DEF chRegNextThread
<1>6. ASSUME NEW a \in Area, ThreadExits(a)
      PROVE  G
  BY <1>1, <1>6 DEF ThreadExits
<1>7. UNCHANGED dynVars => G
  BY <1>1 DEF dynVars
<1> HIDE DEF G
<1>8. G
  BY <1>2, <1>3, <1>4, <1>5, <1>6, <1>7, DynCases
<1> QED
  BY <1>8 DEF G

LEMMA DynTypeStep ==
  ASSUME DynType, CountInv, EndInv, StateInv, [DynCalls]_dynVars
  PROVE  DynType'
<1> DEFINE G == /\ mp_next' \in Seq(PoolArea)
                /\ p_state' \in [Area -> {"NONE", "ALIVE", "FINAL"}]
                /\ p_waiting' \in [Area -> SUBSET Holder]
                /\ useRegistry' \in BOOLEAN
                /\ p_newer' \in [Node -> Node] /\ p_older' \in [Node -> Node]
<1> USE DEF DynType
<1>0. RLIST \in Node /\ Area \subseteq Node
  BY DEF Node
<1>1. UNCHANGED <<mp_next, p_state, p_waiting, registry>> => G
  BY DEF registry
<1>2. ASSUME NEW h \in Holder,
             Create(h) \/ WaitDone(h) \/ LookAtState(h) \/ Remove(h) \/ FreeArea(h)
      PROVE  G
  <2>1. CASE Create(h)
    <3>1. doing[h][2] \in Area
      BY <2>1, WhereHolder DEF Create, IsAt
    <3>2. p_newer' \in [Node -> Node] /\ p_older' \in [Node -> Node]
      <4>1. CASE useRegistry
        <5>1. p_older[RLIST] \in Node
          BY <1>0
        <5>2. REG_INSERT(doing[h][2])
          BY <2>1, <4>1 DEF Create
        <5> QED
          BY <1>0, <3>1, <5>1, <5>2 DEF REG_INSERT
      <4>2. CASE ~useRegistry
        BY <2>1, <4>2 DEF Create
      <4> QED
        BY <4>1, <4>2
    <3> QED
      BY <2>1, <3>1, <3>2 DEF Create
  <2>2. CASE WaitDone(h)
    BY <1>1, <2>2 DEF WaitDone
  <2>3. CASE LookAtState(h)
    <3>1. doing[h][2] \in Area
      BY <2>3, WhereHolder DEF LookAtState, IsAt
    <3>2. p_newer' \in [Node -> Node]
      BY <1>0, <2>3, <3>1 DEF LookAtState
    <3> QED
      BY <2>3, <3>2 DEF LookAtState
  <2>4. CASE Remove(h)
    <3>1. doing[h][2] \in Area
      BY <2>4, WhereHolder DEF Remove, IsAt
    <3>2. p_older' \in [Node -> Node]
      BY <1>0, <2>4, <3>1 DEF Remove
    <3> QED
      BY <2>4, <3>2 DEF Remove
  <2>5. CASE FreeArea(h)
    <3>1. doing[h][2] \in Area
      BY <2>5, WhereHolder DEF FreeArea, IsAt
    <3>2. mp_next' \in Seq(PoolArea)
      <4>1. CASE doing[h][2] \in PoolArea
        <5>1. <<doing[h][2]>> \in Seq(PoolArea)
          BY <4>1
        <5>2. mp_next' = <<doing[h][2]>> \o mp_next
          BY <2>5, <4>1 DEF FreeArea, chPoolFreeI
        <5> QED
          BY <5>1, <5>2
      <4>2. CASE doing[h][2] \notin PoolArea
        BY <2>5, <4>2 DEF FreeArea
      <4> QED
        BY <4>1, <4>2
    <3> QED
      BY <2>5, <3>1, <3>2 DEF FreeArea, registry
  <2> QED
    BY <1>2, <2>1, <2>2, <2>3, <2>4, <2>5
<1>3. ASSUME NEW h \in Holder, NEW a \in Area,
             GetArea(h, a) \/ chThdRelease(h, a) \/ ThreadWait(h, a)
      PROVE  G
  <2>1. CASE GetArea(h, a)
    <3>1. mp_next # <<>> => Tail(mp_next) \in Seq(PoolArea)
      OBVIOUS
    <3> QED
      BY <2>1, <3>1 DEF GetArea, chPoolAllocI, registry
  <2>2. CASE chThdRelease(h, a)
    BY <1>1, <2>2 DEF chThdRelease
  <2>3. CASE ThreadWait(h, a)
    BY <2>3 DEF ThreadWait, registry
  <2> QED
    BY <1>3, <2>1, <2>2, <2>3
<1>4. ASSUME NEW h \in Holder, NEW other \in Holder, NEW a \in Area, chThdAddRef(h, other, a)
      PROVE  G
  BY <1>1, <1>4 DEF chThdAddRef
<1>5. ASSUME NEW h \in Holder, NEW tp \in Node, chRegNextThread(h, tp)
      PROVE  G
  BY <1>1, <1>5 DEF chRegNextThread
<1>6. ASSUME NEW a \in Area, ThreadExits(a)
      PROVE  G
  BY <1>6 DEF ThreadExits, registry
<1>7. UNCHANGED dynVars => G
  BY <1>1 DEF dynVars
<1> HIDE DEF G
<1>8. G
  BY <1>2, <1>3, <1>4, <1>5, <1>6, <1>7, DynCases
<1> QED
  BY <1>8, DoingStep, CountStep DEF G

LEMMA GoesTo ==
  ASSUME DynType, NEW h \in Holder, NEW p, Goes(h, p)
  PROVE  \A g \in Holder : doing'[g] = IF g = h THEN p ELSE doing[g]
BY DEF Goes, DynType

(* A reference keeps an area from being given back, or from being new.     *)
LEMMA HeldIsAlive ==
  ASSUME DynType, CountInv, EndInv, StateInv, NEW h \in Holder, NEW a \in Area, has[h][a] > 0
  PROVE  /\ p_refs[a] > 0 /\ p_state[a] # "NONE"
         /\ \A g \in Holder : doing[g] \notin Ending(a)
<1>1. p_refs[a] > 0
  BY Counted
<1>2. p_state[a] # "NONE"
  BY <1>1, MaxRefsNat DEF StateInv, DynType
<1>3. ASSUME NEW g \in Holder, doing[g] \in Ending(a) PROVE FALSE
  <2>1. doing[g] # <<"create", a>>
    BY <1>2 DEF EndInv
  <2>2. p_refs[a] = 0
    BY <1>3, <2>1 DEF EndInv
  <2> QED
    BY <1>1, <2>2
<1> QED
  BY <1>1, <1>2, <1>3

(* The next thread in the registry's list is one whose memory is not being *)
(* given back.                                                             *)
LEMMA NextIsListed ==
  ASSUME DynType, CountInv, EndInv, StateInv, ListInv, ~RegistryAnyTime,
         useRegistry, NEW h \in Holder, Idles(h), Alone(h),
         NEW tp \in Node, tp # RLIST => has[h][tp] > 0, p_newer[tp] # RLIST
  PROVE  p_newer[tp] \in Listed
<1>1. \A g \in Holder : ~IsAt(g, "remove")
  BY DEF Alone, Idles, IsAt
<1>2. PICK m \in Nat : \E r \in [0..m -> Node], older \in [Node -> Node] : RingOf(m, r, older)
  BY DEF ListInv
<1>3. PICK r \in [0..m -> Node], older \in [Node -> Node] : RingOf(m, r, older)
  BY <1>2
<1>4. tp \in Listed \cup {RLIST}
  <2> SUFFICES ASSUME tp # RLIST PROVE tp \in Listed
    OBVIOUS
  <2>1. tp \in Area
    BY DEF Node
  <2> QED
    BY <2>1, HeldIsAlive DEF Listed, Ending
<1>5. PICK i \in 0..m : r[i] = tp
  <2>1. CASE tp = RLIST
    BY <1>3, <2>1 DEF RingOf, Ring
  <2>2. CASE tp \in Listed
    BY <1>3, <2>2 DEF RingOf
  <2> QED
    BY <1>4, <2>1, <2>2
<1>6. i # m /\ p_newer[tp] = r[i + 1]
  BY <1>3, <1>5 DEF RingOf, Ring
<1>7. i + 1 \in 1..m
  BY <1>6
<1> QED
  BY <1>3, <1>6, <1>7 DEF RingOf

LEMMA NextIsFree ==
  ASSUME DynType, CountInv, EndInv, StateInv, ListInv, ~RegistryAnyTime,
         NEW h \in Holder, NEW tp \in Node, chRegNextThread(h, tp), p_newer[tp] # RLIST
  PROVE  /\ p_newer[tp] \in Area /\ p_state[p_newer[tp]] # "NONE"
         /\ \A g \in Holder : doing[g] \notin Ending(p_newer[tp])
<1> DEFINE a == p_newer[tp]
<1>1. a \in Listed
  BY NextIsListed DEF chRegNextThread
<1> HIDE DEF a
<1>2. a \in Area /\ p_state[a] # "NONE"
  BY <1>1 DEF Listed
<1>3. ASSUME NEW g \in Holder, doing[g] \in Ending(a) PROVE FALSE
  <2>1. doing[g] \notin {<<"remove", a>>, <<"free", a>>}
    BY <1>1 DEF Listed
  <2>2. doing[g] # <<"create", a>>
    BY <1>2 DEF EndInv
  <2>3. doing[g] # <<"release", a, 0>>
    BY DEF chRegNextThread, a
  <2> QED
    BY <1>3, <2>1, <2>2, <2>3 DEF Ending
<1> QED
  BY <1>2, <1>3 DEF a

LEMMA StateStep ==
  ASSUME DynType, CountInv, EndInv, StateInv, ListInv, ~RegistryAnyTime, [DynCalls]_dynVars
  PROVE  StateInv'
<1> DEFINE G == StateInv'
<1> USE DEF StateInv
<1>1. UNCHANGED dynVars => G
  BY DEF dynVars
<1>2. ASSUME NEW h \in Holder,
             Create(h) \/ WaitDone(h) \/ LookAtState(h) \/ Remove(h) \/ FreeArea(h)
      PROVE  G
  <2>1. CASE Create(h)
    BY <2>1 DEF Create, DynType
  <2>2. CASE WaitDone(h)
    <3>1. doing[h] = <<"wait", doing[h][2]>> /\ doing[h][2] \in Area
      BY <2>2, WhereHolder DEF WaitDone, IsAt
    <3>2. p_state[doing[h][2]] # "NONE"
      BY <3>1, HeldIsAlive DEF EndInv
    <3> QED
      BY <2>2, <3>1, <3>2 DEF WaitDone, Drop, DynType
  <2>3. CASE LookAtState(h) \/ Remove(h)
    BY <2>3 DEF LookAtState, Remove
  <2>4. CASE FreeArea(h)
    <3>1. doing[h] = <<"free", doing[h][2]>> /\ doing[h][2] \in Area
      BY <2>4, WhereHolder DEF FreeArea, IsAt
    <3>2. p_refs[doing[h][2]] = 0 /\ p_state[doing[h][2]] = "FINAL"
      BY <3>1 DEF EndInv, Ending
    <3> QED
      BY <2>4, <3>1, <3>2 DEF FreeArea, DynType
  <2> QED
    BY <1>2, <2>1, <2>2, <2>3, <2>4
<1>3. ASSUME NEW h \in Holder, NEW a \in Area,
             GetArea(h, a) \/ chThdRelease(h, a) \/ ThreadWait(h, a)
      PROVE  G
  <2>1. CASE GetArea(h, a)
    BY <2>1 DEF GetArea
  <2>2. CASE chThdRelease(h, a)
    <3>1. p_state[a] # "NONE"
      BY <2>2, HeldIsAlive DEF chThdRelease
    <3> QED
      BY <2>2, <3>1 DEF chThdRelease, Drop, DynType
  <2>3. CASE ThreadWait(h, a)
    <3>1. p_state[a] # "NONE"
      BY <2>3, HeldIsAlive DEF ThreadWait
    <3>2. p_state[a] # "FINAL" => p_state[a] = "ALIVE"
      BY <3>1 DEF DynType
    <3> QED
      BY <2>3, <3>2 DEF ThreadWait, DynType
  <2> QED
    BY <1>3, <2>1, <2>2, <2>3
<1>4. ASSUME NEW h \in Holder, NEW other \in Holder, NEW a \in Area, chThdAddRef(h, other, a)
      PROVE  G
  <2>1. p_state[a] # "NONE"
    BY <1>4, HeldIsAlive DEF chThdAddRef
  <2> QED
    BY <1>4, <2>1 DEF chThdAddRef, DynType
<1>5. ASSUME NEW h \in Holder, NEW tp \in Node, chRegNextThread(h, tp)
      PROVE  G
  <2>1. CASE p_newer[tp] = RLIST
    BY <1>5, <2>1 DEF chRegNextThread
  <2>2. CASE p_newer[tp] # RLIST
    <3>1. p_newer[tp] \in Area /\ p_state[p_newer[tp]] # "NONE"
      BY <1>5, <2>2, NextIsFree
    <3> QED
      BY <1>5, <2>2, <3>1 DEF chRegNextThread, DynType
  <2> QED
    BY <2>1, <2>2
<1>6. ASSUME NEW a \in Area, ThreadExits(a)
      PROVE  G
  BY <1>6 DEF ThreadExits, DynType
<1> HIDE DEF G
<1>7. G
  BY <1>1, <1>2, <1>3, <1>4, <1>5, <1>6, DynCases
<1> QED
  BY <1>7 DEF G

(* Only who is at one of the first three places, or waits, acts on a.      *)
LEMMA CreateEnds ==
  ASSUME DynType, CountInv, EndInv, StateInv, NEW h \in Holder, Create(h)
  PROVE  EndInv'
<1> DEFINE a == doing[h][2]
<1>1. a \in Area /\ doing[h] = <<"create", a>>
  BY WhereHolder DEF Create, IsAt
<1>2. \A g \in Holder : doing'[g] = IF g = h THEN <<"idle">> ELSE doing[g]
  BY GoesTo DEF Create
<1>3. /\ \A b \in Area : p_state'[b] = IF b = a THEN "ALIVE" ELSE p_state[b]
      /\ \A b \in Area : b # a => p_refs'[b] = p_refs[b]
      /\ \A g \in Holder, b \in Area : has[g][b] > 0 => has'[g][b] > 0
  BY DEF Create, DynType
<1> HIDE DEF a
<1>4. \A g \in Holder : doing'[g] \notin Ending(a)
  BY <1>1, <1>2 DEF EndInv, Ending
<1>5. ASSUME NEW b \in Area, NEW g \in Holder, doing'[g] \in Ending(b)
      PROVE  /\ b # a /\ g # h /\ doing'[g] = doing[g]
             /\ p_refs'[b] = p_refs[b] /\ p_state'[b] = p_state[b]
  <2>1. g # h
    BY <1>2, <1>5 DEF Ending
  <2>2. b # a
    BY <1>4, <1>5
  <2> QED
    BY <1>2, <1>3, <2>1, <2>2
<1>7. ASSUME NEW b \in Area, NEW g \in Holder, doing'[g] = <<"wait", b>>
      PROVE  has'[g][b] > 0
  BY <1>2, <1>3, <1>7 DEF EndInv
<1>8. ASSUME NEW b \in Area, NEW g \in Holder, doing'[g] \in Ending(b),
             NEW f \in Holder, doing'[f] \in Ending(b)
      PROVE  f = g
  BY <1>5, <1>8 DEF EndInv
<1>9. ASSUME NEW b \in Area, NEW g \in Holder
      PROVE  /\ doing'[g] \in Ending(b) \ {<<"create", b>>} => p_refs'[b] = 0 /\ p_state'[b] # "NONE"
             /\ doing'[g] \in {<<"remove", b>>, <<"free", b>>} => p_state'[b] = "FINAL"
             /\ doing'[g] = <<"create", b>> => p_state'[b] = "NONE"
  <2>1. ASSUME doing'[g] \in Ending(b), doing'[g] # <<"create", b>>
        PROVE  p_refs'[b] = 0 /\ p_state'[b] # "NONE"
    BY <2>1, <1>5 DEF EndInv
  <2>2. ASSUME doing'[g] \in {<<"remove", b>>, <<"free", b>>}
        PROVE  p_state'[b] = "FINAL"
    <3>1. doing'[g] \in Ending(b)
      BY <2>2 DEF Ending
    <3> QED
      BY <2>2, <3>1, <1>5 DEF EndInv
  <2>3. ASSUME doing'[g] = <<"create", b>>
        PROVE  p_state'[b] = "NONE"
    <3>1. doing'[g] \in Ending(b)
      BY <2>3 DEF Ending
    <3> QED
      BY <2>3, <3>1, <1>5 DEF EndInv
  <2> QED
    BY <2>1, <2>2, <2>3
<1> QED
  BY <1>7, <1>8, <1>9 DEF EndInv

LEMMA DropEnds ==
  ASSUME DynType, CountInv, EndInv, StateInv, NEW h \in Holder, NEW a \in Area,
         has[h][a] > 0, doing[h] \in {<<"idle">>, <<"wait", a>>},
         Drop(h, a), UNCHANGED p_state
  PROVE  EndInv'
<1>1. p_state[a] # "NONE" /\ \A g \in Holder : doing[g] \notin Ending(a)
  BY HeldIsAlive
<1>2. p_refs[a] \in Nat /\ p_refs[a] # 0
  BY HeldIsAlive, Counted, MaxRefsNat
<1>3. \A g \in Holder :
        doing'[g] = IF g = h THEN <<"release", a, p_refs[a] - 1>> ELSE doing[g]
  BY GoesTo DEF Drop
<1>4. /\ \A b \in Area : p_refs'[b] = IF b = a THEN p_refs[a] - 1 ELSE p_refs[b]
      /\ \A g \in Holder, b \in Area : g # h => has'[g][b] = has[g][b]
  BY DEF Drop, DynType
<1>5. ASSUME NEW b \in Area, NEW g \in Holder, doing'[g] \in Ending(b)
      PROVE  IF g = h THEN b = a /\ p_refs'[a] = 0 ELSE b # a /\ doing[g] \in Ending(b)
  BY <1>1, <1>3, <1>4, <1>5 DEF Ending
<1>6. ASSUME NEW b \in Area, NEW g \in Holder, doing'[g] = <<"wait", b>>
      PROVE  has'[g][b] > 0
  BY <1>3, <1>4, <1>6 DEF EndInv
<1>7. ASSUME NEW b \in Area, NEW g \in Holder, doing'[g] \in Ending(b),
             NEW f \in Holder, doing'[f] \in Ending(b)
      PROVE  f = g
  BY <1>5, <1>7 DEF EndInv
<1>8. ASSUME NEW b \in Area, NEW g \in Holder, doing'[g] \in Ending(b) \ {<<"create", b>>}
      PROVE  p_refs'[b] = 0 /\ p_state'[b] # "NONE"
  <2>1. CASE g = h
    BY <1>1, <1>5, <1>8, <2>1
  <2>2. CASE g # h
    BY <1>3, <1>4, <1>5, <1>8, <2>2 DEF EndInv
  <2> QED
    BY <2>1, <2>2
<1>9. ASSUME NEW b \in Area, NEW g \in Holder
      PROVE  /\ doing'[g] \in {<<"remove", b>>, <<"free", b>>} => p_state'[b] = "FINAL"
             /\ doing'[g] = <<"create", b>> => p_state'[b] = "NONE"
  BY <1>3 DEF EndInv
<1> QED
  BY <1>6, <1>7, <1>8, <1>9 DEF EndInv

(* Nobody's last reference is counted up again.                            *)
LEMMA TakeEnds ==
  ASSUME DynType, EndInv, NEW h \in Holder, NEW a \in Area,
         p_refs' = [p_refs EXCEPT ![a] = @ + 1], has' = [has EXCEPT ![h][a] = @ + 1],
         \A g \in Holder : doing[g] \notin Ending(a),
         \A g \in Holder, b \in Area : doing'[g] \in Ending(b) => doing'[g] = doing[g],
         \A g \in Holder, b \in Area : doing'[g] = <<"wait", b>> => has[g][b] > 0,
         UNCHANGED p_state
  PROVE  EndInv'
<1>1. /\ \A b \in Area : b # a => p_refs'[b] = p_refs[b]
      /\ \A g \in Holder, b \in Area : has[g][b] > 0 => has'[g][b] > 0
  BY DEF DynType
<1>2. ASSUME NEW b \in Area, NEW g \in Holder, doing'[g] \in Ending(b)
      PROVE  b # a /\ doing[g] \in Ending(b) /\ doing'[g] = doing[g]
  BY <1>2
<1>4. ASSUME NEW b \in Area, NEW g \in Holder, doing'[g] \in Ending(b),
             NEW f \in Holder, doing'[f] \in Ending(b)
      PROVE  f = g
  BY <1>2, <1>4 DEF EndInv
<1>5. ASSUME NEW b \in Area, NEW g \in Holder, doing'[g] \in Ending(b)
      PROVE  p_refs'[b] = p_refs[b] /\ p_state'[b] = p_state[b]
  BY <1>1, <1>2, <1>5
<1>6. ASSUME NEW b \in Area, NEW g \in Holder
      PROVE  /\ doing'[g] \in Ending(b) \ {<<"create", b>>} => p_refs'[b] = 0 /\ p_state'[b] # "NONE"
             /\ doing'[g] \in {<<"remove", b>>, <<"free", b>>} => p_state'[b] = "FINAL"
             /\ doing'[g] = <<"create", b>> => p_state'[b] = "NONE"
  <2>1. ASSUME doing'[g] \in Ending(b), doing'[g] # <<"create", b>>
        PROVE  p_refs'[b] = 0 /\ p_state'[b] # "NONE"
    BY <2>1, <1>2, <1>5 DEF EndInv
  <2>2. ASSUME doing'[g] \in {<<"remove", b>>, <<"free", b>>}
        PROVE  p_state'[b] = "FINAL"
    <3>1. doing'[g] \in Ending(b)
      BY <2>2 DEF Ending
    <3> QED
      BY <2>2, <3>1, <1>2, <1>5 DEF EndInv
  <2>3. ASSUME doing'[g] = <<"create", b>>
        PROVE  p_state'[b] = "NONE"
    <3>1. doing'[g] \in Ending(b)
      BY <2>3 DEF Ending
    <3> QED
      BY <2>3, <3>1, <1>2, <1>5 DEF EndInv
  <2> QED
    BY <2>1, <2>2, <2>3
<1>7. ASSUME NEW b \in Area, NEW g \in Holder, doing'[g] = <<"wait", b>>
      PROVE  has'[g][b] > 0
  BY <1>1, <1>7
<1> QED
  BY <1>4, <1>6, <1>7 DEF EndInv

LEMMA FinishEnds ==
  ASSUME DynType, EndInv, StateInv, NEW h \in Holder,
         LookAtState(h) \/ Remove(h) \/ FreeArea(h)
  PROVE  EndInv'
<1> DEFINE a == doing[h][2]
<1>1. CASE LookAtState(h)
  <2>1. /\ a \in Area /\ doing[h] = <<"release", a, doing[h][3]>>
    BY <1>1, WhereHolder DEF LookAtState, IsAt
  <2>2. PICK p \in {<<"idle">>, <<"remove", a>>, <<"free", a>>} : Goes(h, p)
    BY <1>1 DEF LookAtState
  <2>3. \A g \in Holder : doing'[g] = IF g = h THEN p ELSE doing[g]
    BY <2>2, GoesTo
  <2>4. p # <<"idle">> => p_state[a] = "FINAL" /\ doing[h] = <<"release", a, 0>>
    BY <1>1, <2>1, <2>2, <2>3, PointIn DEF LookAtState, LeftNone, Goes, DynType
  <2>5. UNCHANGED <<p_state, p_refs, has>>
    BY <1>1 DEF LookAtState
  <2> HIDE DEF a
  <2> QED
    BY <2>1, <2>2, <2>3, <2>4, <2>5 DEF EndInv, Ending
<1>2. CASE Remove(h)
  <2>1. a \in Area /\ doing[h] = <<"remove", a>>
    BY <1>2, WhereHolder DEF Remove, IsAt
  <2>2. \A g \in Holder : doing'[g] = IF g = h THEN <<"free", a>> ELSE doing[g]
    BY <1>2, GoesTo DEF Remove
  <2>3. UNCHANGED <<p_state, p_refs, has>>
    BY <1>2 DEF Remove
  <2> HIDE DEF a
  <2> QED
    BY <2>1, <2>2, <2>3 DEF EndInv, Ending
<1>3. CASE FreeArea(h)
  <2>1. a \in Area /\ doing[h] = <<"free", a>>
    BY <1>3, WhereHolder DEF FreeArea, IsAt
  <2>2. \A g \in Holder : doing'[g] = IF g = h THEN <<"idle">> ELSE doing[g]
    BY <1>3, GoesTo DEF FreeArea
  <2>3. /\ UNCHANGED <<p_refs, has>>
        /\ \A b \in Area : p_state'[b] = IF b = a THEN "NONE" ELSE p_state[b]
    BY <1>3 DEF FreeArea, DynType
  <2> HIDE DEF a
  <2>4. \A g \in Holder : doing'[g] \notin Ending(a)
    BY <2>1, <2>2, SMTT(40) DEF EndInv, Ending
  <2> QED
    BY <2>1, <2>2, <2>3, <2>4 DEF EndInv, Ending
<1> QED
  BY <1>1, <1>2, <1>3

(* A new area is one that nobody uses or is giving back.                   *)
LEMMA GetEnds ==
  ASSUME DynType, PoolInv, EndInv, NEW h \in Holder, NEW a \in Area, GetArea(h, a)
  PROVE  EndInv' /\ a \notin Given /\ Idles(h)
<1>1. a \notin Given
  <2>1. CASE a \in PoolArea /\ chPoolAllocI(a)
    <3>1. a = mp_next[1] /\ 1 \in DOMAIN mp_next
      BY <2>1 DEF chPoolAllocI, DynType
    <3> QED
      BY <3>1 DEF PoolInv, InPool
  <2>2. CASE a \in HeapArea \ Given
    BY <2>2
  <2> QED
    BY <2>1, <2>2 DEF GetArea
<1>2. \A g \in Holder : doing'[g] = IF g = h THEN <<"create", a>> ELSE doing[g]
  BY GoesTo DEF GetArea
<1>3. UNCHANGED <<p_state, p_refs, has>>
  BY DEF GetArea
<1>4. p_state[a] = "NONE" /\ \A g \in Holder : doing[g] \notin Ending(a)
  BY <1>1 DEF Given, EndInv, Ending
<1>5. EndInv'
  BY <1>2, <1>3, <1>4 DEF EndInv, Ending
<1> QED
  BY <1>1, <1>5 DEF GetArea

LEMMA EndStep ==
  ASSUME DynType, PoolInv, CountInv, EndInv, StateInv, ListInv, ~RegistryAnyTime,
         [DynCalls]_dynVars
  PROVE  EndInv'
<1> DEFINE G == EndInv'
<1>1. UNCHANGED dynVars => G
  BY DEF dynVars, EndInv, Ending
<1>2. ASSUME NEW h \in Holder,
             Create(h) \/ WaitDone(h) \/ LookAtState(h) \/ Remove(h) \/ FreeArea(h)
      PROVE  G
  <2>1. CASE WaitDone(h)
    <3>1. doing[h] = <<"wait", doing[h][2]>> /\ doing[h][2] \in Area
      BY <2>1, WhereHolder DEF WaitDone, IsAt
    <3>2. has[h][doing[h][2]] > 0
      BY <3>1 DEF EndInv
    <3> QED
      BY <2>1, <3>1, <3>2, DropEnds DEF WaitDone
  <2> QED
    BY <1>2, <2>1, CreateEnds, FinishEnds
<1>3. ASSUME NEW h \in Holder, NEW a \in Area,
             GetArea(h, a) \/ chThdRelease(h, a) \/ ThreadWait(h, a)
      PROVE  G
  <2>1. CASE ThreadWait(h, a)
    <3>1. \A g \in Holder : doing'[g] = IF g = h THEN <<"wait", a>> ELSE doing[g]
      BY <2>1, GoesTo DEF ThreadWait
    <3>2. UNCHANGED <<p_state, p_refs, has>> /\ has[h][a] > 0
      BY <2>1 DEF ThreadWait
    <3> QED
      BY <3>1, <3>2 DEF EndInv, Ending
  <2>2. CASE chThdRelease(h, a)
    BY <2>2, DropEnds DEF chThdRelease, Idles
  <2> QED
    BY <1>3, <2>1, <2>2, GetEnds
<1>4. ASSUME NEW h \in Holder, NEW other \in Holder, NEW a \in Area, chThdAddRef(h, other, a)
      PROVE  G
  <2>1. \A g \in Holder : doing[g] \notin Ending(a)
    BY <1>4, HeldIsAlive DEF chThdAddRef
  <2>2. \A g \in Holder, b \in Area : doing[g] = <<"wait", b>> => has[g][b] > 0
    BY DEF EndInv
  <2> QED
    BY <1>4, <2>1, <2>2, TakeEnds DEF chThdAddRef
<1>5. ASSUME NEW h \in Holder, NEW tp \in Node, chRegNextThread(h, tp)
      PROVE  G
  <2> DEFINE p == IF tp = RLIST THEN <<"idle">> ELSE <<"wait", tp>>
  <2>1. \A g \in Holder : doing'[g] = IF g = h THEN p ELSE doing[g]
    BY <1>5, GoesTo DEF chRegNextThread
  <2>2. \A g \in Holder, b \in Area : doing'[g] \in Ending(b) => doing'[g] = doing[g]
    BY <2>1 DEF Ending
  <2>3. \A g \in Holder, b \in Area : doing'[g] = <<"wait", b>> => has[g][b] > 0
    <3>1. tp # RLIST => has[h][tp] > 0
      BY <1>5 DEF chRegNextThread
    <3> QED
      BY <2>1, <3>1 DEF EndInv
  <2>4. UNCHANGED p_state
    BY <1>5 DEF chRegNextThread
  <2>5. CASE p_newer[tp] = RLIST
    <3>1. UNCHANGED <<p_refs, has>>
      BY <1>5, <2>5 DEF chRegNextThread
    <3> QED
      BY <2>2, <2>3, <2>4, <3>1, ZenonT(40) DEF EndInv, Ending
  <2>6. CASE p_newer[tp] # RLIST
    <3>1. /\ p_newer[tp] \in Area
          /\ \A g \in Holder : doing[g] \notin Ending(p_newer[tp])
      BY <1>5, <2>6, NextIsFree
    <3>2. /\ p_refs' = [p_refs EXCEPT ![p_newer[tp]] = @ + 1]
          /\ has' = [has EXCEPT ![h][p_newer[tp]] = @ + 1]
      BY <1>5, <2>6 DEF chRegNextThread
    <3> QED
      BY <2>2, <2>3, <2>4, <3>1, <3>2, TakeEnds
  <2> QED
    BY <2>5, <2>6
<1>6. ASSUME NEW a \in Area, ThreadExits(a)
      PROVE  G
  <2>1. /\ UNCHANGED <<p_refs, has, doing>> /\ p_state[a] = "ALIVE"
        /\ \A b \in Area : p_state'[b] = IF b = a THEN "FINAL" ELSE p_state[b]
    BY <1>6 DEF ThreadExits, DynType
  <2> QED
    BY <2>1 DEF EndInv, Ending
<1> HIDE DEF G
<1>7. G
  BY <1>1, <1>2, <1>3, <1>4, <1>5, <1>6, DynCases
<1> QED
  BY <1>7 DEF G

(* What the pool has changes as the areas that are given do.               *)
LEMMA PoolSame ==
  ASSUME PoolInv, UNCHANGED mp_next, PoolArea \cap Given' = PoolArea \cap Given
  PROVE  PoolInv'
BY DEF PoolInv, InPool

LEMMA PoolGives ==
  ASSUME DynType, PoolInv, NEW a \in PoolArea, chPoolAllocI(a), Given' = Given \cup {a}
  PROVE  PoolInv'
<1>1. mp_next # <<>> /\ Len(mp_next) \in Nat /\ a = mp_next[1] /\ mp_next' = Tail(mp_next)
  BY DEF chPoolAllocI, DynType
<1>2. Len(mp_next) > 0
  BY <1>1 DEF DynType
<1>3. /\ DOMAIN mp_next = 1..Len(mp_next) /\ DOMAIN mp_next' = 1..Len(mp_next) - 1
      /\ \A i \in 1..Len(mp_next) - 1 : mp_next'[i] = mp_next[i + 1]
  BY <1>1, <1>2 DEF DynType
<1>4. \A i, j \in DOMAIN mp_next' : mp_next'[i] = mp_next'[j] => i = j
  BY <1>1, <1>2, <1>3 DEF PoolInv
<1>5. InPool' = InPool \ {a}
  <2>1. ASSUME NEW i \in DOMAIN mp_next'
        PROVE  mp_next'[i] \in InPool /\ mp_next'[i] # a
    BY <1>1, <1>2, <1>3, <2>1 DEF PoolInv, InPool
  <2>2. ASSUME NEW x \in InPool \ {a}
        PROVE  \E i \in DOMAIN mp_next' : mp_next'[i] = x
    <3>1. PICK i \in DOMAIN mp_next : mp_next[i] = x
      BY <2>2 DEF InPool
    <3>2. i # 1 /\ i \in Nat /\ i - 1 \in DOMAIN mp_next' /\ (i - 1) + 1 = i
      BY <1>1, <1>2, <1>3, <2>2, <3>1
    <3> QED
      BY <1>3, <3>1, <3>2
  <2> QED
    BY <2>1, <2>2 DEF InPool
<1> QED
  BY <1>4, <1>5 DEF PoolInv

LEMMA PoolTakes ==
  ASSUME DynType, PoolInv, NEW a \in PoolArea, a \in Given, chPoolFreeI(a),
         Given' = Given \ {a}
  PROVE  PoolInv'
<1>1. /\ Len(mp_next) \in Nat /\ DOMAIN mp_next = 1..Len(mp_next)
      /\ DOMAIN mp_next' = 1..Len(mp_next) + 1 /\ mp_next'[1] = a
      /\ \A i \in 1..Len(mp_next) : mp_next'[i + 1] = mp_next[i]
  BY DEF chPoolFreeI, DynType
<1>2. a \notin InPool
  BY DEF PoolInv
<1>3. \A i \in DOMAIN mp_next' : i # 1 => i - 1 \in DOMAIN mp_next /\ mp_next'[i] = mp_next[i - 1]
  <2>1. ASSUME NEW i \in DOMAIN mp_next', i # 1
        PROVE  i - 1 \in 1..Len(mp_next) /\ (i - 1) + 1 = i
    BY <1>1, <2>1
  <2> QED
    BY <1>1, <2>1
<1>4. \A i \in DOMAIN mp_next' : i # 1 => mp_next'[i] # a
  BY <1>2, <1>3 DEF InPool
<1>5. \A i, j \in DOMAIN mp_next' : mp_next'[i] = mp_next'[j] => i = j
  BY <1>1, <1>3, <1>4 DEF PoolInv
<1>6. InPool' = InPool \cup {a}
  <2>1. \A i \in DOMAIN mp_next' : mp_next'[i] \in InPool \cup {a}
    BY <1>1, <1>3 DEF InPool
  <2>2. ASSUME NEW x \in InPool \cup {a}
        PROVE  \E i \in DOMAIN mp_next' : mp_next'[i] = x
    <3>1. CASE x = a
      <4>1. 1 \in DOMAIN mp_next'
        BY <1>1
      <4> QED
        BY <1>1, <3>1, <4>1
    <3>2. CASE x # a
      <4>1. PICK i \in DOMAIN mp_next : mp_next[i] = x
        BY <2>2, <3>2 DEF InPool
      <4>2. i + 1 \in DOMAIN mp_next'
        BY <1>1, <4>1
      <4> QED
        BY <1>1, <4>1, <4>2
    <3> QED
      BY <3>1, <3>2
  <2> QED
    BY <2>1, <2>2 DEF InPool
<1> QED
  BY <1>5, <1>6 DEF PoolInv

LEMMA PoolStep ==
  ASSUME DynType, PoolInv, CountInv, EndInv, StateInv, ListInv, ~RegistryAnyTime,
         [DynCalls]_dynVars
  PROVE  PoolInv'
<1> DEFINE G == PoolInv'
<1>1. UNCHANGED dynVars => G
  BY PoolSame DEF dynVars, Given
<1>2. ASSUME NEW h \in Holder,
             Create(h) \/ WaitDone(h) \/ LookAtState(h) \/ Remove(h) \/ FreeArea(h)
      PROVE  G
  <2> DEFINE a == doing[h][2]
  <2>1. CASE Create(h)
    <3>1. a \in Area /\ doing[h] = <<"create", a>>
      BY <2>1, WhereHolder DEF Create, IsAt
    <3>2. \A g \in Holder : doing'[g] = IF g = h THEN <<"idle">> ELSE doing[g]
      BY <2>1, GoesTo DEF Create
    <3>3. \A b \in Area : p_state'[b] = IF b = a THEN "ALIVE" ELSE p_state[b]
      BY <2>1 DEF Create, DynType
    <3>4. UNCHANGED mp_next
      BY <2>1 DEF Create
    <3> HIDE DEF a
    <3>5. Given' = Given
      BY <3>1, <3>2, <3>3 DEF Given
    <3> QED
      BY <3>4, <3>5, PoolSame
  <2>2. CASE WaitDone(h)
    <3>1. doing[h] = <<"wait", a>>
      BY <2>2, WhereHolder DEF WaitDone, IsAt
    <3>2. /\ \A g \in Holder : doing'[g] = IF g = h THEN <<"release", a, p_refs[a] - 1>> ELSE doing[g]
          /\ UNCHANGED <<mp_next, p_state>>
      BY <2>2, GoesTo DEF WaitDone, Drop
    <3> HIDE DEF a
    <3>3. Given' = Given
      BY <3>1, <3>2 DEF Given
    <3> QED
      BY <3>2, <3>3, PoolSame
  <2>3. CASE LookAtState(h)
    <3>1. doing[h] = <<"release", a, doing[h][3]>>
      BY <2>3, WhereHolder DEF LookAtState, IsAt
    <3>2. PICK p \in {<<"idle">>, <<"remove", a>>, <<"free", a>>} : Goes(h, p)
      BY <2>3 DEF LookAtState
    <3>3. \A g \in Holder : doing'[g] = IF g = h THEN p ELSE doing[g]
      BY <3>2, GoesTo
    <3>4. UNCHANGED <<mp_next, p_state>>
      BY <2>3 DEF LookAtState
    <3> HIDE DEF a
    <3>5. Given' = Given
      BY <3>1, <3>3, <3>4 DEF Given
    <3> QED
      BY <3>4, <3>5, PoolSame
  <2>4. CASE Remove(h)
    <3>1. doing[h] = <<"remove", a>>
      BY <2>4, WhereHolder DEF Remove, IsAt
    <3>2. /\ \A g \in Holder : doing'[g] = IF g = h THEN <<"free", a>> ELSE doing[g]
          /\ UNCHANGED <<mp_next, p_state>>
      BY <2>4, GoesTo DEF Remove
    <3> HIDE DEF a
    <3>3. Given' = Given
      BY <3>1, <3>2 DEF Given
    <3> QED
      BY <3>2, <3>3, PoolSame
  <2>5. CASE FreeArea(h)
    <3>1. a \in Area /\ doing[h] = <<"free", a>>
      BY <2>5, WhereHolder DEF FreeArea, IsAt
    <3>2. /\ \A g \in Holder : doing'[g] = IF g = h THEN <<"idle">> ELSE doing[g]
          /\ \A b \in Area : p_state'[b] = IF b = a THEN "NONE" ELSE p_state[b]
          /\ IF a \in PoolArea THEN chPoolFreeI(a) ELSE UNCHANGED mp_next
      BY <2>5, GoesTo DEF FreeArea, DynType
    <3> HIDE DEF a
    <3>3. p_state[a] # "NONE" /\ \A g \in Holder : doing[g] # <<"create", a>>
      BY <3>1 DEF EndInv, Ending
    <3>4. a \in Given /\ Given' = Given \ {a}
      BY <3>1, <3>2, <3>3 DEF Given
    <3> QED
      BY <3>2, <3>4, PoolSame, PoolTakes
  <2> QED
    BY <1>2, <2>1, <2>2, <2>3, <2>4, <2>5
<1>3. ASSUME NEW h \in Holder, NEW a \in Area,
             GetArea(h, a) \/ chThdRelease(h, a) \/ ThreadWait(h, a)
      PROVE  G
  <2>1. CASE GetArea(h, a)
    <3>1. a \notin Given /\ doing[h] = <<"idle">>
      BY <2>1, GetEnds DEF Idles
    <3>2. /\ \A g \in Holder : doing'[g] = IF g = h THEN <<"create", a>> ELSE doing[g]
          /\ UNCHANGED p_state
      BY <2>1, GoesTo DEF GetArea
    <3>3. Given' = Given \cup {a}
      BY <3>1, <3>2 DEF Given
    <3>4. CASE a \in PoolArea /\ chPoolAllocI(a)
      BY <3>3, <3>4, PoolGives
    <3>5. CASE a \in HeapArea \ Given /\ UNCHANGED mp_next
      BY <3>3, <3>5, PoolSame, DynamicAssumption
    <3> QED
      BY <2>1, <3>4, <3>5 DEF GetArea
  <2>2. CASE chThdRelease(h, a)
    <3>1. /\ \A g \in Holder : doing'[g] = IF g = h THEN <<"release", a, p_refs[a] - 1>> ELSE doing[g]
          /\ UNCHANGED <<mp_next, p_state>> /\ doing[h] = <<"idle">>
      BY <2>2, GoesTo DEF chThdRelease, Drop, Idles
    <3>2. Given' = Given
      BY <3>1 DEF Given
    <3> QED
      BY <3>1, <3>2, PoolSame
  <2>3. CASE ThreadWait(h, a)
    <3>1. /\ \A g \in Holder : doing'[g] = IF g = h THEN <<"wait", a>> ELSE doing[g]
          /\ UNCHANGED <<mp_next, p_state>> /\ doing[h] = <<"idle">>
      BY <2>3, GoesTo DEF ThreadWait, Idles
    <3>2. Given' = Given
      BY <3>1 DEF Given
    <3> QED
      BY <3>1, <3>2, PoolSame
  <2> QED
    BY <1>3, <2>1, <2>2, <2>3
<1>4. ASSUME NEW h \in Holder, NEW other \in Holder, NEW a \in Area, chThdAddRef(h, other, a)
      PROVE  G
  BY <1>4, PoolSame DEF chThdAddRef, Given
<1>5. ASSUME NEW h \in Holder, NEW tp \in Node, chRegNextThread(h, tp)
      PROVE  G
  <2>1. /\ \A g \in Holder :
             doing'[g] = IF g = h THEN IF tp = RLIST THEN <<"idle">> ELSE <<"wait", tp>> ELSE doing[g]
        /\ UNCHANGED <<mp_next, p_state>> /\ doing[h] = <<"idle">>
    BY <1>5, GoesTo DEF chRegNextThread, Idles
  <2>2. Given' = Given
    BY <2>1 DEF Given
  <2> QED
    BY <2>1, <2>2, PoolSame
<1>6. ASSUME NEW a \in Area, ThreadExits(a)
      PROVE  G
  <2>1. /\ p_state[a] = "ALIVE" /\ \A b \in Area : p_state'[b] = IF b = a THEN "FINAL" ELSE p_state[b]
        /\ UNCHANGED <<mp_next, doing>>
    BY <1>6 DEF ThreadExits, DynType
  <2>2. Given' = Given
    BY <2>1 DEF Given
  <2> QED
    BY <2>1, <2>2, PoolSame
<1> HIDE DEF G
<1>7. G
  BY <1>1, <1>2, <1>3, <1>4, <1>5, <1>6, DynCases
<1> QED
  BY <1>7 DEF G

(* What REG_INSERT and REG_REMOVE do to a ring.                            *)
Inserted(m, r, a) == [i \in 0..m + 1 |-> IF i = m + 1 THEN a ELSE r[i]]
Removed(m, r, j) == [i \in 0..m - 1 |-> IF i < j THEN r[i] ELSE r[i + 1]]

LEMMA RingInsert ==
  ASSUME NEW m \in Nat, NEW r \in [0..m -> Node],
         NEW newer \in [Node -> Node], NEW older \in [Node -> Node],
         Ring(m, r, newer, older), NEW a \in Area, a \notin {r[i] : i \in 1..m}
  PROVE  /\ Inserted(m, r, a) \in [0..m + 1 -> Node]
         /\ {Inserted(m, r, a)[i] : i \in 1..m + 1} = {r[i] : i \in 1..m} \cup {a}
         /\ Ring(m + 1, Inserted(m, r, a),
                 [newer EXCEPT ![a] = RLIST, ![older[RLIST]] = a],
                 [older EXCEPT ![a] = older[RLIST], ![RLIST] = a])
<1> DEFINE s == Inserted(m, r, a)
           nw == [newer EXCEPT ![a] = RLIST, ![older[RLIST]] = a]
           od == [older EXCEPT ![a] = older[RLIST], ![RLIST] = a]
<1>1. a \in Node /\ RLIST \in Node /\ a # RLIST
  BY DynamicAssumption DEF Node, Area
<1>2. /\ s \in [0..m + 1 -> Node] /\ s[m + 1] = a
      /\ \A i \in 0..m : s[i] = r[i]
  BY <1>1 DEF Inserted
<1>3. \A i \in 0..m : r[i] # a
  <2>1. ASSUME NEW i \in 0..m PROVE r[i] # a
    <3>1. i = 0 \/ i \in 1..m
      OBVIOUS
    <3> QED
      BY <1>1, <3>1 DEF Ring
  <2> QED
    BY <2>1
<1>4. older[RLIST] = r[m] /\ r[m] \in Node /\ m \in 0..m
  BY DEF Ring
<1>5. \A x \in Node : nw[x] = IF x = r[m] THEN a ELSE IF x = a THEN RLIST ELSE newer[x]
  BY <1>1, <1>4
<1>6. \A x \in Node : od[x] = IF x = RLIST THEN a ELSE IF x = a THEN r[m] ELSE older[x]
  BY <1>1, <1>4
<1> HIDE DEF s, nw, od
<1>7. s[0] = RLIST
  BY <1>2 DEF Ring
<1>8. \A i, j \in 0..m + 1 : s[i] = s[j] => i = j
  <2>1. ASSUME NEW i \in 0..m + 1, NEW j \in 0..m + 1, s[i] = s[j] PROVE i = j
    <3>1. (i = m + 1 \/ i \in 0..m) /\ (j = m + 1 \/ j \in 0..m)
      OBVIOUS
    <3> QED
      BY <1>2, <1>3, <2>1, <3>1 DEF Ring
  <2> QED
    BY <2>1
<1>9. ASSUME NEW i \in 0..(m + 1) - 1 PROVE nw[s[i]] = s[i + 1] /\ od[s[i + 1]] = s[i]
  <2>1. CASE i = m
    <3>1. s[i] = r[m] /\ s[i + 1] = a
      BY <1>2, <2>1
    <3> QED
      BY <1>1, <1>4, <1>5, <1>6, <3>1
  <2>2. CASE i # m
    <3>1. i \in 0..m - 1 /\ i \in 0..m /\ i + 1 \in 0..m /\ m \in 0..m /\ i + 1 # 0
      BY <2>2
    <3>2. s[i] = r[i] /\ s[i + 1] = r[i + 1] /\ r[i] \in Node /\ r[i + 1] \in Node
      BY <1>2, <3>1
    <3>3. r[i] # r[m] /\ r[i] # a /\ r[i + 1] # a /\ r[i + 1] # RLIST
      BY <1>3, <2>2, <3>1 DEF Ring
    <3>4. newer[r[i]] = r[i + 1] /\ older[r[i + 1]] = r[i]
      BY <3>1 DEF Ring
    <3> QED
      BY <1>5, <1>6, <3>2, <3>3, <3>4
  <2> QED
    BY <2>1, <2>2
<1>10. nw[s[m + 1]] = RLIST /\ od[RLIST] = s[m + 1]
  BY <1>1, <1>2, <1>3, <1>4, <1>5, <1>6
<1>11. {s[i] : i \in 1..m + 1} = {r[i] : i \in 1..m} \cup {a}
  <2>1. \A i \in 1..m + 1 : i = m + 1 \/ i \in 1..m
    OBVIOUS
  <2>2. \A i \in 1..m : i \in 0..m /\ i \in 1..m + 1
    OBVIOUS
  <2>3. m + 1 \in 1..m + 1
    OBVIOUS
  <2> QED
    BY <1>2, <2>1, <2>2, <2>3
<1>12. Ring(m + 1, s, nw, od)
  BY <1>2, <1>7, <1>8, <1>9, <1>10 DEF Ring
<1> QED
  BY <1>2, <1>11, <1>12 DEF s, nw, od

LEMMA RingRemove ==
  ASSUME NEW m \in Nat, NEW r \in [0..m -> Node],
         NEW newer \in [Node -> Node], NEW older \in [Node -> Node],
         Ring(m, r, newer, older), NEW j \in 1..m
  PROVE  /\ m - 1 \in Nat /\ Removed(m, r, j) \in [0..m - 1 -> Node]
         /\ {Removed(m, r, j)[i] : i \in 1..m - 1} = {r[i] : i \in 1..m} \ {r[j]}
         /\ older[r[j]] # r[j]
         /\ Ring(m - 1, Removed(m, r, j),
                 [newer EXCEPT ![older[r[j]]] = newer[r[j]]],
                 [older EXCEPT ![newer[r[j]]] = older[r[j]]])
<1> DEFINE s == Removed(m, r, j)
           nw == [newer EXCEPT ![older[r[j]]] = newer[r[j]]]
           od == [older EXCEPT ![newer[r[j]]] = older[r[j]]]
           next == IF j = m THEN RLIST ELSE r[j + 1]
<1>1. /\ m - 1 \in Nat /\ j - 1 \in 0..m - 1 /\ j \in 0..m /\ j - 1 \in 0..m /\ 0 \in 0..m
      /\ (j - 1) + 1 = j /\ j # 0 /\ m \in 0..m
      /\ (j # m => j \in 0..m - 1 /\ j + 1 \in 0..m)
  OBVIOUS
<1>2. older[r[j]] = r[j - 1] /\ newer[r[j]] = next /\ next \in Node /\ r[j - 1] \in Node
  BY <1>1 DEF Ring, Node
<1>3. r[j] # r[j - 1] /\ r[j] # RLIST
  BY <1>1 DEF Ring
<1>4. /\ s \in [0..m - 1 -> Node]
      /\ \A i \in 0..m - 1 : s[i] = IF i < j THEN r[i] ELSE r[i + 1]
  <2>1. \A i \in 0..m - 1 : i \in 0..m /\ i + 1 \in 0..m
    OBVIOUS
  <2> QED
    BY <2>1 DEF Removed
<1>5. \A x \in Node : nw[x] = IF x = r[j - 1] THEN next ELSE newer[x]
  BY <1>2
<1>6. \A x \in Node : od[x] = IF x = next THEN r[j - 1] ELSE older[x]
  BY <1>2
<1> HIDE DEF s, nw, od
<1>7. s[0] = RLIST
  BY <1>1, <1>4 DEF Ring
<1>8. \A i, l \in 0..m - 1 : s[i] = s[l] => i = l
  <2>1. ASSUME NEW i \in 0..m - 1, NEW l \in 0..m - 1, s[i] = s[l] PROVE i = l
    <3>1. /\ i \in 0..m /\ i + 1 \in 0..m /\ l \in 0..m /\ l + 1 \in 0..m
          /\ (i < j /\ ~(l < j) => i # l + 1) /\ (l < j /\ ~(i < j) => l # i + 1)
          /\ (i + 1 = l + 1 => i = l)
      OBVIOUS
    <3> QED
      BY <1>4, <2>1, <3>1 DEF Ring
  <2> QED
    BY <2>1
<1>9. ASSUME NEW i \in 0..(m - 1) - 1 PROVE nw[s[i]] = s[i + 1] /\ od[s[i + 1]] = s[i]
  <2>1. i \in 0..m - 1 /\ i + 1 \in 0..m - 1 /\ i \in 0..m /\ i + 1 \in 0..m /\ (i + 1) + 1 \in 0..m
    OBVIOUS
  <2>2. CASE i + 1 < j
    <3>1. s[i] = r[i] /\ s[i + 1] = r[i + 1]
      BY <1>4, <2>1, <2>2
    <3>2. r[i] # r[j - 1] /\ r[i + 1] # next
      <4>1. i # j - 1 /\ i + 1 # j + 1 /\ i + 1 # 0
        BY <2>2
      <4> QED
        BY <1>1, <2>1, <4>1 DEF Ring
    <3> QED
      BY <1>5, <1>6, <2>1, <3>1, <3>2 DEF Ring
  <2>3. CASE i + 1 = j
    <3>1. s[i] = r[j - 1] /\ s[i + 1] = r[j + 1] /\ j # m /\ i = j - 1
      BY <1>4, <2>1, <2>3
    <3> QED
      BY <1>2, <1>5, <1>6, <3>1
  <2>4. CASE i + 1 > j
    <3>1. s[i] = r[i + 1] /\ s[i + 1] = r[(i + 1) + 1]
      BY <1>4, <2>1, <2>4
    <3>2. r[i + 1] # r[j - 1] /\ r[(i + 1) + 1] # next
      <4>1. i + 1 # j - 1 /\ (i + 1) + 1 # j + 1 /\ (i + 1) + 1 # 0
        BY <2>4
      <4> QED
        BY <1>1, <2>1, <4>1 DEF Ring
    <3> QED
      BY <1>5, <1>6, <2>1, <3>1, <3>2 DEF Ring
  <2> QED
    BY <2>2, <2>3, <2>4
<1>10. nw[s[m - 1]] = RLIST /\ od[RLIST] = s[m - 1]
  <2>1. m - 1 \in 0..m - 1 /\ (m - 1) + 1 = m
    BY <1>1
  <2>2. CASE j = m
    <3>1. s[m - 1] = r[j - 1]
      BY <1>1, <1>4, <2>1, <2>2
    <3> QED
      BY <1>2, <1>5, <1>6, <2>2, <3>1
  <2>3. CASE j # m
    <3>1. s[m - 1] = r[m]
      BY <1>4, <2>1, <2>3
    <3>2. r[m] # r[j - 1] /\ RLIST # next
      <4>1. m # j - 1 /\ j + 1 # 0
        OBVIOUS
      <4> QED
        BY <1>1, <2>3, <4>1 DEF Ring
    <3>3. RLIST \in Node /\ r[m] \in Node
      BY <1>1 DEF Node
    <3> QED
      BY <1>5, <1>6, <3>1, <3>2, <3>3 DEF Ring
  <2> QED
    BY <2>2, <2>3
<1>11. {s[i] : i \in 1..m - 1} = {r[i] : i \in 1..m} \ {r[j]}
  <2>1. ASSUME NEW i \in 1..m - 1 PROVE s[i] \in {r[l] : l \in 1..m} \ {r[j]}
    <3>1. i \in 0..m - 1 /\ i \in 1..m /\ i + 1 \in 1..m /\ i \in 0..m /\ i + 1 \in 0..m
      OBVIOUS
    <3>2. CASE i < j
      BY <1>1, <1>4, <3>1, <3>2 DEF Ring
    <3>3. CASE ~(i < j)
      <4>1. i + 1 # j
        BY <3>3
      <4> QED
        BY <1>1, <1>4, <3>1, <3>3, <4>1 DEF Ring
    <3> QED
      BY <3>2, <3>3
  <2>2. ASSUME NEW l \in 1..m, l # j PROVE \E i \in 1..m - 1 : s[i] = r[l]
    <3>1. CASE l < j
      <4>1. l \in 1..m - 1 /\ l \in 0..m - 1
        BY <3>1
      <4> QED
        BY <1>4, <3>1, <4>1
    <3>2. CASE l > j
      <4>1. l - 1 \in 1..m - 1 /\ l - 1 \in 0..m - 1 /\ ~(l - 1 < j) /\ (l - 1) + 1 = l
        BY <3>2
      <4> QED
        BY <1>4, <4>1
    <3> QED
      BY <2>2, <3>1, <3>2
  <2> QED
    BY <2>1, <2>2
<1> HIDE DEF next
<1>12. Ring(m - 1, s, nw, od)
  BY <1>1, <1>4, <1>7, <1>8, <1>9, <1>10 DEF Ring
<1> QED
  BY <1>1, <1>2, <1>3, <1>4, <1>11, <1>12 DEF s, nw, od

(* The list stays as it is while nobody comes to it or leaves it.          *)
LEMMA ListSame ==
  ASSUME ListInv, UNCHANGED registry, useRegistry => Listed' = Listed,
         \A g \in Holder : IsAt(g, "remove") \/ IsAt(g, "remove")' => doing'[g] = doing[g]
  PROVE  ListInv'
<1>1. \A g \in Holder : /\ IsAt(g, "remove")' <=> IsAt(g, "remove")
                        /\ IsAt(g, "remove") => doing'[g] = doing[g]
  BY DEF IsAt
<1>2. UNCHANGED <<useRegistry, p_newer, p_older>>
  BY DEF registry
<1>3. ASSUME useRegistry, NEW m, NEW r, NEW older, RingOf(m, r, older)
      PROVE  RingOf(m, r, older)'
  <2>1. Older(older)'
    BY <1>1, <1>2, <1>3 DEF RingOf, Older
  <2> QED
    BY <1>2, <1>3, <2>1 DEF RingOf, Ring
<1>4. useRegistry => \E m \in Nat : \E r \in [0..m -> Node], older \in [Node -> Node] :
                        RingOf(m, r, older)'
  BY <1>3 DEF ListInv
<1> QED
  BY <1>1, <1>2, <1>4 DEF ListInv

LEMMA ListMoves ==
  ASSUME ListInv, UNCHANGED registry, NEW h \in Holder, NEW p,
         \A g \in Holder : doing'[g] = IF g = h THEN p ELSE doing[g],
         doing[h][1] # "remove", p[1] # "remove",
         useRegistry => Listed' = Listed
  PROVE  ListInv'
<1>1. \A g \in Holder : IsAt(g, "remove") \/ IsAt(g, "remove")' => doing'[g] = doing[g]
  BY DEF IsAt
<1> QED
  BY <1>1, ListSame

(* A ring that was found is enough.                                        *)
LEMMA ListFound ==
  ASSUME NEW m \in Nat, NEW r \in [0..m -> Node], NEW older \in [Node -> Node],
         RingOf(m, r, older)', useRegistry',
         \A f, g \in Holder : IsAt(f, "remove")' /\ IsAt(g, "remove")' => f = g
  PROVE  ListInv'
BY DEF ListInv

(* A new thread is put at the end of the list.                             *)
LEMMA CreateLists ==
  ASSUME DynType, EndInv, ListInv, ~RegistryAnyTime, NEW h \in Holder, Create(h)
  PROVE  ListInv'
<1> DEFINE a == doing[h][2]
<1>1. a \in Area /\ doing[h] = <<"create", a>>
  BY WhereHolder DEF Create, IsAt
<1>2. \A g \in Holder : doing'[g] = IF g = h THEN <<"idle">> ELSE doing[g]
  BY GoesTo DEF Create
<1>3. /\ \A b \in Area : p_state'[b] = IF b = a THEN "ALIVE" ELSE p_state[b]
      /\ UNCHANGED useRegistry
  BY DEF Create, DynType
<1>4. IF useRegistry THEN REG_INSERT(a) ELSE UNCHANGED <<p_newer, p_older>>
  BY DEF Create
<1>5. \A g \in Holder \ {h} : ~IsAt(g, "remove")
  BY DEF Create, Alone
<1> HIDE DEF a
<1>6. a \notin Listed /\ Listed' = Listed \cup {a}
  <2>1. p_state[a] = "NONE" /\ \A g \in Holder : g # h => doing[g] \notin Ending(a)
    BY <1>1 DEF EndInv, Ending
  <2> QED
    BY <1>1, <1>2, <1>3, <2>1 DEF Listed, Ending
<1>7. \A g \in Holder : ~IsAt(g, "remove") /\ ~IsAt(g, "remove")'
  BY <1>1, <1>2, <1>5 DEF IsAt
<1>8. CASE ~useRegistry
  BY <1>3, <1>7, <1>8 DEF ListInv
<1>9. CASE useRegistry
  <2>1. PICK m \in Nat : \E r \in [0..m -> Node], older \in [Node -> Node] : RingOf(m, r, older)
    BY <1>9 DEF ListInv
  <2>2. PICK r \in [0..m -> Node], older \in [Node -> Node] : RingOf(m, r, older)
    BY <2>1
  <2>3. older = p_older /\ Ring(m, r, p_newer, p_older) /\ {r[i] : i \in 1..m} = Listed
    BY <1>7, <2>2 DEF RingOf, Older
  <2>4. p_newer \in [Node -> Node] /\ p_older \in [Node -> Node]
    BY DEF DynType
  <2>5. PICK s \in [0..m + 1 -> Node] :
          /\ {s[i] : i \in 1..m + 1} = Listed \cup {a}
          /\ Ring(m + 1, s, [p_newer EXCEPT ![a] = RLIST, ![p_older[RLIST]] = a],
                  [p_older EXCEPT ![a] = p_older[RLIST], ![RLIST] = a])
    <3>1. a \notin {r[i] : i \in 1..m} /\ Ring(m, r, p_newer, p_older)
      BY <1>6, <2>3
    <3> DEFINE in == Inserted(m, r, a)
    <3>2. /\ in \in [0..m + 1 -> Node] /\ {in[i] : i \in 1..m + 1} = {r[i] : i \in 1..m} \cup {a}
          /\ Ring(m + 1, in, [p_newer EXCEPT ![a] = RLIST, ![p_older[RLIST]] = a],
                  [p_older EXCEPT ![a] = p_older[RLIST], ![RLIST] = a])
      BY <1>1, <2>4, <3>1, RingInsert, ZenonT(40)
    <3> HIDE DEF in
    <3>3. {in[i] : i \in 1..m + 1} = Listed \cup {a}
      BY <2>3, <3>2
    <3> QED
      BY <3>2, <3>3
  <2>6. Ring(m + 1, s, p_newer', p_older')
    BY <1>4, <1>9, <2>5 DEF REG_INSERT
  <2>7. p_older' \in [Node -> Node]
    BY <1>1, <1>4, <1>9, <2>4, DynamicAssumption DEF REG_INSERT, Node
  <2>8. PICK od \in [Node -> Node] : od = p_older'
    BY <2>7
  <2>9. RingOf(m + 1, s, od)'
    <3>1. Older(od)'
      BY <1>7, <2>8 DEF Older
    <3>2. Ring(m + 1, s, p_newer', od)
      BY <2>6, <2>8
    <3>3. {s[i] : i \in 1..m + 1} = Listed'
      BY <1>6, <2>5
    <3> QED
      BY <3>1, <3>2, <3>3 DEF RingOf, Ring
  <2>10. m + 1 \in Nat
    OBVIOUS
  <2>11. useRegistry' /\ \A f, g \in Holder : IsAt(f, "remove")' /\ IsAt(g, "remove")' => f = g
    BY <1>3, <1>7, <1>9
  <2> QED
    BY <2>5, <2>8, <2>9, <2>10, <2>11, ListFound
<1> QED
  BY <1>8, <1>9

(* A thread is taken out of the list in two stores, and nobody else looks  *)
(* at the list between them.                                               *)
LEMMA LookLists ==
  ASSUME DynType, EndInv, ListInv, ~RegistryAnyTime, NEW h \in Holder, LookAtState(h)
  PROVE  ListInv'
<1> DEFINE a == doing[h][2]
<1>1. a \in Area /\ doing[h] = <<"release", a, doing[h][3]>>
  BY WhereHolder DEF LookAtState, IsAt
<1>2. doing[h][1] = "release" /\ UNCHANGED <<p_state, useRegistry, p_older>>
  BY DEF LookAtState, IsAt
<1>3. CASE Goes(h, <<"idle">>) /\ UNCHANGED p_newer
  <2>1. \A g \in Holder : doing'[g] = IF g = h THEN <<"idle">> ELSE doing[g]
    BY <1>3, GoesTo
  <2> HIDE DEF a
  <2>2. Listed' = Listed
    BY <1>1, <1>2, <2>1 DEF Listed
  <2>3. <<"idle">>[1] # "remove"
    OBVIOUS
  <2> QED
    BY <1>2, <1>3, <2>1, <2>2, <2>3, ListMoves DEF registry
<1>4. CASE ~useRegistry /\ Goes(h, <<"free", a>>) /\ UNCHANGED p_newer
  <2>1. \A g \in Holder : doing'[g] = IF g = h THEN <<"free", a>> ELSE doing[g]
    BY <1>4, GoesTo
  <2>2. <<"free", a>>[1] # "remove"
    OBVIOUS
  <2> HIDE DEF a
  <2> QED
    BY <1>2, <1>4, <2>1, <2>2, ListMoves DEF registry
<1>5. CASE /\ LeftNone(h, a) /\ p_state[a] = "FINAL"
           /\ useRegistry /\ Alone(h) /\ Goes(h, <<"remove", a>>)
           /\ p_newer' = [p_newer EXCEPT ![p_older[a]] = p_newer[a]]
  <2>1. \A g \in Holder : doing'[g] = IF g = h THEN <<"remove", a>> ELSE doing[g]
    BY <1>5, GoesTo
  <2>2. doing[h] = <<"release", a, 0>>
    BY <1>1, <1>5 DEF LeftNone
  <2>3. \A g \in Holder : ~IsAt(g, "remove")
    BY <1>2, <1>5 DEF Alone, IsAt
  <2>4. p_newer' = [p_newer EXCEPT ![p_older[a]] = p_newer[a]] /\ p_state[a] = "FINAL"
    BY <1>5
  <2> HIDE DEF a
  <2>5. a \in Listed /\ Listed' = Listed \ {a}
    <3>1. \A g \in Holder : doing[g] \notin {<<"remove", a>>, <<"free", a>>}
      <4>1. ASSUME NEW g \in Holder, doing[g] \in {<<"remove", a>>, <<"free", a>>} PROVE FALSE
        <5>1. doing[g] \in Ending(a) /\ doing[h] \in Ending(a)
          BY <2>2, <4>1 DEF Ending
        <5>2. g = h
          BY <1>1, <5>1 DEF EndInv
        <5> QED
          BY <2>2, <4>1, <5>2
      <4> QED
        BY <4>1
    <3> QED
      BY <1>1, <1>2, <2>1, <2>2, <2>4, <3>1 DEF Listed
  <2>6. PICK m \in Nat : \E r \in [0..m -> Node], older \in [Node -> Node] : RingOf(m, r, older)
    BY <1>5 DEF ListInv
  <2>7. PICK r \in [0..m -> Node], older \in [Node -> Node] : RingOf(m, r, older)
    BY <2>6
  <2>8. older = p_older /\ Ring(m, r, p_newer, p_older) /\ {r[i] : i \in 1..m} = Listed
    BY <2>3, <2>7 DEF RingOf, Older
  <2>9. PICK j \in 1..m : r[j] = a
    BY <2>5, <2>8
  <2>10. p_newer \in [Node -> Node] /\ p_older \in [Node -> Node]
    BY DEF DynType
  <2>11. /\ m - 1 \in Nat /\ Removed(m, r, j) \in [0..m - 1 -> Node]
         /\ {Removed(m, r, j)[i] : i \in 1..m - 1} = {r[i] : i \in 1..m} \ {r[j]}
         /\ p_older[r[j]] # r[j]
         /\ Ring(m - 1, Removed(m, r, j),
                 [p_newer EXCEPT ![p_older[r[j]]] = p_newer[r[j]]],
                 [p_older EXCEPT ![p_newer[r[j]]] = p_older[r[j]]])
    <3>1. Ring(m, r, p_newer, p_older)
      BY <2>8
    <3> QED
      BY <2>10, <3>1, RingRemove
  <2>12. PICK s \in [0..m - 1 -> Node] :
          /\ {s[i] : i \in 1..m - 1} = Listed \ {a} /\ p_older[a] # a
          /\ Ring(m - 1, s, p_newer', [p_older EXCEPT ![p_newer[a]] = p_older[a]])
    BY <2>4, <2>8, <2>9, <2>11
  <2>13. a \in Node /\ p_older[a] \in Node /\ p_newer[a] \in Node /\ p_newer'[a] = p_newer[a]
    BY <1>1, <2>4, <2>10, <2>12 DEF Node
  <2>14. PICK od \in [Node -> Node] : od = [p_older EXCEPT ![p_newer[a]] = p_older[a]]
    BY <2>10, <2>13
  <2>15. \A g \in Holder : IsAt(g, "remove")' <=> g = h
    BY <2>1, <2>3 DEF IsAt
  <2>16. Older(od)'
    <3>1. doing'[h][2] = a
      BY <2>1
    <3> QED
      BY <1>2, <2>13, <2>14, <2>15, <3>1 DEF Older
  <2>17. RingOf(m - 1, s, od)'
    BY <2>5, <2>12, <2>14, <2>16 DEF RingOf, Ring
  <2>18. m - 1 \in Nat
    BY <2>11
  <2>19. useRegistry' /\ \A f, g \in Holder : IsAt(f, "remove")' /\ IsAt(g, "remove")' => f = g
    BY <1>2, <1>5, <2>15
  <2> QED
    BY <2>17, <2>18, <2>19, ListFound, Zenon
<1> QED
  BY <1>3, <1>4, <1>5 DEF LookAtState

LEMMA RemoveLists ==
  ASSUME DynType, ListInv, NEW h \in Holder, Remove(h)
  PROVE  ListInv'
<1> DEFINE a == doing[h][2]
<1>1. doing[h] = <<"remove", a>> /\ IsAt(h, "remove")
  BY WhereHolder DEF Remove, IsAt
<1>2. \A g \in Holder : doing'[g] = IF g = h THEN <<"free", a>> ELSE doing[g]
  BY GoesTo DEF Remove
<1>3. UNCHANGED <<p_state, p_newer, useRegistry>> /\ useRegistry
  BY <1>1 DEF Remove, ListInv
<1>4. p_older' = [p_older EXCEPT ![p_newer[a]] = p_older[a]]
  BY DEF Remove
<1>5. \A g \in Holder : ~IsAt(g, "remove")'
  BY <1>1, <1>2 DEF ListInv, IsAt
<1>6. PICK m \in Nat : \E r \in [0..m -> Node], older \in [Node -> Node] : RingOf(m, r, older)
  BY <1>3 DEF ListInv
<1>7. PICK r \in [0..m -> Node], older \in [Node -> Node] : RingOf(m, r, older)
  BY <1>6
<1>8. older = p_older'
  BY <1>1, <1>4, <1>7 DEF RingOf, Older
<1> HIDE DEF a
<1>9. Listed' = Listed
  BY <1>1, <1>2, <1>3 DEF Listed
<1>10. RingOf(m, r, older)'
  <2>1. Older(older)'
    BY <1>5, <1>8 DEF Older
  <2> QED
    BY <1>3, <1>7, <1>9, <2>1 DEF RingOf, Ring
<1> QED
  BY <1>3, <1>5, <1>10, ListFound

LEMMA FreeLists ==
  ASSUME DynType, ListInv, NEW h \in Holder, FreeArea(h)
  PROVE  ListInv'
<1> DEFINE a == doing[h][2]
<1>1. a \in Area /\ doing[h] = <<"free", a>>
  BY WhereHolder DEF FreeArea, IsAt
<1>2. \A g \in Holder : doing'[g] = IF g = h THEN <<"idle">> ELSE doing[g]
  BY GoesTo DEF FreeArea
<1>3. /\ \A b \in Area : p_state'[b] = IF b = a THEN "NONE" ELSE p_state[b]
      /\ UNCHANGED registry
  BY DEF FreeArea, DynType
<1> HIDE DEF a
<1>4. Listed' = Listed
  BY <1>1, <1>2, <1>3 DEF Listed
<1>5. doing[h][1] # "remove" /\ <<"idle">>[1] # "remove"
  BY <1>1
<1> QED
  BY <1>2, <1>3, <1>4, <1>5, ListMoves

LEMMA ListStep ==
  ASSUME DynType, PoolInv, CountInv, EndInv, StateInv, ListInv, ~RegistryAnyTime,
         [DynCalls]_dynVars
  PROVE  ListInv'
<1> DEFINE G == ListInv'
<1>1. UNCHANGED dynVars => G
  <2>1. ASSUME UNCHANGED dynVars PROVE G
    <3>1. UNCHANGED <<registry, doing, p_state>>
      BY <2>1 DEF dynVars
    <3>2. Listed' = Listed
      BY <3>1 DEF Listed
    <3> QED
      BY <3>1, <3>2, ListSame
  <2> QED
    BY <2>1
<1>2. ASSUME NEW h \in Holder,
             Create(h) \/ WaitDone(h) \/ LookAtState(h) \/ Remove(h) \/ FreeArea(h)
      PROVE  G
  <2>1. CASE WaitDone(h)
    <3> DEFINE a == doing[h][2]
               n == p_refs[a] - 1
    <3>1. doing[h] = <<"wait", a>>
      BY <2>1, WhereHolder DEF WaitDone, IsAt
    <3>2. /\ \A g \in Holder : doing'[g] = IF g = h THEN <<"release", a, n>> ELSE doing[g]
          /\ UNCHANGED <<registry, p_state>>
      BY <2>1, GoesTo DEF WaitDone, Drop
    <3> HIDE DEF a, n
    <3>3. Listed' = Listed
      BY <3>1, <3>2 DEF Listed
    <3>4. doing[h][1] # "remove" /\ <<"release", a, n>>[1] # "remove"
      BY <3>1
    <3> QED
      BY <3>2, <3>3, <3>4, ListMoves
  <2> QED
    BY <1>2, <2>1, CreateLists, LookLists, RemoveLists, FreeLists
<1>3. ASSUME NEW h \in Holder, NEW a \in Area,
             GetArea(h, a) \/ chThdRelease(h, a) \/ ThreadWait(h, a)
      PROVE  G
  <2>1. /\ doing[h] = <<"idle">> /\ UNCHANGED <<p_state, registry>>
    BY <1>3 DEF GetArea, chThdRelease, ThreadWait, Idles
  <2>2. PICK p \in {<<"create", a>>, <<"release", a, p_refs[a] - 1>>, <<"wait", a>>} : Goes(h, p)
    BY <1>3 DEF GetArea, chThdRelease, Drop, ThreadWait
  <2>3. \A g \in Holder : doing'[g] = IF g = h THEN p ELSE doing[g]
    BY <2>2, GoesTo
  <2>4. Listed' = Listed
    BY <2>1, <2>2, <2>3 DEF Listed
  <2>5. doing[h][1] # "remove" /\ p[1] # "remove"
    BY <2>1, <2>2
  <2> QED
    BY <2>1, <2>3, <2>4, <2>5, ListMoves
<1>4. ASSUME NEW h \in Holder, NEW other \in Holder, NEW a \in Area, chThdAddRef(h, other, a)
      PROVE  G
  <2>1. UNCHANGED <<registry, doing, p_state>>
    BY <1>4 DEF chThdAddRef
  <2>2. Listed' = Listed
    BY <2>1 DEF Listed
  <2> QED
    BY <2>1, <2>2, ListSame
<1>5. ASSUME NEW h \in Holder, NEW tp \in Node, chRegNextThread(h, tp)
      PROVE  G
  <2>1. doing[h] = <<"idle">> /\ UNCHANGED <<p_state, registry>>
    BY <1>5 DEF chRegNextThread, Idles
  <2>2. PICK p \in {<<"idle">>, <<"wait", tp>>} : Goes(h, p)
    BY <1>5 DEF chRegNextThread
  <2>3. \A g \in Holder : doing'[g] = IF g = h THEN p ELSE doing[g]
    BY <2>2, GoesTo
  <2>4. Listed' = Listed
    BY <2>1, <2>2, <2>3 DEF Listed
  <2>5. doing[h][1] # "remove" /\ p[1] # "remove"
    BY <2>1, <2>2
  <2> QED
    BY <2>1, <2>3, <2>4, <2>5, ListMoves
<1>6. ASSUME NEW a \in Area, ThreadExits(a)
      PROVE  G
  <2>1. /\ p_state[a] = "ALIVE" /\ \A b \in Area : p_state'[b] = IF b = a THEN "FINAL" ELSE p_state[b]
        /\ UNCHANGED <<registry, doing>>
    BY <1>6 DEF ThreadExits, DynType
  <2>2. Listed' = Listed
    BY <2>1 DEF Listed
  <2> QED
    BY <2>1, <2>2, ListSame
<1> HIDE DEF G
<1>7. G
  BY <1>1, <1>2, <1>3, <1>4, <1>5, <1>6, DynCases
<1> QED
  BY <1>7 DEF G

(* A set of numbers has a least one; induction over the numbers follows.   *)
LEMMA NatMin ==
  ASSUME NEW T \in SUBSET Nat, T # {}
  PROVE  \E x \in T : \A y \in T : x <= y
<1> DEFINE R == {ss \in Nat \X Nat : ss[1] < ss[2]}
<1>1. IsWellFoundedOn(R, Nat)
  BY NatLessThanWellFounded DEF OpToRel
<1> HIDE DEF R
<1>2. PICK x \in T : \A y \in T : ~(<<y, x>> \in R)
  BY <1>1, WFMin
<1>3. ASSUME NEW y \in T PROVE x <= y
  <2>1. <<y, x>> \notin R
    BY <1>2
  <2>2. x \in Nat /\ y \in Nat
    OBVIOUS
  <2>3. ~(y < x)
    BY <2>1, <2>2 DEF R
  <2> QED
    BY <2>2, <2>3
<1> QED
  BY <1>3

LEMMA SetInduction ==
  ASSUME NEW T \in SUBSET Nat, 0 \in T, \A n \in T : n + 1 \in T
  PROVE  T = Nat
<1> SUFFICES ASSUME Nat \ T # {} PROVE FALSE
  OBVIOUS
<1>1. PICK x \in Nat \ T : \A y \in Nat \ T : x <= y
  BY NatMin
<1>2. x # 0 /\ x - 1 \in Nat
  BY <1>1
<1>3. x - 1 \in T
  BY <1>1, <1>2
<1> QED
  BY <1>1, <1>3, x - 1 + 1 = x

(* A walk along a ring meets its threads in their order.                   *)
Walks(w, n, newer) == w = [i \in 0..n + 1 |-> IF i = 0 THEN RLIST ELSE newer[w[i - 1]]]

LEMMA WalkIsRing ==
  ASSUME NEW m \in Nat, NEW r \in [0..m -> Node],
         NEW newer \in [Node -> Node], NEW older \in [Node -> Node],
         Ring(m, r, newer, older), NEW walk, Walks(walk, m, newer)
  PROVE  (\A i \in 0..m : walk[i] = r[i]) /\ walk[m + 1] = RLIST
<1> DEFINE T == {i \in Nat : i <= m => walk[i] = r[i]}
<1>1. \A i \in 0..m + 1 : walk[i] = IF i = 0 THEN RLIST ELSE newer[walk[i - 1]]
  BY Zenon DEF Walks
<1>2. 0 \in T
  <2>1. 0 \in 0..m + 1
    OBVIOUS
  <2> QED
    BY <1>1, <2>1 DEF Ring
<1>3. ASSUME NEW i \in T PROVE i + 1 \in T
  <2>1. CASE i + 1 <= m
    <3>1. /\ i \in 0..m - 1 /\ i + 1 \in 0..m + 1 /\ i + 1 # 0 /\ (i + 1) - 1 = i
          /\ i <= m
      BY <2>1
    <3>2. walk[i + 1] = newer[walk[i]]
      BY <1>1, <3>1
    <3>3. walk[i] = r[i] /\ newer[r[i]] = r[i + 1]
      BY <3>1 DEF Ring
    <3> QED
      BY <3>2, <3>3
  <2> QED
    BY <2>1
<1>4. T \in SUBSET Nat
  OBVIOUS
<1> HIDE DEF T
<1>5. T = Nat
  BY <1>2, <1>3, <1>4, SetInduction
<1>6. \A i \in 0..m : walk[i] = r[i]
  <2>1. \A i \in 0..m : i \in T /\ i <= m
    BY <1>5
  <2> QED
    BY <2>1 DEF T
<1>7. m + 1 \in 0..m + 1 /\ m + 1 # 0 /\ (m + 1) - 1 = m /\ m \in 0..m
  OBVIOUS
<1>8. walk[m + 1] = newer[walk[m]]
  BY <1>1, <1>7
<1> QED
  BY <1>6, <1>7, <1>8 DEF Ring

(* There is such a walk.                                                   *)
LEMMA WalkExists ==
  ASSUME NEW m \in Nat, NEW r \in [0..m -> Node],
         NEW newer \in [Node -> Node], NEW older \in [Node -> Node],
         Ring(m, r, newer, older)
  PROVE  \E walk : Walks(walk, m, newer)
<1> DEFINE w == [i \in 0..m + 1 |-> IF i = m + 1 THEN RLIST ELSE r[i]]
<1>1. ASSUME NEW i \in 0..m + 1
      PROVE  w[i] = IF i = 0 THEN RLIST ELSE newer[w[i - 1]]
  <2>1. CASE i = 0
    <3>1. 0 \in 0..m + 1 /\ 0 # m + 1
      OBVIOUS
    <3> QED
      BY <2>1, <3>1 DEF Ring
  <2>2. CASE i = m + 1
    <3>1. m \in 0..m + 1 /\ m # m + 1 /\ i - 1 = m /\ i # 0
      BY <2>2
    <3> QED
      BY <2>2, <3>1 DEF Ring
  <2>3. CASE i # 0 /\ i # m + 1
    <3>1. i - 1 \in 0..m - 1 /\ i - 1 \in 0..m + 1 /\ i - 1 # m + 1 /\ (i - 1) + 1 = i
      BY <2>3
    <3>2. w[i] = r[i] /\ w[i - 1] = r[i - 1]
      BY <2>3, <3>1
    <3>3. newer[r[i - 1]] = r[i]
      BY <3>1 DEF Ring
    <3> QED
      BY <2>3, <3>2, <3>3
  <2> QED
    BY <2>1, <2>2, <2>3
<1>2. w = [i \in 0..m + 1 |-> w[i]]
  OBVIOUS
<1> HIDE DEF w
<1>3. Walks(w, m, newer)
  BY <1>1, <1>2 DEF Walks
<1> QED
  BY <1>3

(* The numbers of a ring's threads are as many as its threads.             *)
LEMMA RingCount ==
  ASSUME NEW m \in Nat, NEW r \in [0..m -> Node],
         \A i, j \in 0..m : r[i] = r[j] => i = j
  PROVE  Cardinality({r[i] : i \in 1..m}) = m
<1> DEFINE S == {r[i] : i \in 1..m}
           f == [i \in 1..m |-> r[i]]
<1>1. \A i \in 1..m : i \in 0..m
  OBVIOUS
<1>2. f \in [1..m -> S] /\ (\A i, j \in 1..m : f[i] = f[j] => i = j)
      /\ \A x \in S : \E i \in 1..m : f[i] = x
  BY <1>1
<1> HIDE DEF f, S
<1>3. f \in Bijection(1..m, S)
  BY <1>2 DEF Bijection, Injection, Surjection, IsInjective
<1>4. ExistsBijection(1..m, S)
  BY <1>3 DEF ExistsBijection
<1>5. IsFiniteSet(1..m) /\ Cardinality(1..m) = m
  BY FS_Interval
<1> QED
  BY <1>4, <1>5, FS_Bijection DEF S

LEMMA RegistryWhole ==
  ASSUME DynType, ListInv
  PROVE  RegistryIsWhole
<1> SUFFICES ASSUME useRegistry, \A h \in Holder : ~IsAt(h, "remove")
             PROVE  LET n == Cardinality(InRegistry)
                        walk[i \in 0..n + 1] == IF i = 0 THEN RLIST ELSE p_newer[walk[i - 1]]
                    IN /\ {walk[i] : i \in 1..n} = InRegistry /\ walk[n + 1] = RLIST
                       /\ \A i \in 0..n : p_older[walk[i + 1]] = walk[i]
  BY DEF RegistryIsWhole
<1> DEFINE n == Cardinality(InRegistry)
           walk == CHOOSE w : Walks(w, n, p_newer)
<1>1. PICK m \in Nat : \E r \in [0..m -> Node], older \in [Node -> Node] : RingOf(m, r, older)
  BY DEF ListInv
<1>2. PICK r \in [0..m -> Node], older \in [Node -> Node] : RingOf(m, r, older)
  BY <1>1
<1>3. Ring(m, r, p_newer, p_older) /\ {r[i] : i \in 1..m} = Listed
  BY <1>2 DEF RingOf, Older
<1>4. Listed = InRegistry
  <2>1. \A h \in Holder, a \in Area : doing[h] # <<"remove", a>>
    BY DEF IsAt
  <2> QED
    BY <2>1 DEF Listed, InRegistry
<1>5. n = m
  BY <1>3, <1>4, RingCount DEF Ring
<1>6. p_newer \in [Node -> Node] /\ p_older \in [Node -> Node]
  BY DEF DynType
<1> HIDE DEF n
<1>7. \E w : Walks(w, n, p_newer)
  BY <1>3, <1>5, <1>6, WalkExists
<1>8. Walks(walk, n, p_newer)
  BY <1>7
<1> HIDE DEF walk
<1>9. (\A i \in 0..m : walk[i] = r[i]) /\ walk[m + 1] = RLIST
  BY <1>3, <1>5, <1>6, <1>8, WalkIsRing
<1>10. {walk[i] : i \in 1..n} = InRegistry
  <2>1. \A i \in 1..m : i \in 0..m
    OBVIOUS
  <2> QED
    BY <1>3, <1>4, <1>5, <1>9, <2>1
<1>11. ASSUME NEW i \in 0..n PROVE p_older[walk[i + 1]] = walk[i]
  <2>1. CASE i = m
    BY <1>3, <1>5, <1>9, <2>1 DEF Ring
  <2>2. CASE i # m
    <3>1. i \in 0..m - 1 /\ i + 1 \in 0..m /\ i \in 0..m
      BY <1>5, <2>2
    <3> QED
      BY <1>3, <1>9, <3>1 DEF Ring
  <2> QED
    BY <2>1, <2>2
<1> QED
  BY <1>5, <1>9, <1>10, <1>11 DEF n, walk, Walks

(* At first every area of the pool is in it, once.                         *)
LEMMA LoadPool ==
  ASSUME mp_next = chPoolLoadArray
  PROVE  /\ mp_next \in Seq(PoolArea) /\ InPool = PoolArea
         /\ \A i, j \in DOMAIN mp_next : mp_next[i] = mp_next[j] => i = j
<1> DEFINE n == Cardinality(PoolArea)
           Loads(s) == {s[i] : i \in DOMAIN s} = PoolArea
<1>1. n \in Nat /\ ExistsBijection(1..n, PoolArea) /\ IsFiniteSet(PoolArea)
  BY DynamicAssumption, FS_CardinalityType
<1>2. mp_next = CHOOSE s \in [1..n -> PoolArea] : Loads(s)
  BY DEF chPoolLoadArray
<1>3. IsFiniteSet(1..n) /\ Cardinality(1..n) = Cardinality(PoolArea)
  BY <1>1, FS_Interval
<1> HIDE DEF n
<1>4. PICK f : f \in Bijection(1..n, PoolArea)
  BY <1>1 DEF ExistsBijection
<1>5. f \in [1..n -> PoolArea] /\ \A a \in PoolArea : \E i \in 1..n : f[i] = a
  BY <1>4 DEF Bijection, Surjection, Injection
<1>6. Loads(f)
  <2>1. DOMAIN f = 1..n
    BY <1>5
  <2> QED
    BY <1>5, <2>1
<1> HIDE DEF Loads
<1>7. mp_next \in [1..n -> PoolArea] /\ Loads(mp_next)
  BY <1>2, <1>5, <1>6
<1>8. DOMAIN mp_next = 1..n /\ mp_next \in Seq(PoolArea)
  BY <1>1, <1>7
<1>9. mp_next \in Surjection(1..n, PoolArea)
  BY <1>7, <1>8 DEF Loads, Surjection
<1>10. mp_next \in Injection(1..n, PoolArea)
  BY <1>3, <1>9, FS_SurjSameCardinalityImpliesInj
<1> QED
  BY <1>7, <1>8, <1>10 DEF Loads, Injection, IsInjective, InPool

LEMMA DynStart == ASSUME DynInit PROVE DynInv
<1>1. /\ p_state = [a \in Area |-> "NONE"] /\ p_refs = [a \in Area |-> 0]
      /\ p_waiting = [a \in Area |-> {}] /\ useRegistry \in BOOLEAN
      /\ p_newer = [a \in Node |-> RLIST] /\ p_older = [a \in Node |-> RLIST]
      /\ doing = [h \in Holder |-> <<"idle">>]
      /\ has = [h \in Holder |-> [a \in Area |-> 0]]
      /\ mp_next = chPoolLoadArray
  BY DEF DynInit, Node
<1>2. RLIST \in Node /\ 0 \in 0..MaxRefs /\ MaxRefs \in Nat
  BY DynamicAssumption DEF Node
<1>3. <<"idle">> \in Point
  BY DEF Point
<1>4. DynType
  <2>1. mp_next \in Seq(PoolArea)
    BY <1>1, LoadPool
  <2> QED
    BY <1>1, <1>2, <1>3, <2>1 DEF DynType
<1>5. PoolInv
  <2>1. Given = {}
    BY <1>1 DEF Given
  <2> QED
    BY <1>1, <2>1, LoadPool DEF PoolInv
<1>6. CountInv
  <2>1. ASSUME NEW a \in Area PROVE HeldOf(a) = 0
    <3>1. {r \in Holder \X (1..MaxRefs) : r[2] <= has[r[1]][a]} = {}
      BY <1>1, <1>2
    <3> QED
      BY <3>1, FS_EmptySet DEF HeldOf
  <2> QED
    BY <1>1, <2>1 DEF CountInv
<1>7. EndInv
  BY <1>1 DEF EndInv, Ending
<1>8. StateInv
  BY <1>1 DEF StateInv
<1>9. ListInv
  <2> DEFINE r == [i \in 0..0 |-> RLIST]
  <2>1. \A h \in Holder : ~IsAt(h, "remove")
    BY <1>1 DEF IsAt
  <2>2. r \in [0..0 -> Node]
    BY <1>2
  <2>3. Ring(0, r, p_newer, p_older)
    BY <1>1, <1>2 DEF Ring
  <2>4. {r[i] : i \in 1..0} = Listed
    BY <1>1 DEF Listed
  <2>5. Older(p_older)
    BY <2>1 DEF Older
  <2> HIDE DEF r
  <2>6. RingOf(0, r, p_older) /\ p_older \in [Node -> Node]
    BY <1>4, <2>3, <2>4, <2>5 DEF RingOf, DynType
  <2>7. \E m \in Nat : \E s \in [0..m -> Node], older \in [Node -> Node] : RingOf(m, s, older)
    BY <2>2, <2>6, 0 \in Nat
  <2> QED
    BY <2>1, <2>7 DEF ListInv
<1> QED
  BY <1>4, <1>5, <1>6, <1>7, <1>8, <1>9 DEF DynInv

LEMMA DynStep ==
  ASSUME DynInv, ~RegistryAnyTime, [DynCalls]_dynVars
  PROVE  DynInv'
BY DynTypeStep, CountStep, PoolStep, EndStep, StateStep, ListStep DEF DynInv

(* A set is one thing or nothing if it has no two.                         *)
LEMMA AtMostOne ==
  ASSUME NEW S, \A x, y \in S : x = y
  PROVE  Cardinality(S) <= 1
<1>1. CASE S = {}
  BY <1>1, FS_EmptySet
<1>2. CASE S # {}
  <2>1. PICK x : S = {x}
    BY <1>2
  <2> QED
    BY <2>1, FS_Singleton
<1> QED
  BY <1>1, <1>2

(* A sequence without repetition is as long as it has elements.            *)
LEMMA PoolCount ==
  ASSUME DynType, PoolInv
  PROVE  Len(mp_next) = Cardinality(InPool)
<1> DEFINE n == Len(mp_next)
<1>1. n \in Nat /\ DOMAIN mp_next = 1..n /\ mp_next = [i \in 1..n |-> mp_next[i]]
  BY DEF DynType
<1> HIDE DEF n
<1>2. mp_next \in [1..n -> InPool]
  BY <1>1 DEF InPool
<1>3. mp_next \in Bijection(1..n, InPool)
  BY <1>1, <1>2 DEF PoolInv, InPool, Bijection, Injection, Surjection, IsInjective
<1>4. IsFiniteSet(1..n) /\ Cardinality(1..n) = n /\ ExistsBijection(1..n, InPool)
  BY <1>1, <1>3, FS_Interval DEF ExistsBijection
<1> QED
  BY <1>4, FS_Bijection DEF n

LEMMA NothingFreed ==
  ASSUME DynInv
  PROVE  NothingFreedInUse
<1> USE DEF DynInv
<1>1. ASSUME NEW a \in Area
      PROVE  Cardinality({h \in Holder : doing[h] \in Ending(a)}) <= 1
  <2>1. \A g, h \in {f \in Holder : doing[f] \in Ending(a)} : g = h
    BY DEF EndInv
  <2> HIDE DEF DynInv
  <2> QED
    BY <2>1, AtMostOne
<1>2. Len(mp_next) = Cardinality(InPool) /\ InPool = PoolArea \ Given
  BY PoolCount DEF PoolInv
<1>3. ASSUME NEW a \in Area
      PROVE  /\ p_refs[a] = HeldOf(a)
             /\ p_state[a] = "NONE" => p_refs[a] = 0 /\ p_waiting[a] = {}
  BY DEF CountInv, StateInv
<1>4. ASSUME NEW a \in Area, NEW h \in Holder
      PROVE  /\ doing[h] \in Ending(a) \ {<<"create", a>>} => p_refs[a] = 0 /\ p_state[a] # "NONE"
             /\ doing[h] = <<"create", a>> => p_state[a] = "NONE"
  BY DEF EndInv
<1>5. DynTypeOK
  BY DEF DynType, DynTypeOK
<1> HIDE DEF DynInv
<1> QED
  BY <1>1, <1>2, <1>3, <1>4, <1>5 DEF NothingFreedInUse

(* For every number of threads, areas and references: a working area is    *)
(* given back once, when nobody holds a reference to its thread, and the   *)
(* registry's list has every thread that was not given back, in both       *)
(* directions, provided that the registry is not used while an area is     *)
(* given back.                                                             *)
THEOREM DynamicCorrect ==
  ASSUME ~RegistryAnyTime
  PROVE  Spec => [](NothingFreedInUse /\ RegistryIsWhole)
<1>1. Init => DynInv
  BY DynStart DEF Init
<1>2. DynInv /\ [Next]_vars => DynInv'
  BY DynStep DEF Next, vars
<1>3. DynInv => NothingFreedInUse /\ RegistryIsWhole
  BY NothingFreed, RegistryWhole DEF DynInv
<1> QED
  BY <1>1, <1>2, <1>3, PTL DEF Spec

------------------------------------------------------------------------------
(* The heap: blocks as pieces of the memory *)

Piece == [at : Nat, size : Nat]
Pieces(s) == {s[i] : i \in DOMAIN s}
Covers(b, x) == b.at <= x /\ x < LIMIT(b)
Apart(b, c) == LIMIT(b) <= c.at \/ LIMIT(c) <= b.at
Ordered(s) == \A i, j \in DOMAIN s : i < j => LIMIT(s[i]) < s[j].at

(* The memory below n is in blocks, or in T, and nothing of it in two.     *)
Whole(B, T, n) ==
  /\ B \subseteq Piece /\ n \in Nat /\ T \subseteq 0..n - 1
  /\ \A b \in B : LIMIT(b) <= n
  /\ \A b, c \in B : b # c => Apart(b, c)
  /\ \A x \in 0..n - 1 : x \in T \/ \E b \in B : Covers(b, x)
  /\ \A b \in B, x \in T : ~Covers(b, x)

HeapInv ==
  /\ h_free \in Seq(Piece) /\ Ordered(h_free)
  /\ nextmem \in 0..CoreSize /\ asking \in [User -> BlockSize \cup {0}]
  /\ Whole(given \cup FreeBlocks, taken, nextmem)
  /\ given \cap FreeBlocks = {}

LEMMA HeaderNat == Header \in Nat \ {0} /\ CoreSize \in Nat /\ Header <= CoreSize
BY HeapAssumption

LEMMA Limits ==
  ASSUME NEW b \in Piece
  PROVE  b.at \in Nat /\ b.size \in Nat /\ LIMIT(b) \in Nat /\ b.at < LIMIT(b)
BY HeaderNat DEF Piece, LIMIT

(* Where a block begins tells which it is.                                 *)
LEMMA SameAt ==
  ASSUME NEW B, NEW T, NEW n, Whole(B, T, n), NEW b \in B, NEW c \in B, b.at = c.at
  PROVE  b = c
<1>1. b \in Piece /\ c \in Piece
  BY DEF Whole
<1> QED
  BY <1>1, Limits DEF Whole, Apart

(* Two blocks that touch are as good as one that covers both.              *)
Joined(b, c) == [b EXCEPT !.size = @ + c.size + Header]

LEMMA JoinIs ==
  ASSUME NEW b \in Piece, NEW c \in Piece, LIMIT(b) = c.at
  PROVE  /\ Joined(b, c) \in Piece /\ Joined(b, c).at = b.at
         /\ LIMIT(Joined(b, c)) = LIMIT(c)
         /\ \A x \in Nat : Covers(Joined(b, c), x) <=> Covers(b, x) \/ Covers(c, x)
<1>1. Joined(b, c) \in Piece /\ Joined(b, c).at = b.at
      /\ Joined(b, c).size = b.size + c.size + Header
  BY HeaderNat DEF Joined, Piece
<1>2. b.at \in Nat /\ b.size \in Nat /\ c.at \in Nat /\ c.size \in Nat
  BY DEF Piece
<1>3. LIMIT(Joined(b, c)) = LIMIT(c)
  BY <1>1, <1>2, HeaderNat DEF LIMIT
<1> QED
  BY <1>1, <1>3, Limits DEF Covers

LEMMA JoinWhole ==
  ASSUME NEW B, NEW T, NEW n, Whole(B, T, n), NEW b \in B, NEW c \in B, LIMIT(b) = c.at
  PROVE  Whole((B \ {b, c}) \cup {Joined(b, c)}, T, n)
<1> DEFINE m == Joined(b, c)
           N == (B \ {b, c}) \cup {m}
<1>1. b \in Piece /\ c \in Piece /\ n \in Nat /\ T \subseteq Nat
  BY DEF Whole
<1>2. /\ m \in Piece /\ m.at = b.at /\ LIMIT(m) = LIMIT(c)
      /\ \A x \in Nat : Covers(m, x) <=> Covers(b, x) \/ Covers(c, x)
  BY <1>1, JoinIs
<1> HIDE DEF m
<1>3. ASSUME NEW a \in B \ {b, c} PROVE Apart(a, m) /\ Apart(m, a)
  <2>1. a \in Piece /\ Apart(a, b) /\ Apart(a, c)
    BY DEF Whole
  <2>2. LIMIT(a) \in Nat /\ LIMIT(b) \in Nat /\ LIMIT(c) \in Nat /\ a.at \in Nat /\ b.at \in Nat
        /\ c.at \in Nat /\ b.at < LIMIT(b) /\ c.at < LIMIT(c) /\ a.at < LIMIT(a)
    BY <1>1, <2>1, Limits
  <2> QED
    BY <1>2, <2>1, <2>2 DEF Apart
<1>4. \A x \in 0..n - 1 : x \in T \/ \E a \in N : Covers(a, x)
  <2>1. ASSUME NEW x \in 0..n - 1, x \notin T PROVE \E a \in N : Covers(a, x)
    <3>1. PICK a \in B : Covers(a, x)
      BY <2>1 DEF Whole
    <3>2. CASE a \in {b, c}
      BY <1>1, <1>2, <3>1, <3>2
    <3>3. CASE a \notin {b, c}
      BY <3>1, <3>3
    <3> QED
      BY <3>2, <3>3
  <2> QED
    BY <2>1
<1>5. \A a \in N, x \in T : ~Covers(a, x)
  BY <1>1, <1>2 DEF Whole
<1>6. \A a \in N : LIMIT(a) <= n
  BY <1>2 DEF Whole
<1>7. \A a, e \in N : a # e => Apart(a, e)
  BY <1>3 DEF Whole
<1>8. N \subseteq Piece
  BY <1>2 DEF Whole
<1> QED
  BY <1>4, <1>5, <1>6, <1>7, <1>8 DEF Whole, m

(* A block may be cut where a header and what is before it end.            *)
LEMMA CutWhole ==
  ASSUME NEW B, NEW T, NEW n, Whole(B, T, n), NEW m \in B,
         NEW b \in Piece, NEW c \in Piece, b.at = m.at, LIMIT(b) = c.at, LIMIT(c) = LIMIT(m)
  PROVE  Whole((B \ {m}) \cup {b, c}, T, n)
<1> DEFINE N == (B \ {m}) \cup {b, c}
<1>1. m \in Piece /\ n \in Nat /\ T \subseteq Nat /\ LIMIT(m) <= n
  BY DEF Whole
<1>2. /\ LIMIT(b) \in Nat /\ LIMIT(c) \in Nat /\ b.at \in Nat /\ c.at \in Nat
      /\ b.at < LIMIT(b) /\ c.at < LIMIT(c)
  BY Limits
<1>3. \A x \in Nat : Covers(m, x) <=> Covers(b, x) \/ Covers(c, x)
  BY <1>2 DEF Covers
<1>4. ASSUME NEW a \in B \ {m}
      PROVE  Apart(a, b) /\ Apart(b, a) /\ Apart(a, c) /\ Apart(c, a)
  <2>1. a \in Piece /\ Apart(a, m)
    BY DEF Whole
  <2>2. LIMIT(a) \in Nat /\ a.at \in Nat /\ a.at < LIMIT(a)
    BY <2>1, Limits
  <2> QED
    BY <1>2, <2>1, <2>2 DEF Apart
<1>5. Apart(b, c) /\ Apart(c, b)
  BY <1>2 DEF Apart
<1>6. \A x \in 0..n - 1 : x \in T \/ \E a \in N : Covers(a, x)
  <2>1. ASSUME NEW x \in 0..n - 1, x \notin T PROVE \E a \in N : Covers(a, x)
    <3>1. PICK a \in B : Covers(a, x)
      BY <2>1 DEF Whole
    <3>2. CASE a = m
      BY <1>1, <1>3, <3>1, <3>2
    <3>3. CASE a # m
      BY <3>1, <3>3
    <3> QED
      BY <3>2, <3>3
  <2> QED
    BY <2>1
<1>7. \A a \in N, x \in T : ~Covers(a, x)
  BY <1>1, <1>3 DEF Whole
<1>8. \A a \in N : LIMIT(a) <= n
  BY <1>1, <1>2 DEF Whole
<1>9. \A a, e \in N : a # e => Apart(a, e)
  BY <1>4, <1>5 DEF Whole
<1>10. N \subseteq Piece
  BY DEF Whole
<1> QED
  BY <1>6, <1>7, <1>8, <1>9, <1>10 DEF Whole

(* Sequences of blocks in order, put together and cut.                     *)
LEMMA PutTogether ==
  ASSUME NEW s \in Seq(Piece), NEW t \in Seq(Piece), Ordered(s), Ordered(t),
         \A b \in Pieces(s), c \in Pieces(t) : LIMIT(b) < c.at
  PROVE  /\ s \o t \in Seq(Piece) /\ Ordered(s \o t)
         /\ Pieces(s \o t) = Pieces(s) \cup Pieces(t)
<1> DEFINE st == s \o t
           p == Len(s)
           q == Len(t)
<1>1. /\ st \in Seq(Piece) /\ p \in Nat /\ q \in Nat /\ DOMAIN s = 1..p /\ DOMAIN t = 1..q
      /\ DOMAIN st = 1..p + q
      /\ \A i \in 1..p : st[i] = s[i]
      /\ \A i \in 1..q : st[p + i] = t[i]
  OBVIOUS
<1> HIDE DEF st, p, q
<1>2. \A i \in 1..p + q : i \in 1..p \/ (i - p \in 1..q /\ p + (i - p) = i /\ i > p)
  BY <1>1
<1>3. Ordered(st)
  <2>1. ASSUME NEW i \in 1..p + q, NEW j \in 1..p + q, i < j
        PROVE  LIMIT(st[i]) < st[j].at
    <3>1. CASE i \in 1..p /\ j \in 1..p
      BY <1>1, <2>1, <3>1 DEF Ordered
    <3>2. CASE i \in 1..p /\ j - p \in 1..q /\ p + (j - p) = j
      BY <1>1, <3>2 DEF Pieces
    <3>3. CASE i - p \in 1..q /\ p + (i - p) = i /\ j - p \in 1..q /\ p + (j - p) = j
      <4>1. i - p < j - p
        BY <1>1, <2>1
      <4>2. st[i] = t[i - p] /\ st[j] = t[j - p]
        BY <1>1, <3>3
      <4> QED
        BY <1>1, <3>3, <4>1, <4>2 DEF Ordered
    <3>4. ~(i > p /\ j \in 1..p)
      BY <1>1, <2>1
    <3> QED
      BY <1>2, <3>1, <3>2, <3>3, <3>4
  <2> QED
    BY <1>1, <2>1 DEF Ordered
<1>4. Pieces(st) = Pieces(s) \cup Pieces(t)
  <2>1. \A i \in 1..p : i \in 1..p + q
    BY <1>1
  <2>2. \A i \in 1..q : p + i \in 1..p + q
    BY <1>1
  <2>3. \A i \in 1..p + q : st[i] \in Pieces(s) \cup Pieces(t)
    BY <1>1, <1>2 DEF Pieces
  <2>4. \A b \in Pieces(s) : b \in Pieces(st)
    BY <1>1, <2>1 DEF Pieces
  <2>5. ASSUME NEW b \in Pieces(t) PROVE b \in Pieces(st)
    <3>1. PICK i \in 1..q : t[i] = b
      BY <1>1 DEF Pieces
    <3>2. st[p + i] = b /\ p + i \in 1..p + q
      BY <1>1, <2>2, <3>1
    <3> QED
      BY <1>1, <3>2 DEF Pieces
  <2>6. \A b \in Pieces(st) : b \in Pieces(s) \cup Pieces(t)
    BY <1>1, <2>3 DEF Pieces
  <2> QED
    BY <2>4, <2>5, <2>6
<1> QED
  BY <1>1, <1>3, <1>4 DEF st

LEMMA PartOf ==
  ASSUME NEW s \in Seq(Piece), Ordered(s), NEW i \in 1..Len(s) + 1, NEW j \in 0..Len(s)
  PROVE  /\ SubSeq(s, i, j) \in Seq(Piece) /\ Ordered(SubSeq(s, i, j))
         /\ Pieces(SubSeq(s, i, j)) = {s[l] : l \in i..j}
<1> DEFINE u == SubSeq(s, i, j)
           p == IF i <= j THEN j - i + 1 ELSE 0
<1>1. /\ DOMAIN u = 1..p /\ p \in Nat /\ Len(s) \in Nat /\ DOMAIN s = 1..Len(s)
      /\ \A l \in 1..p : u[l] = s[i + l - 1]
  OBVIOUS
<1>2. \A l \in 1..p : i + l - 1 \in i..j /\ i + l - 1 \in 1..Len(s)
  OBVIOUS
<1>3. \A l \in i..j : l - i + 1 \in 1..p /\ i + (l - i + 1) - 1 = l
  OBVIOUS
<1>4. u \in Seq(Piece)
  OBVIOUS
<1> HIDE DEF u, p
<1>5. Ordered(u)
  <2>1. ASSUME NEW l \in 1..p, NEW m \in 1..p, l < m
        PROVE  LIMIT(u[l]) < u[m].at
    <3>1. i + l - 1 < i + m - 1
      BY <1>1, <2>1
    <3> QED
      BY <1>1, <1>2, <3>1 DEF Ordered
  <2> QED
    BY <1>1, <2>1 DEF Ordered
<1>6. Pieces(u) = {s[l] : l \in i..j}
  <2>1. \A l \in 1..p : u[l] \in {s[h] : h \in i..j}
    BY <1>1, <1>2
  <2>2. \A l \in i..j : \E h \in 1..p : u[h] = s[l]
    BY <1>1, <1>3
  <2> QED
    BY <1>1, <2>1, <2>2 DEF Pieces
<1> QED
  BY <1>4, <1>5, <1>6 DEF u

LEMMA OnePiece ==
  ASSUME NEW b \in Piece
  PROVE  <<b>> \in Seq(Piece) /\ Ordered(<<b>>) /\ Pieces(<<b>>) = {b}
BY DEF Ordered, Pieces

(* The memory does not care which of its blocks are free.  x and y, that   *)
(* stand in this order between the free blocks A and W, are put together   *)
(* if they touch.                                                          *)
Glued(A, x, y, W) == A \o Merge(x, y) \o W

LEMMA MergeWhole ==
  ASSUME NEW A \in Seq(Piece), NEW W \in Seq(Piece), NEW x, NEW y, NEW G, NEW T, NEW n,
         Ordered(A), Ordered(W),
         \A a \in Pieces(A) : LIMIT(a) < x.at,
         \A w \in Pieces(W) : LIMIT(y) < w.at, x.at < y.at,
         Whole(G \cup (Pieces(A) \cup {x, y} \cup Pieces(W)), T, n),
         G \cap (Pieces(A) \cup {x, y} \cup Pieces(W)) = {}
  PROVE  /\ Glued(A, x, y, W) \in Seq(Piece) /\ Ordered(Glued(A, x, y, W))
         /\ Whole(G \cup Pieces(Glued(A, x, y, W)), T, n)
         /\ G \cap Pieces(Glued(A, x, y, W)) = {}
<1> DEFINE B == G \cup (Pieces(A) \cup {x, y} \cup Pieces(W))
           M == Merge(x, y)
           R == Glued(A, x, y, W)
<1>1. x \in Piece /\ y \in Piece /\ Apart(x, y) /\ x \in B /\ y \in B
  <2>1. x \in Piece /\ y \in Piece
    BY DEF Whole
  <2>2. x # y
    BY <2>1 DEF Piece
  <2> QED
    BY <2>1, <2>2 DEF Whole
<1>2. /\ x.at \in Nat /\ LIMIT(x) \in Nat /\ x.at < LIMIT(x) /\ y.at \in Nat /\ LIMIT(y) \in Nat
      /\ y.at < LIMIT(y) /\ LIMIT(x) <= y.at
  BY <1>1, Limits DEF Apart
<1>3. /\ M \in Seq(Piece) /\ Ordered(M) /\ M # <<>> /\ M[1].at = x.at
      /\ \A m \in Pieces(M) : x.at <= m.at /\ LIMIT(m) <= LIMIT(y)
      /\ Whole(G \cup (Pieces(A) \cup Pieces(M) \cup Pieces(W)), T, n)
      /\ G \cap (Pieces(A) \cup Pieces(M) \cup Pieces(W)) = {}
  <2>1. CASE LIMIT(x) = y.at
    <3> DEFINE m == Joined(x, y)
    <3>1. M = <<m>>
      BY <2>1 DEF Merge, Joined
    <3>2. m \in Piece /\ m.at = x.at /\ LIMIT(m) = LIMIT(y)
      BY <1>1, <2>1, JoinIs
    <3>3. Whole((B \ {x, y}) \cup {m}, T, n)
      BY <1>1, <2>1, JoinWhole
    <3>4. x \notin G /\ y \notin G /\ x \notin Pieces(A) /\ x \notin Pieces(W)
          /\ y \notin Pieces(A) /\ y \notin Pieces(W)
      <4>1. \A a \in Pieces(A) : LIMIT(a) \in Nat /\ a.at \in Nat /\ a.at < LIMIT(a)
        <5>1. \A a \in Pieces(A) : a \in Piece
          BY DEF Whole
        <5> QED
          BY <5>1, Limits
      <4>2. \A w \in Pieces(W) : w.at \in Nat
        <5>1. \A w \in Pieces(W) : w \in Piece
          BY DEF Whole
        <5> QED
          BY <5>1, Limits
      <4> QED
        BY <1>1, <1>2, <4>1, <4>2
    <3> HIDE DEF m
    <3>5. G \cup (Pieces(A) \cup {m} \cup Pieces(W)) = (B \ {x, y}) \cup {m}
      BY <3>4
    <3>6. m \notin G
      <4>1. ASSUME m \in G PROVE FALSE
        <5>1. m \in B
          BY <4>1
        <5>2. m = x
          BY <1>1, <3>2, <5>1, SameAt
        <5> QED
          BY <3>4, <4>1, <5>2
      <4> QED
        BY <4>1
    <3>7. <<m>> \in Seq(Piece) /\ Ordered(<<m>>) /\ Pieces(<<m>>) = {m}
      BY <3>2, OnePiece
    <3> HIDE DEF B, M
    <3>8. Whole(G \cup (Pieces(A) \cup Pieces(M) \cup Pieces(W)), T, n)
      BY <3>1, <3>3, <3>5, <3>7
    <3>9. M # <<>> /\ M[1] = m
      BY <3>1
    <3> QED
      BY <1>2, <3>1, <3>2, <3>6, <3>7, <3>8, <3>9
  <2>2. CASE LIMIT(x) # y.at
    <3>1. M = <<x, y>>
      BY <2>2 DEF Merge
    <3>2. LIMIT(x) < y.at
      BY <1>2, <2>2
    <3>3. M \in Seq(Piece) /\ Pieces(M) = {x, y}
      BY <1>1, <3>1 DEF Pieces
    <3>4. Ordered(M)
      <4>1. DOMAIN M = 1..2 /\ M[1] = x /\ M[2] = y
        BY <3>1
      <4> HIDE DEF M
      <4>2. \A i, j \in 1..2 : i < j => i = 1 /\ j = 2
        OBVIOUS
      <4> QED
        BY <3>2, <4>1, <4>2 DEF Ordered
    <3>5. M # <<>> /\ M[1] = x
      BY <3>1
    <3> HIDE DEF M
    <3> QED
      BY <1>2, <3>3, <3>4, <3>5
  <2> QED
    BY <2>1, <2>2
<1> HIDE DEF M, B
<1>4. \A a \in Pieces(A) : a \in Piece /\ LIMIT(a) \in Nat
  <2>1. \A a \in Pieces(A) : a \in Piece
    BY DEF Whole
  <2> QED
    BY <2>1, Limits
<1>5. \A w \in Pieces(W) : w \in Piece /\ w.at \in Nat
  <2>1. \A w \in Pieces(W) : w \in Piece
    BY DEF Whole
  <2> QED
    BY <2>1, Limits
<1>6. \A m \in Pieces(M) : m.at \in Nat /\ LIMIT(m) \in Nat
  <2>1. \A m \in Pieces(M) : m \in Piece
    BY <1>3 DEF Whole
  <2> QED
    BY <2>1, Limits
<1>7. \A a \in Pieces(A), m \in Pieces(M) : LIMIT(a) < m.at
  BY <1>2, <1>3, <1>4, <1>6
<1>8. A \o M \in Seq(Piece) /\ Ordered(A \o M) /\ Pieces(A \o M) = Pieces(A) \cup Pieces(M)
  BY <1>3, <1>7, PutTogether
<1>9. \A m \in Pieces(A \o M), w \in Pieces(W) : LIMIT(m) < w.at
  BY <1>2, <1>3, <1>4, <1>5, <1>6, <1>8
<1>10. /\ (A \o M) \o W \in Seq(Piece) /\ Ordered((A \o M) \o W)
       /\ Pieces((A \o M) \o W) = Pieces(A) \cup Pieces(M) \cup Pieces(W)
  BY <1>8, <1>9, PutTogether
<1>11. R = (A \o M) \o W
  BY DEF M, Glued
<1> HIDE DEF R
<1> QED
  BY <1>3, <1>10, <1>11 DEF R

LEMMA MergeFirst ==
  ASSUME NEW x \in Piece, NEW y \in Piece, NEW W \in Seq(Piece)
  PROVE  Glued(<<>>, x, y, W) # <<>> /\ Glued(<<>>, x, y, W)[1].at = x.at
<1>1. CASE LIMIT(x) = y.at
  <2>1. Merge(x, y) = <<Joined(x, y)>>
    BY <1>1 DEF Merge, Joined
  <2>2. Joined(x, y) \in Piece /\ Joined(x, y).at = x.at
    BY <1>1, JoinIs
  <2> QED
    BY <2>1, <2>2 DEF Glued
<1>2. CASE LIMIT(x) # y.at
  <2>1. Merge(x, y) = <<x, y>>
    BY <1>2 DEF Merge
  <2> QED
    BY <2>1 DEF Glued
<1> QED
  BY <1>1, <1>2

(* A set of numbers has the one that the walk finds first.                 *)
LEMMA LeastIs ==
  ASSUME NEW S \in SUBSET Nat, S # {}
  PROVE  Least(S) \in S /\ \A i \in S : Least(S) <= i
<1>1. \E i \in S : \A j \in S : i <= j
  BY NatMin
<1> QED
  BY <1>1, Zenon DEF Least

(* There is a place in the list for a block that is freed.                 *)
Spots(b) ==
  {j \in 0..Len(h_free) : /\ j = 0 \/ b.at > h_free[j].at
                          /\ j = Len(h_free) \/ b.at < h_free[j + 1].at}

LEMMA SpotIs ==
  ASSUME HeapInv, NEW b \in given
  PROVE  Least(Spots(b)) \in Spots(b)
<1> DEFINE n == Len(h_free)
           S == {j \in 0..n : j = n \/ b.at < h_free[j + 1].at}
<1>1. n \in Nat /\ DOMAIN h_free = 1..n
  BY DEF HeapInv
<1> HIDE DEF n
<1>2. S \in SUBSET Nat /\ n \in S
  BY <1>1
<1>3. PICK j \in S : \A l \in S : j <= l
  BY <1>2, NatMin
<1>4. j = 0 \/ b.at > h_free[j].at
  <2>1. SUFFICES ASSUME j # 0 PROVE b.at > h_free[j].at
    OBVIOUS
  <2>2. j - 1 \in 0..n /\ j - 1 # n /\ (j - 1) + 1 = j /\ j \in 1..n /\ ~(j <= j - 1)
    BY <1>1, <1>3, <2>1
  <2>3. ~(b.at < h_free[j].at)
    BY <1>3, <2>2
  <2>4. h_free[j] \in FreeBlocks
    BY <1>1, <2>2 DEF FreeBlocks
  <2>5. h_free[j].at # b.at
    BY <2>4, SameAt DEF HeapInv
  <2>6. h_free[j] \in Piece /\ b \in Piece
    BY <2>4 DEF HeapInv, Whole
  <2> QED
    BY <2>3, <2>5, <2>6, Limits
<1>5. j \in Spots(b)
  BY <1>3, <1>4 DEF n, Spots
<1>6. Spots(b) \in SUBSET Nat
  BY <1>1 DEF Spots, n
<1> QED
  BY <1>5, <1>6, LeastIs

LEMMA FreeWhole ==
  ASSUME HeapInv, NEW b \in given, chHeapFree(b)
  PROVE  HeapInv'
<1> DEFINE n == Len(h_free)
           i == Least(Spots(b))
           G == given \ {b}
           withNext == IF i = n THEN <<b>>
                       ELSE Merge(b, h_free[i + 1]) \o SubSeq(h_free, i + 2, n)
<1>1. /\ UNCHANGED <<nextmem, asking, taken>> /\ given' = G
      /\ h_free' = IF i = 0 THEN withNext
                   ELSE SubSeq(h_free, 1, i - 1) \o Merge(h_free[i], Head(withNext)) \o Tail(withNext)
  BY DEF chHeapFree, Spots
<1>2. i \in Spots(b)
  BY SpotIs
<1>3. n \in Nat /\ DOMAIN h_free = 1..n /\ h_free \in Seq(Piece) /\ Ordered(h_free)
  BY DEF HeapInv
<1> HIDE DEF i
<1>4. /\ i \in 0..n /\ (i = 0 \/ b.at > h_free[i].at) /\ (i = n \/ b.at < h_free[i + 1].at)
  BY <1>2 DEF Spots
<1> HIDE DEF n
<1>5. Whole(given \cup FreeBlocks, taken, nextmem) /\ given \cap FreeBlocks = {}
  BY DEF HeapInv
<1>6. FreeBlocks = {h_free[j] : j \in 1..n}
  BY <1>3 DEF FreeBlocks
<1>7. \A j \in 1..n : h_free[j] \in Piece /\ h_free[j] \in FreeBlocks
                      /\ h_free[j].at \in Nat /\ LIMIT(h_free[j]) \in Nat
                      /\ h_free[j].at < LIMIT(h_free[j])
  <2>1. \A j \in 1..n : h_free[j] \in Piece /\ h_free[j] \in FreeBlocks
    BY <1>3, <1>6
  <2> QED
    BY <2>1, Limits
<1>8. b \in Piece /\ b.at \in Nat /\ LIMIT(b) \in Nat /\ b.at < LIMIT(b)
  <2>1. b \in Piece
    BY <1>5 DEF Whole
  <2> QED
    BY <2>1, Limits
<1> DEFINE L == {h_free[j] : j \in 1..i}
           H == {h_free[j] : j \in i + 1..n}
<1>9. FreeBlocks = L \cup H /\ L \cap H = {} /\ given \cap (L \cup H) = {}
  <2>1. \A j \in 1..n : j \in 1..i \/ j \in i + 1..n
    BY <1>3, <1>4
  <2>2. \A j \in 1..i : j \in 1..n
    BY <1>3, <1>4
  <2>3. \A j \in i + 1..n : j \in 1..n
    BY <1>3, <1>4
  <2>4. FreeBlocks = L \cup H
    BY <1>6, <2>1, <2>2, <2>3
  <2>5. ASSUME NEW j \in 1..i, NEW l \in i + 1..n, h_free[j] = h_free[l] PROVE FALSE
    <3>1. j < l /\ j \in 1..n /\ l \in 1..n
      BY <1>3, <1>4
    <3>2. LIMIT(h_free[j]) < h_free[l].at
      BY <1>3, <3>1 DEF Ordered
    <3> QED
      BY <1>7, <2>5, <3>1, <3>2
  <2> QED
    BY <1>5, <2>4, <2>5
<1>10. \A l \in L : l.at < b.at
  <2>1. ASSUME NEW j \in 1..i PROVE h_free[j].at < b.at
    <3>1. j \in 1..n /\ i \in 1..n /\ i # 0
      BY <1>3, <1>4
    <3>2. CASE j = i
      BY <1>4, <1>7, <1>8, <3>1, <3>2
    <3>3. CASE j # i
      <4>1. LIMIT(h_free[j]) < h_free[i].at
        BY <1>3, <3>1, <3>3 DEF Ordered
      <4> QED
        BY <1>4, <1>7, <1>8, <3>1, <4>1
    <3> QED
      BY <3>2, <3>3
  <2> QED
    BY <2>1
<1> DEFINE Right(W) ==
             /\ W \in Seq(Piece) /\ Ordered(W) /\ W # <<>> /\ W[1].at = b.at
             /\ Whole((G \cup L) \cup Pieces(W), taken, nextmem)
             /\ (G \cup L) \cap Pieces(W) = {}
<1>11. Right(withNext)
  <2>1. CASE i = n
    <3>1. withNext = <<b>>
      BY <2>1
    <3>2. H = {}
      BY <1>3, <2>1
    <3>3. <<b>> \in Seq(Piece) /\ Ordered(<<b>>) /\ Pieces(<<b>>) = {b}
      BY <1>8, OnePiece
    <3>4. (G \cup L) \cup {b} = given \cup FreeBlocks /\ b \notin L
      BY <1>9, <3>2
    <3>5. <<b>> # <<>> /\ <<b>>[1] = b
      OBVIOUS
    <3> HIDE DEF withNext, G, L
    <3>6. Whole((G \cup L) \cup Pieces(<<b>>), taken, nextmem) /\ (G \cup L) \cap Pieces(<<b>>) = {}
      BY <1>5, <3>3, <3>4 DEF G
    <3> QED
      BY <3>1, <3>3, <3>5, <3>6
  <2>2. CASE i # n
    <3> DEFINE c == h_free[i + 1]
               C == SubSeq(h_free, i + 2, n)
    <3>1. i + 1 \in 1..n /\ i + 2 \in 1..n + 1 /\ n \in 0..n
      BY <1>3, <1>4, <2>2
    <3>2. C \in Seq(Piece) /\ Ordered(C) /\ Pieces(C) = {h_free[j] : j \in i + 2..n}
      BY <1>3, <3>1, PartOf DEF n
    <3>3. withNext = Glued(<<>>, b, c, C)
      <4>1. Merge(b, c) \in Seq(Piece)
        <5>1. c \in Piece
          BY <1>7, <3>1
        <5> HIDE DEF c
        <5>2. LIMIT(b) = c.at => <<Joined(b, c)>> \in Seq(Piece)
          BY <1>8, <5>1, JoinIs, OnePiece
        <5> QED
          BY <1>8, <5>1, <5>2 DEF Merge, Joined
      <4>2. <<>> \o Merge(b, c) = Merge(b, c)
        BY <4>1
      <4> QED
        BY <2>2, <4>2 DEF Glued
    <3>4. \A w \in Pieces(C) : LIMIT(c) < w.at
      <4>1. ASSUME NEW j \in i + 2..n PROVE LIMIT(h_free[i + 1]) < h_free[j].at
        <5>1. j \in 1..n /\ i + 1 < j
          BY <1>3, <1>4
        <5> QED
          BY <1>3, <3>1, <5>1 DEF Ordered
      <4> QED
        BY <3>2, <4>1
    <3>5. H = {c} \cup Pieces(C)
      <4>1. \A j \in i + 1..n : j = i + 1 \/ j \in i + 2..n
        BY <1>3, <1>4
      <4>2. \A j \in i + 2..n : j \in i + 1..n
        BY <1>3, <1>4
      <4>3. i + 1 \in i + 1..n
        BY <3>1
      <4> QED
        BY <3>2, <4>1, <4>2, <4>3
    <3>6. b.at < c.at
      BY <1>4, <2>2
    <3>7. <<>> \in Seq(Piece) /\ Ordered(<<>>) /\ Pieces(<<>>) = {}
      BY DEF Ordered, Pieces
    <3> HIDE DEF C, c
    <3>8. /\ (G \cup L) \cup (Pieces(<<>>) \cup {b, c} \cup Pieces(C)) = given \cup FreeBlocks
          /\ (G \cup L) \cap (Pieces(<<>>) \cup {b, c} \cup Pieces(C)) = {}
      <4> HIDE DEF L, H
      <4> QED
        BY <1>9, <3>5, <3>7
    <3> HIDE DEF withNext, G, L, H
    <3>9. Whole((G \cup L) \cup (Pieces(<<>>) \cup {b, c} \cup Pieces(C)), taken, nextmem)
      BY <1>5, <3>8
    <3>10. \A a \in Pieces(<<>>) : LIMIT(a) < b.at
      BY <3>7
    <3> QED
      <4> DEFINE R == Glued(<<>>, b, c, C)
                 none == <<>>
                 GL == G \cup L
      <4>1. c \in Piece /\ R # <<>> /\ R[1].at = b.at
        <5>1. c \in Piece
          BY <1>7, <3>1 DEF c
        <5> QED
          BY <1>8, <3>2, <5>1, MergeFirst
      <4> HIDE DEF none, GL
      <4>2. /\ Whole(GL \cup (Pieces(none) \cup {b, c} \cup Pieces(C)), taken, nextmem)
            /\ GL \cap (Pieces(none) \cup {b, c} \cup Pieces(C)) = {}
            /\ \A a \in Pieces(none) : LIMIT(a) < b.at
            /\ none \in Seq(Piece) /\ Ordered(none)
        BY <3>7, <3>8, <3>9, <3>10 DEF none, GL
      <4> DEFINE Q == Glued(none, b, c, C)
      <4>3. /\ Q \in Seq(Piece) /\ Ordered(Q)
            /\ Whole(GL \cup Pieces(Q), taken, nextmem) /\ GL \cap Pieces(Q) = {}
        BY <3>2, <3>4, <3>6, <4>2, MergeWhole
      <4>4. Q = R
        BY DEF none
      <4> HIDE DEF Q
      <4> HIDE DEF R
      <4> QED
        BY <3>3, <4>1, <4>3, <4>4 DEF R, GL
  <2> QED
    BY <2>1, <2>2
<1> HIDE DEF withNext
<1>12. /\ h_free' \in Seq(Piece) /\ Ordered(h_free')
       /\ Whole(G \cup Pieces(h_free'), taken, nextmem) /\ G \cap Pieces(h_free') = {}
  <2>1. CASE i = 0
    <3>1. L = {} /\ h_free' = withNext
      BY <1>1, <2>1
    <3> HIDE DEF L, G, H
    <3>2. G \cup L = G
      BY <3>1
    <3> QED
      BY <1>11, <3>1, <3>2
  <2>2. CASE i # 0
    <3> DEFINE W == withNext
               y == Head(W)
               V == Tail(W)
               x == h_free[i]
               A == SubSeq(h_free, 1, i - 1)
    <3>1. i \in 1..n /\ i - 1 \in 0..n /\ 1 \in 1..n + 1
      BY <1>3, <1>4, <2>2
    <3>2. A \in Seq(Piece) /\ Ordered(A) /\ Pieces(A) = {h_free[j] : j \in 1..i - 1}
      BY <1>3, <3>1, PartOf DEF n
    <3>3. W \in Seq(Piece) /\ Ordered(W) /\ W # <<>> /\ Len(W) \in Nat /\ Len(W) >= 1
          /\ DOMAIN W = 1..Len(W)
      BY <1>11
    <3>4. y = W[1] /\ y \in Piece /\ y.at = b.at
      BY <1>11, <3>3
    <3>5. /\ V \in Seq(Piece) /\ DOMAIN V = 1..Len(W) - 1
          /\ \A j \in 1..Len(W) - 1 : V[j] = W[j + 1]
      BY <3>3
    <3> HIDE DEF V, y, W
    <3>6. Ordered(V)
      <4>1. ASSUME NEW j \in 1..Len(W) - 1, NEW l \in 1..Len(W) - 1, j < l
            PROVE  LIMIT(V[j]) < V[l].at
        <5>1. j + 1 < l + 1 /\ j + 1 \in 1..Len(W) /\ l + 1 \in 1..Len(W)
          BY <3>3, <4>1
        <5> QED
          BY <3>3, <3>5, <5>1 DEF Ordered
      <4> QED
        BY <3>5, <4>1 DEF Ordered
    <3>7. \A w \in Pieces(V) : LIMIT(y) < w.at
      <4>1. ASSUME NEW j \in 1..Len(W) - 1 PROVE LIMIT(W[1]) < W[j + 1].at
        <5>1. 1 < j + 1 /\ j + 1 \in 1..Len(W) /\ 1 \in 1..Len(W)
          BY <3>3
        <5> QED
          BY <3>3, <5>1 DEF Ordered
      <4> QED
        BY <3>4, <3>5, <4>1 DEF Pieces
    <3>8. Pieces(W) = {y} \cup Pieces(V)
      <4>1. \A j \in 1..Len(W) : j = 1 \/ (j - 1 \in 1..Len(W) - 1 /\ (j - 1) + 1 = j)
        BY <3>3
      <4>2. \A j \in 1..Len(W) - 1 : j + 1 \in 1..Len(W)
        BY <3>3
      <4>3. 1 \in 1..Len(W)
        BY <3>3
      <4>4. \A j \in 1..Len(W) : W[j] \in {y} \cup Pieces(V)
        BY <3>4, <3>5, <4>1 DEF Pieces
      <4>5. y \in Pieces(W)
        BY <3>3, <3>4, <4>3 DEF Pieces
      <4>6. \A j \in 1..Len(W) - 1 : V[j] \in Pieces(W)
        BY <3>3, <3>5, <4>2 DEF Pieces
      <4> QED
        BY <3>3, <3>5, <4>4, <4>5, <4>6 DEF Pieces
    <3>9. L = Pieces(A) \cup {x}
      <4>1. \A j \in 1..i : j = i \/ j \in 1..i - 1
        BY <3>1
      <4>2. \A j \in 1..i - 1 : j \in 1..i
        BY <3>1
      <4>3. i \in 1..i
        BY <3>1
      <4> QED
        BY <3>2, <4>1, <4>2, <4>3
    <3>10. \A a \in Pieces(A) : LIMIT(a) < x.at
      <4>1. ASSUME NEW j \in 1..i - 1 PROVE LIMIT(h_free[j]) < h_free[i].at
        <5>1. j \in 1..n /\ j < i
          BY <1>3, <1>4
        <5> QED
          BY <1>3, <3>1, <5>1 DEF Ordered
      <4> QED
        BY <3>2, <4>1
    <3>11. x.at < y.at
      BY <1>10, <3>4, <3>9
    <3>12. h_free' = Glued(A, x, y, V)
      BY <1>1, <2>2 DEF W, y, V, Glued
    <3> HIDE DEF A, x, L, G, H
    <3>13. /\ Whole(G \cup (Pieces(A) \cup {x, y} \cup Pieces(V)), taken, nextmem)
           /\ G \cap (Pieces(A) \cup {x, y} \cup Pieces(V)) = {}
      <4>1. Whole((G \cup L) \cup Pieces(W), taken, nextmem) /\ (G \cup L) \cap Pieces(W) = {}
        BY <1>11 DEF W
      <4>2. G \cup (Pieces(A) \cup {x, y} \cup Pieces(V)) = (G \cup L) \cup Pieces(W)
        BY <3>8, <3>9
      <4>3. G \cap L = {}
        BY <1>9 DEF G
      <4>4. Pieces(A) \cup {x, y} \cup Pieces(V) = L \cup Pieces(W)
        BY <3>8, <3>9
      <4> QED
        BY <4>1, <4>2, <4>3, <4>4
    <3> QED
      <4> DEFINE R == Glued(A, x, y, V)
      <4>1. /\ R \in Seq(Piece) /\ Ordered(R)
            /\ Whole(G \cup Pieces(R), taken, nextmem) /\ G \cap Pieces(R) = {}
        BY <3>2, <3>5, <3>6, <3>7, <3>10, <3>11, <3>13, MergeWhole
      <4> HIDE DEF R
      <4> QED
        BY <3>12, <4>1 DEF R
  <2> QED
    BY <2>1, <2>2
<1>13. FreeBlocks' = Pieces(h_free')
  BY DEF FreeBlocks, Pieces
<1> QED
  BY <1>1, <1>12, <1>13 DEF HeapInv

(* What is given of a block and what is kept of it, if anything is.        *)
LEMMA CutIs ==
  ASSUME NEW b \in Piece, NEW n \in Nat
  PROVE  /\ b.size < n + Header => Cut(b, n) = b /\ Kept(b, n) = <<>>
         /\ ~(b.size < n + Header) =>
              \E r \in Piece :
                /\ Kept(b, n) = <<r>> /\ Cut(b, n) \in Piece /\ Cut(b, n).at = b.at
                /\ LIMIT(Cut(b, n)) = r.at /\ LIMIT(r) = LIMIT(b)
<1>1. b.at \in Nat /\ b.size \in Nat
  BY DEF Piece
<1>2. CASE b.size < n + Header
  <2>1. [b EXCEPT !.size = b.size] = b
    BY DEF Piece
  <2> QED
    BY <1>2, <2>1 DEF Cut, Kept
<1>3. CASE ~(b.size < n + Header)
  <2> DEFINE r == [at |-> b.at + Header + n, size |-> b.size - Header - n]
             c == [b EXCEPT !.size = n]
  <2>1. r \in Piece
    BY <1>1, <1>3, HeaderNat DEF Piece
  <2>2. c \in Piece /\ c.at = b.at /\ c.size = n
    BY DEF Piece
  <2>3. Kept(b, n) = <<r>> /\ Cut(b, n) = c
    BY <1>3 DEF Kept, Cut
  <2>4. r.at = b.at + Header + n /\ r.size = b.size - Header - n
    OBVIOUS
  <2> HIDE DEF r, c
  <2>5. LIMIT(c) = r.at /\ LIMIT(r) = LIMIT(b)
    BY <1>1, <2>2, <2>4, HeaderNat DEF LIMIT
  <2> QED
    BY <1>3, <2>1, <2>2, <2>3, <2>5
<1> QED
  BY <1>2, <1>3

LEMMA AllocWhole ==
  ASSUME HeapInv, NEW u \in User, NEW n \in BlockSize, chHeapAlloc(u, n)
  PROVE  HeapInv'
<1> DEFINE fits == {j \in DOMAIN h_free : h_free[j].size >= n}
           i == Least(fits)
           N == Len(h_free)
<1>1. n \in Nat /\ UNCHANGED <<nextmem, taken>>
  BY HeapAssumption DEF chHeapAlloc
<1>2. N \in Nat /\ DOMAIN h_free = 1..N /\ h_free \in Seq(Piece) /\ Ordered(h_free)
  BY DEF HeapInv
<1>3. CASE fits = {}
  <2>1. UNCHANGED <<h_free, given>> /\ asking' = [asking EXCEPT ![u] = n]
    BY <1>3 DEF chHeapAlloc
  <2>2. asking' \in [User -> BlockSize \cup {0}]
    BY <2>1 DEF HeapInv
  <2>3. FreeBlocks' = FreeBlocks
    BY <2>1 DEF FreeBlocks
  <2> QED
    BY <1>1, <2>1, <2>2, <2>3 DEF HeapInv
<1>4. CASE fits # {}
  <2> DEFINE b == h_free[i]
             A == SubSeq(h_free, 1, i - 1)
             C == SubSeq(h_free, i + 1, N)
             K == Kept(b, n)
             c == Cut(b, n)
  <2>1. h_free' = A \o K \o C /\ given' = given \cup {c} /\ UNCHANGED asking
    BY <1>4 DEF chHeapAlloc
  <2>2. i \in 1..N
    <3>1. fits \in SUBSET Nat
      BY <1>2
    <3> HIDE DEF fits
    <3>2. i \in fits
      BY <1>4, <3>1, LeastIs
    <3> QED
      BY <1>2, <3>2 DEF fits
  <2> HIDE DEF fits, i
  <2>3. i - 1 \in 0..N /\ 1 \in 1..N + 1 /\ i + 1 \in 1..N + 1 /\ N \in 0..N
    BY <1>2, <2>2
  <2>4. A \in Seq(Piece) /\ Ordered(A) /\ Pieces(A) = {h_free[j] : j \in 1..i - 1}
    BY <1>2, <2>3, PartOf
  <2>5. C \in Seq(Piece) /\ Ordered(C) /\ Pieces(C) = {h_free[j] : j \in i + 1..N}
    BY <1>2, <2>3, PartOf
  <2> HIDE DEF N
  <2>6. b \in Piece /\ \A j \in 1..N : h_free[j] \in Piece
    BY <1>2, <2>2
  <2>7. FreeBlocks = Pieces(A) \cup {b} \cup Pieces(C)
    <3>1. \A j \in 1..N : j \in 1..i - 1 \/ j = i \/ j \in i + 1..N
      BY <1>2, <2>2
    <3>2. \A j \in 1..i - 1 : j \in 1..N
      BY <1>2, <2>2
    <3>3. \A j \in i + 1..N : j \in 1..N
      BY <1>2, <2>2
    <3>4. FreeBlocks = {h_free[j] : j \in 1..N}
      BY <1>2 DEF FreeBlocks
    <3> HIDE DEF A, C
    <3> QED
      BY <2>2, <2>4, <2>5, <3>1, <3>2, <3>3, <3>4
  <2>8. \A a \in Pieces(A) : LIMIT(a) < b.at
    <3>1. ASSUME NEW j \in 1..i - 1 PROVE LIMIT(h_free[j]) < h_free[i].at
      <4>1. j \in 1..N /\ j < i
        BY <1>2, <2>2
      <4> QED
        BY <1>2, <2>2, <4>1 DEF Ordered
    <3> QED
      BY <2>4, <3>1
  <2>9. \A w \in Pieces(C) : LIMIT(b) < w.at
    <3>1. ASSUME NEW j \in i + 1..N PROVE LIMIT(h_free[i]) < h_free[j].at
      <4>1. j \in 1..N /\ i < j
        BY <1>2, <2>2
      <4> QED
        BY <1>2, <2>2, <4>1 DEF Ordered
    <3> QED
      BY <2>5, <3>1
  <2> HIDE DEF A, C
  <2>10. Whole(given \cup FreeBlocks, taken, nextmem) /\ given \cap FreeBlocks = {}
    BY DEF HeapInv
  <2> DEFINE F == Pieces(A) \cup {b} \cup Pieces(C)
             B == given \cup F
  <2>11. Whole(B, taken, nextmem) /\ given \cap F = {} /\ b \in B
    BY <2>7, <2>10
  <2> HIDE DEF b
  <2>12. \A x \in Pieces(A) \cup Pieces(C) : x \in Piece
    BY <2>11 DEF Whole
  <2>13. b.at \in Nat /\ LIMIT(b) \in Nat /\ b.at < LIMIT(b)
    BY <2>6, Limits
  <2>14. \A x \in Pieces(A) \cup Pieces(C) : x.at \in Nat /\ LIMIT(x) \in Nat /\ x.at < LIMIT(x)
    BY <2>12, Limits
  <2>15. b \notin Pieces(A) \cup Pieces(C)
    BY <2>8, <2>9, <2>13, <2>14
  <2>16. \A a \in Pieces(A), w \in Pieces(C) : LIMIT(a) < w.at
    BY <2>8, <2>9, <2>13, <2>14
  <2> DEFINE S == A \o K \o C
             Right(Q, g) == /\ Q \in Seq(Piece) /\ Ordered(Q)
                            /\ Whole(g \cup Pieces(Q), taken, nextmem)
                            /\ g \cap Pieces(Q) = {}
  <2>17. ASSUME b.size < n + Header PROVE Right(S, given \cup {c})
    <3>1. c = b /\ K = <<>>
      BY <1>1, <2>6, <2>17, CutIs
    <3>2. A \o K = A
      BY <2>4, <3>1
    <3>3. A \o C \in Seq(Piece) /\ Ordered(A \o C) /\ Pieces(A \o C) = Pieces(A) \cup Pieces(C)
      BY <2>4, <2>5, <2>16, PutTogether
    <3>4. (given \cup {b}) \cup (Pieces(A) \cup Pieces(C)) = B
      OBVIOUS
    <3>5. (given \cup {b}) \cap (Pieces(A) \cup Pieces(C)) = {}
      BY <2>11, <2>15
    <3> HIDE DEF B, F, K, c
    <3>6. S = A \o C
      BY <3>2
    <3> DEFINE R == A \o C
    <3> HIDE DEF R
    <3>7. Right(R, given \cup {b})
      BY <2>11, <3>3, <3>4, <3>5 DEF R
    <3> HIDE DEF S, Right
    <3> QED
      BY <3>1, <3>6, <3>7 DEF R
  <2>18. ASSUME ~(b.size < n + Header) PROVE Right(S, given \cup {c})
    <3>1. PICK r \in Piece :
            /\ K = <<r>> /\ c \in Piece /\ c.at = b.at
            /\ LIMIT(c) = r.at /\ LIMIT(r) = LIMIT(b)
      BY <1>1, <2>6, <2>18, CutIs
    <3> HIDE DEF K, c
    <3>2. <<r>> \in Seq(Piece) /\ Ordered(<<r>>) /\ Pieces(<<r>>) = {r}
      BY <3>1, OnePiece
    <3>3. c.at < LIMIT(c) /\ r.at < LIMIT(r) /\ r.at \in Nat /\ LIMIT(r) \in Nat
      BY <3>1, Limits
    <3>4. \A a \in Pieces(A) : LIMIT(a) < r.at
      BY <2>8, <2>13, <2>14, <3>1, <3>3
    <3>5. A \o K \in Seq(Piece) /\ Ordered(A \o K) /\ Pieces(A \o K) = Pieces(A) \cup {r}
      <4> DEFINE one == <<r>>
      <4> HIDE DEF one
      <4>1. A \o one \in Seq(Piece) /\ Ordered(A \o one) /\ Pieces(A \o one) = Pieces(A) \cup Pieces(one)
        BY <2>4, <3>2, <3>4, PutTogether DEF one
      <4> QED
        BY <3>1, <3>2, <4>1 DEF one
    <3>6. \A a \in Pieces(A \o K), w \in Pieces(C) : LIMIT(a) < w.at
      BY <2>9, <2>16, <3>1, <3>5
    <3> DEFINE AK == A \o K
    <3> HIDE DEF AK
    <3>7. /\ AK \o C \in Seq(Piece) /\ Ordered(AK \o C)
          /\ Pieces(AK \o C) = (Pieces(A) \cup {r}) \cup Pieces(C)
      BY <2>5, <3>5, <3>6, PutTogether DEF AK
    <3>8. Whole((B \ {b}) \cup {c, r}, taken, nextmem)
      <4> HIDE DEF B
      <4> QED
        BY <2>11, <3>1, CutWhole
    <3>9. b \notin given
      BY <2>11
    <3>10. (B \ {b}) \cup {c, r} = (given \cup {c}) \cup ((Pieces(A) \cup {r}) \cup Pieces(C))
      BY <2>15, <3>9
    <3>11. c \notin Pieces(A) \cup Pieces(C) /\ c # r
      <4>1. ASSUME c \in Pieces(A) \cup Pieces(C) PROVE FALSE
        <5>1. c \in B
          BY <4>1
        <5> HIDE DEF B
        <5>2. c = b
          BY <2>11, <3>1, <5>1, SameAt
        <5> QED
          BY <2>15, <4>1, <5>2
      <4> QED
        BY <2>13, <3>1, <3>3, <4>1
    <3>12. r \notin given
      <4>1. ASSUME r \in given PROVE FALSE
        <5>1. r \in B /\ r # b
          BY <3>9, <4>1
        <5>2. Apart(r, b)
          BY <2>11, <5>1 DEF Whole
        <5> QED
          BY <2>13, <3>1, <3>3, <5>2 DEF Apart
      <4> QED
        BY <4>1
    <3>13. (given \cup {c}) \cap ((Pieces(A) \cup {r}) \cup Pieces(C)) = {}
      BY <2>11, <3>11, <3>12
    <3> DEFINE R == AK \o C
    <3> HIDE DEF R, B, F
    <3>14. Right(R, given \cup {c})
      BY <3>7, <3>8, <3>10, <3>13 DEF R
    <3>15. S = R
      BY DEF R, AK
    <3> HIDE DEF S, Right
    <3> QED
      BY <3>14, <3>15
  <2> HIDE DEF S, Right
  <2>19. Right(S, given \cup {c})
    BY <2>17, <2>18
  <2>20. FreeBlocks' = Pieces(h_free')
    BY DEF FreeBlocks, Pieces
  <2> HIDE DEF K, c
  <2>21. /\ h_free' \in Seq(Piece) /\ Ordered(h_free')
         /\ Whole(given' \cup Pieces(h_free'), taken, nextmem)
         /\ given' \cap Pieces(h_free') = {}
    BY <2>1, <2>19 DEF S, Right
  <2> QED
    BY <1>1, <2>1, <2>20, <2>21 DEF HeapInv
<1> QED
  BY <1>3, <1>4

(* The core grows at its end, by a block of the heap or in other use.      *)
LEMMA GrowBlock ==
  ASSUME NEW B, NEW T, NEW n, Whole(B, T, n), NEW b \in Piece, b.at = n
  PROVE  Whole(B \cup {b}, T, LIMIT(b))
<1>1. n \in Nat /\ LIMIT(b) \in Nat /\ n < LIMIT(b) /\ T \subseteq 0..n - 1
  BY Limits DEF Whole
<1>2. \A c \in B : c \in Piece /\ LIMIT(c) <= n
  BY DEF Whole
<1>3. \A c \in B : LIMIT(c) \in Nat
  BY <1>2, Limits
<1>4. \A c \in B : Apart(b, c) /\ Apart(c, b) /\ LIMIT(c) <= LIMIT(b)
  BY <1>1, <1>2, <1>3 DEF Apart
<1>5. \A c, e \in B \cup {b} : c # e => Apart(c, e)
  BY <1>4 DEF Whole
<1>6. \A x \in 0..LIMIT(b) - 1 : x \in T \/ \E c \in B \cup {b} : Covers(c, x)
  <2>1. ASSUME NEW x \in 0..LIMIT(b) - 1 PROVE x \in T \/ \E c \in B \cup {b} : Covers(c, x)
    <3>1. CASE x \in 0..n - 1
      BY <3>1 DEF Whole
    <3>2. CASE x \notin 0..n - 1
      <4>1. Covers(b, x)
        BY <1>1, <2>1, <3>2 DEF Covers
      <4> QED
        BY <4>1
    <3> QED
      BY <3>1, <3>2
  <2> QED
    BY <2>1
<1>7. \A x \in T : ~Covers(b, x)
  BY <1>1 DEF Covers
<1>8. \A c \in B \cup {b}, x \in T : ~Covers(c, x)
  BY <1>7 DEF Whole
<1>9. B \cup {b} \subseteq Piece /\ T \subseteq 0..LIMIT(b) - 1
  BY <1>1, <1>2
<1> QED
  BY <1>1, <1>4, <1>5, <1>6, <1>8, <1>9 DEF Whole

LEMMA GrowTaken ==
  ASSUME NEW B, NEW T, NEW n, Whole(B, T, n)
  PROVE  Whole(B, T \cup {n}, n + 1)
<1>1. n \in Nat /\ T \subseteq 0..n - 1 /\ 0..(n + 1) - 1 = (0..n - 1) \cup {n}
  BY DEF Whole
<1>2. \A c \in B : LIMIT(c) \in Nat /\ LIMIT(c) <= n
  <2>1. \A c \in B : c \in Piece /\ LIMIT(c) <= n
    BY DEF Whole
  <2> QED
    BY <2>1, Limits
<1>3. \A c \in B : ~Covers(c, n) /\ LIMIT(c) <= n + 1
  BY <1>1, <1>2 DEF Covers
<1> QED
  BY <1>1, <1>2, <1>3 DEF Whole

LEMMA CoreWhole ==
  ASSUME HeapInv
  PROVE  /\ \A u \in User : AskCore(u) => HeapInv'
         /\ chCoreAlloc(1) => HeapInv'
<1>1. nextmem \in Nat /\ nextmem <= CoreSize /\ CoreSize \in Nat
  BY HeaderNat DEF HeapInv
<1>2. ASSUME NEW u \in User, AskCore(u) PROVE HeapInv'
  <2> DEFINE n == asking[u]
             b == [at |-> nextmem, size |-> n]
  <2>1. n \in Nat /\ asking' \in [User -> BlockSize \cup {0}] /\ UNCHANGED <<h_free, taken>>
    BY <1>2, HeapAssumption DEF AskCore, HeapInv
  <2>2. FreeBlocks' = FreeBlocks
    BY <2>1 DEF FreeBlocks
  <2>3. CASE UNCHANGED <<given, nextmem>>
    BY <2>1, <2>2, <2>3 DEF HeapInv
  <2>4. CASE /\ n + Header <= CoreSize - nextmem /\ nextmem' = nextmem + (n + Header)
             /\ given' = given \cup {b}
    <3>1. b \in Piece /\ b.at = nextmem /\ b.size = n
      BY <1>1, <2>1 DEF Piece
    <3> HIDE DEF b, n
    <3>2. LIMIT(b) = nextmem'
      BY <1>1, <2>1, <2>4, <3>1, HeaderNat DEF LIMIT
    <3>3. nextmem' \in 0..CoreSize
      BY <1>1, <2>1, <2>4, HeaderNat
    <3> DEFINE B == given \cup FreeBlocks
    <3>4. Whole(B, taken, nextmem)
      BY DEF HeapInv
    <3>5. b \notin B
      <4>1. ASSUME b \in B PROVE FALSE
        <5>1. LIMIT(b) <= nextmem
          BY <3>4, <4>1 DEF Whole
        <5> QED
          BY <1>1, <2>1, <2>4, <3>2, <5>1, HeaderNat
      <4> QED
        BY <4>1
    <3>6. (given \cup {b}) \cap FreeBlocks = {}
      BY <3>5 DEF HeapInv
    <3>7. (given \cup {b}) \cup FreeBlocks = B \cup {b}
      OBVIOUS
    <3> HIDE DEF B
    <3>8. Whole(B \cup {b}, taken, LIMIT(b))
      BY <3>1, <3>4, GrowBlock
    <3>9. Whole((given \cup {b}) \cup FreeBlocks, taken, nextmem')
      BY <3>2, <3>7, <3>8
    <3> QED
      BY <2>1, <2>2, <2>4, <3>3, <3>6, <3>9 DEF HeapInv
  <2> QED
    BY <1>2, <2>3, <2>4 DEF AskCore, chCoreAllocI, chCoreStatus
<1>3. ASSUME chCoreAlloc(1) PROVE HeapInv'
  <2>1. /\ 1 <= CoreSize - nextmem /\ nextmem' = nextmem + 1
        /\ taken' = taken \cup nextmem..nextmem + 1 - 1 /\ UNCHANGED <<h_free, asking, given>>
    BY <1>3 DEF chCoreAlloc, chCoreAllocI, chCoreStatus
  <2>2. nextmem..nextmem + 1 - 1 = {nextmem} /\ nextmem' \in 0..CoreSize
    BY <1>1, <2>1
  <2>3. FreeBlocks' = FreeBlocks
    BY <2>1 DEF FreeBlocks
  <2> DEFINE B == given \cup FreeBlocks
  <2>4. Whole(B, taken, nextmem)
    BY DEF HeapInv
  <2> HIDE DEF B
  <2>5. Whole(B, taken \cup {nextmem}, nextmem + 1)
    BY <2>4, GrowTaken
  <2> QED
    BY <2>1, <2>2, <2>3, <2>5 DEF HeapInv, B
<1> QED
  BY <1>2, <1>3

LEMMA HeapStart ==
  ASSUME HeapInit
  PROVE  HeapInv
<1>1. /\ asking = [u \in User |-> 0] /\ given = {} /\ taken = {}
      /\ asking \in [User -> BlockSize \cup {0}]
  BY DEF HeapInit
<1>2. CASE h_free = <<>> /\ nextmem = 0
  <2>1. FreeBlocks = {} /\ h_free \in Seq(Piece) /\ Ordered(h_free) /\ nextmem \in 0..CoreSize
    BY <1>2, HeaderNat DEF FreeBlocks, Ordered
  <2>2. Whole({}, {}, 0)
    BY DEF Whole
  <2> QED
    BY <1>1, <1>2, <2>1, <2>2 DEF HeapInv
<1>3. CASE h_free = <<[at |-> 0, size |-> CoreSize - Header]>> /\ nextmem = CoreSize
  <2> DEFINE b == [at |-> 0, size |-> CoreSize - Header]
  <2>1. b \in Piece /\ b.at = 0 /\ b.size = CoreSize - Header
    BY HeaderNat DEF Piece
  <2>2. h_free = <<b>>
    BY <1>3
  <2> HIDE DEF b
  <2>3. LIMIT(b) = CoreSize
    BY <2>1, HeaderNat DEF LIMIT
  <2>4. h_free \in Seq(Piece) /\ Ordered(h_free) /\ FreeBlocks = {b}
    <3>1. FreeBlocks = Pieces(h_free)
      BY DEF FreeBlocks, Pieces
    <3> QED
      BY <2>1, <2>2, <3>1, OnePiece
  <2>5. Whole({b}, {}, CoreSize)
    BY <2>1, <2>3, HeaderNat DEF Whole, Covers
  <2>6. nextmem \in 0..CoreSize
    BY <1>3, HeaderNat
  <2> QED
    BY <1>1, <1>3, <2>4, <2>5, <2>6 DEF HeapInv
<1> QED
  BY <1>2, <1>3 DEF HeapInit

LEMMA HeapStep ==
  ASSUME HeapInv, HeapCalls \/ UNCHANGED heapVars
  PROVE  HeapInv'
<1>1. ASSUME NEW u \in User, AskCore(u) PROVE HeapInv'
  BY <1>1, CoreWhole
<1>2. ASSUME NEW u \in User, NEW n \in BlockSize, chHeapAlloc(u, n) PROVE HeapInv'
  BY <1>2, AllocWhole
<1>3. ASSUME NEW b \in given, chHeapFree(b) PROVE HeapInv'
  BY <1>3, FreeWhole
<1>4. ASSUME chCoreAlloc(1) PROVE HeapInv'
  BY <1>4, CoreWhole
<1>5. ASSUME UNCHANGED heapVars PROVE HeapInv'
  BY <1>5 DEF heapVars, HeapInv, FreeBlocks
<1> QED
  BY <1>1, <1>2, <1>3, <1>4, <1>5 DEF HeapCalls

(* The bytes of a block, counted.                                          *)
LEMMA BytesAre ==
  ASSUME NEW b \in Piece
  PROVE  /\ Bytes(b) \subseteq Nat /\ IsFiniteSet(Bytes(b))
         /\ Cardinality(Bytes(b)) = b.size + Header
         /\ \A x \in Nat : x \in Bytes(b) <=> Covers(b, x)
<1>1. b.at \in Nat /\ b.size \in Nat /\ LIMIT(b) = b.at + Header + b.size
  BY Limits DEF LIMIT
<1>2. LIMIT(b) \in Nat /\ LIMIT(b) - 1 \in Int /\ b.at \in Int /\ ~(b.at > LIMIT(b) - 1)
      /\ (LIMIT(b) - 1) - b.at + 1 = b.size + Header
  BY <1>1, HeaderNat
<1> DEFINE l == LIMIT(b) - 1
<1> HIDE DEF l
<1>3. IsFiniteSet(b.at..l) /\ Cardinality(b.at..l) = IF b.at > l THEN 0 ELSE l - b.at + 1
  BY <1>2, FS_Interval DEF l
<1>4. Bytes(b) = b.at..l
  BY DEF Bytes, l
<1>5. Bytes(b) \subseteq Nat /\ \A x \in Nat : x \in Bytes(b) <=> Covers(b, x)
  BY <1>1, <1>2, <1>4 DEF Covers, l
<1> QED
  BY <1>2, <1>3, <1>4, <1>5 DEF l

LEMMA ApartBytes ==
  ASSUME NEW b \in Piece, NEW c \in Piece, Apart(b, c)
  PROVE  Bytes(b) \cap Bytes(c) = {}
<1>1. ASSUME NEW x \in Bytes(b), x \in Bytes(c) PROVE FALSE
  <2>1. x \in Nat /\ Covers(b, x) /\ Covers(c, x)
    BY <1>1, BytesAre
  <2> QED
    BY <2>1, Limits DEF Apart, Covers
<1> QED
  BY <1>1

(* What the loop of chHeapStatus has counted after i free blocks is what   *)
(* they cover, without their headers.                                      *)
FirstFree(i) == {h_free[j] : j \in 1..i}
CountedSizes(f) ==
  f = [i \in 0..Len(h_free) |-> IF i = 0 THEN 0 ELSE f[i - 1] + h_free[i].size]

LEMMA FirstBytes ==
  ASSUME HeapInv
  PROVE  /\ BytesOf(FirstFree(0)) = {}
         /\ \A i \in 1..Len(h_free) :
              /\ BytesOf(FirstFree(i)) = BytesOf(FirstFree(i - 1)) \cup Bytes(h_free[i])
              /\ BytesOf(FirstFree(i - 1)) \cap Bytes(h_free[i]) = {}
<1> DEFINE n == Len(h_free)
<1>1. n \in Nat /\ DOMAIN h_free = 1..n /\ \A i \in 1..n : h_free[i] \in Piece
  BY DEF HeapInv
<1> HIDE DEF n
<1>2. BytesOf(FirstFree(0)) = {}
  BY DEF BytesOf, FirstFree
<1>3. ASSUME NEW i \in 1..n
      PROVE  /\ BytesOf(FirstFree(i)) = BytesOf(FirstFree(i - 1)) \cup Bytes(h_free[i])
             /\ BytesOf(FirstFree(i - 1)) \cap Bytes(h_free[i]) = {}
  <2>1. /\ i \in 1..i /\ \A j \in 1..i : j = i \/ j \in 1..i - 1
        /\ \A j \in 1..i - 1 : j \in 1..i /\ j \in 1..n /\ j < i
    BY <1>1
  <2>2. FirstFree(i) = FirstFree(i - 1) \cup {h_free[i]}
    BY <2>1 DEF FirstFree
  <2>3. BytesOf(FirstFree(i)) = BytesOf(FirstFree(i - 1)) \cup Bytes(h_free[i])
    BY <2>2 DEF BytesOf
  <2>4. ASSUME NEW j \in 1..i - 1 PROVE Bytes(h_free[j]) \cap Bytes(h_free[i]) = {}
    <3>1. h_free[j] \in Piece /\ h_free[i] \in Piece /\ LIMIT(h_free[j]) < h_free[i].at
      BY <1>1, <2>1 DEF HeapInv, Ordered
    <3>2. Apart(h_free[j], h_free[i])
      BY <3>1, Limits DEF Apart
    <3> QED
      BY <3>1, <3>2, ApartBytes
  <2>5. BytesOf(FirstFree(i - 1)) \cap Bytes(h_free[i]) = {}
    BY <2>4 DEF BytesOf, FirstFree
  <2> QED
    BY <2>3, <2>5
<1> QED
  BY <1>2, <1>3 DEF n

LEMMA CountedIs ==
  ASSUME HeapInv
  PROVE  /\ \A i \in 0..Len(h_free) : IsFiniteSet(BytesOf(FirstFree(i)))
         /\ \E f : CountedSizes(f)
         /\ \A f : CountedSizes(f) => f[Len(h_free)] + Len(h_free) * Header
                                   = Cardinality(BytesOf(FreeBlocks))
<1> DEFINE n == Len(h_free)
           P(i) == BytesOf(FirstFree(i))
           T == {i \in Nat : i <= n => IsFiniteSet(P(i))}
<1>1. n \in Nat /\ DOMAIN h_free = 1..n /\ \A i \in 1..n : h_free[i] \in Piece
  BY DEF HeapInv
<1>2. /\ P(0) = {}
      /\ \A i \in 1..n : P(i) = P(i - 1) \cup Bytes(h_free[i]) /\ P(i - 1) \cap Bytes(h_free[i]) = {}
  BY FirstBytes
<1>3. \A i \in 1..n : IsFiniteSet(Bytes(h_free[i])) /\ h_free[i].size \in Nat
                      /\ Cardinality(Bytes(h_free[i])) = h_free[i].size + Header
  BY <1>1, BytesAre, Limits
<1>4. P(n) = BytesOf(FreeBlocks)
  BY <1>1 DEF FirstFree, FreeBlocks
<1> HIDE DEF n, P
<1>5. \A i \in T : i + 1 \in T
  <2> SUFFICES ASSUME NEW i \in Nat, i + 1 <= n, IsFiniteSet(P(i)) PROVE IsFiniteSet(P(i + 1))
    BY <1>1
  <2>1. i + 1 \in 1..n /\ (i + 1) - 1 = i
    BY <1>1
  <2>2. P(i + 1) = P(i) \cup Bytes(h_free[i + 1]) /\ IsFiniteSet(Bytes(h_free[i + 1]))
    BY <1>2, <1>3, <2>1
  <2> DEFINE X == P(i)
             Y == Bytes(h_free[i + 1])
  <2>3. IsFiniteSet(X) /\ IsFiniteSet(Y) /\ P(i + 1) = X \cup Y
    BY <2>2
  <2> HIDE DEF X, Y
  <2>4. IsFiniteSet(X \cup Y)
    BY <2>3, FS_Union
  <2> QED
    BY <2>3, <2>4
<1>6. T \in SUBSET Nat /\ 0 \in T
  BY <1>2, FS_EmptySet
<1> HIDE DEF T
<1>7. T = Nat
  BY <1>5, <1>6, SetInduction
<1>8. \A i \in 0..n : IsFiniteSet(P(i))
  BY <1>1, <1>7 DEF T
<1> DEFINE c == [i \in 0..n |-> Cardinality(P(i)) - i * Header]
<1>9. ASSUME NEW i \in 1..n
      PROVE  Cardinality(P(i)) = Cardinality(P(i - 1)) + (h_free[i].size + Header)
  <2>1. i - 1 \in 0..n
    BY <1>1
  <2>2. IsFiniteSet(P(i - 1)) /\ IsFiniteSet(Bytes(h_free[i]))
    BY <1>3, <1>8, <2>1
  <2> DEFINE X == P(i - 1)
             Y == Bytes(h_free[i])
  <2>3. /\ IsFiniteSet(X) /\ IsFiniteSet(Y) /\ X \cap Y = {} /\ P(i) = X \cup Y
        /\ Cardinality(Y) = h_free[i].size + Header /\ h_free[i].size \in Nat
    BY <1>2, <1>3, <2>2
  <2> HIDE DEF X, Y
  <2>4. Cardinality(X \cup Y) = Cardinality(X) + Cardinality(Y)
    <3>1. Cardinality(X \cup Y) = Cardinality(X) + Cardinality(Y) - Cardinality(X \cap Y)
      BY <2>3, FS_Union
    <3>2. Cardinality(X) \in Nat /\ Cardinality(Y) \in Nat
      BY <2>3, FS_CardinalityType
    <3>3. Cardinality({}) = 0
      BY FS_EmptySet, Zenon
    <3>4. Cardinality(X \cap Y) = 0
      BY <2>3, <3>3
    <3> QED
      BY <3>1, <3>2, <3>4
  <2> QED
    BY <2>3, <2>4 DEF X, Y
<1>10. \A i \in 0..n : Cardinality(P(i)) \in Nat
  BY <1>8, FS_CardinalityType
<1>11. ASSUME NEW i \in 0..n
       PROVE  c[i] = IF i = 0 THEN 0 ELSE c[i - 1] + h_free[i].size
  <2>1. CASE i = 0
    BY <1>2, <2>1, FS_EmptySet, HeaderNat
  <2>2. CASE i # 0
    <3>1. i \in 1..n /\ i - 1 \in 0..n
      BY <1>1, <2>2
    <3>2. c[i] = Cardinality(P(i)) - i * Header /\ c[i - 1] = Cardinality(P(i - 1)) - (i - 1) * Header
      BY <3>1
    <3>3. (i - 1) * Header = i * Header - Header /\ i * Header \in Nat
      BY <1>1, <3>1, HeaderNat
    <3>4. Cardinality(P(i - 1)) \in Nat /\ Cardinality(P(i)) \in Nat /\ h_free[i].size \in Nat
      BY <1>3, <1>10, <3>1
    <3> HIDE DEF c
    <3> DEFINE y == i * Header
               z == (i - 1) * Header
               p == Cardinality(P(i))
               q == Cardinality(P(i - 1))
    <3>5. /\ c[i] = p - y /\ c[i - 1] = q - z /\ z = y - Header /\ y \in Nat /\ p \in Nat /\ q \in Nat
          /\ p = q + (h_free[i].size + Header) /\ h_free[i].size \in Nat /\ Header \in Nat
      BY <1>9, <3>1, <3>2, <3>3, <3>4, HeaderNat
    <3> HIDE DEF y, z, p, q
    <3>6. c[i] = c[i - 1] + h_free[i].size
      BY <3>5
    <3> QED
      BY <2>2, <3>6
  <2> QED
    BY <2>1, <2>2
<1>12. CountedSizes(c)
  <2>1. c = [i \in 0..n |-> IF i = 0 THEN 0 ELSE c[i - 1] + h_free[i].size]
    BY <1>11, Zenon
  <2> HIDE DEF c
  <2> QED
    BY <2>1 DEF CountedSizes, n
<1>13. c[n] = Cardinality(P(n)) - n * Header
  BY <1>1
<1> HIDE DEF c
<1>14. ASSUME NEW f, CountedSizes(f)
       PROVE  f[n] + n * Header = Cardinality(P(n))
  <2> DEFINE E == {i \in Nat : i <= n => f[i] = c[i]}
  <2>1. \A i \in 0..n : f[i] = IF i = 0 THEN 0 ELSE f[i - 1] + h_free[i].size
    <3>1. f = [i \in 0..n |-> IF i = 0 THEN 0 ELSE f[i - 1] + h_free[i].size]
      BY <1>14 DEF CountedSizes, n
    <3> QED
      BY <3>1, Zenon
  <2>2. \A i \in E : i + 1 \in E
    <3> SUFFICES ASSUME NEW i \in Nat, i + 1 <= n, f[i] = c[i] PROVE f[i + 1] = c[i + 1]
      BY <1>1
    <3>1. i + 1 \in 0..n /\ i + 1 # 0 /\ (i + 1) - 1 = i
      BY <1>1
    <3> QED
      BY <1>11, <2>1, <3>1
  <2>3. E \in SUBSET Nat /\ 0 \in E
    <3>1. 0 \in 0..n
      BY <1>1
    <3> QED
      BY <1>11, <2>1, <3>1
  <2> HIDE DEF E
  <2>4. E = Nat
    BY <2>2, <2>3, SetInduction
  <2>5. f[n] = c[n]
    BY <1>1, <2>4 DEF E
  <2>6. Cardinality(P(n)) \in Nat /\ n * Header \in Nat
    BY <1>1, <1>10, HeaderNat
  <2> QED
    BY <1>13, <2>5, <2>6
<1> QED
  BY <1>4, <1>8, <1>12, <1>14 DEF n, P

(* The blocks cover what the invariant says, byte by byte.                 *)
LEMMA WholeBytes ==
  ASSUME NEW B, NEW T, NEW n, Whole(B, T, n)
  PROVE  /\ BytesOf(B) \cup T = 0..n - 1 /\ BytesOf(B) \cap T = {}
         /\ \A b, c \in B : b # c => Bytes(b) \cap Bytes(c) = {}
<1>1. \A b \in B : b \in Piece
  BY DEF Whole
<1>2. n \in Nat /\ T \subseteq 0..n - 1
  BY DEF Whole
<1>3. \A b, c \in B : b # c => Bytes(b) \cap Bytes(c) = {}
  <2>1. \A b, c \in B : b # c => Apart(b, c)
    BY DEF Whole
  <2> QED
    BY <1>1, <2>1, ApartBytes
<1>4. ASSUME NEW x \in BytesOf(B) PROVE x \in 0..n - 1 /\ x \notin T
  <2>1. PICK b \in B : x \in Bytes(b)
    BY DEF BytesOf
  <2>2. b \in Piece /\ x \in Nat /\ Covers(b, x) /\ LIMIT(b) <= n
    BY <1>1, <2>1, BytesAre DEF Whole
  <2>3. x \notin T
    BY <2>2 DEF Whole
  <2> QED
    BY <1>2, <2>2, <2>3, Limits DEF Covers
<1>5. ASSUME NEW x \in 0..n - 1, x \notin T PROVE x \in BytesOf(B)
  <2>1. PICK b \in B : Covers(b, x)
    BY <1>5 DEF Whole
  <2>2. x \in Bytes(b)
    BY <1>1, <2>1, BytesAre
  <2> QED
    BY <2>2 DEF BytesOf
<1> QED
  BY <1>2, <1>3, <1>4, <1>5

LEMMA HeapTyped ==
  ASSUME HeapInv
  PROVE  HeapTypeOK
<1>1. CoreSize \in Nat /\ nextmem \in Nat /\ nextmem <= CoreSize
  BY HeaderNat DEF HeapInv
<1>2. ASSUME NEW b \in given \cup FreeBlocks PROVE b \in Block
  <2>1. b \in Piece /\ LIMIT(b) <= nextmem
    BY DEF HeapInv, Whole
  <2>2. b.at \in Nat /\ b.size \in Nat /\ LIMIT(b) = b.at + Header + b.size
    BY <2>1, Limits DEF LIMIT
  <2>3. b.at \in 0..CoreSize /\ b.size \in 0..CoreSize
    BY <1>1, <2>1, <2>2, HeaderNat
  <2> QED
    BY <2>1, <2>3 DEF Piece, Block
<1>3. h_free \in Seq(Block)
  <2>1. \A i \in DOMAIN h_free : h_free[i] \in FreeBlocks
    BY DEF FreeBlocks
  <2>2. \A i \in 1..Len(h_free) : h_free[i] \in Block
    BY <1>2, <2>1 DEF HeapInv
  <2>3. h_free \in Seq(Piece)
    BY DEF HeapInv
  <2> QED
    BY <2>2, <2>3
<1>4. taken \subseteq 0..CoreSize - 1
  <2>1. taken \subseteq 0..nextmem - 1
    BY DEF HeapInv, Whole
  <2> QED
    BY <1>1, <2>1
<1> QED
  BY <1>2, <1>3, <1>4 DEF HeapTypeOK, HeapInv

(* Three sets that have nothing in common and fill the first n numbers.    *)
LEMMA ThreeParts ==
  ASSUME NEW n \in Nat, NEW A, NEW B, NEW C, A \cup B \cup C = 0..n - 1,
         A \cap B = {}, (A \cup B) \cap C = {}
  PROVE  /\ n = Cardinality(A) + Cardinality(B) + Cardinality(C)
         /\ Cardinality(A) \in Nat /\ Cardinality(B) \in Nat /\ Cardinality(C) \in Nat
<1> DEFINE N == 0..n - 1
<1>1. IsFiniteSet(N) /\ Cardinality(N) = n
  <2>1. 0 \in Int /\ n - 1 \in Int
    OBVIOUS
  <2>2. IsFiniteSet(N) /\ Cardinality(N) = IF 0 > n - 1 THEN 0 ELSE (n - 1) - 0 + 1
    BY <2>1, FS_Interval, Zenon
  <2> QED
    BY <2>2
<1>2. A \in SUBSET N /\ B \in SUBSET N /\ C \in SUBSET N /\ (A \cup B) \cup C = N
  OBVIOUS
<1> HIDE DEF N
<1>3. IsFiniteSet(A) /\ IsFiniteSet(B) /\ IsFiniteSet(C)
  BY <1>1, <1>2, FS_Subset, Zenon
<1>4. Cardinality(A) \in Nat /\ Cardinality(B) \in Nat /\ Cardinality(C) \in Nat
  BY <1>3, FS_CardinalityType
<1>5. Cardinality({}) = 0
  BY FS_EmptySet, Zenon
<1>6. IsFiniteSet(A \cup B) /\ Cardinality(A \cup B) = Cardinality(A) + Cardinality(B)
  <2>1. Cardinality(A \cup B) = Cardinality(A) + Cardinality(B) - Cardinality(A \cap B)
        /\ IsFiniteSet(A \cup B)
    BY <1>3, FS_Union, Zenon
  <2>2. Cardinality(A \cap B) = 0
    BY <1>5
  <2> QED
    BY <1>4, <2>1, <2>2
<1> DEFINE AB == A \cup B
<1>7. IsFiniteSet(AB) /\ AB \cap C = {} /\ AB \cup C = N
      /\ Cardinality(AB) = Cardinality(A) + Cardinality(B)
  BY <1>2, <1>6
<1> HIDE DEF AB
<1>8. Cardinality(AB \cup C) = Cardinality(AB) + Cardinality(C) - Cardinality(AB \cap C)
  BY <1>3, <1>7, FS_Union, Zenon
<1>9. Cardinality(AB \cap C) = 0 /\ Cardinality(AB \cup C) = n
  BY <1>1, <1>5, <1>7
<1> QED
  BY <1>4, <1>7, <1>8, <1>9

LEMMA HeapWhole ==
  ASSUME HeapInv
  PROVE  HeapIsWhole
<1>1. Whole(given \cup FreeBlocks, taken, nextmem) /\ given \cap FreeBlocks = {}
  BY DEF HeapInv
<1> DEFINE B == given \cup FreeBlocks
<1>2. /\ BytesOf(B) \cup taken = 0..nextmem - 1 /\ BytesOf(B) \cap taken = {}
      /\ \A b, c \in B : b # c => Bytes(b) \cap Bytes(c) = {}
  <2> HIDE DEF B
  <2> QED
    BY <1>1, WholeBytes DEF B
<1>3. \A i \in 1..Len(h_free) - 1 : LIMIT(h_free[i]) < h_free[i + 1].at
  <2>1. h_free \in Seq(Piece) /\ Ordered(h_free)
    BY DEF HeapInv
  <2>2. \A i \in 1..Len(h_free) - 1 : i \in DOMAIN h_free /\ i + 1 \in DOMAIN h_free /\ i < i + 1
    BY <2>1
  <2> QED
    BY <2>1, <2>2 DEF Ordered
<1>4. BytesOf(B) = BytesOf(given) \cup BytesOf(FreeBlocks)
  BY DEF BytesOf
<1>5. BytesOf(given) \cap BytesOf(FreeBlocks) = {}
  BY <1>1, <1>2 DEF BytesOf
<1>6. nextmem \in Nat
  BY DEF HeapInv
<1>7. /\ nextmem = Cardinality(BytesOf(given)) + Cardinality(BytesOf(FreeBlocks)) + Cardinality(taken)
      /\ Cardinality(BytesOf(given)) \in Nat /\ Cardinality(BytesOf(FreeBlocks)) \in Nat
      /\ Cardinality(taken) \in Nat
  <2> DEFINE X == BytesOf(given)
             Y == BytesOf(FreeBlocks)
  <2>1. X \cup Y \cup taken = 0..nextmem - 1 /\ X \cap Y = {} /\ (X \cup Y) \cap taken = {}
    BY <1>2, <1>4, <1>5
  <2> HIDE DEF X, Y
  <2> QED
    BY <1>6, <2>1, ThreeParts DEF X, Y
<1>8. chHeapStatus.size + chHeapStatus.n * Header = Cardinality(BytesOf(FreeBlocks))
  <2> DEFINE s == CHOOSE f : CountedSizes(f)
  <2>1. \E f : CountedSizes(f)
    BY CountedIs
  <2>2. CountedSizes(s)
    BY <2>1, Zenon
  <2>3. chHeapStatus = [n |-> Len(h_free), size |-> s[Len(h_free)]]
    BY DEF chHeapStatus, CountedSizes
  <2> HIDE DEF s
  <2>4. s[Len(h_free)] + Len(h_free) * Header = Cardinality(BytesOf(FreeBlocks))
    BY <2>2, CountedIs
  <2> QED
    BY <2>3, <2>4
<1>9. chHeapStatus.size + chHeapStatus.n * Header
        = nextmem - Cardinality(BytesOf(given)) - Cardinality(taken)
  BY <1>6, <1>7, <1>8
<1> QED
  BY <1>1, <1>2, <1>3, <1>9, HeapTyped DEF HeapIsWhole

(* For every size of the memory, of a header and of what is asked for, and *)
(* every number of threads: no byte of the heap is lost, no two blocks     *)
(* overlap, the free ones are in order and merged, and chHeapStatus counts *)
(* them.                                                                   *)
THEOREM HeapCorrect == Spec => []HeapIsWhole
<1>1. Init => HeapInv
  BY HeapStart DEF Init
<1>2. HeapInv /\ [Next]_vars => HeapInv'
  <2>1. [Next]_vars => HeapCalls \/ UNCHANGED heapVars
    BY DEF Next, vars
  <2> QED
    BY <2>1, HeapStep
<1>3. HeapInv => HeapIsWhole
  BY HeapWhole
<1> QED
  BY <1>1, <1>2, <1>3, PTL DEF Spec

(* The heap and the dynamic threads together are what the run checks.      *)
THEOREM MemoryCorrect ==
  ASSUME ~RegistryAnyTime
  PROVE  Spec => []MemoryIsWhole
<1>1. Spec => [](NothingFreedInUse /\ RegistryIsWhole)
  BY DynamicCorrect
<1>2. HeapIsWhole /\ (NothingFreedInUse /\ RegistryIsWhole) => MemoryIsWhole
  BY DEF MemoryIsWhole
<1> QED
  BY <1>1, <1>2, HeapCorrect, PTL

==============================================================================
