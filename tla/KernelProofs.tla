----------------------------- MODULE KernelProofs -----------------------------
(***************************************************************************)
(* The ChibiOS/RT kernel, for any threads, objects, priorities and times:  *)
(* semaphores, messages, events, mailboxes, I/O queues and mutexes keep    *)
(* its invariant, through every call, interrupt handler and tick, and what *)
(* follows from it.                                                        *)
(***************************************************************************)
EXTENDS KernelListProofs

(* Semaphores.                                                             *)
LEMMA AppendIs ==
  ASSUME NEW s \in Seq(Thread), NEW t \in Thread, NEW r, r = Append(s, t)
  PROVE  r \in Seq(Thread) /\ Members(r) = Members(s) \cup {t}
         /\ (Once(s) /\ t \notin Members(s) => Once(r)) /\ Len(r) = Len(s) + 1
<1>1. r \in Seq(Thread) /\ Len(r) = Len(s) + 1 /\ Len(s) \in Nat
  OBVIOUS
<1>2. r[Len(s) + 1] = t /\ \A i \in 1..Len(s) : r[i] = s[i]
  OBVIOUS
<1>3. DOMAIN r = 1..Len(s) + 1 /\ DOMAIN s = 1..Len(s)
  BY <1>1
<1>4. \A i \in 1..Len(s) + 1 : i = Len(s) + 1 \/ i \in 1..Len(s)
  BY <1>1
<1>5. Members(r) = Members(s) \cup {t}
  <2>1. \A x \in Members(s) : x \in Members(r)
    <3> SUFFICES ASSUME NEW i \in 1..Len(s)
                 PROVE  s[i] \in Members(r)
      BY <1>3 DEF Members
    <3>1. i \in 1..Len(s) + 1 /\ r[i] = s[i]
      BY <1>1, <1>2
    <3> QED
      BY <1>3, <3>1 DEF Members
  <2>2. t \in Members(r)
    BY <1>1, <1>2, <1>3 DEF Members
  <2>3. \A x \in Members(r) : x \in Members(s) \cup {t}
    BY <1>2, <1>3, <1>4 DEF Members
  <2> QED
    BY <2>1, <2>2, <2>3
<1>6. ASSUME Once(s), t \notin Members(s)
      PROVE  Once(r)
  <2>1. \A i \in 1..Len(s) : s[i] # t
    BY <1>3, <1>6 DEF Members
  <2> QED
    BY <1>2, <1>3, <1>4, <1>6, <2>1 DEF Once
<1> QED
  BY <1>1, <1>5, <1>6

(* A unit comes; the threads in T get it, or it stays.                     *)
Signalled(kk, r, s, T) ==
  /\ Listed(r, {}) /\ Counted(r)
  /\ r.prio = kk.prio /\ r.realprio = kk.realprio /\ r.vt = kk.vt /\ r.due = kk.due
  /\ T \subseteq Members(kk.q[s]) /\ (T = {} \/ \E t \in Thread : T = {t})
  /\ Units(r, s) = IF T = {} THEN Units(kk, s) + 1 ELSE Units(kk, s)
  /\ \A x \in Sem \ {s} : Units(r, x) = Units(kk, x)
  /\ Shrinks(kk, r) /\ \A o \in Object : Members(r.q[o]) \subseteq Members(kk.q[o])
  /\ \A u \in Thread : View(r)[u] = IF u \in T THEN "RUNS" ELSE View(kk)[u]
  /\ \A u \in Thread : r.msg[u] = IF u \in T THEN "OK" ELSE kk.msg[u]

OneMore(kk, s) == [kk EXCEPT !.cnt[s] = @ + 1]

(* A signal when nobody waits adds a unit.                                  *)
LEMMA OneMoreIs ==
  ASSUME NEW kk, Listed(kk, {}), Counted(kk), NEW s \in Sem, kk.cnt[s] >= 0
  PROVE  Signalled(kk, OneMore(kk, s), s, {}) /\ OneMore(kk, s).current = kk.current
<1> DEFINE c == [kk.cnt EXCEPT ![s] = @ + 1]
           r == OneMore(kk, s)
<1>1. kk \in KernelState /\ kk.cnt \in [Sem -> Int] /\ kk.cnt[s] \in Int
  BY KernelIs DEF Listed
<1>2. c \in [Sem -> Int] /\ \A x \in Sem : c[x] = IF x = s THEN kk.cnt[s] + 1 ELSE kk.cnt[x]
  BY <1>1
<1>3. r = [kk EXCEPT !.cnt = c]
  BY DEF OneMore
<1> HIDE DEF c, r
<1>4. /\ r \in KernelState /\ SameThreads(kk, r) /\ r.q = kk.q /\ r.cnt = c
      /\ r.realprio = kk.realprio /\ r.vt = kk.vt /\ r.due = kk.due /\ r.msg = kk.msg
  BY <1>1, <1>2, <1>3 DEF KernelState, SameThreads
<1>5. Listed(r, {}) /\ View(r) = View(kk)
  BY <1>4, SameListed
<1>6. Counted(r)
  <2> SUFFICES ASSUME NEW x \in Sem
               PROVE  Len(r.q[x]) = IF r.cnt[x] < 0 THEN -r.cnt[x] ELSE 0
    BY DEF Counted
  <2>1. Len(kk.q[x]) = IF kk.cnt[x] < 0 THEN -kk.cnt[x] ELSE 0
    BY DEF Counted
  <2> QED
    BY <1>1, <1>2, <1>4, <2>1
<1>7. Units(r, s) = Units(kk, s) + 1 /\ \A x \in Sem \ {s} : Units(r, x) = Units(kk, x)
  BY <1>1, <1>2, <1>4 DEF Units
<1>8. r.current = kk.current /\ r.prio = kk.prio
  BY <1>4 DEF SameThreads
<1>9. Shrinks(kk, r)
  BY <1>1, <1>4, KernelIs, ShrinksIs
<1>10. Signalled(kk, r, s, {})
  BY <1>4, <1>5, <1>6, <1>7, <1>8, <1>9 DEF Signalled
<1> QED
  BY <1>8, <1>10 DEF r

(* The first thread leaves the semaphore's queue, whichever way.           *)
FirstGoes(kk, e, s) ==
  /\ s \in Object /\ kk.q[s] # <<>> /\ Head(kk.q[s]) \in Thread /\ Counted(e)
  /\ \A x \in Sem : Units(e, x) = Units(kk, x)
  /\ Shrinks(kk, e) /\ \A o \in Object : Members(e.q[o]) \subseteq Members(kk.q[o])
  /\ Head(kk.q[s]) \in Members(kk.q[s])

(* When the first leaves the others come nearer.                            *)
LEMMA TailForward ==
  ASSUME NEW T, NEW s \in Seq(T), s # <<>>
  PROVE  Forward(s, Tail(s))
<1>1. /\ DOMAIN s = 1..Len(s) /\ Len(s) \in Nat /\ DOMAIN Tail(s) = 1..Len(s) - 1
      /\ \A i \in 1..Len(s) - 1 : Tail(s)[i] = s[i + 1]
  OBVIOUS
<1>2. \A i \in 1..Len(s) - 1 : i + 1 \in 1..Len(s) /\ i <= i + 1
  BY <1>1
<1> QED
  BY <1>1, <1>2 DEF Forward

(* A signal when threads wait takes the first of them off the queue, and    *)
(* the counter is the number of those left.                                 *)
LEMMA FirstGoneIs ==
  ASSUME NEW kk, Listed(kk, {}), Counted(kk), NEW s \in Sem, kk.cnt[s] < 0,
         NEW e \in KernelState, SameThreads(kk, e), e.q = [kk.q EXCEPT ![s] = Tail(kk.q[s])],
         e.cnt = [kk.cnt EXCEPT ![s] = @ + 1]
  PROVE  FirstGoes(kk, e, s)
<1>1. kk \in KernelState /\ kk.cnt \in [Sem -> Int] /\ kk.cnt[s] \in Int /\ s \in Object
      /\ kk.q \in [Object -> Seq(Thread)]
  BY KernelIs, ThreadAssumption DEF Listed
<1>2. kk.q[s] \in Seq(Thread) /\ Len(kk.q[s]) = -kk.cnt[s]
  BY <1>1 DEF Counted
<1>3. kk.q[s] # <<>>
  BY <1>1, <1>2
<1>4. /\ Tail(kk.q[s]) \in Seq(Thread) /\ Len(Tail(kk.q[s])) = Len(kk.q[s]) - 1
      /\ Head(kk.q[s]) \in Members(kk.q[s]) /\ Head(kk.q[s]) \in Thread
  BY <1>2, <1>3, TailPlaces
<1>5. Members(Tail(kk.q[s])) \subseteq Members(kk.q[s])
  <2>1. Once(kk.q[s])
    BY <1>1 DEF Listed, QueuesRight
  <2> QED
    BY <1>2, <1>3, <2>1, TailPlaces
<1>6. \A o \in Object : e.q[o] = IF o = s THEN Tail(kk.q[s]) ELSE kk.q[o]
  BY <1>1
<1>7. \A x \in Sem : e.cnt[x] = IF x = s THEN kk.cnt[s] + 1 ELSE kk.cnt[x]
  BY <1>1
<1>8. Counted(e)
  <2> SUFFICES ASSUME NEW x \in Sem
               PROVE  Len(e.q[x]) = IF e.cnt[x] < 0 THEN -e.cnt[x] ELSE 0
    BY DEF Counted
  <2>1. x \in Object /\ Len(kk.q[x]) = IF kk.cnt[x] < 0 THEN -kk.cnt[x] ELSE 0
    BY ThreadAssumption DEF Counted
  <2>2. CASE x = s
    BY <1>1, <1>2, <1>4, <1>6, <1>7, <2>1, <2>2
  <2>3. CASE x # s
    BY <1>6, <1>7, <2>1, <2>3
  <2> QED
    BY <2>2, <2>3
<1>9. \A x \in Sem : Units(e, x) = Units(kk, x)
  BY <1>1, <1>7 DEF Units
<1>10. Shrinks(kk, e)
  BY <1>1, <1>2, <1>3, <1>6, ForwardIs, TailForward DEF Shrinks
<1> QED
  BY <1>1, <1>3, <1>4, <1>5, <1>6, <1>8, <1>9, <1>10 DEF FirstGoes

(* chSemSignalI gives a unit to the first that waits or to the counter.     *)
LEMMA SignalIIs ==
  ASSUME NEW kk, Listed(kk, {}), Counted(kk), NEW s \in Sem
  PROVE  /\ \E T : Signalled(kk, chSemSignalI(kk, s), s, T)
         /\ chSemSignalI(kk, s).current = kk.current
<1>1. kk \in KernelState /\ kk.cnt \in [Sem -> Int] /\ kk.cnt[s] \in Int /\ s \in Object
      /\ kk.q \in [Object -> Seq(Thread)] /\ kk.msg \in [Thread -> Messages]
  BY KernelIs, ThreadAssumption DEF Listed
<1>2. OneMore(kk, s).cnt[s] = kk.cnt[s] + 1
  BY <1>1 DEF OneMore, KernelState
<1>3. CASE kk.cnt[s] >= 0
  <2>1. chSemSignalI(kk, s) = OneMore(kk, s)
    BY <1>1, <1>2, <1>3 DEF chSemSignalI, OneMore
  <2>2. Signalled(kk, OneMore(kk, s), s, {}) /\ OneMore(kk, s).current = kk.current
    BY <1>3, OneMoreIs
  <2> QED
    BY <2>1, <2>2
<1>4. CASE kk.cnt[s] < 0
  <2> DEFINE t == Head(kk.q[s])
             x == Tail(kk.q[s])
             c == [kk.cnt EXCEPT ![s] = @ + 1]
             w == [kk.q EXCEPT ![s] = x]
             n == [kk.msg EXCEPT ![t] = "OK"]
             e == [OneMore(kk, s) EXCEPT !.q[s] = Tail(@), !.msg[t] = "OK"]
             r == chSchReadyI(e, t)
  <2>1. chSemSignalI(kk, s) = r
    <3>1. ~(OneMore(kk, s).cnt[s] > 0)
      BY <1>1, <1>2, <1>4
    <3> QED
      BY <3>1, Zenon DEF chSemSignalI, OneMore
  <2>2. e = [kk EXCEPT !.cnt = c, !.q = w, !.msg = n]
    BY <1>1 DEF OneMore, KernelState
  <2>3. kk.q[s] \in Seq(Thread) /\ kk.q[s] # <<>>
    BY <1>1, <1>4 DEF Counted
  <2>4. x \in Seq(Thread) /\ t \in Thread
    BY <2>3, TailPlaces
  <2>5. c \in [Sem -> Int] /\ w \in [Object -> Seq(Thread)] /\ n \in [Thread -> Messages]
    BY <1>1, <2>4 DEF Messages
  <2> HIDE DEF c, w, n, e
  <2>6. /\ e \in KernelState /\ SameThreads(kk, e) /\ e.q = w /\ e.cnt = c /\ e.msg = n
        /\ e.realprio = kk.realprio /\ e.vt = kk.vt /\ e.due = kk.due
    BY <1>1, <2>2, <2>5 DEF KernelState, SameThreads
  <2>7. /\ Counted(e) /\ Shrinks(kk, e) /\ \A y \in Sem : Units(e, y) = Units(kk, y)
        /\ \A o \in Object : Members(e.q[o]) \subseteq Members(kk.q[o])
        /\ t \in Members(kk.q[s])
    <3>1. e.q = [kk.q EXCEPT ![s] = Tail(kk.q[s])] /\ e.cnt = [kk.cnt EXCEPT ![s] = @ + 1]
      BY <2>6 DEF w, c
    <3>2. e \in KernelState /\ SameThreads(kk, e)
      BY <2>6
    <3> HIDE DEF r, t, x
    <3>3. FirstGoes(kk, e, s)
      BY <1>4, <3>1, <3>2, FirstGoneIs
    <3> QED
      BY <3>3 DEF t, FirstGoes
  <2>8. MadeReady(kk, e, r, {}, t)
    BY <1>1, <2>3, <2>6, FirstReady DEF w
  <2> HIDE DEF r
  <2>9. \A u \in Thread : View(r)[u] = IF u = t THEN "RUNS" ELSE View(kk)[u]
    BY <2>8 DEF MadeReady, View
  <2>10. \A u \in Thread : r.msg[u] = IF u = t THEN "OK" ELSE kk.msg[u]
    BY <1>1, <2>6, <2>8 DEF MadeReady, n
  <2>11. Counted(r) /\ Shrinks(kk, r) /\ \A y \in Sem : Units(r, y) = Units(kk, y)
    BY <2>7, <2>8 DEF MadeReady, SameRest, Counted, Shrinks, Units
  <2> HIDE DEF t
  <2>12. Signalled(kk, r, s, {t})
    BY <2>4, <2>6, <2>7, <2>8, <2>9, <2>10, <2>11
    DEF Signalled, MadeReady, SameRest, SameThreads
  <2>13. r.current = kk.current
    BY <2>8 DEF MadeReady
  <2> QED
    BY <2>1, <2>12, <2>13
<1> QED
  BY <1>1, <1>3, <1>4

(* chSemSignalS does so too, and the highest runs.                          *)
LEMMA SignalSIs ==
  ASSUME NEW kk, Listed(kk, {}), HighestCurrent(kk), Counted(kk), NEW s \in Sem
  PROVE  \E T : Signalled(kk, chSemSignalS(kk, s), s, T) /\ HighestCurrent(chSemSignalS(kk, s))
<1>1. kk \in KernelState /\ kk.cnt \in [Sem -> Int] /\ kk.cnt[s] \in Int /\ s \in Object
      /\ kk.q \in [Object -> Seq(Thread)] /\ kk.msg \in [Thread -> Messages]
  BY KernelIs, ThreadAssumption DEF Listed
<1>2. OneMore(kk, s).cnt[s] = kk.cnt[s] + 1
  BY <1>1 DEF OneMore, KernelState
<1>3. CASE kk.cnt[s] >= 0
  <2>1. chSemSignalS(kk, s) = OneMore(kk, s)
    BY <1>1, <1>2, <1>3 DEF chSemSignalS, OneMore
  <2>2. Signalled(kk, OneMore(kk, s), s, {})
    BY <1>3, OneMoreIs
  <2>3. HighestCurrent(OneMore(kk, s))
    BY <1>1 DEF HighestCurrent, OneMore, KernelState
  <2> QED
    BY <2>1, <2>2, <2>3
<1>4. CASE kk.cnt[s] < 0
  <2> DEFINE t == Head(kk.q[s])
             x == Tail(kk.q[s])
             c == [kk.cnt EXCEPT ![s] = @ + 1]
             w == [kk.q EXCEPT ![s] = x]
             e == [OneMore(kk, s) EXCEPT !.q[s] = Tail(@)]
             r == chSchWakeupS(e, t, "OK")
  <2>1. chSemSignalS(kk, s) = r
    <3>1. ~(OneMore(kk, s).cnt[s] > 0)
      BY <1>1, <1>2, <1>4
    <3> QED
      BY <3>1, Zenon DEF chSemSignalS, OneMore
  <2>2. e = [kk EXCEPT !.cnt = c, !.q = w]
    BY <1>1 DEF OneMore, KernelState
  <2>3. kk.q[s] \in Seq(Thread) /\ kk.q[s] # <<>>
    BY <1>1, <1>4 DEF Counted
  <2>4. x \in Seq(Thread) /\ t \in Thread
    BY <2>3, TailPlaces
  <2>5. c \in [Sem -> Int] /\ w \in [Object -> Seq(Thread)]
    BY <1>1, <2>4
  <2> HIDE DEF c, w, e
  <2>6. /\ e \in KernelState /\ SameThreads(kk, e) /\ e.q = w /\ e.cnt = c /\ e.msg = kk.msg
        /\ e.realprio = kk.realprio /\ e.vt = kk.vt /\ e.due = kk.due
    BY <1>1, <2>2, <2>5 DEF KernelState, SameThreads
  <2>7. /\ Counted(e) /\ Shrinks(kk, e) /\ \A y \in Sem : Units(e, y) = Units(kk, y)
        /\ \A o \in Object : Members(e.q[o]) \subseteq Members(kk.q[o])
        /\ t \in Members(kk.q[s])
    <3>1. e.q = [kk.q EXCEPT ![s] = Tail(kk.q[s])] /\ e.cnt = [kk.cnt EXCEPT ![s] = @ + 1]
      BY <2>6 DEF w, c
    <3>2. e \in KernelState /\ SameThreads(kk, e)
      BY <2>6
    <3> HIDE DEF r, t, x
    <3>3. FirstGoes(kk, e, s)
      BY <1>4, <3>1, <3>2, FirstGoneIs
    <3> QED
      BY <3>3 DEF t, FirstGoes
  <2>8. "OK" \in Messages /\ HighestOf(kk, t)
    BY DEF Messages, HighestOf, HighestCurrent
  <2>9. Awoken(kk, e, r, t, "OK")
    BY <1>1, <2>3, <2>6, <2>8, FirstWoken DEF w
  <2> HIDE DEF r
  <2>10. \A u \in Thread : View(r)[u] = IF u = t THEN "RUNS" ELSE View(kk)[u]
    BY <2>9 DEF Awoken, View
  <2>11. \A u \in Thread : r.msg[u] = IF u = t THEN "OK" ELSE kk.msg[u]
    BY <1>1, <2>6, <2>9 DEF Awoken
  <2>12. Counted(r) /\ Shrinks(kk, r) /\ \A y \in Sem : Units(r, y) = Units(kk, y)
    BY <2>7, <2>9 DEF Awoken, SameRest, Counted, Shrinks, Units
  <2> HIDE DEF t
  <2>14. Signalled(kk, r, s, {t})
    BY <2>4, <2>6, <2>7, <2>9, <2>10, <2>11, <2>12
    DEF Signalled, Awoken, SameRest, SameThreads
  <2> QED
    BY <2>1, <2>9, <2>14 DEF Awoken
<1> QED
  BY <1>1, <1>3, <1>4

(* A unit is taken.                                                        *)
UnitTaken(kk, r, s) ==
  /\ r \in KernelState /\ SameThreads(kk, r) /\ r.q = kk.q /\ r.msg = kk.msg
  /\ r.realprio = kk.realprio /\ r.vt = kk.vt /\ r.due = kk.due /\ View(r) = View(kk)
  /\ Listed(r, {}) /\ Counted(r) /\ Units(r, s) = Units(kk, s) - 1
  /\ \A x \in Sem \ {s} : Units(r, x) = Units(kk, x)

(* chSemFastWaitI takes a unit that is there.                               *)
LEMMA FastWaitIs ==
  ASSUME NEW kk, Listed(kk, {}), Counted(kk), NEW s \in Sem, kk.cnt[s] > 0,
         NEW r, r = chSemFastWaitI(kk, s)
  PROVE  UnitTaken(kk, r, s)
<1> DEFINE c == [kk.cnt EXCEPT ![s] = @ - 1]
<1>1. kk \in KernelState /\ kk.cnt \in [Sem -> Int] /\ kk.cnt[s] \in Int
  BY KernelIs DEF Listed
<1>2. c \in [Sem -> Int] /\ \A x \in Sem : c[x] = IF x = s THEN kk.cnt[s] - 1 ELSE kk.cnt[x]
  BY <1>1
<1>3. r = [kk EXCEPT !.cnt = c]
  BY DEF chSemFastWaitI
<1> HIDE DEF c
<1>4. /\ r \in KernelState /\ SameThreads(kk, r) /\ r.q = kk.q /\ r.cnt = c
      /\ r.realprio = kk.realprio /\ r.vt = kk.vt /\ r.due = kk.due /\ r.msg = kk.msg
  BY <1>1, <1>2, <1>3 DEF KernelState, SameThreads
<1>5. Listed(r, {}) /\ View(r) = View(kk)
  BY <1>4, SameListed
<1>6. Counted(r)
  <2> SUFFICES ASSUME NEW x \in Sem
               PROVE  Len(r.q[x]) = IF r.cnt[x] < 0 THEN -r.cnt[x] ELSE 0
    BY DEF Counted
  <2>1. Len(kk.q[x]) = IF kk.cnt[x] < 0 THEN -kk.cnt[x] ELSE 0
    BY DEF Counted
  <2> QED
    BY <1>1, <1>2, <1>4, <2>1
<1>7. Units(r, s) = Units(kk, s) - 1 /\ \A x \in Sem \ {s} : Units(r, x) = Units(kk, x)
  BY <1>1, <1>2, <1>4 DEF Units
<1> QED
  BY <1>4, <1>5, <1>6, <1>7 DEF UnitTaken

(* There is none, the running thread sleeps.                               *)
SemSlept(kk, r, s) ==
  \E e : /\ Sleep(kk, e, r, "WTSEM") /\ Counted(e) /\ e.realprio = kk.realprio
         /\ e.due = kk.due /\ e.msg = kk.msg
         /\ \A o \in Object : e.q[o] = IF o = s THEN Append(kk.q[s], kk.current) ELSE kk.q[o]
         /\ \A x \in Sem : Units(e, x) = Units(kk, x)

(* A thread that waits for a semaphore is the last of its queue, and the    *)
(* counter tells.                                                           *)
LEMMA SemSleepIs ==
  ASSUME NEW kk, Listed(kk, {}), kk.current # Idle, TimersAre(kk.vt, kk.due),
         kk.due[kk.current] = 0, Counted(kk), NEW s \in Sem, kk.cnt[s] <= 0,
         NEW n \in Time \cup {Infinite}, NEW r, r = chSemSleepS(kk, s, n)
  PROVE  SemSlept(kk, r, s)
<1> DEFINE c == [kk.cnt EXCEPT ![s] = @ - 1]
           y == Append(kk.q[s], kk.current)
           w == [kk.q EXCEPT ![s] = y]
           e == sem_insert(kk, s)
<1>1. kk \in KernelState /\ kk.cnt \in [Sem -> Int] /\ kk.cnt[s] \in Int /\ s \in Object
      /\ kk.q \in [Object -> Seq(Thread)] /\ kk.q[s] \in Seq(Thread) /\ kk.current \in Thread
  BY KernelIs, ThreadAssumption DEF Listed
<1>2. c \in [Sem -> Int] /\ \A x \in Sem : c[x] = IF x = s THEN kk.cnt[s] - 1 ELSE kk.cnt[x]
  BY <1>1
<1>3. e = [kk EXCEPT !.cnt = c, !.q = w]
  BY DEF sem_insert
<1>4. kk.current \notin Members(kk.q[s]) /\ Once(kk.q[s])
  BY <1>1 DEF Listed, QueuesRight, ReadyRight, Kind
<1>5. y \in Seq(Thread) /\ Members(y) = Members(kk.q[s]) \cup {kk.current} /\ Once(y)
      /\ Len(y) = Len(kk.q[s]) + 1
  BY <1>1, <1>4, AppendIs, ZenonT(40)
<1>6. w \in [Object -> Seq(Thread)] /\ (\A o \in Object : w[o] = IF o = s THEN y ELSE kk.q[o])
      /\ w = [kk.q EXCEPT ![s] = y]
  BY <1>1, <1>5
<1>7. r = chSchGoSleepTimeoutS(e, "WTSEM", n)
  BY DEF chSemSleepS
<1> HIDE DEF c, w, e, y
<1>8. /\ e \in KernelState /\ SameThreads(kk, e) /\ e.q = w /\ e.cnt = c /\ e.msg = kk.msg
      /\ e.realprio = kk.realprio /\ e.vt = kk.vt /\ e.due = kk.due
  BY <1>1, <1>2, <1>3, <1>6 DEF KernelState, SameThreads
<1>9. Kind(s) = "WTSEM" /\ s \notin Mutex
  BY MutexAssumption DEF Kind
<1>10. Sleep(kk, e, chSchGoSleepTimeoutS(e, Kind(s), n), Kind(s))
  <2>1. e.q = [kk.q EXCEPT ![s] = y]
    BY <1>6, <1>8
  <2>2. s \in Mutex => Ranked(kk.prio, y)
    BY <1>9
  <2>3. e \in KernelState /\ SameThreads(kk, e) /\ e.vt = kk.vt /\ e.due = kk.due
    BY <1>8
  <2>4. Once(y) /\ Members(y) = Members(kk.q[s]) \cup {kk.current}
    BY <1>5
  <2> QED
    BY <1>1, <2>1, <2>2, <2>3, <2>4, SleepQueued
<1>11. Sleep(kk, e, r, "WTSEM")
  BY <1>7, <1>9, <1>10
<1>12. Counted(e)
  <2> SUFFICES ASSUME NEW x \in Sem
               PROVE  Len(e.q[x]) = IF e.cnt[x] < 0 THEN -e.cnt[x] ELSE 0
    BY DEF Counted
  <2>1. x \in Object /\ Len(kk.q[x]) = IF kk.cnt[x] < 0 THEN -kk.cnt[x] ELSE 0
    BY ThreadAssumption DEF Counted
  <2>2. CASE x = s
    BY <1>1, <1>2, <1>5, <1>6, <1>8, <2>1, <2>2, SMTT(40)
  <2>3. CASE x # s
    BY <1>2, <1>6, <1>8, <2>1, <2>3
  <2> QED
    BY <2>2, <2>3
<1>13. \A x \in Sem : Units(e, x) = Units(kk, x)
  BY <1>1, <1>2, <1>8 DEF Units
<1>14. \A o \in Object : e.q[o] = IF o = s THEN Append(kk.q[s], kk.current) ELSE kk.q[o]
  BY <1>6, <1>8 DEF y
<1> QED
  BY <1>8, <1>11, <1>12, <1>13, <1>14 DEF SemSlept

(* The first m of a list, and the others.                                  *)
Left(s, m) == SubSeq(s, 1, m)
Behind(s, m) == {s[j] : j \in m + 1..Len(s)}

(* The threads that a reset has left in the queue, and those it has told.   *)
LEMMA LeftIs ==
  ASSUME NEW s \in Seq(Thread), NEW m \in 0..Len(s), Once(s)
  PROVE  /\ Left(s, m) \in Seq(Thread) /\ Len(Left(s, m)) = m /\ Once(Left(s, m))
         /\ Left(s, Len(s)) = s /\ Left(s, 0) = <<>>
         /\ Behind(s, Len(s)) = {} /\ Behind(s, 0) = Members(s)
         /\ Members(Left(s, m)) \subseteq Members(s)
<1>1. Left(s, m) \in Seq(Thread) /\ Len(Left(s, m)) = m /\ \A i \in 1..m : Left(s, m)[i] = s[i]
  BY DEF Left
<1>2. Left(s, Len(s)) = s /\ Left(s, 0) = <<>>
  BY DEF Left
<1>3. Len(s) \in Nat /\ DOMAIN s = 1..Len(s) /\ DOMAIN Left(s, m) = 1..m /\ 1..m \subseteq 1..Len(s)
  BY <1>1
<1>4. Once(Left(s, m))
  BY <1>1, <1>3 DEF Once
<1>5. Behind(s, Len(s)) = {} /\ Behind(s, 0) = Members(s)
  BY <1>3 DEF Behind, Members
<1>6. Members(Left(s, m)) \subseteq Members(s)
  BY <1>1, <1>3 DEF Members
<1> QED
  BY <1>1, <1>2, <1>4, <1>5, <1>6

(* The last of those left is the next that is told.                         *)
LEMMA LastLeft ==
  ASSUME NEW s \in Seq(Thread), NEW m \in 1..Len(s), Once(s), NEW t, t = s[m]
  PROVE  /\ t \in Members(Left(s, m)) /\ t \in Thread
         /\ Members(Left(s, m - 1)) = Members(Left(s, m)) \ {t}
         /\ Left(Left(s, m), m - 1) = Left(s, m - 1) /\ Left(s, m)[m] = t
         /\ Behind(s, m - 1) = Behind(s, m) \cup {t} /\ t \notin Behind(s, m)
<1>1. Len(s) \in Nat /\ DOMAIN s = 1..Len(s) /\ m \in Nat /\ m - 1 \in Nat
  OBVIOUS
<1>2. Len(Left(s, m)) = m /\ Left(s, m) \in Seq(Thread) /\ \A i \in 1..m : Left(s, m)[i] = s[i]
  BY DEF Left
<1>3. Len(Left(s, m - 1)) = m - 1 /\ Left(s, m - 1) \in Seq(Thread)
      /\ \A i \in 1..m - 1 : Left(s, m - 1)[i] = s[i]
  BY DEF Left
<1>4. Left(Left(s, m), m - 1) = Left(s, m - 1)
  BY DEF Left
<1>5. DOMAIN Left(s, m) = 1..m /\ DOMAIN Left(s, m - 1) = 1..m - 1
  BY <1>2, <1>3
<1>6. Members(Left(s, m)) = {s[i] : i \in 1..m} /\ Members(Left(s, m - 1)) = {s[i] : i \in 1..m - 1}
  BY <1>2, <1>3, <1>5 DEF Members
<1>7. 1..m = 1..(m - 1) \cup {m} /\ \A i \in 1..m - 1 : s[i] # s[m]
  BY <1>1 DEF Once
<1>8. Members(Left(s, m - 1)) = Members(Left(s, m)) \ {t} /\ t \in Members(Left(s, m))
  BY <1>6, <1>7
<1>9. (m - 1) + 1..Len(s) = (m + 1..Len(s)) \cup {m} /\ \A i \in m + 1..Len(s) : s[i] # s[m]
  BY <1>1 DEF Once
<1>10. Behind(s, m - 1) = Behind(s, m) \cup {t} /\ t \notin Behind(s, m)
  BY <1>9 DEF Behind
<1> QED
  BY <1>2, <1>4, <1>8, <1>10

(* The threads that wait are told of a reset, the last one first.          *)
ResetTo(kk, y, s, n, m) ==
  /\ Listed(y, {}) /\ y.current = kk.current /\ y.prio = kk.prio /\ y.realprio = kk.realprio
  /\ y.vt = kk.vt /\ y.due = kk.due /\ y.cnt = [kk.cnt EXCEPT ![s] = n]
  /\ y.q = [kk.q EXCEPT ![s] = Left(kk.q[s], m)]
  /\ \A u \in Thread : View(y)[u] = IF u \in Behind(kk.q[s], m) THEN "RUNS" ELSE View(kk)[u]
  /\ \A u \in Thread : y.msg[u] = IF u \in Behind(kk.q[s], m) THEN "RESET" ELSE kk.msg[u]

LastTold(y, s) ==
  LET last == y.q[s][Len(y.q[s])]
  IN chSchReadyI([y EXCEPT !.q[s] = SubSeq(@, 1, Len(@) - 1), !.msg[last] = "RESET"], last)

(* A step of the reset's loop tells the last one that is left.              *)
LEMMA ToldMore ==
  ASSUME NEW kk, Listed(kk, {}), NEW s \in Sem, NEW n \in Int, NEW m \in 1..Len(kk.q[s]),
         NEW y, ResetTo(kk, y, s, n, m)
  PROVE  ResetTo(kk, LastTold(y, s), s, n, m - 1)
<1> DEFINE qs == kk.q[s]
           t == qs[m]
           x == Left(qs, m - 1)
           w == [y.q EXCEPT ![s] = x]
           j == [y.msg EXCEPT ![t] = "RESET"]
           e == [y EXCEPT !.q = w, !.msg = j]
           z == chSchReadyI(e, t)
<1>1. kk \in KernelState /\ kk.q \in [Object -> Seq(Thread)] /\ s \in Object /\ qs \in Seq(Thread)
      /\ kk.msg \in [Thread -> Messages]
  BY KernelIs, ThreadAssumption DEF Listed
<1>2. Once(qs)
  BY <1>1 DEF Listed, QueuesRight
<1> HIDE DEF qs
<1>3. m \in 1..Len(qs)
  BY DEF qs
<1>4. /\ t \in Members(Left(qs, m)) /\ t \in Thread
      /\ Members(Left(qs, m - 1)) = Members(Left(qs, m)) \ {t}
      /\ Left(Left(qs, m), m - 1) = Left(qs, m - 1) /\ Left(qs, m)[m] = t
      /\ Behind(qs, m - 1) = Behind(qs, m) \cup {t} /\ t \notin Behind(qs, m)
  BY <1>1, <1>2, <1>3, LastLeft
<1>5. Len(Left(qs, m)) = m /\ Left(qs, m - 1) \in Seq(Thread) /\ Once(Left(qs, m - 1))
  <2>1. m \in 0..Len(qs) /\ m - 1 \in 0..Len(qs)
    BY <1>1, <1>3
  <2>2. Len(Left(qs, m)) = m
    BY <1>1, <1>2, <2>1, LeftIs
  <2> QED
    BY <1>1, <1>2, <2>1, <2>2, LeftIs
<1>6. y \in KernelState /\ y.q \in [Object -> Seq(Thread)] /\ y.msg \in [Thread -> Messages]
      /\ Listed(y, {})
  BY KernelIs DEF ResetTo, Listed
<1>7. y.q[s] = Left(qs, m)
  BY <1>1 DEF ResetTo, qs
<1>8. LastTold(y, s) = z
  <2>1. y.q[s][Len(y.q[s])] = t
    BY <1>4, <1>5, <1>7
  <2>2. SubSeq(y.q[s], 1, Len(y.q[s]) - 1) = x
    BY <1>4, <1>5, <1>7 DEF Left
  <2> HIDE DEF t, x
  <2> QED
    BY <2>1, <2>2 DEF LastTold
<1> HIDE DEF t, x
<1>9. w \in [Object -> Seq(Thread)] /\ j \in [Thread -> Messages]
      /\ (\A o \in Object : w[o] = IF o = s THEN x ELSE y.q[o])
      /\ (\A u \in Thread : j[u] = IF u = t THEN "RESET" ELSE y.msg[u])
  BY <1>1, <1>4, <1>5, <1>6 DEF x, Messages
<1>10. w = [y.q EXCEPT ![s] = x]
  OBVIOUS
<1> HIDE DEF w, j
<1>11. /\ e \in KernelState /\ SameThreads(y, e) /\ e.q = w /\ e.msg = j
       /\ e.realprio = y.realprio /\ e.vt = y.vt /\ e.due = y.due /\ e.cnt = y.cnt
  BY <1>6, <1>9 DEF KernelState, SameThreads
<1> HIDE DEF e
<1>12. Leaves(y, e, {}, s, t)
  <2>1. t \in Members(y.q[s]) /\ Members(x) = Members(y.q[s]) \ {t} /\ Once(x)
    BY <1>4, <1>5, <1>7 DEF x
  <2>2. e.q = [y.q EXCEPT ![s] = x] /\ e \in KernelState /\ SameThreads(y, e)
    BY <1>10, <1>11
  <2>3. s \in Mutex => Ranked(y.prio, x)
    BY MutexAssumption
  <2> QED
    BY <1>1, <1>6, <2>1, <2>2, <2>3, LostListed
<1>13. Listed(e, {t}) /\ View(e) = View(y)
  <2>1. {} \cup {t} = {t}
    OBVIOUS
  <2> QED
    BY <1>12, <2>1 DEF Leaves
<1>14. /\ Listed(z, {t} \ {t}) /\ View(z) = [View(e) EXCEPT ![t] = "RUNS"]
       /\ SameRest(e, z) /\ z.msg = e.msg /\ z.current = e.current
  BY <1>13, ReadyIListed
<1>15. {t} \ {t} = {}
  OBVIOUS
<1>16. \A u \in Thread : View(z)[u] = IF u = t THEN "RUNS" ELSE View(y)[u]
  BY <1>13, <1>14 DEF View
<1> HIDE DEF z
<1>17. z.q = [kk.q EXCEPT ![s] = Left(qs, m - 1)]
  <2>1. z.q = w
    BY <1>11, <1>14 DEF SameRest
  <2>2. y.q = [kk.q EXCEPT ![s] = Left(qs, m)]
    BY DEF ResetTo, qs
  <2> QED
    BY <1>1, <1>10, <2>1, <2>2 DEF x
<1>18. \A u \in Thread : View(z)[u] = IF u \in Behind(qs, m - 1) THEN "RUNS" ELSE View(kk)[u]
  BY <1>4, <1>16 DEF ResetTo, qs, t
<1>19. \A u \in Thread : z.msg[u] = IF u \in Behind(qs, m - 1) THEN "RESET" ELSE kk.msg[u]
  BY <1>4, <1>9, <1>11, <1>14 DEF ResetTo, qs, t
<1>20. Listed(z, {}) /\ z.current = kk.current /\ z.prio = kk.prio /\ z.realprio = kk.realprio
       /\ z.vt = kk.vt /\ z.due = kk.due /\ z.cnt = [kk.cnt EXCEPT ![s] = n]
  BY <1>11, <1>14, <1>15 DEF ResetTo, SameRest, SameThreads
<1>21. ResetTo(kk, z, s, n, m - 1)
  BY <1>17, <1>18, <1>19, <1>20 DEF ResetTo, qs
<1> QED
  BY <1>8, <1>21

(* At first the reset has set the counter and told nobody.                  *)
LEMMA NoneTold ==
  ASSUME NEW kk, Listed(kk, {}), NEW s \in Sem, NEW n \in Int, NEW y, y = [kk EXCEPT !.cnt[s] = n]
  PROVE  y \in KernelState /\ ResetTo(kk, y, s, n, Len(kk.q[s]))
<1> DEFINE c == [kk.cnt EXCEPT ![s] = n]
           qs == kk.q[s]
<1>1. kk \in KernelState /\ kk.q \in [Object -> Seq(Thread)] /\ s \in Object /\ qs \in Seq(Thread)
      /\ kk.cnt \in [Sem -> Int]
  BY KernelIs, ThreadAssumption DEF Listed
<1>2. c \in [Sem -> Int] /\ y = [kk EXCEPT !.cnt = c]
  BY <1>1
<1> HIDE DEF c
<1>3. /\ y \in KernelState /\ SameThreads(kk, y) /\ y.q = kk.q /\ y.cnt = c
      /\ y.realprio = kk.realprio /\ y.vt = kk.vt /\ y.due = kk.due /\ y.msg = kk.msg
  BY <1>1, <1>2 DEF KernelState, SameThreads
<1>4. Listed(y, {}) /\ View(y) = View(kk)
  BY <1>3, SameListed
<1>5. Left(qs, Len(qs)) = qs /\ Behind(qs, Len(qs)) = {}
  <2>1. Once(qs)
    BY <1>1 DEF Listed, QueuesRight
  <2>2. Len(qs) \in 0..Len(qs)
    BY <1>1
  <2> HIDE DEF qs
  <2>3. Left(qs, Len(qs)) = qs
    BY <1>1, <2>1, <2>2, LeftIs
  <2> QED
    BY <1>1, <2>1, <2>2, <2>3, LeftIs
<1>6. y.q = [kk.q EXCEPT ![s] = Left(qs, Len(qs))]
  BY <1>1, <1>3, <1>5
<1> QED
  BY <1>3, <1>4, <1>5, <1>6 DEF ResetTo, SameThreads, c

(* chSemResetI tells all threads of the queue.                              *)
LEMMA ResetIs ==
  ASSUME NEW kk, Listed(kk, {}), Counted(kk), NEW s \in Sem, NEW m \in Int
  PROVE  ResetTo(kk, chSemResetI(kk, s, m), s, m, 0)
<1> DEFINE n == Len(kk.q[s])
           x == [kk EXCEPT !.cnt[s] = m]
           f == CHOOSE g : g = [i \in 0..n |-> IF i = 0 THEN x ELSE LastTold(g[i - 1], s)]
<1>1. kk \in KernelState /\ kk.q \in [Object -> Seq(Thread)] /\ s \in Object
      /\ kk.q[s] \in Seq(Thread) /\ n \in Nat
  BY KernelIs, ThreadAssumption DEF Listed
<1>2. n = IF kk.cnt[s] < 0 THEN -kk.cnt[s] ELSE 0
  BY DEF Counted
<1>3. chSemResetI(kk, s, m) = f[n]
  <2> HIDE DEF n
  <2> QED
    BY <1>2, Zenon DEF chSemResetI, Waiters, LastTold
<1> DEFINE W(y, i) == LastTold(y, s)
           H == [i \in 0..n |-> {y \in KernelState : ResetTo(kk, y, s, m, n - i)}]
           G == [i \in 1..n |-> [y \in H[i - 1] |-> W(y, i)]]
           E(g) == g = [i \in 0..n |-> IF i = 0 THEN x ELSE W(g[i - 1], i)]
<1>4. x \in H[0]
  <2>1. x \in KernelState /\ ResetTo(kk, x, s, m, Len(kk.q[s]))
    BY NoneTold
  <2> QED
    BY <1>1, <2>1
<1>5. ASSUME NEW i \in 1..n, NEW y \in H[i - 1]
      PROVE  W(y, i) \in H[i]
  <2> HIDE DEF n
  <2>1. i - 1 \in 0..n /\ i \in 0..n /\ n - i + 1 \in 1..n /\ (n - i + 1) - 1 = n - i
        /\ n - (i - 1) = n - i + 1
    BY <1>1
  <2>9. n = Len(kk.q[s])
    BY DEF n
  <2> DEFINE j == n - i + 1
  <2>2. ResetTo(kk, y, s, m, j)
    BY <1>5, <2>1
  <2>3. j \in 1..Len(kk.q[s])
    BY <2>1, <2>9
  <2> HIDE DEF j
  <2>4. ResetTo(kk, LastTold(y, s), s, m, j - 1)
    BY <2>2, <2>3, ToldMore
  <2> DEFINE z == LastTold(y, s)
  <2> HIDE DEF z
  <2>5. ResetTo(kk, z, s, m, n - i)
    BY <2>1, <2>4 DEF j, z
  <2>6. z \in KernelState
    BY <2>5 DEF ResetTo, Listed
  <2> QED
    BY <2>1, <2>5, <2>6 DEF z
<1> HIDE DEF H, W, n, x, f
<1>6. \A i \in 1..n : G[i] \in [H[i - 1] -> H[i]]
  BY <1>5
<1>7. \A i \in 1..n : \A y \in H[i - 1] : G[i][y] = W(y, i)
  OBVIOUS
<1> HIDE DEF G
<1>8. PICK g : Looped(g, n, x, H, G)
  BY <1>1, <1>4, <1>6, LoopRuns
<1>9. E(g)
  <2>1. /\ g = [i \in 0..n |-> g[i]] /\ g[0] = x
        /\ \A i \in 1..n : g[i - 1] \in H[i - 1] /\ g[i] = G[i][g[i - 1]]
    BY <1>8 DEF Looped
  <2>2. \A i \in 0..n : g[i] = IF i = 0 THEN x ELSE W(g[i - 1], i)
    <3> SUFFICES ASSUME NEW i \in 0..n, i # 0
                 PROVE  g[i] = W(g[i - 1], i)
      BY <2>1
    <3>1. i \in 1..n
      BY <1>1
    <3> QED
      BY <1>7, <2>1, <3>1
  <2> QED
    BY <2>1, <2>2
<1>10. E(f)
  BY <1>9 DEF W, f
<1>11. f[0] = x /\ \A i \in 1..n : f[i] = W(f[i - 1], i)
  <2>1. f = [i \in 0..n |-> IF i = 0 THEN x ELSE W(f[i - 1], i)]
    BY <1>10
  <2> HIDE DEF E
  <2>2. \A i \in 0..n : f[i] = IF i = 0 THEN x ELSE W(f[i - 1], i)
    BY <2>1
  <2>3. 0 \in 0..n /\ \A i \in 1..n : i \in 0..n /\ i # 0
    BY <1>1
  <2> QED
    BY <2>2, <2>3
<1> HIDE DEF E
<1>12. f[n] \in H[n]
  <2>1. \A i \in 1..n : f[i - 1] \in H[i - 1] => f[i] \in H[i]
    BY <1>5, <1>11
  <2>2. f[0] \in H[0]
    BY <1>4, <1>11
  <2>3. \A i \in 0..n : f[i] \in H[i]
    BY <1>1, <2>1, <2>2, LoopStays
  <2> QED
    BY <1>1, <2>3
<1>13. n - n = 0 /\ n \in 0..n
  BY <1>1
<1>14. ResetTo(kk, f[n], s, m, n - n)
  BY <1>12, <1>13 DEF H
<1> QED
  BY <1>3, <1>13, <1>14

(* After a reset the counter is its new value and the queue is empty.       *)
LEMMA ResetCounted ==
  ASSUME NEW kk, Listed(kk, {}), Counted(kk), NEW s \in Sem, NEW n \in Nat, NEW r,
         ResetTo(kk, r, s, n, 0)
  PROVE  /\ Counted(r) /\ Units(r, s) = n /\ r.q[s] = <<>>
         /\ \A o \in Object \ {s} : r.q[o] = kk.q[o]
         /\ \A x \in Sem \ {s} : Units(r, x) = Units(kk, x)
         /\ \A u \in Thread : View(r)[u] = IF u \in Members(kk.q[s]) THEN "RUNS" ELSE View(kk)[u]
         /\ \A u \in Thread : r.msg[u] = IF u \in Members(kk.q[s]) THEN "RESET" ELSE kk.msg[u]
<1> DEFINE qs == kk.q[s]
<1>1. kk \in KernelState /\ kk.q \in [Object -> Seq(Thread)] /\ s \in Object /\ qs \in Seq(Thread)
      /\ kk.cnt \in [Sem -> Int] /\ Once(qs)
  <2>1. kk \in KernelState /\ s \in Object
    BY ThreadAssumption DEF Listed
  <2>2. kk.q \in [Object -> Seq(Thread)] /\ kk.cnt \in [Sem -> Int]
    BY <2>1, KernelIs
  <2> QED
    BY <2>1, <2>2 DEF Listed, QueuesRight
<1>2. Left(qs, 0) = <<>> /\ Behind(qs, 0) = Members(qs)
  <2>1. 0 \in 0..Len(qs)
    BY <1>1
  <2> HIDE DEF qs
  <2>2. Left(qs, 0) = <<>>
    BY <1>1, <2>1, LeftIs
  <2> QED
    BY <1>1, <2>1, <2>2, LeftIs
<1>3. \A o \in Object : r.q[o] = IF o = s THEN <<>> ELSE kk.q[o]
  BY <1>1, <1>2 DEF ResetTo
<1>4. \A x \in Sem : r.cnt[x] = IF x = s THEN n ELSE kk.cnt[x]
  BY <1>1 DEF ResetTo
<1>5. Counted(r)
  <2> SUFFICES ASSUME NEW x \in Sem
               PROVE  Len(r.q[x]) = IF r.cnt[x] < 0 THEN -r.cnt[x] ELSE 0
    BY DEF Counted
  <2>1. x \in Object /\ Len(kk.q[x]) = IF kk.cnt[x] < 0 THEN -kk.cnt[x] ELSE 0
    BY ThreadAssumption DEF Counted
  <2>2. CASE x = s
    BY <1>3, <1>4, <2>1, <2>2
  <2>3. CASE x # s
    BY <1>3, <1>4, <2>1, <2>3
  <2> QED
    BY <2>2, <2>3
<1>6. Units(r, s) = n /\ \A x \in Sem \ {s} : Units(r, x) = Units(kk, x)
  BY <1>4 DEF Units
<1> QED
  BY <1>1, <1>2, <1>3, <1>5, <1>6 DEF ResetTo

(* What a semaphore's function adds to what a step has changed before.     *)
LEMMA SignalledChanges ==
  ASSUME NEW kk, NEW h, NEW g, Changed(kk, h, g), NEW s, NEW T, NEW r, Signalled(h, r, s, T)
  PROVE  Changed(kk, r, g)
<1>1. \A o \in Object : o \in ObjectsOf(g) \/ r.q[o] = <<>>
  <2> SUFFICES ASSUME NEW o \in Object, o \notin ObjectsOf(g)
               PROVE  r.q[o] = <<>>
    OBVIOUS
  <2>1. h.q[o] = <<>> /\ Members(r.q[o]) \subseteq Members(h.q[o])
    BY DEF Changed, Signalled
  <2>2. r.q[o] \in Seq(Thread) /\ h.q[o] \in Seq(Thread)
    BY KernelIs DEF Signalled, Changed, Listed
  <2>3. Members(h.q[o]) = {}
    BY <2>1 DEF Members
  <2> QED
    BY <2>1, <2>2, <2>3, MembersAre
<1>2. Frame(kk, r, Thread)
  BY DEF Changed, Frame, Signalled
<1> QED
  BY <1>1, <1>2 DEF Changed, Signalled

(* A unit that is taken moves no thread.                                    *)
LEMMA TakenChanges ==
  ASSUME NEW kk, NEW h, NEW g, Changed(kk, h, g), NEW s, NEW r, UnitTaken(h, r, s)
  PROVE  Changed(kk, r, g)
<1>1. Frame(kk, r, Thread)
  BY DEF Changed, Frame, UnitTaken
<1> QED
  BY <1>1 DEF Changed, UnitTaken, SameThreads

(* A reset leaves the lists whole.                                          *)
LEMMA ResetChanges ==
  ASSUME NEW kk, NEW h, NEW g, Changed(kk, h, g), NEW s \in Sem, NEW n \in Nat, NEW r,
         ResetTo(h, r, s, n, 0)
  PROVE  Changed(kk, r, g)
<1>1. Listed(h, {}) /\ Counted(h)
  BY DEF Changed
<1>2. /\ Counted(r) /\ Units(r, s) = n /\ r.q[s] = <<>>
      /\ \A o \in Object \ {s} : r.q[o] = h.q[o]
      /\ \A x \in Sem \ {s} : Units(r, x) = Units(h, x)
      /\ \A u \in Thread : View(r)[u] = IF u \in Members(h.q[s]) THEN "RUNS" ELSE View(h)[u]
      /\ \A u \in Thread : r.msg[u] = IF u \in Members(h.q[s]) THEN "RESET" ELSE h.msg[u]
  BY <1>1, ResetCounted
<1>3. Frame(kk, r, Thread)
  BY <1>2 DEF Changed, Frame, ResetTo
<1> QED
  BY <1>2, <1>3 DEF Changed, ResetTo

(* What keeps the lists keeps the invariant, when semaphores are used.      *)
LEMMA SemRight ==
  ASSUME IInv, api = "sem", UNCHANGED Others, api' = api, systime' = systime,
         waiting' = waiting, Stable(k', pc', api)
  PROVE  IInv'
<1>1. KernelRight(k') /\ Placed(k', pc', api)
  BY DEF Stable
<1>2. Untouched(api)'
  BY UntouchedStays DEF IInv
<1>3. systime' \in 0..1 /\ api \notin Queue
  BY DEF IInv, Queue
<1> QED
  BY <1>1, <1>2, <1>3, StepRight

(* chSemWait keeps the invariant.                                           *)
LEMMA SemWaitRight ==
  ASSUME IInv, api = "sem", UNCHANGED Others, api' = api, NEW s \in Sem,
         NEW n \in Time \cup {Infinite}, chSemWait(s, n)
  PROVE  IInv'
<1>1. Stable(k, pc, api) /\ Calls /\ waiting' = waiting /\ systime' = systime
  BY DEF IInv, Stable, chSemWait
<1>2. Caller(k, pc)
  BY <1>1, CallerIs DEF Stable
<1>3. CASE k.cnt[s] > 0 /\ k' = chSemFastWaitI(k, s) /\ pc' = pc
  <2> DEFINE r == chSemFastWaitI(k, s)
  <2>1. UnitTaken(k, r, s)
    BY <1>2, <1>3, FastWaitIs DEF Caller
  <2> HIDE DEF r
  <2>2. Changed(k, r, api)
    BY <1>1, <2>1, StillPlain, TakenChanges
  <2>3. Settles(r, r)
    <3>1. HighestCurrent(r)
      BY <1>2, <2>1 DEF Caller, HighestCurrent, UnitTaken, SameThreads
    <3> QED
      BY <2>1, <3>1, SettlesItself DEF UnitTaken
  <2>4. Stable(r, pc, api)
    BY <1>1, <2>2, <2>3, Stays
  <2>5. k' = r
    BY <1>3 DEF r
  <2> QED
    BY <1>1, <1>3, <2>4, <2>5, SemRight
<1>4. CASE k.cnt[s] <= 0 /\ k' = chSemSleepS(k, s, n) /\ Sleeps(<<"woken">>)
  <2> DEFINE r == chSemSleepS(k, s, n)
             c == k.current
  <2>1. SemSlept(k, r, s)
    BY <1>2, <1>4, SemSleepIs DEF Caller
  <2> HIDE DEF r
  <2>2. PICK e : /\ Sleep(k, e, r, "WTSEM") /\ Counted(e) /\ e.realprio = k.realprio
                 /\ e.due = k.due /\ e.msg = k.msg
                 /\ \A o \in Object : e.q[o] = IF o = s THEN Append(k.q[s], k.current) ELSE k.q[o]
    BY <2>1 DEF SemSlept
  <2>3. \A o \in Object : o \in ObjectsOf(api) \/ e.q[o] = <<>>
    BY <1>1, <2>2 DEF ObjectsOf, Stable, Placed
  <2>4. <<"woken">> \in PlacesOf(api) /\ <<"woken">>[1] \notin {"user", "more"}
    BY DEF PlacesOf
  <2>5. "WTSEM" \in ViewsOf(api) \ Absent /\ "WTSEM" \in Timed
    BY DEF ViewsOf, Absent, Timed
  <2> DEFINE x == <<"woken">>
  <2> HIDE DEF x
  <2>6. Stable(r, [pc EXCEPT ![k.current] = x], api)
    BY <1>1, <1>2, <2>2, <2>3, <2>4, <2>5, Slept DEF x
  <2>7. k' = r /\ pc' = [pc EXCEPT ![k.current] = x]
    BY <1>4 DEF r, Sleeps, me, x
  <2> QED
    BY <1>1, <2>6, <2>7, SemRight
<1> QED
  BY <1>3, <1>4 DEF chSemWait

(* chSemSignal keeps the invariant.                                         *)
LEMMA SemSignalRight ==
  ASSUME IInv, api = "sem", UNCHANGED Others, api' = api, NEW s \in Sem, chSemSignal(s)
  PROVE  IInv'
<1> DEFINE r == chSemSignalS(k, s)
<1>1. Stable(k, pc, api) /\ k' = r /\ UNCHANGED <<pc, waiting, systime>>
  BY DEF IInv, Stable, chSemSignal
<1>2. Listed(k, {}) /\ HighestCurrent(k) /\ Counted(k)
  BY <1>1 DEF Stable, KernelRight
<1>3. PICK T : Signalled(k, r, s, T) /\ HighestCurrent(r)
  BY <1>2, SignalSIs
<1> HIDE DEF r
<1>4. Changed(k, r, api)
  BY <1>1, <1>3, StillPlain, SignalledChanges
<1>5. Settles(r, r)
  BY <1>3, SettlesItself DEF Signalled
<1>6. Stable(r, pc, api)
  BY <1>1, <1>4, <1>5, Stays
<1> QED
  BY <1>1, <1>6, SemRight

(* chSemReset keeps the invariant.                                          *)
LEMMA SemResetRight ==
  ASSUME IInv, api = "sem", UNCHANGED Others, api' = api, NEW s \in Sem, NEW n \in 0..1,
         chSemReset(s, n)
  PROVE  IInv'
<1> DEFINE h == chSemResetI(k, s, n)
           r == chSchRescheduleS(h)
<1>1. Stable(k, pc, api) /\ k' = r /\ UNCHANGED <<pc, waiting, systime>>
  BY DEF IInv, Stable, chSemReset
<1>2. Listed(k, {}) /\ HighestCurrent(k) /\ Counted(k)
  BY <1>1 DEF Stable, KernelRight
<1>3. n \in Int /\ n \in Nat
  OBVIOUS
<1>4. ResetTo(k, h, s, n, 0)
  BY <1>2, <1>3, ResetIs
<1> HIDE DEF h
<1>5. Changed(k, h, api)
  BY <1>1, <1>3, <1>4, StillPlain, ResetChanges
<1>6. Settles(h, r)
  BY <1>5, SettlesS DEF Changed
<1> HIDE DEF r
<1>7. Stable(r, pc, api)
  BY <1>1, <1>5, <1>6, Stays
<1> QED
  BY <1>1, <1>7, SemRight

(* chSemSignalWait keeps the invariant, for two semaphores or one.          *)
LEMMA SemSignalWaitRight ==
  ASSUME IInv, api = "sem", UNCHANGED Others, api' = api, NEW s \in Sem, NEW w \in Sem,
         chSemSignalWait(s, w)
  PROVE  IInv'
<1> DEFINE h == chSemSignalI(k, s)
<1>1. Stable(k, pc, api) /\ Calls /\ waiting' = waiting /\ systime' = systime
  BY DEF IInv, Stable, chSemSignalWait
<1>2. Caller(k, pc)
  BY <1>1, CallerIs DEF Stable
<1>3. (\E T : Signalled(k, h, s, T)) /\ h.current = k.current
  <2>1. Listed(k, {}) /\ Counted(k)
    BY <1>2 DEF Caller
  <2> QED
    BY <2>1, SignalIIs
<1> HIDE DEF h
<1>4. PICK T : Signalled(k, h, s, T)
  BY <1>3
<1>5. Changed(k, h, api)
  BY <1>1, <1>4, StillPlain, SignalledChanges
<1>6. Listed(h, {}) /\ Counted(h) /\ TimersAre(h.vt, h.due) /\ h.due[h.current] = 0
      /\ h.current # Idle
  BY <1>2, <1>3, <1>4, <1>5 DEF Changed, Signalled, Caller
<1>7. CASE h.cnt[w] > 0 /\ k' = chSchRescheduleS(chSemFastWaitI(h, w)) /\ pc' = pc
  <2> DEFINE f == chSemFastWaitI(h, w)
             r == chSchRescheduleS(f)
  <2>1. UnitTaken(h, f, w)
    BY <1>6, <1>7, FastWaitIs
  <2> HIDE DEF f
  <2>2. Changed(k, f, api)
    BY <1>5, <2>1, TakenChanges
  <2>3. Settles(f, r)
    BY <2>2, SettlesS DEF Changed
  <2>4. k' = r
    BY <1>7 DEF f
  <2> HIDE DEF r
  <2>5. Stable(r, pc, api)
    BY <1>1, <2>2, <2>3, Stays
  <2> QED
    BY <1>1, <1>7, <2>4, <2>5, SemRight
<1>8. CASE h.cnt[w] <= 0 /\ k' = chSchGoSleepS(sem_insert(h, w), "WTSEM") /\ Sleeps(<<"woken">>)
  <2> DEFINE r == chSemSleepS(h, w, Infinite)
  <2>1. k' = r
    BY <1>8, SleepForEver DEF chSemSleepS
  <2>2. SemSlept(h, r, w)
    <3>1. Infinite \in Time \cup {Infinite}
      OBVIOUS
    <3> QED
      BY <1>6, <1>8, <3>1, SemSleepIs
  <2> HIDE DEF r
  <2>3. PICK e : /\ Sleep(h, e, r, "WTSEM") /\ Counted(e) /\ e.realprio = h.realprio
                 /\ e.due = h.due
                 /\ \A o \in Object : e.q[o] = IF o = w THEN Append(h.q[w], h.current) ELSE h.q[o]
    BY <2>2 DEF SemSlept
  <2>4. \A o \in Object : o \in ObjectsOf(api) \/ e.q[o] = <<>>
    BY <1>5, <2>3 DEF ObjectsOf, Changed
  <2>5. <<"woken">> \in PlacesOf(api) /\ <<"woken">>[1] \notin {"user", "more"}
    BY DEF PlacesOf
  <2>6. "WTSEM" \in ViewsOf(api) \ Absent /\ "WTSEM" \in Timed
    BY DEF ViewsOf, Absent, Timed
  <2> DEFINE x == <<"woken">>
  <2> HIDE DEF x
  <2>7. k.current # Idle /\ h.current = k.current
    BY <1>2, <1>3 DEF Caller
  <2>8. Stable(r, [pc EXCEPT ![k.current] = x], api)
    BY <1>1, <1>5, <2>3, <2>4, <2>5, <2>6, <2>7, SleptAfter DEF x
  <2>9. pc' = [pc EXCEPT ![k.current] = x]
    BY <1>8 DEF Sleeps, me, x
  <2> QED
    BY <1>1, <2>1, <2>8, <2>9, SemRight
<1> QED
  BY <1>1, <1>7, <1>8 DEF chSemSignalWait, h

(* A binary semaphore's signal is a semaphore's, or nothing.               *)
LEMMA BSemChanges ==
  ASSUME NEW kk, NEW h, NEW g, Changed(kk, h, g), NEW s \in Sem
  PROVE  Changed(kk, chBSemSignalI(h, s), g)
<1>1. CASE h.cnt[s] < 1
  <2>1. Listed(h, {}) /\ Counted(h)
    BY DEF Changed
  <2>2. PICK T : Signalled(h, chSemSignalI(h, s), s, T)
    BY <2>1, SignalIIs
  <2> DEFINE r == chSemSignalI(h, s)
  <2> HIDE DEF r
  <2>3. Changed(kk, r, g)
    BY <2>2, SignalledChanges DEF r
  <2>4. chBSemSignalI(h, s) = r
    BY <1>1 DEF chBSemSignalI, r
  <2> QED
    BY <2>3, <2>4
<1>2. CASE ~(h.cnt[s] < 1)
  BY <1>2 DEF chBSemSignalI
<1> QED
  BY <1>1, <1>2

(* A signal leaves the lists whole.                                         *)
LEMMA SignalIChanges ==
  ASSUME NEW kk, NEW h, NEW g, Changed(kk, h, g), NEW s \in Sem
  PROVE  Changed(kk, chSemSignalI(h, s), g)
<1> DEFINE r == chSemSignalI(h, s)
<1>1. Listed(h, {}) /\ Counted(h)
  BY DEF Changed
<1>2. PICK T : Signalled(h, r, s, T)
  BY <1>1, SignalIIs
<1> HIDE DEF r
<1>3. Changed(kk, r, g)
  BY <1>2, SignalledChanges
<1> QED
  BY <1>3 DEF r

(* A reset leaves the lists whole.                                          *)
LEMMA ResetIChanges ==
  ASSUME NEW kk, NEW h, NEW g, Changed(kk, h, g), NEW s \in Sem, NEW n \in Nat
  PROVE  Changed(kk, chSemResetI(h, s, n), g)
<1> DEFINE r == chSemResetI(h, s, n)
<1>1. Listed(h, {}) /\ Counted(h) /\ n \in Int
  BY DEF Changed
<1>2. ResetTo(h, r, s, n, 0)
  BY <1>1, ResetIs
<1> HIDE DEF r
<1>3. Changed(kk, r, g)
  BY <1>2, ResetChanges
<1> QED
  BY <1>3 DEF r

(* The signal of a binary semaphore keeps the invariant.                    *)
LEMMA BSemSignalRight ==
  ASSUME IInv, api = "sem", UNCHANGED Others, api' = api, NEW s \in Sem, chBSemSignal(s)
  PROVE  IInv'
<1> DEFINE h == chBSemSignalI(k, s)
           r == chSchRescheduleS(h)
<1>1. Stable(k, pc, api) /\ k' = r /\ UNCHANGED <<pc, waiting, systime>>
  BY DEF IInv, Stable, chBSemSignal
<1>2. Changed(k, h, api)
  BY <1>1, StillPlain, BSemChanges
<1> HIDE DEF h
<1>3. Settles(h, r)
  BY <1>2, SettlesS DEF Changed
<1> HIDE DEF r
<1>4. Stable(r, pc, api)
  BY <1>1, <1>2, <1>3, Stays
<1> QED
  BY <1>1, <1>4, SemRight

(* The calls of an interrupt handler on a semaphore keep the invariant.     *)
LEMMA SemIsrRight ==
  ASSUME IInv, api = "sem", UNCHANGED Others, api' = api, NEW s \in Sem, SemIsr(s)
  PROVE  IInv'
<1>1. Stable(k, pc, api) /\ UNCHANGED <<pc, waiting, systime>>
  BY DEF IInv, Stable, SemIsr
<1>2. Changed(k, k, api)
  BY <1>1, StillPlain
<1>3. PICK h : Changed(k, h, api) /\ k' = CH_IRQ_EPILOGUE(h)
  <2>1. CASE k' = CH_IRQ_EPILOGUE(chSemSignalI(k, s))
    BY <1>2, <2>1, SignalIChanges
  <2>2. CASE k' = CH_IRQ_EPILOGUE(chBSemSignalI(k, s))
    BY <1>2, <2>2, BSemChanges
  <2>3. CASE k' = CH_IRQ_EPILOGUE(chSemResetI(k, s, 0))
    <3>1. Changed(k, chSemResetI(k, s, 0), api)
      BY <1>2, ResetIChanges
    <3> QED
      BY <2>3, <3>1
  <2>4. CASE k' = CH_IRQ_EPILOGUE(chSemAddTwoI(k, s))
    <3> DEFINE f == chSemSignalI(k, s)
    <3>1. Changed(k, f, api)
      BY <1>2, SignalIChanges
    <3>2. chSemAddTwoI(k, s) = chSemSignalI(f, s)
      BY DEF chSemAddTwoI
    <3> HIDE DEF f
    <3>3. Changed(k, chSemSignalI(f, s), api)
      BY <3>1, SignalIChanges
    <3> QED
      BY <2>4, <3>2, <3>3
  <2> QED
    BY <2>1, <2>2, <2>3, <2>4 DEF SemIsr
<1> DEFINE r == CH_IRQ_EPILOGUE(h)
<1>4. Settles(h, r)
  BY <1>3, SettlesI DEF Changed
<1>5. k' = r
  BY <1>3
<1> HIDE DEF r
<1>6. Stable(r, pc, api)
  BY <1>1, <1>3, <1>4, Stays
<1> QED
  BY <1>1, <1>5, <1>6, SemRight

(* The semaphores' calls keep the invariant.                               *)
LEMMA SemCallsRight ==
  ASSUME IInv, api = "sem", UNCHANGED Others, api' = api, SemCalls
  PROVE  IInv'
<1>1. PICK s \in Sem :
        \/ \E n \in Time \cup {Infinite} : chSemWait(s, n)
        \/ chSemSignal(s)
        \/ \E n \in 0..1 : chSemReset(s, n)
        \/ \E w \in Sem : chSemSignalWait(s, w)
        \/ chBSemSignal(s)
        \/ SemIsr(s)
  BY DEF SemCalls
<1> QED
  BY <1>1, SemWaitRight, SemSignalRight, SemResetRight, SemSignalWaitRight,
     BSemSignalRight, SemIsrRight

(* Who is in a queue or taken, and for whom.                               *)
Senders(v, mq, tk) ==
  /\ mq \in [Thread -> Seq(Thread)] /\ tk \in [Thread -> SUBSET Thread]
  /\ \A x \in Thread : Once(mq[x])
  /\ \A x, y \in Thread : y \in Members(mq[x]) => v[y] = "SNDMSGQ"
  /\ \A x, y \in Thread : y \in tk[x] => v[y] = "SNDMSG"
  /\ \A y, x, z \in Thread : y \in Members(mq[x]) /\ y \in Members(mq[z]) => x = z
  /\ \A y, x, z \in Thread : y \in tk[x] /\ y \in tk[z] => x = z
  /\ \A y \in Thread : v[y] = "SNDMSGQ" => \E x \in Thread : y \in Members(mq[x])
  /\ \A y \in Thread : v[y] = "SNDMSG" => \E x \in Thread : y \in tk[x]
Receivers(v, p, mq) ==
  \A t \in Thread :
    /\ v[t] = "WTMSG" => mq[t] = <<>> /\ p[t] = <<"msg">>
    /\ p[t] = <<"msg">> /\ v[t] # "WTMSG" => mq[t] # <<>> /\ v[t] = "RUNS"

(* The part of the invariant on messages is about senders and about         *)
(* receivers.                                                               *)
LEMMA MsgIs ==
  ASSUME NEW v, NEW p, NEW mq, NEW tk
  PROVE  MsgOK(v, p, mq, tk) <=> Senders(v, mq, tk) /\ Receivers(v, p, mq)
<1>1. ASSUME MsgOK(v, p, mq, tk)
      PROVE  Senders(v, mq, tk) /\ Receivers(v, p, mq)
  BY <1>1 DEF MsgOK, Senders, Receivers
<1>2. ASSUME Senders(v, mq, tk), Receivers(v, p, mq)
      PROVE  MsgOK(v, p, mq, tk)
  <2>1. mq \in [Thread -> Seq(Thread)] /\ tk \in [Thread -> SUBSET Thread]
    BY <1>2 DEF Senders
  <2>2. \A x \in Thread : Members(mq[x]) \subseteq Thread
    BY <2>1, MembersAre
  <2>3. \A x \in Thread : /\ \A y \in Members(mq[x]) : v[y] = "SNDMSGQ"
                          /\ \A y \in tk[x] : v[y] = "SNDMSG"
    BY <1>2, <2>1, <2>2 DEF Senders
  <2> QED
    BY <1>2, <2>1, <2>3 DEF MsgOK, Senders, Receivers
<1> QED
  BY <1>1, <1>2

(* One more sender in the queue of t; a receiver that sleeps is woken.     *)
LEMMA MsgSends ==
  ASSUME NEW v, NEW p, NEW mq, NEW tk, MsgOK(v, p, mq, tk), NEW c \in Thread,
         NEW t \in Thread, t # c, v[c] = "RUNS", p[c] = InUser, NEW u, NEW o,
         \A x \in Thread : u[x] = IF x = c THEN "SNDMSGQ"
                                  ELSE IF x = t /\ v[x] = "WTMSG" THEN "RUNS" ELSE v[x],
         \A x \in Thread : o[x] = IF x = c THEN <<"woken">> ELSE p[x]
  PROVE  MsgOK(u, o, [mq EXCEPT ![t] = Append(@, c)], tk)
<1> DEFINE mr == [mq EXCEPT ![t] = Append(@, c)]
           r == Append(mq[t], c)
<1>1. Senders(v, mq, tk) /\ Receivers(v, p, mq)
  BY MsgIs
<1>2. mq \in [Thread -> Seq(Thread)] /\ tk \in [Thread -> SUBSET Thread]
  BY <1>1 DEF Senders
<1>3. \A x \in Thread : c \notin Members(mq[x]) /\ c \notin tk[x]
  BY <1>1 DEF Senders
<1>4. mq[t] \in Seq(Thread) /\ Once(mq[t]) /\ c \notin Members(mq[t])
  BY <1>1, <1>2, <1>3 DEF Senders
<1> HIDE DEF r
<1>5. /\ r \in Seq(Thread) /\ Members(r) = Members(mq[t]) \cup {c}
      /\ (Once(mq[t]) /\ c \notin Members(mq[t]) => Once(r)) /\ Len(r) = Len(mq[t]) + 1
  BY <1>4, AppendIs DEF r
<1>6. r # <<>> /\ Once(r)
  <2>1. Len(mq[t]) \in Nat /\ Len(<<>>) = 0
    BY <1>4
  <2> QED
    BY <1>4, <1>5, <2>1
<1>7. \A x \in Thread : mr[x] = IF x = t THEN r ELSE mq[x]
  BY <1>2 DEF r
<1>8. mr \in [Thread -> Seq(Thread)]
  BY <1>2, <1>5 DEF r
<1> HIDE DEF mr
<1>9. \A x \in Thread : Members(mr[x]) = IF x = t THEN Members(mq[x]) \cup {c} ELSE Members(mq[x])
  BY <1>5, <1>7
<1>10. \A x \in Thread : Once(mr[x])
  BY <1>1, <1>6, <1>7 DEF Senders
<1>11. \A x, y \in Thread : y \in Members(mr[x]) <=> y \in Members(mq[x]) \/ (x = t /\ y = c)
  BY <1>9
<1>12. Senders(u, mr, tk)
  <2>1. \A y, x, z \in Thread : y \in Members(mr[x]) /\ y \in Members(mr[z]) => x = z
    BY <1>1, <1>3, <1>11, SMTT(40) DEF Senders
  <2>2. \A x, y \in Thread : y \in Members(mr[x]) => u[y] = "SNDMSGQ"
    BY <1>1, <1>11 DEF Senders
  <2>3. \A x, y \in Thread : y \in tk[x] => u[y] = "SNDMSG"
    BY <1>1, <1>3 DEF Senders
  <2>4. \A y \in Thread : u[y] = "SNDMSGQ" => \E x \in Thread : y \in Members(mr[x])
    BY <1>1, <1>11 DEF Senders
  <2>5. \A y \in Thread : u[y] = "SNDMSG" => \E x \in Thread : y \in tk[x]
    BY <1>1 DEF Senders
  <2> QED
    BY <1>1, <1>8, <1>10, <2>1, <2>2, <2>3, <2>4, <2>5 DEF Senders
<1>13. <<"woken">> # <<"msg">> /\ InUser # <<"msg">>
  BY DEF InUser
<1>14. Receivers(u, o, mr)
  BY <1>1, <1>6, <1>7, <1>13 DEF Receivers
<1> QED
  BY <1>12, <1>14, MsgIs DEF mr

(* The first sender leaves the queue and waits for its answer.             *)
Took(mq, tk, c, t, mr, tt) ==
  /\ mq[c] # <<>> /\ t = Head(mq[c])
  /\ mr = [mq EXCEPT ![c] = Tail(@)] /\ tt = [tk EXCEPT ![c] = @ \cup {t}]

(* A receiver takes the first sender of its queue.                          *)
LEMMA MsgReceives ==
  ASSUME NEW v, NEW p, NEW mq, NEW tk, MsgOK(v, p, mq, tk), NEW c \in Thread,
         v[c] = "RUNS", NEW t, NEW mr, NEW tt, Took(mq, tk, c, t, mr, tt), NEW u, NEW o,
         \A x \in Thread : u[x] = IF x = t THEN "SNDMSG" ELSE v[x],
         \A x \in Thread : o[x] = IF x = c THEN InUser ELSE p[x]
  PROVE  MsgOK(u, o, mr, tt)
<1>1. Senders(v, mq, tk) /\ Receivers(v, p, mq)
  BY MsgIs
<1>2. mq \in [Thread -> Seq(Thread)] /\ tk \in [Thread -> SUBSET Thread] /\ Once(mq[c])
  BY <1>1 DEF Senders
<1>3. /\ Tail(mq[c]) \in Seq(Thread) /\ t \in Members(mq[c]) /\ t \in Thread
      /\ Once(Tail(mq[c])) /\ Members(Tail(mq[c])) = Members(mq[c]) \ {t}
  BY <1>2, TailPlaces DEF Took
<1>4. v[t] = "SNDMSGQ" /\ t # c
  BY <1>1, <1>3 DEF Senders
<1>5. \A x \in Thread : /\ mr[x] = IF x = c THEN Tail(mq[c]) ELSE mq[x]
                        /\ tt[x] = IF x = c THEN tk[c] \cup {t} ELSE tk[x]
  BY <1>2 DEF Took
<1>6. mr \in [Thread -> Seq(Thread)] /\ tt \in [Thread -> SUBSET Thread]
  BY <1>2, <1>3 DEF Took
<1>7. \A x \in Thread : Once(mr[x])
  BY <1>1, <1>3, <1>5 DEF Senders
<1>8. \A x \in Thread : t \notin tk[x]
  BY <1>1, <1>3, <1>4 DEF Senders
<1>9. \A x \in Thread : x # c => t \notin Members(mq[x])
  BY <1>1, <1>3 DEF Senders
<1>10. \A x, y \in Thread : y \in Members(mr[x]) <=> y \in Members(mq[x]) /\ y # t
  <2> SUFFICES ASSUME NEW x \in Thread, NEW y \in Thread
               PROVE  y \in Members(mr[x]) <=> y \in Members(mq[x]) /\ y # t
    OBVIOUS
  <2>1. CASE x = c
    BY <1>3, <1>5, <2>1
  <2>2. CASE x # c
    BY <1>5, <1>9, <2>2
  <2> QED
    BY <2>1, <2>2
<1>11. \A x, y \in Thread : y \in tt[x] <=> y \in tk[x] \/ (x = c /\ y = t)
  BY <1>5
<1>12. Senders(u, mr, tt)
  <2>1. \A y, x, z \in Thread : y \in tt[x] /\ y \in tt[z] => x = z
    BY <1>1, <1>8, <1>11 DEF Senders
  <2>2. \A y, x, z \in Thread : y \in Members(mr[x]) /\ y \in Members(mr[z]) => x = z
    BY <1>1, <1>10 DEF Senders
  <2>3. \A x, y \in Thread : y \in Members(mr[x]) => u[y] = "SNDMSGQ"
    BY <1>1, <1>10 DEF Senders
  <2>4. \A x, y \in Thread : y \in tt[x] => u[y] = "SNDMSG"
    BY <1>1, <1>11 DEF Senders
  <2>5. \A y \in Thread : u[y] = "SNDMSGQ" => \E x \in Thread : y \in Members(mr[x])
    BY <1>1, <1>10 DEF Senders
  <2>6. \A y \in Thread : u[y] = "SNDMSG" => \E x \in Thread : y \in tt[x]
    BY <1>1, <1>11 DEF Senders
  <2> QED
    BY <1>6, <1>7, <2>1, <2>2, <2>3, <2>4, <2>5, <2>6 DEF Senders
<1>13. InUser # <<"msg">>
  BY DEF InUser
<1>14. Receivers(u, o, mr)
  BY <1>1, <1>4, <1>5, <1>13 DEF Receivers
<1> QED
  BY <1>12, <1>14, MsgIs

(* A receiver without a sender sleeps.                                      *)
LEMMA MsgSleeps ==
  ASSUME NEW v, NEW p, NEW mq, NEW tk, MsgOK(v, p, mq, tk), NEW c \in Thread,
         v[c] = "RUNS", mq[c] = <<>>, NEW u, NEW o,
         \A x \in Thread : u[x] = IF x = c THEN "WTMSG" ELSE v[x],
         \A x \in Thread : o[x] = IF x = c THEN <<"msg">> ELSE p[x]
  PROVE  MsgOK(u, o, mq, tk)
<1>1. Senders(v, mq, tk) /\ Receivers(v, p, mq)
  BY MsgIs
<1>2. Senders(u, mq, tk)
  BY <1>1 DEF Senders
<1>3. Receivers(u, o, mq)
  BY <1>1 DEF Receivers
<1> QED
  BY <1>2, <1>3, MsgIs

(* An answered sender runs.                                                *)
LEMMA MsgReleases ==
  ASSUME NEW v, NEW p, NEW mq, NEW tk, MsgOK(v, p, mq, tk), NEW c \in Thread,
         NEW t \in tk[c], NEW u,
         \A x \in Thread : u[x] = IF x = t THEN "RUNS" ELSE v[x]
  PROVE  v[t] = "SNDMSG" /\ t \in Thread /\ MsgOK(u, p, mq, [tk EXCEPT ![c] = @ \ {t}])
<1> DEFINE tt == [tk EXCEPT ![c] = @ \ {t}]
<1>1. Senders(v, mq, tk) /\ Receivers(v, p, mq)
  BY MsgIs
<1>2. mq \in [Thread -> Seq(Thread)] /\ tk \in [Thread -> SUBSET Thread]
  BY <1>1 DEF Senders
<1>3. t \in Thread
  BY <1>2
<1>4. v[t] = "SNDMSG"
  BY <1>1, <1>3 DEF Senders
<1>5. tt \in [Thread -> SUBSET Thread]
  BY <1>2
<1>6. \A x, y \in Thread : y \in tt[x] <=> y \in tk[x] /\ ~(x = c /\ y = t)
  BY <1>2
<1> HIDE DEF tt
<1>7. \A x \in Thread : t \in tk[x] => x = c
  BY <1>1, <1>3 DEF Senders
<1>8. \A x, y \in Thread : y \in tt[x] <=> y \in tk[x] /\ y # t
  BY <1>6, <1>7
<1>9. \A x \in Thread : t \notin Members(mq[x])
  BY <1>1, <1>3, <1>4 DEF Senders
<1>10. Senders(u, mq, tt)
  <2>1. \A y, x, z \in Thread : y \in tt[x] /\ y \in tt[z] => x = z
    BY <1>1, <1>8 DEF Senders
  <2>2. \A x, y \in Thread : y \in Members(mq[x]) => u[y] = "SNDMSGQ"
    BY <1>1, <1>9 DEF Senders
  <2>3. \A x, y \in Thread : y \in tt[x] => u[y] = "SNDMSG"
    BY <1>1, <1>8 DEF Senders
  <2>4. \A y \in Thread : u[y] = "SNDMSGQ" => \E x \in Thread : y \in Members(mq[x])
    BY <1>1 DEF Senders
  <2>5. \A y \in Thread : u[y] = "SNDMSG" => \E x \in Thread : y \in tt[x]
    BY <1>1, <1>8 DEF Senders
  <2> QED
    BY <1>1, <1>5, <2>1, <2>2, <2>3, <2>4, <2>5 DEF Senders
<1>11. Receivers(u, p, mq)
  BY <1>1, <1>4 DEF Receivers
<1>12. MsgOK(u, p, mq, tt)
  BY <1>10, <1>11, MsgIs
<1> QED
  BY <1>3, <1>4, <1>12 DEF tt

(* What keeps the lists and the messages keeps the invariant.               *)
LEMMA MsgRight ==
  ASSUME IInv, api = "msg", UNCHANGED <<mtxVars, evtVars, mbxVars, ioqVars>>, api' = api,
         systime' = systime, waiting' = waiting, Stable(k', pc', api),
         MsgOK(View(k'), pc', msgqueue', taken')
  PROVE  IInv'
<1>1. KernelRight(k') /\ Placed(k', pc', api)
  BY DEF Stable
<1>2. Untouched(api)'
  BY DEF IInv, Untouched, mtxVars, evtVars, mbxVars, ioqVars, MtxInit, EvtInit, chMBInit, chIQInit
<1>3. systime' \in 0..1 /\ api \notin Queue
  BY DEF IInv, Queue
<1> QED
  BY <1>1, <1>2, <1>3, StepRight

(* A thread that waits for a message is made ready.                        *)
LEMMA LooseReady ==
  ASSUME NEW kk, Listed(kk, {}), NEW t \in Thread, kk.state[t] \notin Runs \cup Waits,
         NEW r, r = chSchReadyI(kk, t)
  PROVE  /\ Listed(r, {}) /\ View(r) = [View(kk) EXCEPT ![t] = "RUNS"]
         /\ SameRest(kk, r) /\ r.msg = kk.msg /\ r.current = kk.current
<1>1. {t} \in SUBSET Thread /\ \A x \in {t} : kk.state[x] \notin Runs \cup Waits
  OBVIOUS
<1> DEFINE L == {t}
<1> HIDE DEF L
<1>2. Listed(kk, L)
  BY <1>1, LooseAll DEF L
<1>3. t \in L /\ L \ {t} = {}
  BY DEF L
<1>4. /\ Listed(r, L \ {t}) /\ View(r) = [View(kk) EXCEPT ![t] = "RUNS"]
      /\ SameRest(kk, r) /\ r.msg = kk.msg /\ r.current = kk.current
  BY <1>2, <1>3, ReadyIListed
<1> QED
  BY <1>3, <1>4

(* A thread that was in no queue is made ready.                             *)
LEMMA LooseChanges ==
  ASSUME NEW kk, NEW h, NEW g, Changed(kk, h, g), NEW t \in Thread,
         h.state[t] \notin Runs \cup Waits, NEW r, r = chSchReadyI(h, t)
  PROVE  Changed(kk, r, g)
<1>1. /\ Listed(r, {}) /\ View(r) = [View(h) EXCEPT ![t] = "RUNS"]
      /\ SameRest(h, r) /\ r.msg = h.msg /\ r.current = h.current
  BY LooseReady DEF Changed
<1>2. \A u \in Thread : View(r)[u] = IF u = t THEN "RUNS" ELSE View(h)[u]
  BY <1>1 DEF View
<1>3. Frame(kk, r, Thread)
  BY <1>1, <1>2 DEF Frame, SameRest, Changed
<1>4. Counted(r)
  BY <1>1 DEF Changed, Counted, SameRest
<1> QED
  BY <1>1, <1>3, <1>4 DEF Changed, SameRest

(* chMsgSend keeps the invariant: the sender is in the queue of its         *)
(* receiver, which is woken if it waits.                                    *)
LEMMA MsgSendRight ==
  ASSUME IInv, api = "msg", UNCHANGED <<mtxVars, evtVars, mbxVars, ioqVars>>, api' = api,
         NEW t \in Thread, chMsgSend(t)
  PROVE  IInv'
<1> DEFINE h == IF IsReceiving(t) THEN chSchReadyI(k, t) ELSE k
           r == chSchGoSleepS(h, "SNDMSGQ")
           c == k.current
           x == <<"woken">>
<1>1. Stable(k, pc, api) /\ Calls /\ waiting' = waiting /\ systime' = systime /\ k' = r /\ t # c
  BY DEF IInv, Stable, chMsgSend, me
<1>2. Caller(k, pc) /\ Changed(k, k, api)
  BY <1>1, CallerIs, StillPlain DEF Stable
<1>3. pc' = [pc EXCEPT ![k.current] = x] /\ msgqueue' = [msgqueue EXCEPT ![t] = Append(@, c)]
      /\ taken' = taken
  BY DEF chMsgSend, Sleeps, me
<1>4. /\ Changed(k, h, api) /\ h.current = k.current /\ h.due = k.due
      /\ \A u \in Thread : View(h)[u] = IF u = t /\ View(k)[u] = "WTMSG" THEN "RUNS" ELSE View(k)[u]
  <2>1. CASE IsReceiving(t)
    <3>1. h = chSchReadyI(k, t) /\ k.state[t] = "WTMSG"
      BY <2>1 DEF IsReceiving
    <3>2. k.state[t] \notin Runs \cup Waits /\ View(k)[t] = "WTMSG"
      BY <3>1 DEF Runs, Waits, View
    <3> HIDE DEF h
    <3>3. Changed(k, h, api)
      BY <1>2, <3>1, <3>2, LooseChanges
    <3>4. /\ Listed(h, {}) /\ View(h) = [View(k) EXCEPT ![t] = "RUNS"]
          /\ SameRest(k, h) /\ h.msg = k.msg /\ h.current = k.current
      BY <1>2, <3>1, <3>2, LooseReady DEF Caller
    <3>5. \A u \in Thread : View(h)[u] = IF u = t THEN "RUNS" ELSE View(k)[u]
      BY <3>4 DEF View
    <3> QED
      BY <3>2, <3>3, <3>4, <3>5 DEF SameRest
  <2>2. CASE ~IsReceiving(t)
    <3>1. h = k /\ k.state[t] # "WTMSG"
      BY <2>2 DEF IsReceiving
    <3>2. View(k)[t] # "WTMSG"
      BY <3>1 DEF View
    <3> QED
      BY <1>2, <3>1, <3>2
  <2> QED
    BY <2>1, <2>2
<1> HIDE DEF h, x
<1>5. Listed(h, {}) /\ Counted(h) /\ TimersAre(h.vt, h.due) /\ h.current # Idle
  BY <1>2, <1>4 DEF Changed, Caller
<1>6. Sleep(h, h, r, "SNDMSGQ") /\ r.due = h.due
  <2>1. "SNDMSGQ" \in States \ (Runs \cup Waits)
    BY DEF States, Runs, Waits
  <2> QED
    BY <1>5, <2>1, SleepS
<1> HIDE DEF r
<1>7. Stable(r, [pc EXCEPT ![k.current] = x], api)
  <2>1. x \in PlacesOf(api) /\ x[1] \notin {"user", "more"}
    BY DEF PlacesOf, x
  <2>2. "SNDMSGQ" \in ViewsOf(api) \ Absent
    BY DEF ViewsOf, Absent
  <2>3. r.due[k.current] = 0 /\ k.current # Idle
    BY <1>2, <1>4, <1>6 DEF Caller
  <2>4. \A o \in Object : o \in ObjectsOf(api) \/ h.q[o] = <<>>
    BY <1>4 DEF Changed
  <2> QED
    BY <1>1, <1>4, <1>5, <1>6, <2>1, <2>2, <2>3, <2>4, SleptAfter
<1>8. MsgOK(View(r), [pc EXCEPT ![k.current] = x], [msgqueue EXCEPT ![t] = Append(@, c)], taken)
  <2>1. c \in Thread /\ View(k)[c] = "RUNS" /\ pc[c] = InUser
    BY <1>2 DEF Caller
  <2>2. \A u \in Thread : View(r)[u] = IF u = c THEN "SNDMSGQ"
                                       ELSE IF u = t /\ View(k)[u] = "WTMSG" THEN "RUNS" ELSE View(k)[u]
    <3>1. View(r) = [View(h) EXCEPT ![c] = "SNDMSGQ"]
      BY <1>4, <1>6 DEF Sleep
    <3>2. \A u \in Thread : View(r)[u] = IF u = c THEN "SNDMSGQ" ELSE View(h)[u]
      BY <2>1, <3>1 DEF View
    <3> QED
      BY <1>4, <3>2
  <2>3. pc \in [Thread -> PlacesOf(api)]
    BY <1>1 DEF Stable, Placed
  <2> DEFINE p == [pc EXCEPT ![k.current] = x]
  <2>4. \A u \in Thread : p[u] = IF u = c THEN <<"woken">> ELSE pc[u]
    BY <2>1, <2>3 DEF x
  <2>5. MsgOK(View(k), pc, msgqueue, taken)
    BY DEF IInv
  <2> HIDE DEF p, c
  <2>6. MsgOK(View(r), p, [msgqueue EXCEPT ![t] = Append(@, c)], taken)
    BY <1>1, <2>1, <2>2, <2>4, <2>5, MsgSends, SMTT(40)
  <2> QED
    BY <2>6 DEF p
<1> QED
  BY <1>1, <1>3, <1>7, <1>8, MsgRight

Received(kk, t) == [kk EXCEPT !.state[t] = "SNDMSG"]

(* A sender that was taken waits for its answer.                            *)
LEMMA ReceivedIs ==
  ASSUME NEW kk, NEW p, Stable(kk, p, "msg"), NEW t \in Thread, View(kk)[t] = "SNDMSGQ",
         NEW r, r = Received(kk, t)
  PROVE  /\ Stable(r, p, "msg") /\ r.current = kk.current /\ r.due = kk.due
         /\ \A u \in Thread : View(r)[u] = IF u = t THEN "SNDMSG" ELSE View(kk)[u]
<1>1. Listed(kk, {}) /\ HighestCurrent(kk) /\ kk \in KernelState /\ KernelRight(kk) /\ Placed(kk, p, "msg")
  BY DEF Stable, KernelRight, Listed
<1>2. kk.state[t] = "SNDMSGQ"
  BY DEF View
<1> DEFINE st == [kk.state EXCEPT ![t] = "SNDMSG"]
<1>3. st \in [Thread -> States]
  BY <1>1, KernelIs DEF States
<1>4. r = [kk EXCEPT !.state = st]
  BY DEF Received
<1> HIDE DEF st
<1>5. /\ r \in KernelState /\ r.state = st /\ r.prio = kk.prio /\ r.realprio = kk.realprio
      /\ r.ready = kk.ready /\ r.current = kk.current /\ r.q = kk.q /\ r.cnt = kk.cnt
      /\ r.vt = kk.vt /\ r.due = kk.due /\ r.msg = kk.msg
  BY <1>1, <1>3, <1>4 DEF KernelState
<1>6. kk.state[t] \notin Runs \cup Waits /\ "SNDMSG" \notin Runs \cup Waits
  BY <1>2 DEF Runs, Waits
<1>7. r.prio = [kk.prio EXCEPT ![t] = kk.prio[t]]
  BY <1>1, <1>5, KernelIs
<1>8. r.state = [kk.state EXCEPT ![t] = "SNDMSG"]
  BY <1>5 DEF st
<1> DEFINE n == kk.prio[t]
           s == "SNDMSG"
<1>9. Listed(r, {}) /\ View(r) = [View(kk) EXCEPT ![t] = s]
      /\ (HighestCurrent(kk) => HighestCurrent(r))
  <2>1. s \notin Runs \cup Waits /\ r.state = [kk.state EXCEPT ![t] = s]
        /\ r.prio = [kk.prio EXCEPT ![t] = n]
    BY <1>6, <1>7, <1>8
  <2> HIDE DEF n, s
  <2> QED
    BY <1>1, <1>5, <1>6, <2>1, LoosePrio
<1>10. \A u \in Thread : View(r)[u] = IF u = t THEN "SNDMSG" ELSE View(kk)[u]
  BY <1>9 DEF View
<1>11. Whole(r, "msg")
  <2>1. Counted(r)
    BY <1>1, <1>5 DEF KernelRight, Counted
  <2> QED
    BY <1>1, <1>5, <1>9, <2>1 DEF Whole, KernelRight, TimersRight, Placed
<1>12. Frame(kk, r, Thread \ {t})
  BY <1>5, <1>10 DEF Frame
<1>13. p[t] \in PlacesOf("msg") /\ [p EXCEPT ![t] = p[t]] = p
  BY <1>1, SamePlace
<1>14. At(r, t, p[t], "msg")
  <2>1. kk.due[t] = 0
    BY <1>1 DEF Placed
  <2>2. "SNDMSG" \in ViewsOf("msg") /\ "SNDMSG" \notin Absent
    BY DEF ViewsOf, Absent
  <2>3. p[t][1] \notin {"user", "more"}
    <3>1. View(kk)[t] \notin Absent \cup {"RUNS"}
      BY DEF Absent
    <3> QED
      BY <1>1, <3>1 DEF Placed
  <2>4. t = Idle => p[t] = InUser
    BY <1>1 DEF Placed
  <2> QED
    BY <1>5, <1>10, <2>1, <2>2, <2>3, <2>4 DEF At
<1> DEFINE x == p[t]
<1> HIDE DEF x
<1>15. KernelRight(r) /\ Placed(r, [p EXCEPT ![t] = x], "msg")
  BY <1>1, <1>11, <1>12, <1>13, <1>14, Moved DEF x
<1>16. Stable(r, p, "msg")
  BY <1>13, <1>15 DEF Stable, x
<1> QED
  BY <1>5, <1>10, <1>16

(* A receiver takes its first sender, and goes on in its own code.         *)
LEMMA ReceiveRight ==
  ASSUME IInv, api = "msg", UNCHANGED <<mtxVars, evtVars, mbxVars, ioqVars>>, api' = api,
         systime' = systime, waiting' = waiting, k.current # Idle,
         msgqueue[k.current] # <<>>, Receive(k), pc' = [pc EXCEPT ![k.current] = InUser]
  PROVE  IInv'
<1> DEFINE c == k.current
           t == Head(msgqueue[c])
           r == [k EXCEPT !.state[t] = "SNDMSG"]
<1>1. Stable(k, pc, "msg") /\ MsgOK(View(k), pc, msgqueue, taken) /\ Listed(k, {})
  BY DEF IInv, Stable, KernelRight
<1>2. c \in Thread /\ View(k)[c] = "RUNS"
  BY <1>1, CurrentRuns
<1>3. k' = r /\ msgqueue' = [msgqueue EXCEPT ![c] = Tail(@)] /\ taken' = [taken EXCEPT ![c] = @ \cup {t}]
  BY DEF Receive, me
<1>4. Senders(View(k), msgqueue, taken)
  BY <1>1, MsgIs
<1>5. msgqueue[c] \in Seq(Thread) /\ msgqueue[c] # <<>> /\ Once(msgqueue[c])
  BY <1>2, <1>4 DEF Senders
<1>6. t \in Members(msgqueue[c]) /\ t \in Thread
  BY <1>5, TailPlaces
<1>7. View(k)[t] = "SNDMSGQ"
  BY <1>2, <1>4, <1>6 DEF Senders
<1> HIDE DEF r, t, c
<1>8. /\ Stable(r, pc, "msg") /\ r.current = k.current /\ r.due = k.due
      /\ \A u \in Thread : View(r)[u] = IF u = t THEN "SNDMSG" ELSE View(k)[u]
  <2>1. r = Received(k, t)
    BY DEF r, Received
  <2> QED
    BY <1>1, <1>6, <1>7, <2>1, ReceivedIs
<1>9. Stable(r, [pc EXCEPT ![c] = InUser], "msg")
  <2>1. Changed(r, r, "msg")
    BY <1>8, StillPlain
  <2>2. Settles(r, r)
    BY <1>8, SettlesItself DEF Stable, KernelRight
  <2>3. View(r)[c] = "RUNS"
    BY <1>2, <1>7, <1>8
  <2>4. r.due[c] = 0
    BY <1>2, <1>8 DEF Stable, Placed
  <2>5. InUser \in PlacesOf("msg")
    BY DEF PlacesOf
  <2>6. c # Idle
    BY DEF c
  <2> QED
    BY <1>2, <1>8, <2>1, <2>2, <2>3, <2>4, <2>5, <2>6, GoesElsewhere
<1> DEFINE p == [pc EXCEPT ![c] = InUser]
<1>10. \A x \in Thread : p[x] = IF x = c THEN InUser ELSE pc[x]
  BY <1>1, <1>2 DEF Stable, Placed
<1> HIDE DEF p
<1>11. MsgOK(View(r), p, [msgqueue EXCEPT ![c] = Tail(@)], [taken EXCEPT ![c] = @ \cup {t}])
  <2>1. t = Head(msgqueue[c]) /\ msgqueue[c] # <<>>
    BY <1>5 DEF t
  <2>2. \A x \in Thread : View(r)[x] = IF x = t THEN "SNDMSG" ELSE View(k)[x]
    BY <1>8
  <2> DEFINE v == View(k)
             u == View(r)
             mr == [msgqueue EXCEPT ![c] = Tail(@)]
             tt == [taken EXCEPT ![c] = @ \cup {t}]
  <2>3. MsgOK(v, pc, msgqueue, taken) /\ c \in Thread /\ v[c] = "RUNS"
    BY <1>1, <1>2
  <2>4. \A x \in Thread : u[x] = IF x = t THEN "SNDMSG" ELSE v[x]
    BY <2>2
  <2>6. Took(msgqueue, taken, c, t, mr, tt)
    BY <2>1 DEF Took
  <2> HIDE DEF u, v, mr, tt
  <2>5. MsgOK(u, p, mr, tt)
    BY <1>10, <2>1, <2>3, <2>4, <2>6, MsgReceives
  <2> QED
    BY <2>5 DEF u, mr, tt
<1>12. k' = r /\ pc' = p
  BY <1>3 DEF p, c
<1> QED
  BY <1>3, <1>9, <1>11, <1>12, MsgRight DEF p

(* chMsgWait keeps the invariant.                                           *)
LEMMA MsgWaitRight ==
  ASSUME IInv, api = "msg", UNCHANGED <<mtxVars, evtVars, mbxVars, ioqVars>>, api' = api,
         chMsgWait
  PROVE  IInv'
<1> DEFINE c == k.current
<1>1. Stable(k, pc, api) /\ Calls /\ waiting' = waiting /\ systime' = systime
  BY DEF IInv, Stable, chMsgWait
<1>2. Caller(k, pc) /\ pc \in [Thread -> PlacesOf(api)]
  BY <1>1, CallerIs DEF Stable, Placed
<1>3. CASE msgqueue[c] # <<>> /\ Receive(k) /\ pc' = pc
  <2>1. pc = [pc EXCEPT ![c] = InUser]
    BY <1>2 DEF Caller
  <2> QED
    BY <1>1, <1>2, <1>3, <2>1, ReceiveRight DEF Caller
<1>4. CASE msgqueue[c] = <<>> /\ k' = chSchGoSleepS(k, "WTMSG") /\ Sleeps(<<"msg">>)
           /\ UNCHANGED msgVars
  <2> DEFINE r == chSchGoSleepS(k, "WTMSG")
             x == <<"msg">>
             p == [pc EXCEPT ![c] = x]
  <2>1. Sleep(k, k, r, "WTMSG") /\ r.due = k.due
    <3>1. "WTMSG" \in States \ (Runs \cup Waits)
      BY DEF States, Runs, Waits
    <3> QED
      BY <1>2, <3>1, SleepS DEF Caller
  <2>2. k' = r /\ pc' = p /\ msgqueue' = msgqueue /\ taken' = taken
    BY <1>4 DEF Sleeps, me, msgVars
  <2> HIDE DEF r, x
  <2>3. Stable(r, [pc EXCEPT ![k.current] = x], api)
    <3>1. x \in PlacesOf(api) /\ x[1] \notin {"user", "more"}
      BY DEF PlacesOf, x
    <3>2. "WTMSG" \in ViewsOf(api) \ Absent
      BY DEF ViewsOf, Absent
    <3>3. r.due[k.current] = 0
      BY <1>2, <2>1 DEF Caller
    <3>4. \A o \in Object : o \in ObjectsOf(api) \/ k.q[o] = <<>>
      BY <1>1 DEF Stable, Placed
    <3> QED
      BY <1>1, <1>2, <2>1, <3>1, <3>2, <3>3, <3>4, Slept DEF Caller
  <2>4. \A y \in Thread : View(r)[y] = IF y = c THEN "WTMSG" ELSE View(k)[y]
    <3>1. View(r) = [View(k) EXCEPT ![c] = "WTMSG"]
      BY <2>1 DEF Sleep
    <3> QED
      BY <3>1 DEF View
  <2>5. \A y \in Thread : p[y] = IF y = c THEN <<"msg">> ELSE pc[y]
    BY <1>2 DEF x
  <2> HIDE DEF p
  <2>6. MsgOK(View(r), p, msgqueue, taken)
    <3>1. MsgOK(View(k), pc, msgqueue, taken) /\ c \in Thread /\ View(k)[c] = "RUNS"
      BY <1>2 DEF IInv, Caller
    <3> HIDE DEF c
    <3> QED
      BY <1>4, <2>4, <2>5, <3>1, MsgSleeps
  <2> QED
    BY <1>1, <2>2, <2>3, <2>6, MsgRight DEF p
<1> QED
  BY <1>3, <1>4 DEF chMsgWait, me

(* A receiver that was woken finds a sender, and keeps the invariant.       *)
LEMMA MsgWokenRight ==
  ASSUME IInv, api = "msg", UNCHANGED <<mtxVars, evtVars, mbxVars, ioqVars>>, api' = api,
         MsgWoken
  PROVE  IInv'
<1> DEFINE c == k.current
<1>1. Stable(k, pc, api) /\ Listed(k, {}) /\ MsgOK(View(k), pc, msgqueue, taken)
  BY DEF IInv, Stable, KernelRight
<1>2. pc[c][1] = "msg" /\ Receive(k) /\ pc' = [pc EXCEPT ![c] = InUser]
      /\ waiting' = waiting /\ systime' = systime
  BY DEF MsgWoken, GoesOn, Returns, me
<1>3. c \in Thread /\ View(k)[c] = "RUNS"
  BY <1>1, CurrentRuns
<1>4. pc[c] = <<"msg">>
  <2>1. pc[c] \in PlacesOf("msg")
    BY <1>1, <1>3 DEF Stable, Placed
  <2> QED
    BY <1>2, <2>1 DEF PlacesOf, InUser
<1>5. c # Idle
  BY <1>1, <1>4 DEF Stable, Placed, InUser
<1>6. msgqueue[c] # <<>>
  BY <1>1, <1>3, <1>4 DEF MsgOK
<1> QED
  BY <1>2, <1>5, <1>6, ReceiveRight

(* chMsgRelease keeps the invariant.                                        *)
LEMMA MsgReleaseRight ==
  ASSUME IInv, api = "msg", UNCHANGED <<mtxVars, evtVars, mbxVars, ioqVars>>, api' = api,
         NEW t \in Thread, chMsgRelease(t)
  PROVE  IInv'
<1> DEFINE r == chSchWakeupS(k, t, "OK")
           c == k.current
           v == [x \in Thread |-> IF x = t THEN "RUNS" ELSE View(k)[x]]
<1>1. Stable(k, pc, api) /\ Listed(k, {}) /\ HighestCurrent(k) /\ k \in KernelState /\ Counted(k)
      /\ TimersAre(k.vt, k.due) /\ MsgOK(View(k), pc, msgqueue, taken)
  BY DEF IInv, Stable, KernelRight, TimersRight, Listed
<1>2. t \in taken[c] /\ k' = r /\ UNCHANGED <<pc, waiting, systime, msgqueue>>
      /\ taken' = [taken EXCEPT ![c] = @ \ {t}]
  BY DEF chMsgRelease, me
<1>3. c \in Thread
  BY <1>1, KernelIs
<1>4. \A x \in Thread : v[x] = IF x = t THEN "RUNS" ELSE View(k)[x]
  OBVIOUS
<1> HIDE DEF v
<1>5. View(k)[t] = "SNDMSG" /\ t \in Thread /\ MsgOK(v, pc, msgqueue, [taken EXCEPT ![c] = @ \ {t}])
  <2> HIDE DEF c
  <2> QED
    BY <1>1, <1>2, <1>3, <1>4, MsgReleases
<1>6. k.state[t] \notin Runs \cup Waits /\ "OK" \in Messages
  <2>1. k.state[t] = "SNDMSG"
    BY <1>5 DEF View
  <2> QED
    BY <2>1 DEF Runs, Waits, Messages
<1>7. Awoken(k, k, r, t, "OK")
  BY <1>1, <1>6, LooseWoken
<1> HIDE DEF r
<1>8. Stable(r, pc, api)
  <2>1. /\ \A o \in Object : o \in ObjectsOf(api) \/ k.q[o] = <<>>
        /\ api # "mtx" => k.prio = k.realprio
    BY <1>1 DEF Stable, Placed
  <2> QED
    BY <1>1, <1>7, <2>1, AwokenChanges
<1>9. View(r) = v
  BY <1>7 DEF Awoken, View, v
<1> QED
  BY <1>2, <1>5, <1>8, <1>9, MsgRight

(* The calls with messages keep the invariant.                             *)
LEMMA MsgCallsRight ==
  ASSUME IInv, api = "msg", UNCHANGED <<mtxVars, evtVars, mbxVars, ioqVars>>, api' = api,
         MsgCalls
  PROVE  IInv'
BY MsgSendRight, MsgReleaseRight, MsgWaitRight, MsgWokenRight DEF MsgCalls

(* What keeps the lists and the events keeps the invariant.                 *)
LEMMA EvtRight ==
  ASSUME IInv, api = "evt", UNCHANGED <<mtxVars, msgVars, mbxVars, ioqVars>>, api' = api,
         systime' = systime, waiting' = waiting, Stable(k', pc', api),
         EvtOK(View(k'), pc', k.msg', epending', ewmask', listeners')
  PROVE  IInv'
<1>1. KernelRight(k') /\ Placed(k', pc', api)
  BY DEF Stable
<1>2. Untouched(api)'
  BY DEF IInv, Untouched, mtxVars, msgVars, mbxVars, ioqVars, MtxInit, MsgInit, chMBInit, chIQInit
<1>3. systime' \in 0..1 /\ api \notin Queue
  BY DEF IInv, Queue
<1> QED
  BY <1>1, <1>2, <1>3, StepRight

Listeners == Seq([el_listener : Thread, el_mask : SUBSET Event])

(* What the thread that runs its own code does with its own events.        *)
LEMMA EvtMine ==
  ASSUME NEW v, NEW p, NEW ms, NEW ep, NEW ew, NEW ls, EvtOK(v, p, ms, ep, ew, ls),
         NEW c \in Thread, v[c] = "RUNS",
         NEW o, \A x \in Thread : o[x] = IF x = c THEN InUser ELSE p[x],
         NEW m, \A x \in Thread \ {c} : m[x] = ms[x],
         NEW er \in [Thread -> SUBSET Event], \A x \in Thread \ {c} : er[x] = ep[x],
         NEW wr \in [Thread -> SUBSET Event], \A x \in Thread \ {c} : wr[x] = ew[x],
         NEW lr \in Listeners
  PROVE  EvtOK(v, o, m, er, wr, lr)
<1>1. ASSUME NEW x \in Thread
      PROVE  /\ v[x] = "WTOREVT" => ~Come(er[x], wr[x], FALSE) /\ o[x] \in {<<"evt", "one">>, <<"evt", "any">>}
             /\ v[x] = "WTANDEVT" => ~Come(er[x], wr[x], TRUE) /\ o[x] = <<"evt", "all">>
             /\ v[x] = "RUNS" /\ o[x][1] = "evt" /\ m[x] = "OK"
                  => Come(er[x], wr[x], o[x] = <<"evt", "all">>)
  <2>1. CASE x = c
    <3>1. o[x][1] = "user" /\ v[x] = "RUNS"
      BY <2>1 DEF InUser
    <3> QED
      BY <3>1
  <2>2. CASE x # c
    <3>1. o[x] = p[x] /\ m[x] = ms[x] /\ er[x] = ep[x] /\ wr[x] = ew[x]
      BY <2>2
    <3> QED
      BY <3>1 DEF EvtOK
  <2> QED
    BY <2>1, <2>2
<1> QED
  BY <1>1 DEF EvtOK, Listeners

(* Events come for t, and it is woken if they are those it waits for.      *)
Enough(s, pend, mask) ==
  \/ s = "WTOREVT" /\ Come(pend, mask, FALSE)
  \/ s = "WTANDEVT" /\ Come(pend, mask, TRUE)

Now(ep, er, t, now) == er = [ep EXCEPT ![t] = now]

(* A thread that gets events runs if they are enough for it.                *)
LEMMA EventsCome ==
  ASSUME NEW v, NEW p, NEW ms, NEW ep, NEW ew, NEW ls, EvtOK(v, p, ms, ep, ew, ls),
         NEW t \in Thread, NEW now \in SUBSET Event, ep[t] \subseteq now, NEW er,
         Now(ep, er, t, now), NEW u, NEW m,
         \A x \in Thread : u[x] = IF x = t /\ Enough(v[t], now, ew[t]) THEN "RUNS" ELSE v[x],
         \A x \in Thread : m[x] = IF x = t /\ Enough(v[t], now, ew[t]) THEN "OK" ELSE ms[x]
  PROVE  EvtOK(u, p, m, er, ew, ls)
<1>1. ep \in [Thread -> SUBSET Event] /\ ew \in [Thread -> SUBSET Event]
  BY DEF EvtOK
<1>2. er \in [Thread -> SUBSET Event] /\ \A x \in Thread : er[x] = IF x = t THEN now ELSE ep[x]
  BY <1>1 DEF Now
<1>3. ASSUME NEW x \in Thread
      PROVE  /\ u[x] = "WTOREVT" => ~Come(er[x], ew[x], FALSE) /\ p[x] \in {<<"evt", "one">>, <<"evt", "any">>}
             /\ u[x] = "WTANDEVT" => ~Come(er[x], ew[x], TRUE) /\ p[x] = <<"evt", "all">>
             /\ u[x] = "RUNS" /\ p[x][1] = "evt" /\ m[x] = "OK"
                  => Come(er[x], ew[x], p[x] = <<"evt", "all">>)
  <2>1. CASE x # t
    <3>1. u[x] = v[x] /\ m[x] = ms[x] /\ er[x] = ep[x]
      BY <1>2, <2>1
    <3> QED
      BY <3>1 DEF EvtOK
  <2>2. CASE x = t /\ Enough(v[t], now, ew[t])
    <3>1. u[x] = "RUNS" /\ er[x] = now
      BY <1>2, <2>2
    <3>2. CASE v[t] = "WTOREVT"
      <4>1. Come(now, ew[t], FALSE)
        BY <2>2, <3>2 DEF Enough
      <4>2. p[t] # <<"evt", "all">>
        <5>1. p[t] \in {<<"evt", "one">>, <<"evt", "any">>}
          BY <3>2 DEF EvtOK
        <5>2. p[t][2] # "all"
          BY <5>1
        <5> QED
          BY <5>2
      <4> QED
        BY <2>2, <3>1, <4>1, <4>2
    <3>3. CASE v[t] = "WTANDEVT"
      <4>1. Come(now, ew[t], TRUE)
        BY <2>2, <3>3 DEF Enough
      <4>2. p[t] = <<"evt", "all">>
        BY <3>3 DEF EvtOK
      <4> QED
        BY <2>2, <3>1, <4>1, <4>2
    <3> QED
      BY <2>2, <3>2, <3>3 DEF Enough
  <2>3. CASE x = t /\ ~Enough(v[t], now, ew[t])
    <3>1. u[x] = v[x] /\ m[x] = ms[x] /\ er[x] = now
      BY <1>2, <2>3
    <3>2. \A all \in BOOLEAN : Come(ep[t], ew[t], all) => Come(now, ew[t], all)
      BY DEF Come
    <3>3. /\ v[x] = "WTOREVT" => ~Come(now, ew[x], FALSE) /\ p[x] \in {<<"evt", "one">>, <<"evt", "any">>}
          /\ v[x] = "WTANDEVT" => ~Come(now, ew[x], TRUE) /\ p[x] = <<"evt", "all">>
      BY <2>3 DEF Enough, EvtOK
    <3>4. v[x] = "RUNS" /\ p[x][1] = "evt" /\ ms[x] = "OK"
            => Come(ep[x], ew[x], p[x] = <<"evt", "all">>)
      BY DEF EvtOK
    <3>5. v[x] = "RUNS" /\ p[x][1] = "evt" /\ ms[x] = "OK"
            => Come(now, ew[x], p[x] = <<"evt", "all">>)
      <4>1. CASE p[x] = <<"evt", "all">>
        BY <2>3, <3>2, <3>4, <4>1
      <4>2. CASE p[x] # <<"evt", "all">>
        BY <2>3, <3>2, <3>4, <4>2
      <4> QED
        BY <4>1, <4>2
    <3> QED
      BY <3>1, <3>3, <3>5
  <2> QED
    BY <2>1, <2>2, <2>3
<1> QED
  BY <1>1, <1>2, <1>3 DEF EvtOK

(* The thread c has not what it waits for, and sleeps.                     *)
LEMMA EvtSleeps ==
  ASSUME NEW v, NEW p, NEW ms, NEW ep, NEW ew, NEW ls, EvtOK(v, p, ms, ep, ew, ls),
         NEW c \in Thread, NEW how \in {"one", "any", "all"}, NEW mask \in SUBSET Event,
         ~Come(ep[c], mask, how = "all"), NEW u, NEW o, NEW wr, Now(ew, wr, c, mask),
         \A x \in Thread : u[x] = IF x = c THEN IF how = "all" THEN "WTANDEVT" ELSE "WTOREVT"
                                  ELSE v[x],
         \A x \in Thread : o[x] = IF x = c THEN <<"evt", how>> ELSE p[x]
  PROVE  EvtOK(u, o, ms, ep, wr, ls)
<1>1. ep \in [Thread -> SUBSET Event] /\ ew \in [Thread -> SUBSET Event]
  BY DEF EvtOK
<1>2. wr \in [Thread -> SUBSET Event] /\ \A x \in Thread : wr[x] = IF x = c THEN mask ELSE ew[x]
  BY <1>1 DEF Now
<1>3. ASSUME NEW x \in Thread
      PROVE  /\ u[x] = "WTOREVT" => ~Come(ep[x], wr[x], FALSE) /\ o[x] \in {<<"evt", "one">>, <<"evt", "any">>}
             /\ u[x] = "WTANDEVT" => ~Come(ep[x], wr[x], TRUE) /\ o[x] = <<"evt", "all">>
             /\ u[x] = "RUNS" /\ o[x][1] = "evt" /\ ms[x] = "OK"
                  => Come(ep[x], wr[x], o[x] = <<"evt", "all">>)
  <2>1. CASE x # c
    <3>1. u[x] = v[x] /\ o[x] = p[x] /\ wr[x] = ew[x]
      BY <1>2, <2>1
    <3> QED
      BY <3>1 DEF EvtOK
  <2>2. CASE x = c /\ how = "all"
    <3>1. u[x] = "WTANDEVT" /\ wr[x] = mask /\ o[x] = <<"evt", "all">> /\ (how = "all") = TRUE
      BY <1>2, <2>2
    <3> QED
      BY <2>2, <3>1
  <2>3. CASE x = c /\ how # "all"
    <3>1. u[x] = "WTOREVT" /\ wr[x] = mask /\ o[x] \in {<<"evt", "one">>, <<"evt", "any">>}
          /\ (how = "all") = FALSE
      BY <1>2, <2>3
    <3> QED
      BY <2>3, <3>1
  <2> QED
    BY <2>1, <2>2, <2>3
<1> QED
  BY <1>1, <1>2, <1>3 DEF EvtOK

(* The thread t is told of events; now is what it has then.                *)
SignalTo(h, t, now, w) ==
  IF Enough(h.state[t], now, w) THEN chSchReadyI([h EXCEPT !.msg[t] = "OK"], t) ELSE h

(* chEvtSignalI wakes a thread whose events are enough, and no other.       *)
LEMMA SignalToIs ==
  ASSUME NEW kk, NEW h, NEW g, Changed(kk, h, g), NEW t \in Thread, NEW now, NEW w,
         NEW r, r = SignalTo(h, t, now, w)
  PROVE  /\ Changed(kk, r, g)
         /\ \A x \in Thread : View(r)[x] = IF x = t /\ Enough(View(h)[t], now, w)
                                             THEN "RUNS" ELSE View(h)[x]
         /\ \A x \in Thread : r.msg[x] = IF x = t /\ Enough(View(h)[t], now, w)
                                           THEN "OK" ELSE h.msg[x]
<1>1. h \in KernelState /\ Listed(h, {})
  BY DEF Changed, Listed
<1>2. Enough(h.state[t], now, w) <=> Enough(View(h)[t], now, w)
  BY DEF Enough, View, Runs
<1>3. CASE ~Enough(h.state[t], now, w)
  BY <1>2, <1>3 DEF SignalTo
<1>4. CASE Enough(h.state[t], now, w)
  <2> DEFINE m == [h.msg EXCEPT ![t] = "OK"]
             e == [h EXCEPT !.msg[t] = "OK"]
  <2>1. h.state[t] \notin Runs \cup Waits
    BY <1>4 DEF Enough, Runs, Waits
  <2>2. m \in [Thread -> Messages] /\ e = [h EXCEPT !.msg = m]
    BY <1>1, KernelIs DEF Messages
  <2>3. \A x \in Thread : m[x] = IF x = t THEN "OK" ELSE h.msg[x]
    BY <1>1, KernelIs
  <2>4. r = chSchReadyI(e, t)
    BY <1>4 DEF SignalTo
  <2> HIDE DEF m, e
  <2>5. /\ e \in KernelState /\ SameThreads(h, e) /\ e.q = h.q /\ e.cnt = h.cnt /\ e.vt = h.vt
        /\ e.due = h.due /\ e.realprio = h.realprio /\ e.msg = m
    BY <1>1, <2>2 DEF KernelState, SameThreads
  <2>6. Listed(e, {}) /\ View(e) = View(h)
    BY <1>1, <2>5, SameListed
  <2>7. Changed(kk, e, g)
    <3>1. Counted(e) /\ Frame(kk, e, Thread)
      BY <2>5, <2>6 DEF Changed, Counted, Frame
    <3> QED
      BY <2>5, <2>6, <3>1 DEF Changed, SameThreads
  <2>8. e.state[t] \notin Runs \cup Waits
    BY <2>1, <2>5 DEF SameThreads
  <2>9. Changed(kk, r, g)
    BY <2>4, <2>7, <2>8, LooseChanges
  <2>10. /\ Listed(r, {}) /\ View(r) = [View(e) EXCEPT ![t] = "RUNS"]
         /\ SameRest(e, r) /\ r.msg = e.msg /\ r.current = e.current
    BY <2>4, <2>6, <2>8, LooseReady
  <2>11. \A x \in Thread : View(r)[x] = IF x = t THEN "RUNS" ELSE View(h)[x]
    BY <2>6, <2>10 DEF View
  <2> QED
    BY <1>2, <1>4, <2>3, <2>5, <2>9, <2>10, <2>11
<1> QED
  BY <1>3, <1>4

EvtTold(kk, h, p, g, pend, w, ls) ==
  Changed(kk, h, g) /\ EvtOK(View(h), p, h.msg, pend, w, ls)

SignalMore(h, t, pend, mask, w) == SignalTo(h, t, pend[t] \cup mask, w[t])
Pending(pend, t, mask) == [pend EXCEPT ![t] = @ \cup mask]

(* One more listener of a broadcast gets its events.                        *)
LEMMA EvtToldMore ==
  ASSUME NEW kk, NEW h, NEW p, NEW g, NEW pend, NEW w, NEW ls,
         EvtTold(kk, h, p, g, pend, w, ls), NEW t \in Thread, NEW mask \in SUBSET Event
  PROVE  EvtTold(kk, SignalMore(h, t, pend, mask, w), p, g, Pending(pend, t, mask), w, ls)
<1> DEFINE now == pend[t] \cup mask
           r == SignalMore(h, t, pend, mask, w)
           er == Pending(pend, t, mask)
<1>1. Changed(kk, h, g) /\ EvtOK(View(h), p, h.msg, pend, w, ls)
  BY DEF EvtTold
<1> DEFINE z == w[t]
<1>2. r = SignalTo(h, t, now, z)
  BY DEF SignalMore
<1>6. Now(pend, er, t, now)
  BY DEF Pending, Now
<1>4. pend \in [Thread -> SUBSET Event]
  BY <1>1 DEF EvtOK
<1>5. now \in SUBSET Event /\ pend[t] \subseteq now
  BY <1>4
<1> HIDE DEF z, now, r, er
<1>3. /\ Changed(kk, r, g)
      /\ \A x \in Thread : View(r)[x] = IF x = t /\ Enough(View(h)[t], now, z)
                                          THEN "RUNS" ELSE View(h)[x]
      /\ \A x \in Thread : r.msg[x] = IF x = t /\ Enough(View(h)[t], now, z)
                                        THEN "OK" ELSE h.msg[x]
  BY <1>1, <1>2, SignalToIs
<1> DEFINE v == View(h)
           u == View(r)
           ms == h.msg
           m == r.msg
<1>7. EvtOK(v, p, ms, pend, w, ls)
  BY <1>1
<1>8. \A x \in Thread : u[x] = IF x = t /\ Enough(v[t], now, w[t]) THEN "RUNS" ELSE v[x]
  BY <1>3 DEF z
<1>9. \A x \in Thread : m[x] = IF x = t /\ Enough(v[t], now, w[t]) THEN "OK" ELSE ms[x]
  BY <1>3 DEF z
<1> HIDE DEF v, u, ms, m
<1>10. EvtOK(u, p, m, er, w, ls)
  BY <1>5, <1>6, <1>7, <1>8, <1>9, EventsCome
<1> QED
  BY <1>3, <1>10 DEF EvtTold, u, m, r, er

(* The test of the code is that the events are enough.                      *)
LEMMA SatisfiedIs ==
  ASSUME NEW t, NEW s, NEW now
  PROVE  Satisfied(t, s, now) <=> Enough(s, now, ewmask[t])
BY DEF Satisfied, Enough, Come

ToldOne(y, l) ==
  <<SignalMore(y[1], l.el_listener, y[2], l.el_mask, ewmask), Pending(y[2], l.el_listener, l.el_mask)>>

(* A broadcast gives all listeners their events.                            *)
LEMMA BroadcastIs ==
  ASSUME NEW g, EvtTold(k, k, pc, g, epending, ewmask, listeners)
  PROVE  EvtTold(k, chEvtBroadcastFlagsI[1], pc, g, chEvtBroadcastFlagsI[2], ewmask, listeners)
<1> DEFINE n == Len(listeners)
           V(y, i) == LET kk == y[1]  pend == y[2]
                          t == listeners[i].el_listener
                          now == pend[t] \cup listeners[i].el_mask
                      IN <<IF Satisfied(t, kk.state[t], now)
                             THEN chSchReadyI([kk EXCEPT !.msg[t] = "OK"], t) ELSE kk,
                           [pend EXCEPT ![t] = now]>>
           W(y, i) == ToldOne(y, listeners[i])
           x == <<k, epending>>
           f == CHOOSE h : h = [i \in 0..n |-> IF i = 0 THEN x ELSE V(h[i - 1], i)]
           S == KernelState \X [Thread -> SUBSET Event]
           H == [i \in 0..n |-> {y \in S : EvtTold(k, y[1], pc, g, y[2], ewmask, listeners)}]
           G == [i \in 1..n |-> [y \in H[i - 1] |-> W(y, i)]]
           E(h) == h = [i \in 0..n |-> IF i = 0 THEN x ELSE V(h[i - 1], i)]
<1>1. /\ listeners \in Listeners /\ n \in Nat
      /\ \A i \in 1..n : listeners[i].el_listener \in Thread /\ listeners[i].el_mask \in SUBSET Event
  <2> DEFINE R == [el_listener : Thread, el_mask : SUBSET Event]
  <2>1. listeners \in Seq(R)
    BY DEF EvtTold, EvtOK
  <2>2. n \in Nat /\ \A i \in 1..n : listeners[i] \in R
    <3> HIDE DEF R
    <3> QED
      BY <2>1
  <2>3. \A l \in R : l.el_listener \in Thread /\ l.el_mask \in SUBSET Event
    OBVIOUS
  <2> HIDE DEF n
  <2>4. listeners \in Listeners
    BY <2>1 DEF Listeners
  <2> HIDE DEF R
  <2> QED
    BY <2>2, <2>3, <2>4
<1>2. chEvtBroadcastFlagsI = f[n]
  BY Zenon DEF chEvtBroadcastFlagsI
<1>3. \A y : \A i \in 1..n : V(y, i) = W(y, i)
  <2> SUFFICES ASSUME NEW y, NEW i \in 1..n
               PROVE  V(y, i) = W(y, i)
    OBVIOUS
  <2> DEFINE t == listeners[i].el_listener
             mask == listeners[i].el_mask
             s == y[1].state[t]
             now == y[2][t] \cup mask
  <2>1. Satisfied(t, s, now) <=> Enough(s, now, ewmask[t])
    BY SatisfiedIs
  <2>2. SignalMore(y[1], t, y[2], mask, ewmask)
          = IF Satisfied(t, s, now) THEN chSchReadyI([y[1] EXCEPT !.msg[t] = "OK"], t) ELSE y[1]
    BY <2>1 DEF SignalMore, SignalTo
  <2>3. Pending(y[2], t, mask) = [y[2] EXCEPT ![t] = now]
    BY DEF Pending
  <2> QED
    BY <2>2, <2>3 DEF ToldOne
<1>4. x \in H[0]
  <2>1. x \in S /\ x[1] = k /\ x[2] = epending
    BY DEF EvtTold, EvtOK, Changed, Listed
  <2>2. 0 \in 0..n
    BY <1>1
  <2> HIDE DEF x, S
  <2> QED
    BY <2>1, <2>2
<1>5. ASSUME NEW i \in 1..n, NEW y \in H[i - 1]
      PROVE  W(y, i) \in H[i]
  <2>1. i - 1 \in 0..n /\ i \in 0..n
    BY <1>1
  <2>2. EvtTold(k, y[1], pc, g, y[2], ewmask, listeners)
    BY <2>1
  <2> DEFINE t == listeners[i].el_listener
             mask == listeners[i].el_mask
             z == W(y, i)
             a1 == SignalMore(y[1], t, y[2], mask, ewmask)
             a2 == Pending(y[2], t, mask)
  <2>3. t \in Thread /\ mask \in SUBSET Event
    BY <1>1
  <2>4. z = <<a1, a2>>
    BY DEF ToldOne
  <2> HIDE DEF t, mask
  <2>5. EvtTold(k, a1, pc, g, a2, ewmask, listeners)
    BY <2>2, <2>3, EvtToldMore
  <2> HIDE DEF a1, a2
  <2>6. a1 \in KernelState /\ a2 \in [Thread -> SUBSET Event]
    BY <2>5 DEF EvtTold, EvtOK, Changed, Listed
  <2>7. z[1] = a1 /\ z[2] = a2 /\ z \in S
    BY <2>4, <2>6
  <2> HIDE DEF z, S
  <2>8. z \in H[i]
    BY <2>1, <2>5, <2>7
  <2> QED
    BY <2>8 DEF z
<1> HIDE DEF H, V, W, n, x, f, S
<1>6. \A i \in 1..n : G[i] \in [H[i - 1] -> H[i]]
  BY <1>5
<1>7. \A i \in 1..n : \A y \in H[i - 1] : G[i][y] = W(y, i)
  OBVIOUS
<1> HIDE DEF G
<1>8. PICK h : Looped(h, n, x, H, G)
  BY <1>1, <1>4, <1>6, LoopRuns
<1>9. E(h)
  <2>1. /\ h = [i \in 0..n |-> h[i]] /\ h[0] = x
        /\ \A i \in 1..n : h[i - 1] \in H[i - 1] /\ h[i] = G[i][h[i - 1]]
    BY <1>8 DEF Looped
  <2>2. \A i \in 0..n : h[i] = IF i = 0 THEN x ELSE V(h[i - 1], i)
    <3> SUFFICES ASSUME NEW i \in 0..n, i # 0
                 PROVE  h[i] = V(h[i - 1], i)
      BY <2>1
    <3>1. i \in 1..n
      BY <1>1
    <3>2. h[i] = W(h[i - 1], i)
      BY <1>7, <2>1, <3>1
    <3> QED
      BY <1>3, <3>1, <3>2
  <2> QED
    BY <2>1, <2>2
<1>10. E(f)
  BY <1>9 DEF f
<1>11. f[0] = x /\ \A i \in 1..n : f[i] = W(f[i - 1], i)
  <2>1. f = [i \in 0..n |-> IF i = 0 THEN x ELSE V(f[i - 1], i)]
    BY <1>10
  <2> HIDE DEF E
  <2>2. \A i \in 0..n : f[i] = IF i = 0 THEN x ELSE V(f[i - 1], i)
    BY <2>1
  <2>3. 0 \in 0..n /\ \A i \in 1..n : i \in 0..n /\ i # 0
    BY <1>1
  <2> QED
    BY <1>3, <2>2, <2>3
<1> HIDE DEF E
<1>12. f[n] \in H[n]
  <2>1. \A i \in 1..n : f[i - 1] \in H[i - 1] => f[i] \in H[i]
    BY <1>5, <1>11
  <2>2. f[0] \in H[0]
    BY <1>4, <1>11
  <2>3. \A i \in 0..n : f[i] \in H[i]
    BY <1>1, <2>1, <2>2, LoopStays
  <2> QED
    BY <1>1, <2>3
<1>13. n \in 0..n
  BY <1>1
<1>14. EvtTold(k, f[n][1], pc, g, f[n][2], ewmask, listeners)
  BY <1>12, <1>13 DEF H
<1> QED
  BY <1>2, <1>14

EvtUntouched == UNCHANGED <<mtxVars, msgVars, mbxVars, ioqVars>>

(* A step that signals, and ends with a reschedule or an epilogue.         *)
LEMMA EvtTellsRight ==
  ASSUME IInv, api = "evt", EvtUntouched, api' = api, NEW h, NEW er,
         EvtTold(k, h, pc, api, er, ewmask, listeners),
         k' \in {chSchRescheduleS(h), CH_IRQ_EPILOGUE(h)}, epending' = er,
         UNCHANGED <<pc, waiting, systime, ewmask, listeners>>
  PROVE  IInv'
<1> DEFINE r == k'
<1>1. Stable(k, pc, api)
  BY DEF IInv, Stable
<1>2. Changed(k, h, api) /\ EvtOK(View(h), pc, h.msg, er, ewmask, listeners) /\ Listed(h, {})
  BY DEF EvtTold, Changed
<1>3. r = chSchRescheduleS(h) \/ r = CH_IRQ_EPILOGUE(h)
  OBVIOUS
<1> HIDE DEF r
<1>4. Settles(h, r)
  BY <1>2, <1>3, SettlesS, SettlesI
<1>5. Stable(r, pc, api)
  BY <1>1, <1>2, <1>4, Stays
<1>6. View(r) = View(h) /\ r.msg = h.msg
  BY <1>4 DEF Settles, Same
<1>7. EvtOK(View(r), pc, r.msg, er, ewmask, listeners)
  BY <1>2, <1>6
<1> QED
  BY <1>5, <1>7, EvtRight DEF r, EvtUntouched

(* Before the first listener is told the invariant is what is to be kept.   *)
LEMMA EvtToldNone ==
  ASSUME IInv, api = "evt"
  PROVE  EvtTold(k, k, pc, api, epending, ewmask, listeners)
BY StillPlain DEF IInv, Stable, EvtTold

(* chEvtSignalI to one thread.                                              *)
LEMMA EvtSignalIIs ==
  ASSUME IInv, api = "evt", NEW t \in Thread, NEW mask \in SUBSET Event
  PROVE  EvtTold(k, chEvtSignalI(k, t, mask), pc, api, [epending EXCEPT ![t] = @ \cup mask],
                 ewmask, listeners)
<1>1. EvtTold(k, k, pc, api, epending, ewmask, listeners)
  BY EvtToldNone
<1>2. EvtTold(k, SignalMore(k, t, epending, mask, ewmask), pc, api, Pending(epending, t, mask),
              ewmask, listeners)
  BY <1>1, EvtToldMore
<1> DEFINE s == k.state[t]
           now == epending[t] \cup mask
<1>3. Satisfied(t, s, now) <=> Enough(s, now, ewmask[t])
  BY SatisfiedIs
<1>4. chEvtSignalI(k, t, mask) = SignalMore(k, t, epending, mask, ewmask)
  BY <1>3 DEF chEvtSignalI, SignalMore, SignalTo
<1>5. Pending(epending, t, mask) = [epending EXCEPT ![t] = @ \cup mask]
  BY DEF Pending
<1> QED
  BY <1>2, <1>4, <1>5

(* chEvtSignal keeps the invariant.                                         *)
LEMMA EvtSignalRight ==
  ASSUME IInv, api = "evt", EvtUntouched, api' = api, NEW t \in Thread,
         NEW mask \in Flags, chEvtSignal(t, mask)
  PROVE  IInv'
<1> DEFINE h == chEvtSignalI(k, t, mask)
           er == [epending EXCEPT ![t] = @ \cup mask]
<1>1. mask \in SUBSET Event
  BY DEF Flags
<1>2. k' \in {chSchRescheduleS(h), CH_IRQ_EPILOGUE(h)} /\ epending' = er
      /\ UNCHANGED <<pc, waiting, systime, ewmask, listeners>>
  BY DEF chEvtSignal
<1>3. EvtTold(k, h, pc, api, er, ewmask, listeners)
  BY <1>1, EvtSignalIIs
<1> HIDE DEF h, er
<1> QED
  BY <1>2, <1>3, EvtTellsRight

(* chEvtBroadcastFlags keeps the invariant.                                 *)
LEMMA EvtBroadcastRight ==
  ASSUME IInv, api = "evt", EvtUntouched, api' = api, chEvtBroadcastFlags
  PROVE  IInv'
<1> DEFINE h == chEvtBroadcastFlagsI[1]
           er == chEvtBroadcastFlagsI[2]
<1>1. k' \in {chSchRescheduleS(h), CH_IRQ_EPILOGUE(h)} /\ epending' = er
      /\ UNCHANGED <<pc, waiting, systime, ewmask, listeners>>
  BY DEF chEvtBroadcastFlags
<1>2. EvtTold(k, h, pc, api, er, ewmask, listeners)
  BY EvtToldNone, BroadcastIs
<1> HIDE DEF h, er
<1> QED
  BY <1>1, <1>2, EvtTellsRight

(* The calls of an interrupt handler on events keep the invariant.          *)
LEMMA EvtIsrRight ==
  ASSUME IInv, api = "evt", EvtUntouched, api' = api, EvtIsr
  PROVE  IInv'
<1>1. UNCHANGED <<pc, waiting, systime, ewmask, listeners>>
  BY DEF EvtIsr
<1>2. CASE \E t \in Thread \ {Idle}, mask \in Flags :
             /\ k' = CH_IRQ_EPILOGUE(chEvtSignalI(k, t, mask))
             /\ epending' = [epending EXCEPT ![t] = @ \cup mask]
  <2>1. PICK t \in Thread, mask \in Flags :
             /\ k' = CH_IRQ_EPILOGUE(chEvtSignalI(k, t, mask))
             /\ epending' = [epending EXCEPT ![t] = @ \cup mask]
    BY <1>2
  <2> DEFINE h == chEvtSignalI(k, t, mask)
             er == [epending EXCEPT ![t] = @ \cup mask]
  <2>2. mask \in SUBSET Event
    BY DEF Flags
  <2>3. k' \in {chSchRescheduleS(h), CH_IRQ_EPILOGUE(h)} /\ epending' = er
    BY <2>1
  <2>4. EvtTold(k, h, pc, api, er, ewmask, listeners)
    BY <2>2, EvtSignalIIs
  <2> HIDE DEF h, er
  <2> QED
    BY <1>1, <2>3, <2>4, EvtTellsRight
<1>3. CASE k' = CH_IRQ_EPILOGUE(chEvtBroadcastFlagsI[1]) /\ epending' = chEvtBroadcastFlagsI[2]
  <2> DEFINE h == chEvtBroadcastFlagsI[1]
             er == chEvtBroadcastFlagsI[2]
  <2>1. k' \in {chSchRescheduleS(h), CH_IRQ_EPILOGUE(h)} /\ epending' = er
    BY <1>3
  <2>2. EvtTold(k, h, pc, api, er, ewmask, listeners)
    BY EvtToldNone, BroadcastIs
  <2> HIDE DEF h, er
  <2> QED
    BY <1>1, <2>1, <2>2, EvtTellsRight
<1> QED
  BY <1>2, <1>3 DEF EvtIsr

(* A step of the running thread on its own events, or on the listeners.    *)
LEMMA EvtOwnRight ==
  ASSUME IInv, api = "evt", EvtUntouched, api' = api, k.current # Idle, Calls,
         UNCHANGED threadVars, ewmask' = ewmask,
         NEW er \in [Thread -> SUBSET Event], epending' = er,
         \A x \in Thread \ {k.current} : er[x] = epending[x], listeners' \in Listeners
  PROVE  IInv'
<1> DEFINE c == k.current
<1>1. Stable(k, pc, api) /\ EvtOK(View(k), pc, k.msg, epending, ewmask, listeners)
  BY DEF IInv, Stable
<1>2. k' = k /\ pc' = pc /\ waiting' = waiting /\ systime' = systime
  BY DEF threadVars
<1>3. c \in Thread /\ View(k)[c] = "RUNS" /\ pc[c] = InUser
  BY <1>1, CallerIs DEF Stable, Caller
<1>4. \A x \in Thread : pc[x] = IF x = c THEN InUser ELSE pc[x]
  BY <1>3
<1>5. ewmask \in [Thread -> SUBSET Event]
  BY <1>1 DEF EvtOK
<1> DEFINE ls == listeners'
           v == View(k)
<1>6. ls \in Listeners /\ v[c] = "RUNS" /\ EvtOK(v, pc, k.msg, epending, ewmask, listeners)
  BY <1>1, <1>3
<1>7. \A x \in Thread \ {c} : er[x] = epending[x] /\ ewmask[x] = ewmask[x] /\ k.msg[x] = k.msg[x]
  OBVIOUS
<1> HIDE DEF ls, c, v
<1>8. EvtOK(v, pc, k.msg, er, ewmask, ls)
  BY <1>3, <1>4, <1>5, <1>6, <1>7, EvtMine
<1> QED
  BY <1>1, <1>2, <1>8, EvtRight DEF ls, EvtUntouched, v

(* Registering and unregistering keep the invariant.                        *)
LEMMA EvtListRight ==
  ASSUME IInv, api = "evt", EvtUntouched, api' = api,
         \/ \E mask \in Flags : chEvtRegisterMask(mask)
         \/ \E n \in DOMAIN listeners : chEvtUnregister(n)
  PROVE  IInv'
<1> DEFINE R == [el_listener : Thread, el_mask : SUBSET Event]
<1>1. epending \in [Thread -> SUBSET Event] /\ listeners \in Seq(R)
  BY DEF IInv, EvtOK
<1>2. Calls /\ UNCHANGED threadVars /\ ewmask' = ewmask /\ epending' = epending
  BY DEF chEvtRegisterMask, chEvtUnregister
<1>3. k.current # Idle /\ k.current \in Thread
  BY <1>2, CallerIs DEF Calls, me, IInv, Caller
<1>4. listeners' \in Seq(R)
  <2>1. CASE \E mask \in Flags : chEvtRegisterMask(mask)
    <3>1. PICK mask \in Flags : chEvtRegisterMask(mask)
      BY <2>1
    <3> DEFINE l == [el_listener |-> me, el_mask |-> mask]
    <3>2. l \in R
      BY <1>3 DEF Flags, me
    <3>3. listeners' = <<l>> \o listeners
      BY <3>1 DEF chEvtRegisterMask
    <3> HIDE DEF l, R
    <3> QED
      BY <1>1, <3>2, <3>3
  <2>2. CASE \E n \in DOMAIN listeners : chEvtUnregister(n)
    <3>1. PICK n \in DOMAIN listeners : chEvtUnregister(n)
      BY <2>2
    <3>2. n \in 1..Len(listeners) /\ listeners' = Unlinked(listeners, n)
      BY <1>1, <3>1 DEF chEvtUnregister
    <3> HIDE DEF R
    <3> QED
      BY <1>1, <3>2, UnlinkedIs
  <2> QED
    BY <2>1, <2>2
<1>5. listeners' \in Listeners
  BY <1>4 DEF Listeners
<1> QED
  BY <1>1, <1>2, <1>3, <1>5, EvtOwnRight

(* A thread that clears or adds events of its own keeps the invariant.      *)
LEMMA EvtMineRight ==
  ASSUME IInv, api = "evt", EvtUntouched, api' = api, NEW mask \in SUBSET Event,
         chEvtGetAndClearEvents(mask) \/ chEvtAddEvents(mask)
  PROVE  IInv'
<1>1. epending \in [Thread -> SUBSET Event] /\ listeners \in Listeners
  BY DEF IInv, EvtOK, Listeners
<1>2. Calls /\ UNCHANGED threadVars /\ ewmask' = ewmask /\ listeners' = listeners
      /\ epending' \in {[epending EXCEPT ![me] = @ \ mask], [epending EXCEPT ![me] = @ \cup mask]}
  BY DEF chEvtGetAndClearEvents, chEvtAddEvents
<1>3. k.current # Idle /\ k.current \in Thread
  BY <1>2, CallerIs DEF Calls, me, IInv, Caller
<1> DEFINE er == epending'
<1>4. er \in [Thread -> SUBSET Event] /\ \A x \in Thread \ {k.current} : er[x] = epending[x]
  BY <1>1, <1>2, <1>3 DEF me
<1>5. epending' = er
  OBVIOUS
<1> HIDE DEF er
<1> QED
  BY <1>1, <1>2, <1>3, <1>4, <1>5, EvtOwnRight

(* Who has its events takes them off its own pending ones.                  *)
LEMMA ConsumeIs ==
  ASSUME NEW c \in Thread, c = me, NEW how, NEW mask, Consume(how, mask),
         epending \in [Thread -> SUBSET Event]
  PROVE  epending' \in [Thread -> SUBSET Event] /\ \A x \in Thread \ {c} : epending'[x] = epending[x]
<1>1. PICK t \in Takes(how, mask, epending[me]) : epending' = [epending EXCEPT ![me] = @ \ t]
  BY DEF Consume
<1> QED
  BY <1>1

(* chEvtWaitOne, chEvtWaitAny and chEvtWaitAll keep the invariant.          *)
LEMMA EvtWaitRight ==
  ASSUME IInv, api = "evt", EvtUntouched, api' = api, NEW how \in {"one", "any", "all"},
         NEW mask \in SUBSET Event, NEW n \in Time \cup {Infinite}, chEvtWait(how, mask, n)
  PROVE  IInv'
<1> DEFINE c == k.current
<1>1. Stable(k, pc, api) /\ Calls /\ waiting' = waiting /\ systime' = systime
      /\ listeners' = listeners /\ EvtOK(View(k), pc, k.msg, epending, ewmask, listeners)
  BY DEF IInv, Stable, chEvtWait
<1>2. Caller(k, pc) /\ pc \in [Thread -> PlacesOf(api)]
  BY <1>1, CallerIs DEF Stable, Placed
<1>3. epending \in [Thread -> SUBSET Event] /\ listeners \in Listeners
  BY <1>1 DEF EvtOK, Listeners
<1>4. Come(epending[c], mask, how = "all")
        <=> IF how = "all" THEN mask \subseteq epending[me] ELSE mask \cap epending[me] # {}
  BY DEF Come, me
<1>5. CASE Come(epending[c], mask, how = "all")
  <2>1. Consume(how, mask) /\ UNCHANGED <<k, pc, ewmask>>
    BY <1>4, <1>5 DEF chEvtWait
  <2> DEFINE er == epending'
  <2>2. er \in [Thread -> SUBSET Event] /\ \A x \in Thread \ {k.current} : er[x] = epending[x]
    BY <1>2, <1>3, <2>1, ConsumeIs DEF Caller, me
  <2>3. epending' = er
    OBVIOUS
  <2>4. UNCHANGED threadVars
    BY <1>1, <2>1 DEF threadVars
  <2> HIDE DEF er
  <2> QED
    BY <1>1, <1>2, <1>3, <2>1, <2>2, <2>3, <2>4, EvtOwnRight DEF Caller
<1>6. CASE ~Come(epending[c], mask, how = "all")
  <2> DEFINE s == IF how = "all" THEN "WTANDEVT" ELSE "WTOREVT"
             r == chSchGoSleepTimeoutS(k, s, n)
             x == <<"evt", how>>
             p == [pc EXCEPT ![c] = x]
             wr == [ewmask EXCEPT ![c] = mask]
  <2>1. k' = r /\ pc' = p /\ ewmask' = wr /\ epending' = epending
    BY <1>4, <1>6 DEF chEvtWait, Sleeps, me
  <2>2. x \in PlacesOf(api) /\ x[1] \notin {"user", "more"}
    BY DEF PlacesOf
  <2>3. s \in ViewsOf(api) \ Absent /\ s \in Timed /\ s \in States \ (Runs \cup Waits) /\ s # "RUNS"
    BY DEF ViewsOf, Absent, Timed, States, Runs, Waits
  <2>4. \A u \in Thread : p[u] = IF u = c THEN <<"evt", how>> ELSE pc[u]
    BY <1>2 DEF Caller
  <2>11. s = IF how = "all" THEN "WTANDEVT" ELSE "WTOREVT"
    OBVIOUS
  <2> HIDE DEF s, r, x
  <2>5. Sleep(k, k, r, s)
    BY <1>2, <2>3, SleepPlain DEF Caller, r
  <2>6. Stable(r, [pc EXCEPT ![k.current] = x], api)
    <3>1. \A o \in Object : o \in ObjectsOf(api) \/ k.q[o] = <<>>
      BY <1>1 DEF Stable, Placed
    <3> QED
      BY <1>1, <1>2, <2>2, <2>3, <2>5, <3>1, Slept DEF Caller
  <2>7. \A u \in Thread : View(r)[u] = IF u = c THEN s ELSE View(k)[u]
    <3>1. View(r) = [View(k) EXCEPT ![c] = s]
      BY <2>5 DEF Sleep
    <3> QED
      BY <3>1 DEF View
  <2>8. r.msg = k.msg
    BY <2>5 DEF Sleep
  <2> HIDE DEF p
  <2>9. EvtOK(View(r), p, k.msg, epending, wr, listeners)
    <3> DEFINE v == View(k)
               u == View(r)
    <3>1. \A y \in Thread : u[y] = IF y = c THEN IF how = "all" THEN "WTANDEVT" ELSE "WTOREVT"
                                   ELSE v[y]
      BY <2>7, <2>11
    <3>2. c \in Thread /\ EvtOK(v, pc, k.msg, epending, ewmask, listeners)
      BY <1>1, <1>2 DEF Caller
    <3>4. Now(ewmask, wr, c, mask)
      BY DEF Now
    <3> HIDE DEF u, v, c, wr
    <3>3. EvtOK(u, p, k.msg, epending, wr, listeners)
      BY <1>6, <2>4, <3>1, <3>2, <3>4, EvtSleeps
    <3> QED
      BY <3>3 DEF u
  <2> QED
    BY <1>1, <2>1, <2>6, <2>8, <2>9, EvtRight DEF EvtUntouched, p
<1> QED
  BY <1>5, <1>6

(* A thread that was woken by events finds them, and keeps the invariant.   *)
LEMMA EvtWokenRight ==
  ASSUME IInv, api = "evt", EvtUntouched, api' = api, EvtWoken
  PROVE  IInv'
<1> DEFINE c == k.current
           r == AwakeOf(k)
           p == [pc EXCEPT ![c] = InUser]
           er == epending'
           wr == [ewmask EXCEPT ![c] = {}]
<1>1. Stable(k, pc, api) /\ Listed(k, {}) /\ k \in KernelState /\ TimersAre(k.vt, k.due)
      /\ EvtOK(View(k), pc, k.msg, epending, ewmask, listeners)
  BY DEF IInv, Stable, KernelRight, TimersRight, Listed
<1>2. pc[c][1] = "evt" /\ k' = r /\ pc' = p /\ waiting' = waiting /\ systime' = systime
      /\ listeners' = listeners /\ ewmask' = wr
      /\ (epending' = epending \/ Consume(pc[me][2], ewmask[me]))
  BY DEF EvtWoken, GoesOn, Returns, Awake, AwakeOf, me
<1>3. c \in Thread /\ View(k)[c] = "RUNS"
  BY <1>1, CurrentRuns
<1>4. pc[k.current] # InUser
  BY <1>2 DEF InUser
<1>5. Resumed(k, r)
  BY <1>1, AwakeIs
<1> HIDE DEF r
<1>6. Settles(r, r) /\ View(r) = View(k)
  BY <1>1, <1>5, ResumedChanges
<1>7. Stable(r, p, api)
  BY <1>1, <1>4, <1>5, <1>6, ReturnStable
<1>8. epending \in [Thread -> SUBSET Event] /\ ewmask \in [Thread -> SUBSET Event]
      /\ listeners \in Listeners /\ pc \in [Thread -> PlacesOf(api)]
  BY <1>1 DEF EvtOK, Listeners, Stable, Placed
<1>9. er \in [Thread -> SUBSET Event] /\ \A x \in Thread \ {c} : er[x] = epending[x]
  BY <1>2, <1>3, <1>8, ConsumeIs DEF me
<1>10. wr \in [Thread -> SUBSET Event] /\ \A x \in Thread \ {c} : wr[x] = ewmask[x]
  BY <1>3, <1>8
<1>11. \A x \in Thread : p[x] = IF x = c THEN InUser ELSE pc[x]
  BY <1>3, <1>8
<1>12. \A x \in Thread \ {c} : r.msg[x] = k.msg[x]
  BY <1>1, <1>5, KernelIs DEF Resumed
<1>13. epending' = er
  OBVIOUS
<1> DEFINE v == View(k)
           m == r.msg
           ms == k.msg
<1>14. \A x \in Thread \ {c} : m[x] = ms[x]
  BY <1>12
<1> HIDE DEF p, er, wr, v, c, m, ms
<1>15. EvtOK(v, p, m, er, wr, listeners)
  <2>1. v[c] = "RUNS" /\ EvtOK(v, pc, ms, epending, ewmask, listeners)
    BY <1>1, <1>3 DEF v, ms
  <2>2. c \in Thread /\ v[c] = "RUNS" /\ er \in [Thread -> SUBSET Event]
        /\ wr \in [Thread -> SUBSET Event] /\ listeners \in Listeners
    BY <1>3, <1>8, <1>9, <1>10, <2>1
  <2>3. \A x \in Thread \ {c} : er[x] = epending[x]
    BY <1>9
  <2>4. \A x \in Thread \ {c} : wr[x] = ewmask[x]
    BY <1>10
  <2> QED
    BY <1>11, <1>14, <2>1, <2>2, <2>3, <2>4, EvtMine
<1> QED
  BY <1>2, <1>6, <1>7, <1>13, <1>15, EvtRight DEF v, EvtUntouched, m

(* The calls with events keep the invariant.                               *)
LEMMA EvtCallsRight ==
  ASSUME IInv, api = "evt", UNCHANGED <<mtxVars, msgVars, mbxVars, ioqVars>>, api' = api,
         EvtCalls
  PROVE  IInv'
<1>1. EvtUntouched
  BY DEF EvtUntouched
<1>2. \A mask \in Masks : mask \in SUBSET Event /\ Hows(mask) \subseteq {"one", "any", "all"}
  BY DEF Masks, Hows
<1>3. \A mask \in Flags : mask \in SUBSET Event
  BY DEF Flags
<1>4. ASSUME NEW mask \in Flags,
             \/ SourceEvent \in mask /\ chEvtRegisterMask(mask)
             \/ chEvtAddEvents(mask)
             \/ \E t \in Thread : chEvtSignal(t, mask)
      PROVE  IInv'
  BY <1>1, <1>3, <1>4, EvtListRight, EvtMineRight, EvtSignalRight
<1>5. ASSUME NEW mask \in Masks,
             \/ chEvtGetAndClearEvents(mask)
             \/ \E how \in Hows(mask), n \in Time \cup {Infinite} : chEvtWait(how, mask, n)
      PROVE  IInv'
  BY <1>1, <1>2, <1>5, EvtMineRight, EvtWaitRight
<1> QED
  BY <1>1, <1>4, <1>5, EvtListRight, EvtBroadcastRight, EvtIsrRight, EvtWokenRight DEF EvtCalls

(* The pointers of a ring go round.                                        *)
LEMMA SlotIs ==
  ASSUME NEW p \in 0..Size - 1, NEW n \in 0..Size
  PROVE  /\ Slot(p, n) \in 0..Size - 1 /\ Slot(p, 0) = p /\ Slot(p, Size) = p
         /\ n < Size => Slot(p, n + 1) = After(Slot(p, n))
         /\ n < Size => Slot(After(p), n) = Slot(p, n + 1)
         /\ n < Size => Slot(Before(p), n + 1) = Slot(p, n)
         /\ After(p) \in 0..Size - 1 /\ Before(p) \in 0..Size - 1
         /\ n < Size /\ n # 0 => Slot(p, n) # p
         /\ n < Size - 1 => Slot(p, n) # Before(p)
<1>1. Size \in Nat /\ Size > 0
  BY SizeAssumption
<1> QED
  BY <1>1 DEF Slot, After, Before

(* Slots at different distances are different ones.                         *)
LEMMA SlotsDiffer ==
  ASSUME NEW p \in 0..Size - 1, NEW n \in 0..Size - 1, NEW m \in 0..Size - 1, m # n
  PROVE  Slot(p, n) # Slot(p, m)
<1>1. Size \in Nat /\ Size > 0
  BY SizeAssumption
<1> QED
  BY <1>1 DEF Slot

(* What Put and PutAhead do to a ring.                                      *)
LEMMA RingIs ==
  ASSUME NEW r \in Ring, NEW x \in Item
  PROVE  /\ r.buf \in [0..Size - 1 -> Item] /\ r.wr \in 0..Size - 1 /\ r.rd \in 0..Size - 1
         /\ Put(r, x).buf = [r.buf EXCEPT ![r.wr] = x]
         /\ Put(r, x).wr = After(r.wr) /\ Put(r, x).rd = r.rd
         /\ PutAhead(r, x).buf = [r.buf EXCEPT ![Before(r.rd)] = x]
         /\ PutAhead(r, x).wr = r.wr /\ PutAhead(r, x).rd = Before(r.rd)
         /\ Put(r, x) \in Ring /\ PutAhead(r, x) \in Ring
<1>1. r.buf \in [0..Size - 1 -> Item] /\ r.wr \in 0..Size - 1 /\ r.rd \in 0..Size - 1
  BY DEF Ring
<1>2. After(r.wr) \in 0..Size - 1 /\ Before(r.rd) \in 0..Size - 1
  BY <1>1, SizeAssumption DEF After, Before
<1>3. /\ Put(r, x).buf = [r.buf EXCEPT ![r.wr] = x]
      /\ Put(r, x).wr = After(r.wr) /\ Put(r, x).rd = r.rd
  BY DEF Put, Ring
<1>4. /\ PutAhead(r, x).buf = [r.buf EXCEPT ![Before(r.rd)] = x]
      /\ PutAhead(r, x).wr = r.wr /\ PutAhead(r, x).rd = Before(r.rd)
  BY DEF PutAhead, Ring
<1>5. Put(r, x) \in Ring
  <2> DEFINE bb == [r.buf EXCEPT ![r.wr] = x]
             w == After(r.wr)
  <2>1. bb \in [0..Size - 1 -> Item] /\ w \in 0..Size - 1
    BY <1>1, <1>2
  <2> HIDE DEF bb, w
  <2>2. [r EXCEPT !.buf = bb, !.wr = w] \in Ring
    BY <2>1 DEF Ring
  <2>3. Put(r, x) = [r EXCEPT !.buf = bb, !.wr = w]
    BY DEF Put, Ring, bb, w
  <2> QED
    BY <2>2, <2>3
<1>6. PutAhead(r, x) \in Ring
  <2> DEFINE bb == [r.buf EXCEPT ![Before(r.rd)] = x]
             w == Before(r.rd)
  <2>1. bb \in [0..Size - 1 -> Item] /\ w \in 0..Size - 1
    BY <1>1, <1>2
  <2> HIDE DEF bb, w
  <2>2. [r EXCEPT !.buf = bb, !.rd = w] \in Ring
    BY <2>1 DEF Ring
  <2>3. PutAhead(r, x) = [r EXCEPT !.buf = bb, !.rd = w]
    BY DEF PutAhead, Ring, bb, w
  <2> QED
    BY <2>2, <2>3
<1> QED
  BY <1>1, <1>3, <1>4, <1>5, <1>6

(* An item put into a ring that has room is its last one.                  *)
LEMMA PutKeeps ==
  ASSUME NEW r, NEW s, Keeps(r, s), Len(s) < Size, NEW x \in Item
  PROVE  Keeps(Put(r, x), Append(s, x))
<1> DEFINE f == Put(r, x)
           z == Append(s, x)
           n == Len(s)
<1>1. r \in Ring /\ s \in Seq(Item) /\ n \in Nat /\ Size \in Nat
  BY SizeAssumption DEF Keeps
<1>2. /\ r.buf \in [0..Size - 1 -> Item] /\ r.wr \in 0..Size - 1 /\ r.rd \in 0..Size - 1
      /\ f.buf = [r.buf EXCEPT ![r.wr] = x] /\ f.wr = After(r.wr) /\ f.rd = r.rd /\ f \in Ring
  BY <1>1, RingIs
<1>3. z \in Seq(Item) /\ Len(z) = n + 1 /\ z[n + 1] = x /\ \A j \in 1..n : z[j] = s[j]
  BY <1>1
<1>4. r.wr = Slot(r.rd, n) /\ \A j \in 1..n : r.buf[Slot(r.rd, j - 1)] = s[j]
  BY DEF Keeps
<1> HIDE DEF f, z, n
<1>5. n \in 0..Size - 1 /\ n \in 0..Size /\ n < Size
  BY <1>1 DEF n
<1>6. f.wr = Slot(f.rd, n + 1)
  <2>1. Slot(r.rd, n + 1) = After(Slot(r.rd, n))
    <3>1. r.rd \in 0..Size - 1
      BY <1>2
    <3> QED
      BY <3>1, <1>5, SlotIs
  <2> QED
    BY <1>2, <1>4, <2>1
<1>7. ASSUME NEW j \in 1..n + 1
      PROVE  f.buf[Slot(f.rd, j - 1)] = z[j]
  <2>1. CASE j = n + 1
    <3>1. j - 1 = n
      BY <1>1, <2>1
    <3>2. f.buf[r.wr] = x
      BY <1>2
    <3>3. Slot(f.rd, j - 1) = r.wr
      BY <1>2, <1>4, <3>1
    <3> QED
      BY <1>3, <2>1, <3>2, <3>3
  <2>2. CASE j # n + 1
    <3>1. j \in 1..n /\ j - 1 \in 0..Size - 1 /\ j - 1 # n /\ j - 1 \in 0..Size
      BY <1>1, <1>5, <2>2
    <3>2. Slot(r.rd, j - 1) # Slot(r.rd, n)
      BY <1>2, <1>5, <3>1, SlotsDiffer
    <3>3. Slot(r.rd, j - 1) \in 0..Size - 1
      BY <1>2, <3>1, SlotIs
    <3>4. Slot(r.rd, j - 1) # r.wr
      BY <1>4, <3>2
    <3>5. f.buf[Slot(r.rd, j - 1)] = r.buf[Slot(r.rd, j - 1)]
      BY <1>2, <3>3, <3>4
    <3> QED
      BY <1>2, <1>3, <1>4, <3>1, <3>5
  <2> QED
    BY <2>1, <2>2
<1>8. n + 1 <= Size
  BY <1>1, <1>5
<1>9. Keeps(f, z)
  BY <1>2, <1>3, <1>6, <1>7, <1>8 DEF Keeps
<1> QED
  BY <1>9 DEF f, z

(* One put ahead of the others is the first.                               *)
LEMMA PutAheadKeeps ==
  ASSUME NEW r, NEW s, Keeps(r, s), Len(s) < Size, NEW x \in Item
  PROVE  Keeps(PutAhead(r, x), <<x>> \o s)
<1> DEFINE f == PutAhead(r, x)
           z == <<x>> \o s
           n == Len(s)
<1>1. r \in Ring /\ s \in Seq(Item) /\ n \in Nat /\ Size \in Nat
  BY SizeAssumption DEF Keeps
<1>2. /\ r.buf \in [0..Size - 1 -> Item] /\ r.wr \in 0..Size - 1 /\ r.rd \in 0..Size - 1
      /\ f.buf = [r.buf EXCEPT ![Before(r.rd)] = x] /\ f.wr = r.wr /\ f.rd = Before(r.rd)
      /\ f \in Ring
  BY <1>1, RingIs
<1>3. z \in Seq(Item) /\ Len(z) = n + 1 /\ z[1] = x /\ \A j \in 1..n : z[j + 1] = s[j]
  BY <1>1
<1>4. r.wr = Slot(r.rd, n) /\ \A j \in 1..n : r.buf[Slot(r.rd, j - 1)] = s[j]
  BY DEF Keeps
<1> HIDE DEF f, z, n
<1>5. n \in 0..Size - 1 /\ n \in 0..Size /\ n < Size
  BY <1>1 DEF n
<1>6. f.wr = Slot(f.rd, n + 1) /\ Before(r.rd) \in 0..Size - 1
  <2>1. r.rd \in 0..Size - 1
    BY <1>2
  <2>2. Slot(Before(r.rd), n + 1) = Slot(r.rd, n)
    BY <2>1, <1>5, SlotIs
  <2>3. Before(r.rd) \in 0..Size - 1
    BY <2>1, <1>5, SlotIs
  <2> QED
    BY <1>2, <1>4, <2>2, <2>3
<1>7. ASSUME NEW j \in 1..n + 1
      PROVE  f.buf[Slot(f.rd, j - 1)] = z[j]
  <2>1. CASE j = 1
    <3>1. j - 1 = 0 /\ 0 \in 0..Size
      BY <1>1, <2>1
    <3>2. Slot(Before(r.rd), 0) = Before(r.rd)
      BY <1>6, <3>1, SlotIs
    <3> QED
      BY <1>2, <1>3, <1>6, <2>1, <3>1, <3>2, ZenonT(40)
  <2>2. CASE j # 1
    <3> DEFINE m == j - 1
    <3>1. m \in 1..n /\ j = m + 1 /\ m - 1 \in 0..Size /\ m - 1 < Size - 1 /\ m - 1 < Size
          /\ (m - 1) + 1 = m
      BY <1>1, <1>5, <2>2
    <3> HIDE DEF m
    <3> DEFINE e == m - 1
    <3>6. e \in 0..Size /\ e < Size /\ e + 1 = m
      BY <3>1
    <3> HIDE DEF e
    <3>7. Slot(Before(r.rd), e + 1) = Slot(r.rd, e)
      BY <1>2, <3>6, SlotIs
    <3>2. Slot(Before(r.rd), m) = Slot(r.rd, m - 1)
      BY <3>6, <3>7 DEF e
    <3>3. Slot(r.rd, m - 1) # Before(r.rd) /\ Slot(r.rd, m - 1) \in 0..Size - 1
      BY <1>2, <3>1, SlotIs
    <3>4. f.buf[Slot(r.rd, m - 1)] = s[m]
      BY <1>2, <1>4, <1>6, <3>1, <3>3
    <3>5. Slot(f.rd, j - 1) = Slot(r.rd, m - 1)
      BY <1>2, <3>1, <3>2 DEF m
    <3> QED
      BY <1>3, <3>1, <3>4, <3>5
  <2> QED
    BY <2>1, <2>2
<1>8. n + 1 <= Size
  BY <1>1, <1>5
<1>9. Keeps(f, z)
  BY <1>2, <1>3, <1>6, <1>7, <1>8 DEF Keeps
<1> QED
  BY <1>9 DEF f, z

(* The first item is taken.                                                *)
LEMMA TakeKeeps ==
  ASSUME NEW r, NEW s, Keeps(r, s), s # <<>>
  PROVE  Keeps(Take(r), Tail(s)) /\ r.buf[r.rd] = Head(s)
<1> DEFINE f == Take(r)
           z == Tail(s)
           n == Len(s)
<1>1. r \in Ring /\ s \in Seq(Item) /\ n \in Nat /\ Size \in Nat /\ n <= Size /\ n >= 1
  BY SizeAssumption DEF Keeps
<1>2. r.buf \in [0..Size - 1 -> Item] /\ r.wr \in 0..Size - 1 /\ r.rd \in 0..Size - 1
  BY <1>1 DEF Ring
<1>3. z \in Seq(Item) /\ Len(z) = n - 1 /\ Head(s) = s[1] /\ \A j \in 1..n - 1 : z[j] = s[j + 1]
  BY <1>1
<1>4. r.wr = Slot(r.rd, n) /\ \A j \in 1..n : r.buf[Slot(r.rd, j - 1)] = s[j]
  BY DEF Keeps
<1>5. f.buf = r.buf /\ f.wr = r.wr /\ f.rd = After(r.rd)
  BY <1>1 DEF Take, Ring
<1>6. After(r.rd) \in 0..Size - 1
  BY <1>2, SizeAssumption DEF After
<1>7. f \in Ring
  <2> DEFINE w == After(r.rd)
  <2> HIDE DEF w
  <2>1. [r EXCEPT !.rd = w] \in Ring
    BY <1>1, <1>6 DEF Ring, w
  <2> QED
    BY <1>1, <2>1 DEF Take, Ring, w
<1> HIDE DEF f, z, n
<1>8. f.wr = Slot(f.rd, n - 1)
  <2> DEFINE e == n - 1
  <2>1. e \in 0..Size /\ e < Size /\ e + 1 = n
    BY <1>1
  <2> HIDE DEF e
  <2>2. Slot(After(r.rd), e) = Slot(r.rd, e + 1)
    BY <1>2, <2>1, SlotIs
  <2> QED
    BY <1>4, <1>5, <2>1, <2>2 DEF e
<1>9. ASSUME NEW j \in 1..n - 1
      PROVE  f.buf[Slot(f.rd, j - 1)] = z[j]
  <2>1. j - 1 \in 0..Size /\ j - 1 < Size /\ (j - 1) + 1 = j /\ j + 1 \in 1..n /\ (j + 1) - 1 = j
    BY <1>1
  <2> DEFINE e == j - 1
  <2>5. e \in 0..Size /\ e < Size /\ e + 1 = j
    BY <2>1
  <2> HIDE DEF e
  <2>4. Slot(After(r.rd), e) = Slot(r.rd, e + 1)
    BY <1>2, <2>5, SlotIs
  <2>2. Slot(f.rd, j - 1) = Slot(r.rd, j)
    BY <1>5, <2>4, <2>5 DEF e
  <2>3. r.buf[Slot(r.rd, (j + 1) - 1)] = s[j + 1]
    BY <1>4, <2>1
  <2> QED
    BY <1>3, <1>5, <2>1, <2>2, <2>3
<1>10. n - 1 <= Size
  BY <1>1
<1>11. Keeps(f, z)
  BY <1>3, <1>7, <1>8, <1>9, <1>10 DEF Keeps
<1>12. r.buf[r.rd] = Head(s)
  <2>1. 1 \in 1..n /\ 1 - 1 = 0 /\ 0 \in 0..Size
    BY <1>1
  <2>2. Slot(r.rd, 0) = r.rd
    BY <1>2, <2>1, SlotIs
  <2> QED
    BY <1>3, <1>4, <2>1, <2>2
<1> QED
  BY <1>11, <1>12 DEF f, z

(* A ring that was reset is empty.                                          *)
LEMMA RewoundKeeps ==
  ASSUME NEW r \in Ring
  PROVE  Keeps(Rewound(r), <<>>)
<1>1. Size \in Nat /\ 0 \in 0..Size - 1
  BY SizeAssumption
<1>2. Rewound(r) \in Ring /\ Rewound(r).wr = 0 /\ Rewound(r).rd = 0
  BY <1>1 DEF Rewound, Ring
<1>3. <<>> \in Seq(Item) /\ Len(<<>>) = 0 /\ Slot(0, 0) = 0
  BY <1>1 DEF Slot
<1> QED
  BY <1>1, <1>2, <1>3 DEF Keeps

(* The rest of a number that went round once.                               *)
LEMMA OnceRound ==
  ASSUME NEW n \in Nat, n > 0, NEW x \in n..2 * n - 1
  PROVE  x % n = x - n
<1> DEFINE d == x \div n
           m == x % n
<1>1. m \in 0..n - 1 /\ x = n * d + m /\ x \in Nat /\ d \in Int
  OBVIOUS
<1> HIDE DEF d, m
<1>2. d < 2
  <2> SUFFICES ASSUME d >= 2 PROVE FALSE
    BY <1>1
  <2>1. n * d >= n * 1 + n
    BY <1>1
  <2> QED
    BY <1>1, <2>1
<1>3. d > 0
  <2> SUFFICES ASSUME d <= 0 PROVE FALSE
    BY <1>1
  <2>1. n * d <= 0
    BY <1>1
  <2> QED
    BY <1>1, <2>1
<1>4. d = 1
  BY <1>1, <1>2, <1>3
<1>5. n * 1 = n
  OBVIOUS
<1> QED
  BY <1>1, <1>4, <1>5 DEF m

(* What a ring keeps it holds as the model says it.                        *)
LEMMA KeepsHolds ==
  ASSUME NEW r, NEW s, Keeps(r, s)
  PROVE  Holds(r, s)
<1>1. r \in Ring /\ s \in Seq(Item) /\ Len(s) \in Nat /\ Size \in Nat /\ Size > 0 /\ Len(s) <= Size
  BY SizeAssumption DEF Keeps
<1>2. r.rd \in 0..Size - 1
  BY <1>1 DEF Ring
<1>3. ASSUME NEW n \in 0..Size
      PROVE  (r.rd + n) % Size = Slot(r.rd, n)
  <2> DEFINE x == r.rd + n
  <2>1. CASE x < Size
    <3>1. x \in 0..Size - 1 /\ Slot(r.rd, n) = x
      BY <1>1, <1>2, <2>1 DEF Slot
    <3> HIDE DEF x
    <3>2. x % Size = x
      BY <1>1, <3>1
    <3> QED
      BY <3>1, <3>2 DEF x
  <2>2. CASE x >= Size
    <3>1. x \in Size..2 * Size - 1 /\ Slot(r.rd, n) = x - Size
      BY <1>1, <1>2, <2>2 DEF Slot
    <3> HIDE DEF x
    <3>2. x % Size = x - Size
      BY <1>1, <3>1, OnceRound
    <3> QED
      BY <3>1, <3>2 DEF x
  <2> QED
    BY <1>1, <1>2, <2>1, <2>2
<1>4. ASSUME NEW j \in DOMAIN s
      PROVE  r.buf[(r.rd + j - 1) % Size] = s[j]
  <2>1. j \in 1..Len(s) /\ j - 1 \in 0..Size /\ r.rd + (j - 1) = r.rd + j - 1
    BY <1>1, <1>2
  <2> QED
    BY <1>3, <2>1 DEF Keeps
<1>5. r.wr = (r.rd + Len(s)) % Size
  BY <1>1, <1>3 DEF Keeps
<1> QED
  BY <1>1, <1>4, <1>5 DEF Holds

(* The units of a mailbox's semaphore, those included that have been given *)
(* to threads that have not used them yet.                                 *)
MailSems == {EmptySem, FullSem}
Job(s) == IF s = EmptySem THEN "post" ELSE "fetch"
Holders(kk, p, s) == Given(kk, p, Job(s))
Total(kk, p, s) == Units(kk, s) + Cardinality(Holders(kk, p, s))
AtWork(kk, p) == \A s \in MailSems : \A t \in Members(kk.q[s]) : p[t][1] = Job(s)

(* The semaphores of the mailbox, and who waits for each.                   *)
LEMMA MailSemsAre ==
  /\ MailSems \subseteq Sem /\ MailSems \subseteq Object
  /\ \A s, x \in MailSems : Job(s) = Job(x) => s = x
  /\ \A s \in MailSems : Job(s) \notin {"user", "more"}
<1>1. {EmptySem, FullSem} \subseteq Sem /\ EmptySem # FullSem /\ Sem \subseteq Object
  BY MailboxAssumption, ThreadAssumption
<1> QED
  BY <1>1 DEF MailSems, Job

(* Finitely many threads hold a unit of the mailbox's semaphores.           *)
LEMMA HoldersAre ==
  ASSUME NEW kk, NEW p, NEW s
  PROVE  /\ IsFiniteSet(Holders(kk, p, s)) /\ Cardinality(Holders(kk, p, s)) \in Nat
         /\ Holders(kk, p, s) \subseteq Thread
<1>1. Holders(kk, p, s) \subseteq Thread
  BY DEF Holders, Given
<1>2. IsFiniteSet(Thread)
  BY ThreadsAssumption
<1>3. IsFiniteSet(Holders(kk, p, s))
  BY <1>1, <1>2, FS_Subset
<1> QED
  BY <1>1, <1>3, FS_CardinalityType

(* The units of a semaphore are a number.                                   *)
LEMMA UnitsAre ==
  ASSUME NEW kk \in KernelState, NEW s \in Sem
  PROVE  Units(kk, s) \in Nat
BY KernelIs DEF Units

(* A step that gives nobody a unit changes the totals as the counters.     *)
LEMMA SameHolders ==
  ASSUME NEW kk, NEW r, NEW p, View(r) = View(kk), r.msg = kk.msg, NEW s
  PROVE  Holders(r, p, s) = Holders(kk, p, s)
BY DEF Holders, Given

(* A unit that is taken is one less.                                        *)
LEMMA TotalTaken ==
  ASSUME NEW kk \in KernelState, NEW p, NEW s \in MailSems, NEW r, UnitTaken(kk, r, s)
  PROVE  /\ Total(r, p, s) = Total(kk, p, s) - 1
         /\ \A x \in MailSems \ {s} : Total(r, p, x) = Total(kk, p, x)
         /\ AtWork(kk, p) => AtWork(r, p)
<1>1. View(r) = View(kk) /\ r.msg = kk.msg /\ r.q = kk.q /\ r \in KernelState
      /\ Units(r, s) = Units(kk, s) - 1 /\ \A x \in Sem \ {s} : Units(r, x) = Units(kk, x)
  BY DEF UnitTaken
<1>2. \A x \in MailSems : Holders(r, p, x) = Holders(kk, p, x) /\ x \in Sem
  BY <1>1, SameHolders, MailSemsAre
<1>3. Units(kk, s) \in Nat /\ Cardinality(Holders(kk, p, s)) \in Nat
  BY <1>2, UnitsAre, HoldersAre
<1> HIDE DEF Units
<1>4. Total(r, p, s) = Total(kk, p, s) - 1
  BY <1>1, <1>2, <1>3 DEF Total
<1>5. \A x \in MailSems \ {s} : Total(r, p, x) = Total(kk, p, x)
  BY <1>1, <1>2 DEF Total
<1>6. AtWork(kk, p) => AtWork(r, p)
  BY <1>1 DEF AtWork
<1> QED
  BY <1>4, <1>5, <1>6

(* A unit that is given is one more, at the counter or with a thread.       *)
LEMMA TotalSignalled ==
  ASSUME NEW kk, Listed(kk, {}), NEW p, AtWork(kk, p), NEW s \in MailSems, NEW T, NEW r,
         Signalled(kk, r, s, T)
  PROVE  /\ Total(r, p, s) = Total(kk, p, s) + 1
         /\ \A x \in MailSems \ {s} : Total(r, p, x) = Total(kk, p, x)
         /\ AtWork(r, p)
<1>1. kk \in KernelState /\ r \in KernelState /\ MailSems \subseteq Sem /\ MailSems \subseteq Object
  BY MailSemsAre DEF Signalled, Listed
<1>2. /\ \A x \in Sem \ {s} : Units(r, x) = Units(kk, x)
      /\ Units(r, s) = IF T = {} THEN Units(kk, s) + 1 ELSE Units(kk, s)
      /\ T \subseteq Members(kk.q[s]) /\ (T = {} \/ \E t \in Thread : T = {t})
      /\ \A u \in Thread : View(r)[u] = IF u \in T THEN "RUNS" ELSE View(kk)[u]
      /\ \A u \in Thread : r.msg[u] = IF u \in T THEN "OK" ELSE kk.msg[u]
  BY DEF Signalled
<1>3. AtWork(r, p)
  BY <1>1 DEF AtWork, Signalled
<1>4. \A x \in MailSems : Units(kk, x) \in Nat /\ Cardinality(Holders(kk, p, x)) \in Nat
  BY <1>1, UnitsAre, HoldersAre
<1>5. ASSUME NEW t \in T
      PROVE  /\ t \in Thread /\ View(kk)[t] # "RUNS" /\ p[t][1] = Job(s)
             /\ \A x \in MailSems \ {s} : p[t][1] # Job(x)
  <2>1. t \in Thread /\ t \in Members(kk.q[s])
    <3>1. T \subseteq Thread
      BY <1>2
    <3> QED
      BY <1>2, <3>1
  <2>2. kk.state[t] = Kind(s) /\ s \in Sem
    BY <1>1, <2>1 DEF Listed, QueuesRight
  <2>3. View(kk)[t] # "RUNS"
    BY <2>1, <2>2 DEF View, Kind, Runs
  <2>4. p[t][1] = Job(s)
    BY <2>1 DEF AtWork
  <2> QED
    BY <2>1, <2>3, <2>4, MailSemsAre
<1>6. ASSUME NEW x \in MailSems, x # s
      PROVE  Holders(r, p, x) = Holders(kk, p, x)
  <2>1. ASSUME NEW u \in Thread
        PROVE  u \in Holders(r, p, x) <=> u \in Holders(kk, p, x)
    <3>1. CASE u \in T
      <4>1. p[u][1] # Job(x)
        BY <1>5, <1>6, <3>1
      <4> QED
        BY <4>1 DEF Holders, Given
    <3>2. CASE u \notin T
      <4>1. View(r)[u] = View(kk)[u] /\ r.msg[u] = kk.msg[u]
        BY <1>2, <3>2
      <4> QED
        BY <4>1 DEF Holders, Given
    <3> QED
      BY <3>1, <3>2
  <2>2. Holders(r, p, x) \subseteq Thread /\ Holders(kk, p, x) \subseteq Thread
    BY HoldersAre
  <2> QED
    BY <2>1, <2>2
<1>7. Holders(r, p, s) = Holders(kk, p, s) \cup T
  <2>1. ASSUME NEW u \in Thread
        PROVE  u \in Holders(r, p, s) <=> u \in Holders(kk, p, s) \cup T
    <3>1. CASE u \in T
      <4>1. p[u][1] = Job(s) /\ View(r)[u] = "RUNS" /\ r.msg[u] = "OK"
        BY <1>2, <1>5, <3>1
      <4> QED
        BY <3>1, <4>1 DEF Holders, Given
    <3>2. CASE u \notin T
      <4>1. View(r)[u] = View(kk)[u] /\ r.msg[u] = kk.msg[u]
        BY <1>2, <3>2
      <4> QED
        BY <3>2, <4>1 DEF Holders, Given
    <3> QED
      BY <3>1, <3>2
  <2>2. T \subseteq Thread
    BY <1>2
  <2> QED
    BY <2>1, <2>2, HoldersAre
<1>8. \A u \in T : u \notin Holders(kk, p, s)
  BY <1>5 DEF Holders, Given
<1> HIDE DEF Units, Holders
<1>9. Total(r, p, s) = Total(kk, p, s) + 1
  <2>1. CASE T = {}
    <3>1. Holders(r, p, s) = Holders(kk, p, s) /\ Units(r, s) = Units(kk, s) + 1
      BY <1>2, <1>7, <2>1
    <3> QED
      BY <1>4, <3>1 DEF Total
  <2>2. CASE T # {}
    <3>1. PICK t \in Thread : T = {t}
      BY <1>2, <2>2
    <3>2. Holders(r, p, s) = Holders(kk, p, s) \cup {t} /\ t \notin Holders(kk, p, s)
          /\ Units(r, s) = Units(kk, s)
      BY <1>2, <1>7, <1>8, <2>2, <3>1
    <3>3. IsFiniteSet(Holders(kk, p, s))
      BY HoldersAre
    <3>4. Cardinality(Holders(r, p, s)) = Cardinality(Holders(kk, p, s)) + 1
      BY <3>2, <3>3, FS_AddElement
    <3> QED
      BY <1>4, <3>2, <3>4 DEF Total
  <2> QED
    BY <2>1, <2>2
<1>10. \A x \in MailSems \ {s} : Total(r, p, x) = Total(kk, p, x)
  BY <1>1, <1>2, <1>6 DEF Total
<1> QED
  BY <1>3, <1>9, <1>10

(* A rescheduling keeps the units.                                          *)
LEMMA TotalSame ==
  ASSUME NEW kk, NEW r, Same(kk, r), NEW p
  PROVE  /\ \A x \in MailSems : Total(r, p, x) = Total(kk, p, x)
         /\ AtWork(kk, p) => AtWork(r, p)
<1>1. \A x \in MailSems : Holders(r, p, x) = Holders(kk, p, x)
  BY SameHolders DEF Same
<1>2. \A x \in MailSems : Units(r, x) = Units(kk, x)
  BY DEF Same, SameRest, Units
<1> QED
  BY <1>1, <1>2 DEF Total, AtWork, Same, SameRest

(* A thread that returns has used the unit that it was given.              *)
GoesTo(p, o, c, x) == \A t \in Thread : o[t] = IF t = c THEN x ELSE p[t]

(* The members of a list with one more at its end.                          *)
LEMMA AppendMembers ==
  ASSUME NEW s \in Seq(Thread), NEW t \in Thread
  PROVE  Members(Append(s, t)) = Members(s) \cup {t}
<1> DEFINE r == Append(s, t)
<1>1. /\ r \in Seq(Thread) /\ Members(r) = Members(s) \cup {t}
      /\ (Once(s) /\ t \notin Members(s) => Once(r)) /\ Len(r) = Len(s) + 1
  BY AppendIs
<1> QED
  BY <1>1 DEF r

(* A thread that runs is in no queue.                                       *)
LEMMA NotInQueue ==
  ASSUME NEW kk, Listed(kk, {}), NEW c \in Thread, View(kk)[c] = "RUNS", NEW o \in Object
  PROVE  c \notin Members(kk.q[o])
<1>1. kk.state[c] \in Runs
  <2>1. View(kk)[c] = IF kk.state[c] \in Runs THEN "RUNS" ELSE kk.state[c]
    BY DEF View
  <2>2. kk.state[c] # "RUNS"
    BY KernelIs DEF Listed, States
  <2> QED
    BY <2>1, <2>2
<1>2. Kind(o) \notin Runs
  BY DEF Kind, Runs
<1> QED
  BY <1>1, <1>2 DEF Listed, QueuesRight

(* A thread that goes on with OK has used its unit.                         *)
LEMMA TotalReturned ==
  ASSUME NEW kk, Listed(kk, {}), NEW p, NEW c \in Thread, c = kk.current, View(kk)[c] = "RUNS",
         NEW h, Resumed(kk, h), NEW o, GoesTo(p, o, c, InUser), NEW s \in MailSems,
         p[c][1] = Job(s), AtWork(kk, p)
  PROVE  /\ kk.msg[c] = "OK" => Total(h, o, s) = Total(kk, p, s) - 1
         /\ kk.msg[c] # "OK" => Total(h, o, s) = Total(kk, p, s)
         /\ \A x \in MailSems \ {s} : Total(h, o, x) = Total(kk, p, x)
         /\ AtWork(h, o)
<1>1. kk \in KernelState /\ MailSems \subseteq Sem /\ MailSems \subseteq Object
  BY MailSemsAre DEF Listed
<1>2. /\ h.q = kk.q /\ h.cnt = kk.cnt /\ View(h) = View(kk)
      /\ h.msg = [kk.msg EXCEPT ![c] = "OK"]
  BY DEF Resumed, SameThreads, View
<1>3. \A x \in Thread : x # c => h.msg[x] = kk.msg[x]
  BY <1>1, <1>2, KernelIs
<1>4. \A t \in Thread : o[t] = IF t = c THEN InUser ELSE p[t]
  BY DEF GoesTo
<1>5. \A x \in MailSems : Job(x) # "user" /\ Units(h, x) = Units(kk, x)
      /\ Units(kk, x) \in Nat /\ Cardinality(Holders(kk, p, x)) \in Nat
  BY <1>1, <1>2, MailSemsAre, UnitsAre, HoldersAre DEF Units
<1>6. \A x \in MailSems : x # s => Job(x) # Job(s)
  BY MailSemsAre
<1>7. ASSUME NEW x \in MailSems
      PROVE  Holders(h, o, x) = Holders(kk, p, x) \ {c}
  <2>1. ASSUME NEW u \in Thread
        PROVE  u \in Holders(h, o, x) <=> u \in Holders(kk, p, x) /\ u # c
    <3>1. CASE u = c
      <4>1. o[u][1] # Job(x)
        BY <1>4, <1>5, <3>1 DEF InUser
      <4> QED
        BY <3>1, <4>1 DEF Holders, Given
    <3>2. CASE u # c
      <4>1. o[u] = p[u] /\ h.msg[u] = kk.msg[u] /\ View(h)[u] = View(kk)[u]
        BY <1>2, <1>3, <1>4, <3>2
      <4> QED
        BY <3>2, <4>1 DEF Holders, Given
    <3> QED
      BY <3>1, <3>2
  <2>2. Holders(h, o, x) \subseteq Thread /\ Holders(kk, p, x) \subseteq Thread
    BY HoldersAre
  <2> QED
    BY <2>1, <2>2
<1>8. \A x \in MailSems \ {s} : c \notin Holders(kk, p, x)
  BY <1>6 DEF Holders, Given
<1>9. c \in Holders(kk, p, s) <=> kk.msg[c] = "OK"
  BY DEF Holders, Given
<1>10. AtWork(h, o)
  <2> SUFFICES ASSUME NEW x \in MailSems, NEW t \in Members(h.q[x])
               PROVE  o[t][1] = Job(x)
    BY DEF AtWork
  <2>1. t \in Members(kk.q[x]) /\ x \in Object
    BY <1>1, <1>2
  <2>2. t # c
    BY <2>1, NotInQueue
  <2>3. t \in Thread
    <3>1. kk.q[x] \in Seq(Thread)
      BY <1>1, <2>1, KernelIs
    <3> QED
      BY <2>1, <3>1, MembersAre
  <2>4. p[t][1] = Job(x)
    BY <2>1 DEF AtWork
  <2> QED
    BY <1>4, <2>2, <2>3, <2>4
<1> HIDE DEF Units, Holders
<1>11. ASSUME NEW x \in MailSems, c \notin Holders(kk, p, x)
       PROVE  Total(h, o, x) = Total(kk, p, x)
  <2>1. Holders(h, o, x) = Holders(kk, p, x)
    BY <1>7, <1>11
  <2> QED
    BY <1>5, <2>1 DEF Total
<1>12. ASSUME kk.msg[c] = "OK"
       PROVE  Total(h, o, s) = Total(kk, p, s) - 1
  <2>1. c \in Holders(kk, p, s) /\ IsFiniteSet(Holders(kk, p, s))
    BY <1>9, <1>12, HoldersAre
  <2>2. Cardinality(Holders(kk, p, s) \ {c}) = Cardinality(Holders(kk, p, s)) - 1
    BY <2>1, FS_RemoveElement
  <2>3. Cardinality(Holders(h, o, s)) = Cardinality(Holders(kk, p, s)) - 1
    BY <1>7, <2>2
  <2> QED
    BY <1>5, <2>3 DEF Total
<1> QED
  BY <1>8, <1>9, <1>10, <1>11, <1>12

(* A thread that sleeps holds no unit.                                     *)
LEMMA TotalSlept ==
  ASSUME NEW kk, Listed(kk, {}), NEW p, NEW c \in Thread, c = kk.current, View(kk)[c] = "RUNS",
         p[c] = InUser, NEW s \in MailSems, NEW r, SemSlept(kk, r, s), NEW y, y[1] = Job(s),
         NEW o, GoesTo(p, o, c, y), AtWork(kk, p)
  PROVE  (\A x \in MailSems : Total(r, o, x) = Total(kk, p, x)) /\ AtWork(r, o)
<1>1. kk \in KernelState /\ MailSems \subseteq Sem /\ MailSems \subseteq Object
  BY MailSemsAre DEF Listed
<1>2. PICK e : /\ Sleep(kk, e, r, "WTSEM") /\ e.msg = kk.msg
               /\ \A x \in Object : e.q[x] = IF x = s THEN Append(kk.q[s], kk.current) ELSE kk.q[x]
               /\ \A x \in Sem : Units(e, x) = Units(kk, x)
  BY DEF SemSlept
<1>3. r.q = e.q /\ r.cnt = e.cnt /\ r.msg = kk.msg
      /\ \A u \in Thread : View(r)[u] = IF u = c THEN "WTSEM" ELSE View(kk)[u]
  <2>1. View(r) = [View(kk) EXCEPT ![kk.current] = "WTSEM"]
    BY <1>2 DEF Sleep
  <2> QED
    BY <1>2, <2>1 DEF Sleep, View
<1>4. \A t \in Thread : o[t] = IF t = c THEN y ELSE p[t]
  BY DEF GoesTo
<1>5. \A x \in MailSems : Units(r, x) = Units(kk, x)
  BY <1>1, <1>2, <1>3 DEF Units
<1>6. ASSUME NEW x \in MailSems
      PROVE  Holders(r, o, x) = Holders(kk, p, x)
  <2>1. ASSUME NEW u \in Thread
        PROVE  u \in Holders(r, o, x) <=> u \in Holders(kk, p, x)
    <3>1. CASE u = c
      <4>1. View(r)[u] # "RUNS" /\ p[u][1] # Job(x)
        BY <1>3, <3>1, MailSemsAre DEF InUser
      <4> QED
        BY <3>1, <4>1 DEF Holders, Given
    <3>2. CASE u # c
      <4>1. o[u] = p[u] /\ r.msg[u] = kk.msg[u] /\ View(r)[u] = View(kk)[u]
        BY <1>3, <1>4, <3>2
      <4> QED
        BY <3>2, <4>1 DEF Holders, Given
    <3> QED
      BY <3>1, <3>2
  <2>2. Holders(r, o, x) \subseteq Thread /\ Holders(kk, p, x) \subseteq Thread
    BY HoldersAre
  <2> QED
    BY <2>1, <2>2
<1>7. AtWork(r, o)
  <2> SUFFICES ASSUME NEW x \in MailSems, NEW t \in Members(r.q[x])
               PROVE  o[t][1] = Job(x)
    BY DEF AtWork
  <2>1. x \in Object /\ kk.q[x] \in Seq(Thread)
    BY <1>1, KernelIs
  <2>2. t \in Members(kk.q[x]) \/ (x = s /\ t = c)
    <3>1. CASE x = s
      <4> DEFINE z == Append(kk.q[x], c)
      <4>2. r.q[x] = z
        BY <1>2, <1>3, <2>1, <3>1
      <4> HIDE DEF z
      <4>1. Members(z) = Members(kk.q[x]) \cup {c}
        BY <2>1, AppendMembers DEF z
      <4> QED
        BY <3>1, <4>1, <4>2
    <3>2. CASE x # s
      BY <1>2, <1>3, <2>1, <3>2
    <3> QED
      BY <3>1, <3>2
  <2>3. CASE t \in Members(kk.q[x])
    <3>1. t # c
      BY <2>1, <2>3, NotInQueue
    <3>2. t \in Thread
      BY <2>1, <2>3, MembersAre
    <3>3. p[t][1] = Job(x)
      BY <2>3 DEF AtWork
    <3> QED
      BY <1>4, <3>1, <3>2, <3>3
  <2>4. CASE x = s /\ t = c
    BY <1>4, <2>4
  <2> QED
    BY <2>2, <2>3, <2>4
<1> QED
  BY <1>5, <1>6, <1>7 DEF Total

(* A reset tells all that wait, and gives nobody a unit.                   *)
LEMMA TotalReset ==
  ASSUME NEW kk, Listed(kk, {}), Counted(kk), NEW p, AtWork(kk, p), NEW s \in MailSems,
         NEW n \in Nat, NEW r, ResetTo(kk, r, s, n, 0)
  PROVE  /\ \A x \in MailSems : Holders(r, p, x) = Holders(kk, p, x)
         /\ Units(r, s) = n /\ (\A x \in MailSems \ {s} : Units(r, x) = Units(kk, x))
         /\ AtWork(r, p)
<1>1. kk \in KernelState /\ MailSems \subseteq Sem /\ MailSems \subseteq Object
  BY MailSemsAre DEF Listed
<1>2. s \in Sem
  BY <1>1
<1>3. /\ Counted(r) /\ Units(r, s) = n /\ r.q[s] = <<>>
      /\ \A o \in Object \ {s} : r.q[o] = kk.q[o]
      /\ \A x \in Sem \ {s} : Units(r, x) = Units(kk, x)
      /\ \A u \in Thread : View(r)[u] = IF u \in Members(kk.q[s]) THEN "RUNS" ELSE View(kk)[u]
      /\ \A u \in Thread : r.msg[u] = IF u \in Members(kk.q[s]) THEN "RESET" ELSE kk.msg[u]
  BY <1>2, ResetCounted
<1>4. ASSUME NEW x \in MailSems
      PROVE  Holders(r, p, x) = Holders(kk, p, x)
  <2>1. ASSUME NEW u \in Thread
        PROVE  u \in Holders(r, p, x) <=> u \in Holders(kk, p, x)
    <3>1. CASE u \in Members(kk.q[s])
      <4>1. View(kk)[u] # "RUNS"
        <5>1. s \in Object
          BY <1>1
        <5> QED
          BY <3>1, <5>1, NotInQueue
      <4>2. r.msg[u] # "OK"
        BY <1>3, <3>1
      <4> QED
        BY <4>1, <4>2 DEF Holders, Given
    <3>2. CASE u \notin Members(kk.q[s])
      <4>1. r.msg[u] = kk.msg[u] /\ View(r)[u] = View(kk)[u]
        BY <1>3, <3>2
      <4> QED
        BY <4>1 DEF Holders, Given
    <3> QED
      BY <3>1, <3>2
  <2>2. Holders(r, p, x) \subseteq Thread /\ Holders(kk, p, x) \subseteq Thread
    BY HoldersAre
  <2> QED
    BY <2>1, <2>2
<1>5. AtWork(r, p)
  <2> SUFFICES ASSUME NEW x \in MailSems, NEW t \in Members(r.q[x])
               PROVE  p[t][1] = Job(x)
    BY DEF AtWork
  <2>1. x # s
    BY <1>3 DEF Members
  <2>2. r.q[x] = kk.q[x]
    BY <1>1, <1>3, <2>1
  <2> QED
    BY <2>2 DEF AtWork
<1> QED
  BY <1>1, <1>3, <1>4, <1>5

MbxUntouched == UNCHANGED <<mtxVars, msgVars, evtVars, ioqVars>>
Mail(kk, p, e, f) ==
  AtWork(kk, p) /\ Total(kk, p, EmptySem) = e /\ Total(kk, p, FullSem) = f

(* The part of the invariant on the mailbox, by the units of its            *)
(* semaphores.                                                              *)
LEMMA MbxIs ==
  ASSUME NEW kk, NEW p, NEW r, NEW po
  PROVE  MbxOK(kk, p, r, po) <=> Keeps(r, po) /\ Mail(kk, p, Size - Len(po), Len(po))
<1>1. EmptySem # FullSem
  BY MailboxAssumption
<1>2. Job(EmptySem) = "post" /\ Job(FullSem) = "fetch"
  BY <1>1 DEF Job
<1>3. AtWork(kk, p) <=> /\ \A t \in Members(kk.q[EmptySem]) : p[t][1] = "post"
                        /\ \A t \in Members(kk.q[FullSem]) : p[t][1] = "fetch"
  BY <1>2 DEF AtWork, MailSems
<1> QED
  BY <1>2, <1>3 DEF MbxOK, Mail, Total, Holders

(* A step of the mailbox's calls is left to show its mail right.           *)
LEMMA MbxRight ==
  ASSUME IInv, api = "mbx", MbxUntouched, api' = api, systime' = systime, waiting' = waiting,
         Stable(k', pc', api), Keeps(mb', posted'),
         Mail(k', pc', Size - Len(posted'), Len(posted'))
  PROVE  IInv'
<1>1. KernelRight(k') /\ Placed(k', pc', api)
  BY DEF Stable
<1>2. Untouched(api)'
  BY DEF IInv, Untouched, MbxUntouched, mtxVars, evtVars, msgVars, ioqVars,
         MtxInit, EvtInit, MsgInit, chIQInit
<1>3. systime' \in 0..1 /\ api \notin Queue
  BY DEF IInv, Queue
<1>4. MbxOK(k', pc', mb', posted')
  BY MbxIs
<1> QED
  BY <1>1, <1>2, <1>3, <1>4, StepRight

(* What the invariant says of the mailbox.                                  *)
LEMMA MailRight ==
  ASSUME IInv, api = "mbx"
  PROVE  /\ Stable(k, pc, api) /\ Listed(k, {}) /\ Counted(k) /\ k \in KernelState
         /\ TimersAre(k.vt, k.due) /\ Keeps(mb, posted)
         /\ Mail(k, pc, Size - Len(posted), Len(posted))
         /\ posted \in Seq(Item) /\ Len(posted) \in Nat /\ Size \in Nat /\ mb \in Ring
<1>1. MbxOK(k, pc, mb, posted)
  BY DEF IInv
<1>2. Keeps(mb, posted) /\ Mail(k, pc, Size - Len(posted), Len(posted))
  BY <1>1, MbxIs
<1>3. Stable(k, pc, api) /\ Listed(k, {}) /\ Counted(k) /\ k \in KernelState
      /\ TimersAre(k.vt, k.due)
  BY DEF IInv, Stable, KernelRight, TimersRight, Listed
<1> QED
  BY <1>2, <1>3, SizeAssumption DEF Keeps

(* Somebody is given a unit of s, and the scheduler lets the first one run. *)
Given1(h, p, s, r) ==
  /\ AtWork(r, p) /\ Total(r, p, s) = Total(h, p, s) + 1
  /\ \A x \in MailSems \ {s} : Total(r, p, x) = Total(h, p, x)

(* GivesOn adds a unit to the other semaphore.                              *)
LEMMA GivesOnIs ==
  ASSUME NEW kk, NEW h, NEW g, Changed(kk, h, g), NEW p, AtWork(h, p), NEW s \in MailSems,
         NEW r, r = GivesOn(h, s)
  PROVE  /\ Changed(kk, r, g) /\ Given1(h, p, s, r) /\ r.current = h.current
         /\ r.due = h.due
         /\ \A u \in Thread : View(h)[u] = "RUNS" => View(r)[u] = "RUNS"
<1>1. Listed(h, {}) /\ Counted(h) /\ s \in Sem
  BY MailSemsAre DEF Changed
<1>2. (\E T : Signalled(h, chSemSignalI(h, s), s, T))
      /\ chSemSignalI(h, s).current = h.current
  BY <1>1, SignalIIs
<1>3. r = chSemSignalI(h, s)
  BY DEF GivesOn
<1>4. PICK T : Signalled(h, r, s, T)
  BY <1>2, <1>3
<1>5. Changed(kk, r, g)
  BY <1>4, SignalledChanges
<1>6. Given1(h, p, s, r)
  <2>1. /\ Total(r, p, s) = Total(h, p, s) + 1
        /\ \A x \in MailSems \ {s} : Total(r, p, x) = Total(h, p, x)
        /\ AtWork(r, p)
    BY <1>1, <1>4, TotalSignalled
  <2> QED
    BY <2>1 DEF Given1
<1>7. r.due = h.due /\ \A u \in Thread : View(h)[u] = "RUNS" => View(r)[u] = "RUNS"
  BY <1>4 DEF Signalled
<1> QED
  BY <1>2, <1>3, <1>5, <1>6, <1>7

(* A thread or a handler that need not wait takes a unit of s and gives    *)
(* one of o.                                                               *)
LEMMA MovesMail ==
  ASSUME IInv, api = "mbx", NEW s \in MailSems, NEW o \in MailSems, s # o, k.cnt[s] > 0,
         NEW h, h = GivesOn(chSemFastWaitI(k, s), o), NEW r, Settles(h, r)
  PROVE  /\ Stable(r, pc, api) /\ AtWork(r, pc)
         /\ Total(r, pc, s) = Total(k, pc, s) - 1
         /\ Total(r, pc, o) = Total(k, pc, o) + 1
<1> DEFINE f == chSemFastWaitI(k, s)
<1>1. Stable(k, pc, api) /\ Listed(k, {}) /\ Counted(k) /\ k \in KernelState /\ AtWork(k, pc)
  BY MailRight DEF Mail
<1>2. s \in Sem
  BY MailSemsAre
<1>3. UnitTaken(k, f, s)
  BY <1>1, <1>2, FastWaitIs
<1>4. h = GivesOn(f, o)
  OBVIOUS
<1> HIDE DEF f
<1>5. /\ Total(f, pc, s) = Total(k, pc, s) - 1
      /\ \A x \in MailSems \ {s} : Total(f, pc, x) = Total(k, pc, x)
      /\ AtWork(k, pc) => AtWork(f, pc)
  BY <1>1, <1>3, TotalTaken
<1>6. Changed(k, k, api)
  BY <1>1, StillPlain
<1>7. Changed(k, f, api)
  BY <1>3, <1>6, TakenChanges
<1>8. AtWork(f, pc)
  BY <1>1, <1>5
<1>9. Changed(k, h, api) /\ Given1(f, pc, o, h)
  <2> DEFINE g == api
             p == pc
  <2>1. Changed(k, f, g) /\ AtWork(f, p)
    BY <1>7, <1>8
  <2> HIDE DEF g, p
  <2>2. /\ Changed(k, h, g) /\ Given1(f, p, o, h) /\ h.current = f.current
        /\ h.due = f.due
        /\ \A u \in Thread : View(f)[u] = "RUNS" => View(h)[u] = "RUNS"
    BY <1>4, <2>1, GivesOnIs
  <2> QED
    BY <2>2 DEF g, p
<1>10. Stable(r, pc, api)
  BY <1>1, <1>9, Stays
<1>11. /\ \A x \in MailSems : Total(r, pc, x) = Total(h, pc, x)
       /\ AtWork(h, pc) => AtWork(r, pc)
  <2>1. Same(h, r)
    BY DEF Settles
  <2> QED
    BY <2>1, TotalSame
<1> QED
  BY <1>5, <1>9, <1>10, <1>11 DEF Given1

(* A message that comes or goes, with the units of both semaphores, keeps   *)
(* the invariant.                                                           *)
LEMMA MailMoved ==
  ASSUME IInv, api = "mbx", MbxUntouched, api' = api, systime' = systime, waiting' = waiting,
         NEW d \in Int, Stable(k', pc', api), Keeps(mb', posted'), AtWork(k', pc'),
         Len(posted') = Len(posted) + d,
         Total(k', pc', EmptySem) = Total(k, pc, EmptySem) - d,
         Total(k', pc', FullSem) = Total(k, pc, FullSem) + d
  PROVE  IInv'
<1>1. Mail(k, pc, Size - Len(posted), Len(posted)) /\ Len(posted) \in Nat /\ Size \in Nat
  BY MailRight
<1>2. Total(k, pc, EmptySem) = Size - Len(posted) /\ Total(k, pc, FullSem) = Len(posted)
  BY <1>1 DEF Mail
<1>3. Total(k', pc', EmptySem) = Size - Len(posted') /\ Total(k', pc', FullSem) = Len(posted')
  BY <1>1, <1>2
<1>4. Mail(k', pc', Size - Len(posted'), Len(posted'))
  BY <1>3 DEF Mail
<1> QED
  BY <1>4, MbxRight

(* The ring after a post and after a fetch.                                *)
LEMMA StoresIs ==
  ASSUME Keeps(mb, posted), Len(posted) < Size, NEW ahead \in BOOLEAN, NEW m \in Item,
         Stores(ahead, m)
  PROVE  Keeps(mb', posted') /\ Len(posted') = Len(posted) + 1
<1>1. posted \in Seq(Item)
  BY DEF Keeps
<1>2. CASE ahead
  <2> DEFINE r == PutAhead(mb, m)
             s == <<m>> \o posted
  <2>1. mb' = r /\ posted' = s
    BY <1>2 DEF Stores
  <2>2. Keeps(r, s)
    BY PutAheadKeeps
  <2>3. Len(s) = Len(posted) + 1
    BY <1>1
  <2> HIDE DEF r, s
  <2> QED
    BY <2>1, <2>2, <2>3
<1>3. CASE ~ahead
  <2> DEFINE r == Put(mb, m)
             s == Append(posted, m)
  <2>1. mb' = r /\ posted' = s
    BY <1>3 DEF Stores
  <2>2. Keeps(r, s)
    BY PutKeeps
  <2>3. Len(s) = Len(posted) + 1
    BY <1>1
  <2> HIDE DEF r, s
  <2> QED
    BY <2>1, <2>2, <2>3
<1> QED
  BY <1>2, <1>3

(* A message that is fetched leaves the ring at its head.                   *)
LEMMA FetchesIs ==
  ASSUME Keeps(mb, posted), Len(posted) > 0, Fetches
  PROVE  Keeps(mb', posted') /\ Len(posted') = Len(posted) - 1
<1>1. posted \in Seq(Item) /\ posted # <<>>
  BY DEF Keeps
<1> DEFINE r == Take(mb)
           s == Tail(posted)
<1>2. mb' = r /\ posted' = s
  BY <1>1 DEF Fetches, FirstGone
<1>3. Keeps(r, s)
  BY <1>1, TakeKeeps
<1>4. Len(s) = Len(posted) - 1
  BY <1>1
<1> HIDE DEF r, s
<1> QED
  BY <1>2, <1>3, <1>4

(* There is room for a message when a slot can be got, and a message when  *)
(* one can be fetched.                                                     *)
LEMMA MailThere ==
  ASSUME IInv, api = "mbx", NEW s \in MailSems, k.cnt[s] > 0 \/ Holders(k, pc, s) # {}
  PROVE  /\ s = EmptySem => Len(posted) < Size
         /\ s = FullSem => Len(posted) > 0
<1>1. Mail(k, pc, Size - Len(posted), Len(posted)) /\ Len(posted) \in Nat /\ Size \in Nat
      /\ k \in KernelState
  BY MailRight
<1>2. s \in Sem
  BY MailSemsAre
<1>3. Units(k, s) \in Nat /\ Cardinality(Holders(k, pc, s)) \in Nat
      /\ IsFiniteSet(Holders(k, pc, s))
  BY <1>1, <1>2, UnitsAre, HoldersAre
<1>4. CASE k.cnt[s] > 0
  <2>1. Units(k, s) > 0
    BY <1>4 DEF Units
  <2>2. Total(k, pc, s) > 0
    BY <1>3, <2>1 DEF Total
  <2> QED
    BY <1>1, <2>2 DEF Mail
<1>5. CASE Holders(k, pc, s) # {}
  <2>1. Cardinality(Holders(k, pc, s)) # 0
    BY <1>3, <1>5, FS_EmptySet
  <2>2. Total(k, pc, s) > 0
    BY <1>3, <2>1 DEF Total
  <2> QED
    BY <1>1, <2>2 DEF Mail
<1> QED
  BY <1>4, <1>5

(* A post, or a fetch, that need not wait.                                 *)
MailFast(s, o, r) ==
  /\ k.cnt[s] > 0 /\ UNCHANGED <<pc, waiting, systime>> /\ k' = r
  /\ Settles(GivesOn(chSemFastWaitI(k, s), o), r)

(* A post into a free slot keeps the invariant.                             *)
LEMMA PostsFast ==
  ASSUME IInv, api = "mbx", MbxUntouched, api' = api, NEW ahead \in BOOLEAN, NEW m \in Item,
         Stores(ahead, m), NEW r, MailFast(EmptySem, FullSem, r)
  PROVE  IInv'
<1> DEFINE h == GivesOn(chSemFastWaitI(k, EmptySem), FullSem)
<1>1. EmptySem \in MailSems /\ FullSem \in MailSems /\ EmptySem # FullSem
  BY MailboxAssumption DEF MailSems
<1>2. k.cnt[EmptySem] > 0 /\ pc' = pc /\ waiting' = waiting /\ systime' = systime /\ k' = r
      /\ Settles(h, r)
  BY DEF MailFast
<1>3. /\ Stable(r, pc, api) /\ AtWork(r, pc)
      /\ Total(r, pc, EmptySem) = Total(k, pc, EmptySem) - 1
      /\ Total(r, pc, FullSem) = Total(k, pc, FullSem) + 1
  BY <1>1, <1>2, MovesMail
<1>4. Keeps(mb, posted) /\ Len(posted) < Size
  BY <1>1, <1>2, MailRight, MailThere
<1>5. Keeps(mb', posted') /\ Len(posted') = Len(posted) + 1
  BY <1>4, StoresIs
<1> QED
  BY <1>2, <1>3, <1>5, MailMoved

(* A fetch of a message that is there keeps the invariant.                  *)
LEMMA FetchesFast ==
  ASSUME IInv, api = "mbx", MbxUntouched, api' = api, Fetches,
         NEW r, MailFast(FullSem, EmptySem, r)
  PROVE  IInv'
<1> DEFINE h == GivesOn(chSemFastWaitI(k, FullSem), EmptySem)
<1>1. EmptySem \in MailSems /\ FullSem \in MailSems /\ EmptySem # FullSem
  BY MailboxAssumption DEF MailSems
<1>2. k.cnt[FullSem] > 0 /\ pc' = pc /\ waiting' = waiting /\ systime' = systime /\ k' = r
      /\ Settles(h, r)
  BY DEF MailFast
<1>3. /\ Stable(r, pc, api) /\ AtWork(r, pc)
      /\ Total(r, pc, FullSem) = Total(k, pc, FullSem) - 1
      /\ Total(r, pc, EmptySem) = Total(k, pc, EmptySem) + 1
  BY <1>1, <1>2, MovesMail
<1>4. Keeps(mb, posted) /\ Len(posted) > 0 /\ Mail(k, pc, Size - Len(posted), Len(posted))
      /\ Size \in Nat /\ Len(posted) \in Nat
  BY <1>1, <1>2, MailRight, MailThere
<1>5. Keeps(mb', posted') /\ Len(posted') = Len(posted) - 1
  BY <1>4, FetchesIs
<1> DEFINE d == -1
<1>6. /\ d \in Int /\ Len(posted') = Len(posted) + d
      /\ Total(k', pc', EmptySem) = Total(k, pc, EmptySem) - d
      /\ Total(k', pc', FullSem) = Total(k, pc, FullSem) + d
  BY <1>2, <1>3, <1>4, <1>5 DEF Mail
<1>7. Stable(k', pc', api) /\ AtWork(k', pc')
  BY <1>2, <1>3
<1> HIDE DEF d
<1> QED
  BY <1>2, <1>5, <1>6, <1>7, MailMoved

(* After such a post or fetch the highest runs.                             *)
LEMMA FastSettles ==
  ASSUME IInv, api = "mbx", NEW s \in MailSems, NEW o \in MailSems, k.cnt[s] > 0,
         NEW h, h = GivesOn(chSemFastWaitI(k, s), o)
  PROVE  Settles(h, chSchRescheduleS(h)) /\ Settles(h, CH_IRQ_EPILOGUE(h))
<1> DEFINE f == chSemFastWaitI(k, s)
<1>1. Listed(k, {}) /\ Counted(k) /\ s \in Sem /\ o \in Sem
  BY MailRight, MailSemsAre
<1>2. UnitTaken(k, f, s)
  BY <1>1, FastWaitIs
<1>3. h = chSemSignalI(f, o)
  BY DEF GivesOn
<1> HIDE DEF f
<1>4. Listed(f, {}) /\ Counted(f)
  BY <1>2 DEF UnitTaken
<1>5. (\E T : Signalled(f, chSemSignalI(f, o), o, T))
      /\ chSemSignalI(f, o).current = f.current
  BY <1>1, <1>4, SignalIIs
<1>6. Listed(h, {})
  BY <1>3, <1>5 DEF Signalled
<1> HIDE DEF f
<1> QED
  BY <1>6, SettlesS, SettlesI

(* A post or a fetch that has to wait.                                     *)
LEMMA MailSleeps ==
  ASSUME IInv, api = "mbx", MbxUntouched, api' = api, NEW s \in MailSems,
         NEW n \in Time \cup {Infinite}, Calls, k.cnt[s] <= 0, k' = chSemSleepS(k, s, n),
         NEW y \in PlacesOf(api), y[1] = Job(s), Sleeps(y),
         UNCHANGED <<mbxVars, waiting, systime>>
  PROVE  IInv'
<1> DEFINE r == chSemSleepS(k, s, n)
           c == k.current
           o == [pc EXCEPT ![c] = y]
<1>1. Stable(k, pc, api) /\ Listed(k, {}) /\ Keeps(mb, posted) /\ AtWork(k, pc)
      /\ Mail(k, pc, Size - Len(posted), Len(posted))
  BY MailRight DEF Mail
<1>2. Caller(k, pc)
  BY <1>1, CallerIs DEF Stable
<1>3. s \in Sem /\ s \in Object /\ s \in ObjectsOf(api)
  BY MailSemsAre DEF ObjectsOf, MailSems
<1>4. SemSlept(k, r, s)
  BY <1>2, <1>3, SemSleepIs DEF Caller
<1> HIDE DEF r
<1>5. PICK e : /\ Sleep(k, e, r, "WTSEM") /\ Counted(e) /\ e.realprio = k.realprio
               /\ e.due = k.due /\ e.msg = k.msg
               /\ \A x \in Object : e.q[x] = IF x = s THEN Append(k.q[s], k.current) ELSE k.q[x]
  BY <1>4 DEF SemSlept
<1>6. \A x \in Object : x \in ObjectsOf(api) \/ e.q[x] = <<>>
  BY <1>1, <1>3, <1>5 DEF Stable, Placed
<1>7. "WTSEM" \in ViewsOf(api) \ Absent /\ "WTSEM" \in Timed /\ api # "msg"
  BY DEF ViewsOf, Absent, Timed
<1>8. y[1] \notin {"user", "more"}
  BY MailSemsAre
<1>9. Stable(r, [pc EXCEPT ![k.current] = y], api)
  BY <1>1, <1>2, <1>5, <1>6, <1>7, <1>8, Slept
<1>10. pc \in [Thread -> PlacesOf(api)] /\ c \in Thread /\ pc[c] = InUser /\ View(k)[c] = "RUNS"
  BY <1>1, <1>2 DEF Stable, Placed, Caller
<1>11. GoesTo(pc, o, c, y)
  BY <1>10 DEF GoesTo
<1>12. k' = r /\ pc' = o
  BY DEF r, Sleeps, me
<1> HIDE DEF o
<1>13. (\A x \in MailSems : Total(r, o, x) = Total(k, pc, x)) /\ AtWork(r, o)
  <2>1. c = k.current
    OBVIOUS
  <2> HIDE DEF c
  <2> QED
    BY <1>1, <1>4, <1>10, <1>11, <2>1, TotalSlept
<1>14. EmptySem \in MailSems /\ FullSem \in MailSems
  BY DEF MailSems
<1>15. Mail(r, o, Size - Len(posted), Len(posted))
  BY <1>1, <1>13, <1>14 DEF Mail
<1>16. mb' = mb /\ posted' = posted /\ waiting' = waiting /\ systime' = systime
  BY DEF mbxVars
<1>17. Stable(r, o, api)
  BY <1>9 DEF o
<1> QED
  BY <1>1, <1>12, <1>15, <1>16, <1>17, MbxRight

(* A thread that waited uses what it was given, and gives on.              *)
LEMMA MailAwake ==
  ASSUME IInv, api = "mbx", NEW s \in MailSems, pc[k.current][1] = Job(s),
         NEW p, p = [pc EXCEPT ![k.current] = InUser]
  PROVE  /\ Stable(Awake, p, api) /\ Changed(k, Awake, api) /\ AtWork(Awake, p)
         /\ Awake.current = k.current
         /\ View(Awake)[k.current] = "RUNS" /\ Awake.due[k.current] = 0
         /\ k.msg[k.current] = "OK" => Total(Awake, p, s) = Total(k, pc, s) - 1
         /\ k.msg[k.current] # "OK" => Total(Awake, p, s) = Total(k, pc, s)
         /\ \A x \in MailSems \ {s} : Total(Awake, p, x) = Total(k, pc, x)
<1> DEFINE h == AwakeOf(k)
           c == k.current
<1>1. Stable(k, pc, api) /\ Listed(k, {}) /\ AtWork(k, pc) /\ k \in KernelState
      /\ TimersAre(k.vt, k.due)
  BY MailRight DEF Mail
<1>2. Resumed(k, h)
  BY <1>1, AwakeIs
<1>3. Awake = h
  BY DEF Awake, AwakeOf, me
<1> HIDE DEF h
<1>4. Changed(k, h, api) /\ Settles(h, h) /\ h.due[k.current] = 0
      /\ View(h) = View(k) /\ h.current = k.current
  BY <1>1, <1>2, ResumedChanges
<1>5. pc[k.current] # InUser
  BY MailSemsAre DEF InUser
<1>6. Stable(h, [pc EXCEPT ![k.current] = InUser], api)
  BY <1>1, <1>2, <1>4, <1>5, ReturnStable
<1>7. c \in Thread /\ View(k)[c] = "RUNS" /\ c = k.current /\ pc \in [Thread -> PlacesOf(api)]
  BY <1>1, CurrentRuns DEF Stable, Placed
<1>8. GoesTo(pc, p, c, InUser)
  BY <1>7 DEF GoesTo
<1>9. Stable(h, p, api)
  BY <1>6
<1>10. pc[c][1] = Job(s)
  OBVIOUS
<1> DEFINE o == p
<1> HIDE DEF o, c
<1>11. /\ k.msg[c] = "OK" => Total(h, o, s) = Total(k, pc, s) - 1
       /\ k.msg[c] # "OK" => Total(h, o, s) = Total(k, pc, s)
       /\ \A x \in MailSems \ {s} : Total(h, o, x) = Total(k, pc, x)
       /\ AtWork(h, o)
  <2>1. GoesTo(pc, o, c, InUser)
    BY <1>8 DEF o
  <2> QED
    BY <1>1, <1>2, <1>7, <1>10, <2>1, TotalReturned
<1> QED
  BY <1>3, <1>4, <1>7, <1>9, <1>11 DEF o

UsedMail(p, r, o) ==
  p = [pc EXCEPT ![k.current] = InUser] /\ r = chSchRescheduleS(GivesOn(Awake, o))

(* A thread that was given its unit uses it and gives on the other one.     *)
LEMMA MailUsed ==
  ASSUME IInv, api = "mbx", NEW s \in MailSems, NEW o \in MailSems, s # o,
         pc[k.current][1] = Job(s), k.msg[k.current] = "OK",
         NEW p, NEW r, UsedMail(p, r, o)
  PROVE  /\ Stable(r, p, api) /\ AtWork(r, p)
         /\ Total(r, p, s) = Total(k, pc, s) - 1
         /\ Total(r, p, o) = Total(k, pc, o) + 1
<1> DEFINE f == Awake
           h == GivesOn(f, o)
           c == k.current
           y == InUser
<1>1. /\ Stable(f, p, api) /\ Changed(k, f, api) /\ AtWork(f, p)
      /\ f.current = k.current
      /\ View(f)[k.current] = "RUNS" /\ f.due[k.current] = 0
      /\ k.msg[k.current] = "OK" => Total(f, p, s) = Total(k, pc, s) - 1
      /\ k.msg[k.current] # "OK" => Total(f, p, s) = Total(k, pc, s)
      /\ \A x \in MailSems \ {s} : Total(f, p, x) = Total(k, pc, x)
  BY MailAwake DEF UsedMail
<1>2. r = chSchRescheduleS(h) /\ p = [pc EXCEPT ![k.current] = InUser]
  BY DEF UsedMail
<1> HIDE DEF f
<1>3. h = GivesOn(f, o)
  OBVIOUS
<1> HIDE DEF h
<1>4. Changed(k, h, api) /\ Given1(f, p, o, h) /\ h.due = f.due
      /\ \A u \in Thread : View(f)[u] = "RUNS" => View(h)[u] = "RUNS"
  <2> DEFINE g == api
             w == p
  <2>1. Changed(k, f, g) /\ AtWork(f, w)
    BY <1>1
  <2> HIDE DEF g, w
  <2>2. /\ Changed(k, h, g) /\ Given1(f, w, o, h) /\ h.current = f.current
        /\ h.due = f.due
        /\ \A u \in Thread : View(f)[u] = "RUNS" => View(h)[u] = "RUNS"
    BY <1>3, <2>1, GivesOnIs
  <2> QED
    BY <2>2 DEF g, w
<1>5. Settles(h, r)
  BY <1>2, <1>4, SettlesS DEF Changed
<1>6. Stable(k, pc, api) /\ Listed(k, {})
  BY MailRight
<1>7. c \in Thread /\ c # Idle /\ View(h)[c] = "RUNS" /\ h.due[c] = 0 /\ InUser \in PlacesOf(api)
  <2>1. c \in Thread
    BY <1>6, CurrentRuns
  <2>2. c # Idle
    BY <1>6, MailSemsAre DEF Stable, Placed, InUser
  <2> QED
    BY <1>1, <1>4, <2>1, <2>2 DEF PlacesOf
<1> HIDE DEF y
<1>8. Stable(r, [pc EXCEPT ![c] = y], api)
  <2>1. y \in PlacesOf(api)
    BY <1>7 DEF y
  <2> HIDE DEF c
  <2> QED
    BY <1>4, <1>5, <1>6, <1>7, <2>1, GoesElsewhere
<1>9. Stable(r, p, api)
  BY <1>2, <1>8 DEF y, c
<1>10. /\ \A x \in MailSems : Total(r, p, x) = Total(h, p, x)
       /\ AtWork(h, p) => AtWork(r, p)
  <2> DEFINE w == p
  <2>1. Same(h, r)
    BY <1>5 DEF Settles
  <2> HIDE DEF w
  <2>2. /\ \A x \in MailSems : Total(r, w, x) = Total(h, w, x)
        /\ AtWork(h, w) => AtWork(r, w)
    BY <2>1, TotalSame
  <2> QED
    BY <2>2 DEF w
<1> QED
  BY <1>1, <1>4, <1>9, <1>10 DEF Given1

(* The two semaphores of the mailbox.                                       *)
LEMMA MailPair ==
  /\ EmptySem \in MailSems /\ FullSem \in MailSems /\ EmptySem # FullSem
  /\ Job(EmptySem) = "post" /\ Job(FullSem) = "fetch"
BY MailboxAssumption DEF MailSems, Job

(* Who goes on with OK was given a unit.                                    *)
LEMMA GivenToMe ==
  ASSUME IInv, api = "mbx", NEW s \in MailSems, pc[k.current][1] = Job(s),
         k.msg[k.current] = "OK"
  PROVE  Holders(k, pc, s) # {}
<1>1. k.current \in Thread /\ View(k)[k.current] = "RUNS"
  BY MailRight, CurrentRuns
<1>2. k.current \in Holders(k, pc, s)
  BY <1>1 DEF Holders, Given
<1> QED
  BY <1>2

(* A post that had to wait goes on and keeps the invariant.                 *)
LEMMA PostWokenRight ==
  ASSUME IInv, api = "mbx", MbxUntouched, api' = api, PostWoken
  PROVE  IInv'
<1> DEFINE c == k.current
           p == [pc EXCEPT ![c] = InUser]
<1>1. pc[c][1] = "post" /\ pc' = p /\ waiting' = waiting /\ systime' = systime
  BY DEF PostWoken, GoesOn, Returns, me
<1>2. /\ k.msg[c] = "OK" => Stores(pc[c][2], pc[c][3])
                            /\ k' = chSchRescheduleS(GivesOn(Awake, FullSem))
      /\ k.msg[c] # "OK" => k' = Awake /\ UNCHANGED mbxVars
  BY DEF PostWoken, GotSlot, me
<1>3. pc[c] \in PlacesOf("mbx")
  <2>1. Stable(k, pc, api) /\ Listed(k, {})
    BY MailRight
  <2>2. c \in Thread
    BY <2>1, CurrentRuns
  <2> QED
    BY <2>1, <2>2 DEF Stable, Placed
<1>4. pc[c][2] \in BOOLEAN /\ pc[c][3] \in Item
  BY <1>1, <1>3 DEF PlacesOf, InUser
<1>5. pc[k.current][1] = Job(EmptySem) /\ EmptySem \in MailSems /\ FullSem \in MailSems
      /\ EmptySem # FullSem
  BY <1>1, MailPair
<1>6. CASE k.msg[c] = "OK"
  <2> DEFINE r == chSchRescheduleS(GivesOn(Awake, FullSem))
  <2>1. k' = r /\ Stores(pc[c][2], pc[c][3])
    BY <1>2, <1>6
  <2> HIDE DEF p
  <2>2. p = [pc EXCEPT ![k.current] = InUser]
    BY DEF p
  <2>3. /\ Stable(r, p, api) /\ AtWork(r, p)
        /\ Total(r, p, EmptySem) = Total(k, pc, EmptySem) - 1
        /\ Total(r, p, FullSem) = Total(k, pc, FullSem) + 1
    <3> DEFINE s == EmptySem
               o == FullSem
    <3>1. s \in MailSems /\ o \in MailSems /\ s # o /\ pc[k.current][1] = Job(s)
          /\ k.msg[k.current] = "OK" /\ UsedMail(p, r, o)
      BY <1>5, <1>6, <2>2 DEF UsedMail
    <3> HIDE DEF s, o, r
    <3>2. /\ Stable(r, p, api) /\ AtWork(r, p)
          /\ Total(r, p, s) = Total(k, pc, s) - 1
          /\ Total(r, p, o) = Total(k, pc, o) + 1
      BY <3>1, MailUsed
    <3> QED
      BY <3>2 DEF s, o
  <2> HIDE DEF r
  <2>4. Holders(k, pc, EmptySem) # {}
    BY <1>5, <1>6, GivenToMe
  <2>5. Keeps(mb, posted) /\ Len(posted) < Size
    BY <1>5, <2>4, MailRight, MailThere
  <2>6. Keeps(mb', posted') /\ Len(posted') = Len(posted) + 1
    BY <1>4, <2>1, <2>5, StoresIs
  <2> QED
    BY <1>1, <2>1, <2>3, <2>6, MailMoved
<1>7. CASE k.msg[c] # "OK"
  <2> HIDE DEF p
  <2>1. p = [pc EXCEPT ![k.current] = InUser]
    BY DEF p
  <2>2. /\ Stable(Awake, p, api) /\ Changed(k, Awake, api) /\ AtWork(Awake, p)
        /\ Awake.current = k.current
        /\ View(Awake)[k.current] = "RUNS" /\ Awake.due[k.current] = 0
        /\ k.msg[k.current] = "OK" => Total(Awake, p, EmptySem) = Total(k, pc, EmptySem) - 1
        /\ k.msg[k.current] # "OK" => Total(Awake, p, EmptySem) = Total(k, pc, EmptySem)
        /\ \A x \in MailSems \ {EmptySem} : Total(Awake, p, x) = Total(k, pc, x)
    BY <1>5, <2>1, MailAwake
  <2>3. k' = Awake /\ mb' = mb /\ posted' = posted
    BY <1>2, <1>7 DEF mbxVars
  <2>4. Keeps(mb, posted) /\ Mail(k, pc, Size - Len(posted), Len(posted))
    BY MailRight
  <2>5. Mail(Awake, p, Size - Len(posted), Len(posted))
    BY <1>5, <1>7, <2>2, <2>4 DEF Mail
  <2> QED
    BY <1>1, <2>2, <2>3, <2>4, <2>5, MbxRight
<1> QED
  BY <1>6, <1>7

(* A fetch that had to wait goes on and keeps the invariant.                *)
LEMMA FetchWokenRight ==
  ASSUME IInv, api = "mbx", MbxUntouched, api' = api, FetchWoken
  PROVE  IInv'
<1> DEFINE c == k.current
           p == [pc EXCEPT ![c] = InUser]
<1>1. pc[c][1] = "fetch" /\ pc' = p /\ waiting' = waiting /\ systime' = systime
  BY DEF FetchWoken, GoesOn, Returns, me
<1>2. /\ k.msg[c] = "OK" => Fetches /\ k' = chSchRescheduleS(GivesOn(Awake, EmptySem))
      /\ k.msg[c] # "OK" => k' = Awake /\ UNCHANGED mbxVars
  BY DEF FetchWoken, me
<1>3. pc[k.current][1] = Job(FullSem) /\ EmptySem \in MailSems /\ FullSem \in MailSems
      /\ EmptySem # FullSem
  BY <1>1, MailPair
<1>4. Keeps(mb, posted) /\ Mail(k, pc, Size - Len(posted), Len(posted))
      /\ Len(posted) \in Nat /\ Size \in Nat
  BY MailRight
<1>5. CASE k.msg[c] = "OK"
  <2> DEFINE r == chSchRescheduleS(GivesOn(Awake, EmptySem))
             d == -1
  <2>1. k' = r /\ Fetches
    BY <1>2, <1>5
  <2> HIDE DEF p
  <2>2. p = [pc EXCEPT ![k.current] = InUser]
    BY DEF p
  <2>3. /\ Stable(r, p, api) /\ AtWork(r, p)
        /\ Total(r, p, FullSem) = Total(k, pc, FullSem) - 1
        /\ Total(r, p, EmptySem) = Total(k, pc, EmptySem) + 1
    <3> DEFINE s == FullSem
               o == EmptySem
    <3>1. s \in MailSems /\ o \in MailSems /\ s # o /\ pc[k.current][1] = Job(s)
          /\ k.msg[k.current] = "OK" /\ UsedMail(p, r, o)
      BY <1>3, <1>5, <2>2 DEF UsedMail
    <3> HIDE DEF s, o, r
    <3>2. /\ Stable(r, p, api) /\ AtWork(r, p)
          /\ Total(r, p, s) = Total(k, pc, s) - 1
          /\ Total(r, p, o) = Total(k, pc, o) + 1
      BY <3>1, MailUsed
    <3> QED
      BY <3>2 DEF s, o
  <2> HIDE DEF r
  <2>4. Holders(k, pc, FullSem) # {}
    BY <1>3, <1>5, GivenToMe
  <2>5. Keeps(mb, posted) /\ Len(posted) > 0
    BY <1>3, <2>4, MailRight, MailThere
  <2>6. Keeps(mb', posted') /\ Len(posted') = Len(posted) - 1
    BY <2>1, <2>5, FetchesIs
  <2>7. /\ d \in Int /\ Len(posted') = Len(posted) + d
        /\ Total(k', pc', EmptySem) = Total(k, pc, EmptySem) - d
        /\ Total(k', pc', FullSem) = Total(k, pc, FullSem) + d
    BY <1>1, <1>4, <2>1, <2>3, <2>6 DEF Mail
  <2>8. Stable(k', pc', api) /\ AtWork(k', pc')
    BY <1>1, <2>1, <2>3
  <2> HIDE DEF d
  <2> QED
    BY <1>1, <2>6, <2>7, <2>8, MailMoved
<1>6. CASE k.msg[c] # "OK"
  <2> HIDE DEF p
  <2>1. p = [pc EXCEPT ![k.current] = InUser]
    BY DEF p
  <2>2. /\ Stable(Awake, p, api) /\ Changed(k, Awake, api) /\ AtWork(Awake, p)
        /\ Awake.current = k.current
        /\ View(Awake)[k.current] = "RUNS" /\ Awake.due[k.current] = 0
        /\ k.msg[k.current] = "OK" => Total(Awake, p, FullSem) = Total(k, pc, FullSem) - 1
        /\ k.msg[k.current] # "OK" => Total(Awake, p, FullSem) = Total(k, pc, FullSem)
        /\ \A x \in MailSems \ {FullSem} : Total(Awake, p, x) = Total(k, pc, x)
    BY <1>3, <2>1, MailAwake
  <2>3. k' = Awake /\ mb' = mb /\ posted' = posted
    BY <1>2, <1>6 DEF mbxVars
  <2>5. Mail(Awake, p, Size - Len(posted), Len(posted))
    BY <1>3, <1>4, <1>6, <2>2 DEF Mail
  <2> QED
    BY <1>1, <1>4, <2>2, <2>3, <2>5, MbxRight
<1> QED
  BY <1>5, <1>6

(* A reset, when nobody has yet to use what it was given.                  *)
LEMMA MailResetRight ==
  ASSUME IInv, api = "mbx", MbxUntouched, api' = api, ~ResetsAnyTime, chMBReset
  PROVE  IInv'
<1> DEFINE f == chSemResetI(k, EmptySem, Size)
           h == chSemResetI(f, FullSem, 0)
           r == chSchRescheduleS(h)
<1>1. /\ Granted("post") \cup Granted("fetch") = {}
      /\ mb' = Rewound(mb) /\ posted' = <<>> /\ k' = r /\ UNCHANGED <<pc, waiting, systime>>
  BY DEF chMBReset
<1>2. Stable(k, pc, api) /\ Listed(k, {}) /\ Counted(k) /\ k \in KernelState /\ AtWork(k, pc)
      /\ mb \in Ring /\ Size \in Nat
  BY MailRight DEF Mail
<1>3. EmptySem \in MailSems /\ FullSem \in MailSems /\ EmptySem # FullSem
      /\ Job(EmptySem) = "post" /\ Job(FullSem) = "fetch"
      /\ EmptySem \in Sem /\ FullSem \in Sem
  BY MailPair, MailSemsAre
<1>4. \A t \in Thread : View(k)[t] = "RUNS" => k.state[t] \in {"READY", "CURRENT"}
  BY <1>2, KernelIs DEF View, Runs, States
<1>5. Holders(k, pc, EmptySem) = {} /\ Holders(k, pc, FullSem) = {}
  BY <1>1, <1>3, <1>4 DEF Holders, Given, Granted
<1>6. ResetTo(k, f, EmptySem, Size, 0)
  BY <1>2, <1>3, ResetIs
<1>7. Changed(k, k, api)
  BY <1>2, StillPlain
<1>8. h = chSemResetI(f, FullSem, 0)
  OBVIOUS
<1>9. r = chSchRescheduleS(h)
  OBVIOUS
<1> HIDE DEF f
<1>10. Changed(k, f, api)
  BY <1>2, <1>3, <1>6, <1>7, ResetChanges
<1>11. Listed(f, {}) /\ Counted(f)
  BY <1>10 DEF Changed
<1>12. ResetTo(f, h, FullSem, 0, 0)
  BY <1>3, <1>8, <1>11, ResetIs
<1> HIDE DEF h, r
<1>13. Changed(k, h, api)
  <2>1. 0 \in Nat
    OBVIOUS
  <2> QED
    BY <1>3, <1>10, <1>12, <2>1, ResetChanges
<1>14. Settles(h, r)
  BY <1>9, <1>13, SettlesS DEF Changed
<1>15. Stable(r, pc, api)
  BY <1>2, <1>13, <1>14, Stays
<1>16. /\ \A x \in MailSems : Holders(f, pc, x) = Holders(k, pc, x)
       /\ Units(f, EmptySem) = Size
       /\ (\A x \in MailSems \ {EmptySem} : Units(f, x) = Units(k, x))
       /\ AtWork(f, pc)
  BY <1>2, <1>3, <1>6, TotalReset
<1>17. /\ \A x \in MailSems : Holders(h, pc, x) = Holders(f, pc, x)
       /\ Units(h, FullSem) = 0
       /\ (\A x \in MailSems \ {FullSem} : Units(h, x) = Units(f, x))
       /\ AtWork(h, pc)
  <2> DEFINE p == pc
             n == 0
  <2>1. ResetTo(f, h, FullSem, n, 0) /\ AtWork(f, p) /\ n \in Nat
    BY <1>12, <1>16
  <2> HIDE DEF p, n
  <2>2. /\ \A x \in MailSems : Holders(h, p, x) = Holders(f, p, x)
        /\ Units(h, FullSem) = n
        /\ (\A x \in MailSems \ {FullSem} : Units(h, x) = Units(f, x))
        /\ AtWork(h, p)
    BY <1>3, <1>11, <2>1, TotalReset
  <2> QED
    BY <2>2 DEF p, n
<1>18. Cardinality({}) = 0
  BY FS_EmptySet
<1>19. Total(h, pc, EmptySem) = Size /\ Total(h, pc, FullSem) = 0
  BY <1>2, <1>3, <1>5, <1>16, <1>17, <1>18 DEF Total
<1>20. /\ \A x \in MailSems : Total(r, pc, x) = Total(h, pc, x)
       /\ AtWork(h, pc) => AtWork(r, pc)
  <2> DEFINE p == pc
  <2>1. Same(h, r)
    BY <1>14 DEF Settles
  <2> HIDE DEF p
  <2>2. /\ \A x \in MailSems : Total(r, p, x) = Total(h, p, x)
        /\ AtWork(h, p) => AtWork(r, p)
    BY <2>1, TotalSame
  <2> QED
    BY <2>2 DEF p
<1>21. Mail(r, pc, Size - 0, 0)
  BY <1>2, <1>3, <1>17, <1>19, <1>20 DEF Mail
<1>22. Keeps(mb', posted')
  BY <1>1, <1>2, RewoundKeeps
<1>23. Len(posted') = 0
  BY <1>1
<1>24. Mail(k', pc', Size - Len(posted'), Len(posted'))
  BY <1>1, <1>21, <1>23 DEF r
<1>25. Stable(k', pc', api) /\ waiting' = waiting /\ systime' = systime
  BY <1>1, <1>15 DEF r
<1> QED
  BY <1>22, <1>24, <1>25, MbxRight

(* A post or fetch that need not wait moves one unit each way.              *)
LEMMA FastIs ==
  ASSUME IInv, api = "mbx", NEW s \in MailSems, NEW o \in MailSems, k.cnt[s] > 0,
         UNCHANGED <<pc, waiting, systime>>,
         \/ k' = chSchRescheduleS(GivesOn(chSemFastWaitI(k, s), o))
         \/ k' = CH_IRQ_EPILOGUE(GivesOn(chSemFastWaitI(k, s), o))
  PROVE  MailFast(s, o, k')
<1> DEFINE h == GivesOn(chSemFastWaitI(k, s), o)
<1>1. Settles(h, chSchRescheduleS(h)) /\ Settles(h, CH_IRQ_EPILOGUE(h))
  BY FastSettles
<1>2. Settles(h, k')
  BY <1>1
<1> QED
  BY <1>2 DEF MailFast

(* chMBPost, chMBPostAhead and chMBPostI keep the invariant.                *)
LEMMA PostRight ==
  ASSUME IInv, api = "mbx", MbxUntouched, api' = api, NEW ahead \in BOOLEAN, NEW m \in Item,
         (\E n \in Time \cup {Infinite} : chMBPost(ahead, m, n)) \/ chMBPostI(ahead, m)
  PROVE  IInv'
<1>1. EmptySem \in MailSems /\ FullSem \in MailSems /\ Job(EmptySem) = "post"
  BY MailPair
<1>2. CASE chMBPostI(ahead, m)
  <2>1. MailFast(EmptySem, FullSem, k') /\ Stores(ahead, m)
    BY <1>1, <1>2, FastIs DEF chMBPostI
  <2> QED
    BY <2>1, PostsFast
<1>3. ASSUME NEW n \in Time \cup {Infinite}, chMBPost(ahead, m, n)
      PROVE  IInv'
  <2>1. CASE k.cnt[EmptySem] > 0 /\ Stores(ahead, m) /\ UNCHANGED pc
             /\ k' = chSchRescheduleS(GivesOn(chSemFastWaitI(k, EmptySem), FullSem))
    <3>1. MailFast(EmptySem, FullSem, k')
      BY <1>1, <1>3, <2>1, FastIs DEF chMBPost
    <3> QED
      BY <2>1, <3>1, PostsFast
  <2>2. CASE k.cnt[EmptySem] <= 0 /\ k' = chSemSleepS(k, EmptySem, n)
             /\ Sleeps(<<"post", ahead, m>>) /\ UNCHANGED mbxVars
    <3> DEFINE y == <<"post", ahead, m>>
    <3>1. y \in PlacesOf(api) /\ y[1] = Job(EmptySem)
      BY <1>1 DEF PlacesOf
    <3>2. Calls /\ UNCHANGED <<mbxVars, waiting, systime>> /\ Sleeps(y)
      BY <1>3, <2>2 DEF chMBPost
    <3> HIDE DEF y
    <3> QED
      BY <1>1, <2>2, <3>1, <3>2, MailSleeps
  <2> QED
    BY <1>3, <2>1, <2>2 DEF chMBPost
<1> QED
  BY <1>2, <1>3

(* chMBFetch and chMBFetchI keep the invariant.                             *)
LEMMA FetchRight ==
  ASSUME IInv, api = "mbx", MbxUntouched, api' = api,
         (\E n \in Time \cup {Infinite} : chMBFetch(n)) \/ chMBFetchI
  PROVE  IInv'
<1>1. EmptySem \in MailSems /\ FullSem \in MailSems /\ Job(FullSem) = "fetch"
  BY MailPair
<1>2. CASE chMBFetchI
  <2>1. MailFast(FullSem, EmptySem, k') /\ Fetches
    BY <1>1, <1>2, FastIs DEF chMBFetchI
  <2> QED
    BY <2>1, FetchesFast
<1>3. ASSUME NEW n \in Time \cup {Infinite}, chMBFetch(n)
      PROVE  IInv'
  <2>1. CASE k.cnt[FullSem] > 0 /\ Fetches /\ UNCHANGED pc
             /\ k' = chSchRescheduleS(GivesOn(chSemFastWaitI(k, FullSem), EmptySem))
    <3>1. MailFast(FullSem, EmptySem, k')
      BY <1>1, <1>3, <2>1, FastIs DEF chMBFetch
    <3> QED
      BY <2>1, <3>1, FetchesFast
  <2>2. CASE k.cnt[FullSem] <= 0 /\ k' = chSemSleepS(k, FullSem, n)
             /\ Sleeps(<<"fetch">>) /\ UNCHANGED mbxVars
    <3> DEFINE y == <<"fetch">>
    <3>1. y \in PlacesOf(api) /\ y[1] = Job(FullSem)
      BY <1>1 DEF PlacesOf
    <3>2. Calls /\ UNCHANGED <<mbxVars, waiting, systime>> /\ Sleeps(y)
      BY <1>3, <2>2 DEF chMBFetch
    <3> HIDE DEF y
    <3> QED
      BY <1>1, <2>2, <3>1, <3>2, MailSleeps
  <2> QED
    BY <1>3, <2>1, <2>2 DEF chMBFetch
<1> QED
  BY <1>2, <1>3

(* The mailbox's calls keep the invariant.                                 *)
LEMMA MbxCallsRight ==
  ASSUME IInv, api = "mbx", UNCHANGED <<mtxVars, msgVars, evtVars, ioqVars>>, api' = api,
         ~ResetsAnyTime, MbxCalls
  PROVE  IInv'
<1>1. MbxUntouched
  BY DEF MbxUntouched
<1> QED
  BY <1>1, PostRight, FetchRight, MailResetRight, PostWokenRight, FetchWokenRight DEF MbxCalls

(* I/O queues.  The part of the invariant about one queue.                 *)
Amount(q, s) == IF q = "iq" THEN Len(s) ELSE Size - Len(s)
QueueRight(kk, p, q, r, n, s) ==
  /\ Keeps(r, s) /\ n = Amount(q, s)
  /\ kk.q[q] # <<>> => n <= Cardinality(Given(kk, p, q))
Updated(f, g, q, x) == g = [f EXCEPT ![q] = x]
IoqUntouched == UNCHANGED <<mtxVars, msgVars, evtVars, mbxVars>>

(* Finitely many threads are on their way.                                  *)
LEMMA GivenIs ==
  ASSUME NEW kk, NEW p, NEW x
  PROVE  /\ IsFiniteSet(Given(kk, p, x)) /\ Cardinality(Given(kk, p, x)) \in Nat
         /\ Given(kk, p, x) \subseteq Thread
<1>1. Given(kk, p, x) \subseteq Thread
  BY DEF Given
<1>2. IsFiniteSet(Thread)
  BY ThreadsAssumption
<1>3. IsFiniteSet(Given(kk, p, x))
  BY <1>1, <1>2, FS_Subset
<1> QED
  BY <1>1, <1>3, FS_CardinalityType

(* The two queues are objects of their own kind.                            *)
LEMMA QueueObjects ==
  /\ \A q \in Queue : q \in Object /\ q \notin Sem /\ q \notin Mutex /\ q \notin CondVar
                      /\ Kind(q) = "WTQUEUE" /\ ObjectsOf(q) = {q}
  /\ \A q \in Queue : q \notin {"threads", "sem", "mtx", "msg", "evt", "mbx"}
<1>1. Queue \subseteq Object \ (Sem \cup Mutex \cup CondVar)
  BY KernelAssumption
<1> QED
  BY <1>1 DEF Queue, Kind, ObjectsOf

(* What the invariant says of the queue that is used.                       *)
LEMMA QueueIs ==
  ASSUME IInv, api \in Queue
  PROVE  /\ Stable(k, pc, api) /\ Listed(k, {}) /\ Counted(k) /\ k \in KernelState
         /\ TimersAre(k.vt, k.due) /\ Size \in Nat
         /\ io \in [Queue -> Ring] /\ q_counter \in [Queue -> 0..Size]
         /\ held \in [Queue -> Seq(Item)]
         /\ QueueRight(k, pc, api, io[api], q_counter[api], held[api])
         /\ held[api] \in Seq(Item) /\ Len(held[api]) \in 0..Size
<1>1. IoqOK(k, pc, io, q_counter, held)
  BY DEF IInv
<1>2. QueueRight(k, pc, api, io[api], q_counter[api], held[api])
  BY <1>1 DEF IoqOK, QueueRight, Amount
<1>3. Stable(k, pc, api) /\ Listed(k, {}) /\ Counted(k) /\ k \in KernelState
      /\ TimersAre(k.vt, k.due)
  BY DEF IInv, Stable, KernelRight, TimersRight, Listed
<1>4. held[api] \in Seq(Item) /\ Len(held[api]) \in 0..Size
  BY <1>2, SizeAssumption DEF QueueRight, Keeps
<1> QED
  BY <1>1, <1>2, <1>3, <1>4, SizeAssumption DEF IoqOK

(* The counter of a queue fits.                                             *)
LEMMA AmountIs ==
  ASSUME NEW q \in Queue, NEW s, Len(s) \in 0..Size
  PROVE  Amount(q, s) \in 0..Size
BY SizeAssumption DEF Amount

(* What keeps the lists and one queue keeps the invariant.                  *)
LEMMA IoqRight ==
  ASSUME IInv, api \in Queue, IoqUntouched, api' = api, systime' = systime,
         waiting' = waiting, Stable(k', pc', api),
         NEW r, NEW n, NEW s, QueueRight(k', pc', api, r, n, s),
         Updated(io, io', api, r), Updated(q_counter, q_counter', api, n),
         Updated(held, held', api, s)
  PROVE  IInv'
<1> DEFINE q == api
<1>1. KernelRight(k') /\ Placed(k', pc', q)
  BY DEF Stable
<1>2. Untouched(api)'
  BY DEF IInv, Untouched, IoqUntouched, mtxVars, evtVars, msgVars, mbxVars,
         MtxInit, EvtInit, MsgInit, chMBInit
<1>3. systime' \in 0..1 /\ q \notin {"threads", "sem", "mtx", "msg", "evt", "mbx"} /\ q \in Queue
      /\ ObjectsOf(q) = {q} /\ Queue \subseteq Object
  BY QueueObjects DEF IInv
<1>4. IoqOK(k, pc, io, q_counter, held) /\ Placed(k, pc, q)
  BY DEF IInv
<1>5. Keeps(r, s) /\ n = Amount(q, s) /\ s \in Seq(Item) /\ Len(s) \in 0..Size /\ r \in Ring
  BY SizeAssumption DEF QueueRight, Keeps
<1>6. n \in 0..Size
  BY <1>3, <1>5, AmountIs
<1> DEFINE kn == k'
           pn == pc'
           in == io'
           qn == q_counter'
           hn == held'
<1>7. KernelRight(kn) /\ Placed(kn, pn, q) /\ QueueRight(kn, pn, q, r, n, s)
      /\ Updated(io, in, q, r) /\ Updated(q_counter, qn, q, n) /\ Updated(held, hn, q, s)
  BY <1>1
<1> HIDE DEF kn, pn, in, qn, hn, q
<1>8. /\ in \in [Queue -> Ring] /\ qn \in [Queue -> 0..Size] /\ hn \in [Queue -> Seq(Item)]
      /\ in[q] = r /\ qn[q] = n /\ hn[q] = s
      /\ \A x \in Queue \ {q} : in[x] = io[x] /\ qn[x] = q_counter[x] /\ hn[x] = held[x]
  BY <1>3, <1>4, <1>5, <1>6, <1>7 DEF Updated, IoqOK
<1>9. \A x \in Queue \ {q} : kn.q[x] = <<>>
  BY <1>3, <1>7 DEF Placed
<1>10. ASSUME NEW x \in Queue
       PROVE  /\ Keeps(in[x], hn[x])
              /\ qn[x] = IF x = "iq" THEN Len(hn[x]) ELSE Size - Len(hn[x])
              /\ kn.q[x] # <<>> => qn[x] <= Cardinality(Given(kn, pn, x))
  <2>1. CASE x = q
    BY <1>7, <1>8, <2>1 DEF QueueRight, Amount
  <2>2. CASE x # q
    BY <1>4, <1>8, <1>9, <2>2 DEF IoqOK
  <2> QED
    BY <2>1, <2>2
<1>11. IoqOK(kn, pn, in, qn, hn)
  BY <1>8, <1>10 DEF IoqOK
<1>12. IoqOK(k', pc', io', q_counter', held')
  BY <1>11 DEF kn, pn, in, qn, hn
<1>13. api \notin {"threads", "sem", "mtx", "msg", "evt", "mbx"}
  BY <1>3 DEF q
<1>14. KernelRight(k') /\ Placed(k', pc', api)
  BY <1>1 DEF q
<1> QED
  BY <1>2, <1>3, <1>12, <1>13, <1>14, StepRight

(* A step that leaves the queues alone.                                     *)
LEMMA IoqSame ==
  ASSUME IInv, api \in Queue, UNCHANGED ioqVars
  PROVE  /\ Updated(io, io', api, io[api]) /\ Updated(q_counter, q_counter', api, q_counter[api])
         /\ Updated(held, held', api, held[api])
BY QueueIs DEF Updated, ioqVars

QueueOnward(q) == {<<"more", q, n, x>> : n \in 1..MaxBytes + 1, x \in Limits}
QueueWaits(q) == {<<q, n, x>> : n \in 1..MaxBytes + 1, x \in Limits}

(* The places of a thread that uses a queue.                                *)
LEMMA QueuePlaces ==
  ASSUME NEW q \in Queue
  PROVE  /\ PlacesOf(q) = {InUser} \cup QueueOnward(q) \cup QueueWaits(q)
         /\ \A x \in QueueOnward(q) : x[1] = "more" /\ x # InUser
         /\ \A x \in QueueWaits(q) : x[1] = q /\ x # InUser
         /\ InUser[1] = "user" /\ q \notin {"user", "more"}
<1>1. q \in {"iq", "oq"}
  BY DEF Queue
<1>2. PlacesOf(q) = {InUser} \cup QueueOnward(q) \cup QueueWaits(q)
  BY <1>1 DEF PlacesOf, QueueOnward, QueueWaits
<1>3. \A x \in QueueOnward(q) : x[1] = "more"
  BY DEF QueueOnward
<1>4. \A x \in QueueWaits(q) : x[1] = q
  BY DEF QueueWaits
<1> QED
  BY <1>1, <1>2, <1>3, <1>4 DEF InUser

(* What the running thread does alone: nobody else is told.                *)
Alone(kk, h, p, o, x) ==
  /\ View(h) = View(kk) /\ h.q = kk.q
  /\ \A t \in Thread \ {kk.current} : h.msg[t] = kk.msg[t]
  /\ GoesTo(p, o, kk.current, x)

(* A thread that goes to another place is not on its way any more.          *)
LEMMA GivenAlone ==
  ASSUME NEW kk, NEW h, NEW p, NEW o, NEW x, Alone(kk, h, p, o, x), NEW q, x[1] # q
  PROVE  Given(h, o, q) = Given(kk, p, q) \ {kk.current}
BY DEF Alone, Given, GoesTo

(* Without one of them there is at most one less.                           *)
LEMMA FewerGiven ==
  ASSUME NEW T, IsFiniteSet(T), NEW c
  PROVE  /\ Cardinality(T \ {c}) \in Nat /\ Cardinality(T \ {c}) >= Cardinality(T) - 1
         /\ c \notin T => Cardinality(T \ {c}) = Cardinality(T)
<1>1. Cardinality(T) \in Nat
  BY FS_CardinalityType
<1>2. CASE c \in T
  <2>1. Cardinality(T \ {c}) = Cardinality(T) - 1 /\ IsFiniteSet(T \ {c})
    BY <1>2, FS_RemoveElement
  <2>2. Cardinality(T \ {c}) \in Nat
    BY <2>1, FS_CardinalityType
  <2> QED
    BY <1>1, <1>2, <2>1, <2>2
<1>3. CASE c \notin T
  <2>1. T \ {c} = T
    BY <1>3
  <2> QED
    BY <1>1, <2>1
<1> QED
  BY <1>2, <1>3

(* A step of a thread that does not sleep keeps the invariant, if the       *)
(* counter falls by as many as are on their way less.                       *)
LEMMA QueueGoesOn ==
  ASSUME IInv, api \in Queue, IoqUntouched, api' = api, systime' = systime,
         waiting' = waiting, NEW h, Changed(k, h, api), Settles(h, h),
         NEW x \in PlacesOf(api), x[1] # api, Alone(k, h, pc, pc', x),
         k' = h, pc' = [pc EXCEPT ![k.current] = x], k.current # Idle, h.due[k.current] = 0,
         NEW r, NEW n, NEW s, Keeps(r, s), n = Amount(api, s),
         n = 0 \/ n = q_counter[api] - 1 \/ (n = q_counter[api] /\ k.current \notin Given(k, pc, api)),
         Updated(io, io', api, r), Updated(q_counter, q_counter', api, n),
         Updated(held, held', api, s)
  PROVE  IInv'
<1> DEFINE c == k.current
           T == Given(k, pc, api)
           q == api
<1>1. Stable(k, pc, api) /\ Listed(k, {}) /\ q_counter[q] \in 0..Size /\ Size \in Nat
      /\ QueueRight(k, pc, q, io[q], q_counter[q], held[q])
  BY QueueIs
<1>2. c \in Thread /\ View(k)[c] = "RUNS"
  BY <1>1, CurrentRuns
<1>3. Given(h, pc', q) = T \ {c}
  <2> DEFINE o == pc'
  <2>1. Alone(k, h, pc, o, x)
    OBVIOUS
  <2> HIDE DEF o, q, T
  <2>2. x[1] # q /\ T = Given(k, pc, q)
    BY DEF q, T
  <2>3. Given(h, o, q) = Given(k, pc, q) \ {k.current}
    BY <2>1, <2>2, GivenAlone
  <2> QED
    BY <2>2, <2>3 DEF o
<1>4. IsFiniteSet(T) /\ Cardinality(T) \in Nat
  BY GivenIs
<1> HIDE DEF T
<1>5. /\ Cardinality(T \ {c}) \in Nat /\ Cardinality(T \ {c}) >= Cardinality(T) - 1
      /\ c \notin T => Cardinality(T \ {c}) = Cardinality(T)
  BY <1>4, FewerGiven
<1>6. k.q[q] # <<>> => q_counter[q] <= Cardinality(T)
  BY <1>1 DEF QueueRight, T
<1>7. n = 0 \/ n = q_counter[q] - 1 \/ (n = q_counter[q] /\ c \notin T)
  BY DEF T
<1>8. h.q[q] # <<>> => n <= Cardinality(Given(h, pc', q))
  <2> SUFFICES ASSUME h.q[q] # <<>>
               PROVE  n <= Cardinality(Given(h, pc', q))
    OBVIOUS
  <2> DEFINE a == Cardinality(T)
             z == Cardinality(T \ {c})
             w == q_counter[q]
  <2>1. w <= a
    BY <1>6 DEF Alone
  <2>2. z \in Nat /\ a \in Nat /\ w \in Nat /\ z >= a - 1 /\ (c \notin T => z = a)
    BY <1>1, <1>4, <1>5
  <2>3. Cardinality(Given(h, pc', q)) = z
    BY <1>3
  <2>4. n = 0 \/ n = w - 1 \/ (n = w /\ c \notin T)
    BY <1>7
  <2> HIDE DEF a, z, w, q, c
  <2>5. n <= z
    BY <2>1, <2>2, <2>4
  <2> QED
    BY <2>3, <2>5
<1>9. QueueRight(k', pc', q, r, n, s)
  BY <1>8 DEF QueueRight
<1>10. Stable(h, [pc EXCEPT ![c] = x], q)
  <2>1. View(h)[c] = "RUNS"
    BY <1>2 DEF Alone
  <2>2. c # Idle /\ h.due[c] = 0
    OBVIOUS
  <2> HIDE DEF c
  <2> QED
    BY <1>1, <1>2, <2>1, <2>2, GoesElsewhere
<1>11. Stable(k', pc', q)
  BY <1>10
<1> QED
  BY <1>9, <1>11, IoqRight

(* The running thread has to wait.                                         *)
LastOf(kk, s) == [kk EXCEPT !.q[s] = Append(@, kk.current)]
QueueSlept(kk, r, q) ==
  \E e : /\ Sleep(kk, e, r, "WTQUEUE") /\ Counted(e) /\ e.realprio = kk.realprio
         /\ e.due = kk.due /\ e.msg = kk.msg
         /\ \A o \in Object : e.q[o] = IF o = q THEN Append(kk.q[q], kk.current) ELSE kk.q[o]

(* A thread that waits for a queue is the last of its waiting threads.      *)
LEMMA QueueSleepIs ==
  ASSUME NEW kk, Listed(kk, {}), kk.current # Idle, TimersAre(kk.vt, kk.due),
         kk.due[kk.current] = 0, Counted(kk), NEW s \in Queue,
         NEW n \in Time \cup {Infinite},
         NEW r, r = chSchGoSleepTimeoutS(LastOf(kk, s), "WTQUEUE", n)
  PROVE  QueueSlept(kk, r, s)
<1> DEFINE y == Append(kk.q[s], kk.current)
           w == [kk.q EXCEPT ![s] = y]
           e == LastOf(kk, s)
<1>1. kk \in KernelState /\ s \in Object /\ s \notin Sem /\ s \notin Mutex /\ Kind(s) = "WTQUEUE"
      /\ kk.q \in [Object -> Seq(Thread)] /\ kk.q[s] \in Seq(Thread) /\ kk.current \in Thread
  BY KernelIs, QueueObjects DEF Listed
<1>2. e = [kk EXCEPT !.q = w]
  BY <1>1 DEF KernelState, LastOf
<1>3. kk.current \notin Members(kk.q[s]) /\ Once(kk.q[s])
  BY <1>1 DEF Listed, QueuesRight, ReadyRight, Kind
<1>4. y \in Seq(Thread) /\ Members(y) = Members(kk.q[s]) \cup {kk.current} /\ Once(y)
      /\ Len(y) = Len(kk.q[s]) + 1
  <2> DEFINE a == kk.q[s]
             c == kk.current
  <2>1. a \in Seq(Thread) /\ c \in Thread /\ y = Append(a, c) /\ Once(a) /\ c \notin Members(a)
    BY <1>1, <1>3
  <2> HIDE DEF a, c, y
  <2>2. y \in Seq(Thread) /\ Members(y) = Members(a) \cup {c}
        /\ (Once(a) /\ c \notin Members(a) => Once(y)) /\ Len(y) = Len(a) + 1
    BY <2>1, AppendIs
  <2> QED
    BY <2>1, <2>2 DEF a, c
<1>5. w \in [Object -> Seq(Thread)] /\ (\A o \in Object : w[o] = IF o = s THEN y ELSE kk.q[o])
      /\ w = [kk.q EXCEPT ![s] = y]
  BY <1>1, <1>4
<1>6. r = chSchGoSleepTimeoutS(e, "WTQUEUE", n)
  OBVIOUS
<1> HIDE DEF w, e, y
<1>7. /\ e \in KernelState /\ SameThreads(kk, e) /\ e.q = w /\ e.cnt = kk.cnt /\ e.msg = kk.msg
      /\ e.realprio = kk.realprio /\ e.vt = kk.vt /\ e.due = kk.due
  BY <1>1, <1>2, <1>5 DEF KernelState, SameThreads
<1>8. Sleep(kk, e, chSchGoSleepTimeoutS(e, Kind(s), n), Kind(s))
  <2>1. e.q = [kk.q EXCEPT ![s] = y]
    BY <1>5, <1>7
  <2>2. s \in Mutex => Ranked(kk.prio, y)
    BY <1>1
  <2>3. e \in KernelState /\ SameThreads(kk, e) /\ e.vt = kk.vt /\ e.due = kk.due
    BY <1>7
  <2>4. Once(y) /\ Members(y) = Members(kk.q[s]) \cup {kk.current}
    BY <1>4
  <2> QED
    BY <1>1, <2>1, <2>2, <2>3, <2>4, SleepQueued
<1>9. Sleep(kk, e, r, "WTQUEUE")
  BY <1>1, <1>6, <1>8
<1>10. Counted(e)
  <2> SUFFICES ASSUME NEW x \in Sem
               PROVE  Len(e.q[x]) = IF e.cnt[x] < 0 THEN -e.cnt[x] ELSE 0
    BY DEF Counted
  <2>1. x \in Object /\ Len(kk.q[x]) = IF kk.cnt[x] < 0 THEN -kk.cnt[x] ELSE 0
    BY ThreadAssumption DEF Counted
  <2> QED
    BY <1>1, <1>5, <1>7, <2>1
<1>11. \A o \in Object : e.q[o] = IF o = s THEN Append(kk.q[s], kk.current) ELSE kk.q[o]
  BY <1>5, <1>7 DEF y
<1> QED
  BY <1>7, <1>9, <1>10, <1>11 DEF QueueSlept

(* One byte goes in or out, and the counter with it.                       *)
ByteMoved(q, d) ==
  \E r, s : /\ Keeps(r, s) /\ Amount(q, s) = q_counter[q] + d
            /\ Updated(io, io', q, r) /\ Updated(held, held', q, s)
            /\ Updated(q_counter, q_counter', q, Amount(q, s))

(* The ring and the counter move together.                                  *)
LEMMA ByteIsMoved ==
  ASSUME NEW q, NEW d, NEW f, NEW g, Keeps(f, g), Amount(q, g) = q_counter[q] + d,
         Updated(io, io', q, f), Updated(held, held', q, g),
         q_counter' = [q_counter EXCEPT ![q] = q_counter[q] + d]
  PROVE  ByteMoved(q, d)
<1>1. Updated(q_counter, q_counter', q, Amount(q, g))
  BY DEF Updated
<1> QED
  BY <1>1 DEF ByteMoved

(* A byte that is taken leaves the ring at its head.                        *)
LEMMA ByteTaken ==
  ASSUME IInv, api \in Queue, NEW d, d = IF api = "iq" THEN -1 ELSE 1,
         held[api] # <<>>, TakeByte(api),
         q_counter' = [q_counter EXCEPT ![api] = q_counter[api] + d]
  PROVE  ByteMoved(api, d)
<1> DEFINE q == api
           f == Take(io[q])
           g == Tail(held[q])
<1>1. Keeps(io[q], held[q]) /\ q_counter[q] = Amount(q, held[q]) /\ q \in Queue
      /\ held[q] \in Seq(Item) /\ Size \in Nat /\ Len(held[q]) \in 0..Size /\ held[q] # <<>>
  BY QueueIs DEF QueueRight
<1>2. Keeps(f, g)
  <2> DEFINE a == io[q]
             z == held[q]
  <2>1. Keeps(a, z) /\ z # <<>>
    BY <1>1
  <2> HIDE DEF a, z, q
  <2>2. Keeps(Take(a), Tail(z)) /\ a.buf[a.rd] = Head(z)
    BY <2>1, TakeKeeps
  <2> QED
    BY <2>2 DEF a, z
<1>3. Len(g) = Len(held[q]) - 1
  BY <1>1
<1>4. Updated(io, io', q, f) /\ Updated(held, held', q, g)
  BY <1>1, QueueIs DEF TakeByte, Updated
<1>5. Amount(q, g) = q_counter[q] + d
  BY <1>1, <1>3 DEF Amount
<1> HIDE DEF f, g
<1> QED
  BY <1>2, <1>4, <1>5, ByteIsMoved

(* A byte that is put is the last one of the ring.                          *)
LEMMA BytePut ==
  ASSUME IInv, api \in Queue, NEW d, d = IF api = "iq" THEN 1 ELSE -1,
         Len(held[api]) < Size, NEW b \in Item, PutByte(api, b),
         q_counter' = [q_counter EXCEPT ![api] = q_counter[api] + d]
  PROVE  ByteMoved(api, d)
<1> DEFINE q == api
           f == Put(io[q], b)
           g == Append(held[q], b)
<1>1. Keeps(io[q], held[q]) /\ q_counter[q] = Amount(q, held[q]) /\ q \in Queue
      /\ held[q] \in Seq(Item) /\ Size \in Nat /\ Len(held[q]) \in 0..Size
  BY QueueIs DEF QueueRight
<1>2. Keeps(f, g)
  <2> DEFINE a == io[q]
             z == held[q]
  <2>1. Keeps(a, z) /\ Len(z) < Size
    BY <1>1
  <2> HIDE DEF a, z, q
  <2>2. Keeps(Put(a, b), Append(z, b))
    BY <2>1, PutKeeps
  <2> QED
    BY <2>2 DEF a, z
<1>3. Len(g) = Len(held[q]) + 1
  BY <1>1
<1>4. Updated(io, io', q, f) /\ Updated(held, held', q, g)
  BY <1>1, QueueIs DEF PutByte, Updated
<1>5. Amount(q, g) = q_counter[q] + d
  BY <1>1, <1>3 DEF Amount
<1> HIDE DEF f, g
<1> QED
  BY <1>2, <1>4, <1>5, ByteIsMoved

(* The state in which the running thread goes on, k or Awake.              *)
GoesOnIn(h) ==
  /\ Changed(k, h, api) /\ Settles(h, h) /\ h.due[k.current] = 0
  /\ View(h) = View(k) /\ h.current = k.current /\ h.q = k.q
  /\ \A t \in Thread \ {k.current} : h.msg[t] = k.msg[t]

(* A byte moved, and then the next one or the end of the call.             *)
ByteOn(h, x) ==
  q_counter[api] > 0 /\ ByteMoved(api, -1) /\ k' = h
  /\ x \in {InUser} \cup QueueOnward(api) /\ pc' = [pc EXCEPT ![k.current] = x]

(* A thread that moved its byte goes on and keeps the invariant.            *)
LEMMA ByteOnRight ==
  ASSUME IInv, api \in Queue, IoqUntouched, api' = api, systime' = systime,
         waiting' = waiting, k.current # Idle, NEW h, GoesOnIn(h), NEW x, ByteOn(h, x)
  PROVE  IInv'
<1> DEFINE c == k.current
           o == [pc EXCEPT ![c] = x]
<1>1. Stable(k, pc, api) /\ Listed(k, {})
  BY QueueIs
<1>2. c \in Thread
  BY <1>1, CurrentRuns
<1>3. x \in PlacesOf(api) /\ x[1] # api
  BY QueuePlaces DEF ByteOn
<1>4. k' = h /\ pc' = o
  BY DEF ByteOn
<1>5. pc \in [Thread -> PlacesOf(api)]
  BY <1>1 DEF Stable, Placed
<1>6. GoesTo(pc, pc', k.current, x)
  BY <1>2, <1>4, <1>5 DEF GoesTo
<1>7. Alone(k, h, pc, pc', x)
  BY <1>6 DEF Alone, GoesOnIn
<1>8. PICK r, s : /\ Keeps(r, s) /\ Amount(api, s) = q_counter[api] + -1
                  /\ Updated(io, io', api, r) /\ Updated(held, held', api, s)
                  /\ Updated(q_counter, q_counter', api, Amount(api, s))
  BY DEF ByteOn, ByteMoved
<1> DEFINE n == Amount(api, s)
<1>9. n = q_counter[api] - 1
  BY <1>8, QueueIs
<1>10. n = Amount(api, s)
  OBVIOUS
<1> HIDE DEF n
<1>11. Changed(k, h, api) /\ Settles(h, h) /\ h.due[k.current] = 0
  BY DEF GoesOnIn
<1>12. pc' = [pc EXCEPT ![k.current] = x]
  BY <1>4
<1> HIDE DEF o, c
<1> QED
  BY <1>3, <1>4, <1>7, <1>8, <1>9, <1>10, <1>11, <1>12, QueueGoesOn

(* It returns with what it has.                                            *)
LEMMA QueueReturnRight ==
  ASSUME IInv, api \in Queue, IoqUntouched, api' = api, systime' = systime,
         waiting' = waiting, k.current # Idle, NEW h, GoesOnIn(h), UNCHANGED ioqVars,
         k' = h, Returns, q_counter[api] <= 0 \/ k.msg[k.current] # "OK"
  PROVE  IInv'
<1> DEFINE c == k.current
           x == InUser
           r == io[api]
           n == q_counter[api]
           s == held[api]
<1>1. Stable(k, pc, api) /\ Listed(k, {})
  BY QueueIs
<1>2. c \in Thread
  BY <1>1, CurrentRuns
<1>3. x \in PlacesOf(api) /\ x[1] # api
  BY QueuePlaces
<1>4. pc' = [pc EXCEPT ![k.current] = x]
  BY DEF Returns, me
<1>5. pc \in [Thread -> PlacesOf(api)]
  BY <1>1 DEF Stable, Placed
<1>6. GoesTo(pc, pc', k.current, x)
  BY <1>2, <1>4, <1>5 DEF GoesTo
<1>7. Alone(k, h, pc, pc', x)
  BY <1>6 DEF Alone, GoesOnIn
<1>8. Keeps(r, s) /\ n = Amount(api, s) /\ n \in 0..Size /\ Size \in Nat
  BY QueueIs DEF QueueRight
<1>9. Updated(io, io', api, r) /\ Updated(q_counter, q_counter', api, n)
      /\ Updated(held, held', api, s)
  BY IoqSame
<1>10. n = 0 \/ (n = q_counter[api] /\ k.current \notin Given(k, pc, api))
  BY <1>8 DEF Given
<1>11. Changed(k, h, api) /\ Settles(h, h) /\ h.due[k.current] = 0
  BY DEF GoesOnIn
<1> HIDE DEF x, c, r, n, s
<1> QED
  BY <1>3, <1>4, <1>7, <1>8, <1>9, <1>10, <1>11, QueueGoesOn

(* A thread that finds nothing to do sleeps and keeps the invariant.        *)
LEMMA QueueSleepRight ==
  ASSUME IInv, api \in Queue, IoqUntouched, api' = api, systime' = systime,
         waiting' = waiting, k.current # Idle, NEW h, GoesOnIn(h), UNCHANGED ioqVars,
         NEW n \in 1..MaxBytes + 1, NEW time \in Time \cup {Infinite},
         k' = qwait(h, api, time), Sleeps(<<api, n, time>>), q_counter[api] <= 0
  PROVE  IInv'
<1> DEFINE c == k.current
           x == <<api, n, time>>
           r == qwait(h, api, time)
           o == [pc EXCEPT ![c] = x]
<1>1. Stable(k, pc, api) /\ Listed(k, {})
      /\ QueueRight(k, pc, api, io[api], q_counter[api], held[api]) /\ q_counter[api] \in 0..Size
      /\ Size \in Nat
  BY QueueIs
<1>2. c \in Thread
  BY <1>1, CurrentRuns
<1>3. x \in PlacesOf(api) /\ x[1] \notin {"user", "more"}
  <2>1. x \in QueueWaits(api)
    BY DEF QueueWaits, Limits
  <2> QED
    BY <2>1, QueuePlaces
<1>4. Changed(k, h, api) /\ h.current = k.current /\ h.due[h.current] = 0 /\ h.q = k.q
  BY DEF GoesOnIn
<1>5. r = chSchGoSleepTimeoutS(LastOf(h, api), "WTQUEUE", time)
  BY <1>4 DEF qwait, LastOf, me
<1>6. k' = r /\ pc' = o
  BY DEF Sleeps, me
<1> HIDE DEF r, x
<1>7. Listed(h, {}) /\ TimersAre(h.vt, h.due) /\ Counted(h)
  BY <1>4 DEF Changed
<1>8. QueueSlept(h, r, api)
  <2> DEFINE g == api
  <2>1. g \in Queue /\ r = chSchGoSleepTimeoutS(LastOf(h, g), "WTQUEUE", time)
    BY <1>5
  <2>2. h.current # Idle
    BY <1>4
  <2> HIDE DEF g
  <2>3. QueueSlept(h, r, g)
    BY <1>4, <1>7, <2>1, <2>2, QueueSleepIs
  <2> QED
    BY <2>3 DEF g
<1>9. PICK e : /\ Sleep(h, e, r, "WTQUEUE") /\ Counted(e) /\ e.realprio = h.realprio
               /\ e.due = h.due /\ e.msg = h.msg
               /\ \A y \in Object : e.q[y] = IF y = api THEN Append(h.q[api], h.current) ELSE h.q[y]
  BY <1>8 DEF QueueSlept
<1>10. \A y \in Object : y \in ObjectsOf(api) \/ e.q[y] = <<>>
  BY <1>4, <1>9, QueueObjects DEF Changed
<1>11. "WTQUEUE" \in ViewsOf(api) \ Absent /\ "WTQUEUE" \in Timed /\ api # "msg"
  BY QueueObjects DEF ViewsOf, Absent, Timed
<1>12. Stable(r, [pc EXCEPT ![k.current] = x], api)
  BY <1>1, <1>3, <1>4, <1>9, <1>10, <1>11, SleptAfter
<1>13. Stable(r, o, api)
  BY <1>12 DEF c
<1>14. QueueRight(r, o, api, io[api], q_counter[api], held[api])
  <2>1. Cardinality(Given(r, o, api)) \in Nat
    BY GivenIs
  <2>2. q_counter[api] <= Cardinality(Given(r, o, api))
    BY <1>1, <2>1
  <2> QED
    BY <1>1, <2>2 DEF QueueRight
<1>15. Updated(io, io', api, io[api]) /\ Updated(q_counter, q_counter', api, q_counter[api])
       /\ Updated(held, held', api, held[api])
  BY IoqSame
<1> DEFINE a == io[api]
           b == q_counter[api]
           d == held[api]
<1>16. QueueRight(k', pc', api, a, b, d) /\ Stable(k', pc', api)
       /\ Updated(io, io', api, a) /\ Updated(q_counter, q_counter', api, b)
       /\ Updated(held, held', api, d)
  BY <1>6, <1>13, <1>14, <1>15
<1> HIDE DEF a, b, d, c, o
<1> QED
  BY <1>16, IoqRight

(* There is a byte to take, or room for one, when the counter says so.     *)
LEMMA BytesThere ==
  ASSUME IInv, api \in Queue
  PROVE  /\ q_counter[api] > 0 /\ api = "iq" => held[api] # <<>>
         /\ q_counter[api] > 0 /\ api = "oq" => Len(held[api]) < Size
         /\ ~NoMore(api) /\ api = "iq" => Len(held[api]) < Size
         /\ ~NoMore(api) /\ api = "oq" => held[api] # <<>>
<1> DEFINE s == held[api]
           r == io[api]
           n == q_counter[api]
<1>1. Keeps(r, s) /\ n = Amount(api, s) /\ s \in Seq(Item) /\ Len(s) \in 0..Size
      /\ Size \in Nat /\ Size > 0
  BY QueueIs, SizeAssumption DEF QueueRight
<1>2. r.wr = Slot(r.rd, Len(s)) /\ r.rd \in 0..Size - 1
  BY <1>1 DEF Keeps, Ring
<1>3. NoMore(api) <=> r.wr = r.rd /\ n # 0
  BY DEF NoMore
<1> HIDE DEF s, r, n
<1>4. api = "iq" => n = Len(s)
  BY <1>1 DEF Amount
<1>5. api = "oq" => n = Size - Len(s)
  BY <1>1 DEF Amount
<1>6. Len(s) = Size \/ Len(s) = 0 => r.wr = r.rd
  BY <1>1, <1>2 DEF Slot
<1>7. s = <<>> <=> Len(s) = 0
  BY <1>1
<1>8. /\ n > 0 /\ api = "iq" => s # <<>>
      /\ n > 0 /\ api = "oq" => Len(s) < Size
      /\ ~NoMore(api) /\ api = "iq" => Len(s) < Size
      /\ ~NoMore(api) /\ api = "oq" => s # <<>>
  BY <1>1, <1>3, <1>4, <1>5, <1>6, <1>7
<1> QED
  BY <1>8 DEF s, n

(* A thread's next byte keeps the invariant, whether it waits or not.       *)
LEMMA BytesRight ==
  ASSUME IInv, api \in Queue, IoqUntouched, api' = api, systime' = systime,
         waiting' = waiting, k.current # Idle, NEW h, GoesOnIn(h),
         NEW n \in 1..MaxBytes + 1, NEW time \in Limits, Bytes(api, h, n, time)
  PROVE  IInv'
<1> DEFINE M == IF api = "iq" THEN TakeByte(api) ELSE \E b \in Item : PutByte(api, b)
           x == IF n = 1 THEN InUser ELSE <<"more", api, n - 1, time>>
<1>1. \/ /\ q_counter[api] > 0 /\ M
         /\ q_counter' = [q_counter EXCEPT ![api] = q_counter[api] - 1]
         /\ k' = h /\ pc' = [pc EXCEPT ![me] = x]
      \/ /\ q_counter[api] <= 0
         /\ IF time = Immediate
              THEN k' = h /\ Returns
              ELSE k' = qwait(h, api, time) /\ Sleeps(<<api, n, time>>)
         /\ UNCHANGED ioqVars
  BY DEF Bytes, IQBytes, OQBytes, Moves, Queue
<1>2. MaxBytes \in Nat
  BY KernelAssumption
<1>3. CASE /\ q_counter[api] > 0 /\ M
           /\ q_counter' = [q_counter EXCEPT ![api] = q_counter[api] - 1]
           /\ k' = h /\ pc' = [pc EXCEPT ![me] = x]
  <2> DEFINE d == -1
  <2>1. q_counter' = [q_counter EXCEPT ![api] = q_counter[api] + d]
    <3>1. q_counter[api] - 1 = q_counter[api] + d
      BY QueueIs
    <3> QED
      BY <1>3, <3>1
  <2>2. d = IF api = "iq" THEN -1 ELSE IF api = "oq" THEN -1 ELSE 1
    BY DEF Queue
  <2>3. CASE api = "iq"
    <3>1. d = (IF api = "iq" THEN -1 ELSE 1) /\ TakeByte(api) /\ held[api] # <<>>
      BY <1>3, <2>3, BytesThere
    <3> HIDE DEF d
    <3>2. ByteMoved(api, d)
      BY <2>1, <3>1, ByteTaken
    <3>3. x \in {InUser} \cup QueueOnward(api)
      BY <1>2 DEF QueueOnward
    <3>4. ByteOn(h, x)
      BY <1>3, <3>2, <3>3 DEF ByteOn, d, me
    <3> HIDE DEF x
    <3> QED
      BY <3>4, ByteOnRight
  <2>4. CASE api = "oq"
    <3>1. d = (IF api = "iq" THEN 1 ELSE -1) /\ Len(held[api]) < Size
      BY <1>3, <2>4, BytesThere
    <3>5. PICK b \in Item : PutByte(api, b)
      BY <1>3, <2>4
    <3> HIDE DEF d
    <3>2. ByteMoved(api, d)
      BY <2>1, <3>1, <3>5, BytePut
    <3>3. x \in {InUser} \cup QueueOnward(api)
      BY <1>2 DEF QueueOnward
    <3>4. ByteOn(h, x)
      BY <1>3, <3>2, <3>3 DEF ByteOn, d, me
    <3> HIDE DEF x
    <3> QED
      BY <3>4, ByteOnRight
  <2> QED
    BY <2>3, <2>4 DEF Queue
<1>4. CASE /\ q_counter[api] <= 0
           /\ IF time = Immediate
                THEN k' = h /\ Returns
                ELSE k' = qwait(h, api, time) /\ Sleeps(<<api, n, time>>)
           /\ UNCHANGED ioqVars
  <2>1. CASE time = Immediate
    BY <1>4, <2>1, QueueReturnRight
  <2>2. CASE time # Immediate
    <3>1. time \in Time \cup {Infinite}
      BY <2>2 DEF Limits
    <3> QED
      BY <1>4, <2>2, <3>1, QueueSleepRight
  <2> QED
    BY <2>1, <2>2
<1> QED
  BY <1>1, <1>3, <1>4

(* A thread in a call goes on.                                              *)
LEMMA GoesOnItself ==
  ASSUME IInv, api \in Queue, k.due[k.current] = 0
  PROVE  GoesOnIn(k)
<1>1. Stable(k, pc, api)
  BY QueueIs
<1>2. Listed(k, {}) /\ HighestCurrent(k)
  BY <1>1 DEF Stable, KernelRight
<1>3. Changed(k, k, api)
  BY <1>1, StillPlain
<1>4. Settles(k, k)
  BY <1>2, SettlesItself
<1> QED
  BY <1>3, <1>4 DEF GoesOnIn

(* A thread that was woken goes on.                                         *)
LEMMA GoesOnAwake ==
  ASSUME IInv, api \in Queue
  PROVE  GoesOnIn(Awake)
<1> DEFINE h == AwakeOf(k)
<1>1. Stable(k, pc, api) /\ Listed(k, {}) /\ k \in KernelState /\ TimersAre(k.vt, k.due)
  BY QueueIs
<1>2. Resumed(k, h)
  BY <1>1, AwakeIs
<1>3. Awake = h
  BY DEF Awake, AwakeOf, me
<1> HIDE DEF h
<1>4. Changed(k, h, api) /\ Settles(h, h) /\ h.due[k.current] = 0
      /\ View(h) = View(k) /\ h.current = k.current
  BY <1>1, <1>2, ResumedChanges
<1>5. h.q = k.q
  BY <1>2 DEF Resumed
<1>6. k.msg \in [Thread -> Messages]
  BY <1>1, KernelIs
<1>7. \A t \in Thread \ {k.current} : h.msg[t] = k.msg[t]
  BY <1>2, <1>6 DEF Resumed
<1>8. GoesOnIn(h)
  BY <1>4, <1>5, <1>7 DEF GoesOnIn
<1> QED
  BY <1>3, <1>8

(* The calls of a queue keep the invariant.                                 *)
LEMMA ByteCallRight ==
  ASSUME IInv, api \in Queue, IoqUntouched, api' = api, systime' = systime,
         waiting' = waiting, Calls, NEW n \in 1..MaxBytes + 1, NEW time \in Limits,
         Bytes(api, k, n, time)
  PROVE  IInv'
<1>1. Stable(k, pc, api)
  BY QueueIs
<1>2. Caller(k, pc)
  BY <1>1, CallerIs DEF Stable
<1>3. k.current # Idle /\ k.due[k.current] = 0
  BY <1>2 DEF Caller
<1>4. GoesOnIn(k)
  BY <1>3, GoesOnItself
<1> QED
  BY <1>3, <1>4, BytesRight

(* A thread within a call is not the idle one, and is in a place of it.    *)
LEMMA QueuePlaceIs ==
  ASSUME IInv, api \in Queue, NEW x \in {"more", api}, GoesOn(x)
  PROVE  /\ k.current # Idle
         /\ x = "more" => pc[k.current] \in QueueOnward(api) /\ k.due[k.current] = 0
         /\ x = api => pc[k.current] \in QueueWaits(api)
<1> DEFINE c == k.current
<1>1. Stable(k, pc, api) /\ Listed(k, {})
  BY QueueIs
<1>2. Placed(k, pc, api)
  BY <1>1 DEF Stable
<1>3. c \in Thread
  BY <1>1, CurrentRuns
<1>4. pc[c][1] = x /\ x # "user"
  BY QueuePlaces DEF GoesOn, me
<1> QED
  BY <1>2, <1>3, <1>4, QueuePlaces DEF Placed

(* The next byte of a block keeps the invariant.                            *)
LEMMA MoreBytesRight ==
  ASSUME IInv, api \in Queue, IoqUntouched, api' = api, MoreBytes
  PROVE  IInv'
<1> DEFINE c == k.current
<1>1. pc[c] \in QueueOnward(api) /\ k.current # Idle /\ k.due[k.current] = 0
  <2>1. GoesOn("more") /\ "more" \in {"more", api}
    BY DEF MoreBytes
  <2> QED
    BY <2>1, QueuePlaceIs
<1>2. PICK n \in 1..MaxBytes + 1, time \in Limits : pc[c] = <<"more", api, n, time>>
  BY <1>1 DEF QueueOnward
<1>3. Bytes(api, k, n, time) /\ waiting' = waiting /\ systime' = systime
  BY <1>2 DEF MoreBytes, me
<1>4. GoesOnIn(k)
  BY <1>1, GoesOnItself
<1> QED
  BY <1>1, <1>3, <1>4, BytesRight

(* A thread that was woken looks again, and keeps the invariant.            *)
LEMMA QueueWokenRight ==
  ASSUME IInv, api \in Queue, IoqUntouched, api' = api, QueueWoken(api)
  PROVE  IInv'
<1> DEFINE c == k.current
<1>1. pc[c] \in QueueWaits(api) /\ k.current # Idle
  <2>1. GoesOn(api) /\ api \in {"more", api}
    BY DEF QueueWoken
  <2> QED
    BY <2>1, QueuePlaceIs
<1>2. PICK n \in 1..MaxBytes + 1, time \in Limits : pc[c] = <<api, n, time>>
  BY <1>1 DEF QueueWaits
<1>3. /\ waiting' = waiting /\ systime' = systime
      /\ k.msg[c] = "OK" => Bytes(api, Awake, n, time)
      /\ k.msg[c] # "OK" => k' = Awake /\ Returns /\ UNCHANGED ioqVars
  BY <1>2 DEF QueueWoken, me
<1> DEFINE h == Awake
<1>4. GoesOnIn(h)
  BY GoesOnAwake
<1>5. CASE k.msg[c] = "OK"
  <2>1. Bytes(api, h, n, time)
    BY <1>3, <1>5
  <2> HIDE DEF h
  <2> QED
    BY <1>1, <1>3, <1>4, <2>1, BytesRight
<1>6. CASE k.msg[c] # "OK"
  <2>1. k' = h /\ Returns /\ UNCHANGED ioqVars
    BY <1>3, <1>6
  <2>2. q_counter[api] <= 0 \/ k.msg[k.current] # "OK"
    BY <1>6
  <2> HIDE DEF h
  <2> QED
    BY <1>1, <1>3, <1>4, <2>1, <2>2, QueueReturnRight
<1> QED
  BY <1>5, <1>6

(* A handler wakes the first that waits.                                   *)
WokenFirst(kk, h, q, T) ==
  /\ Listed(h, {}) /\ Counted(h)
  /\ h.prio = kk.prio /\ h.realprio = kk.realprio /\ h.vt = kk.vt /\ h.due = kk.due
  /\ T \subseteq Members(kk.q[q]) /\ (kk.q[q] # <<>> => \E t \in Thread : T = {t})
  /\ h.q[q] # <<>> => kk.q[q] # <<>>
  /\ \A o \in Object \ {q} : h.q[o] = kk.q[o]
  /\ \A u \in Thread : View(h)[u] = IF u \in T THEN "RUNS" ELSE View(kk)[u]
  /\ \A u \in Thread : h.msg[u] = IF u \in T THEN "OK" ELSE kk.msg[u]

(* A handler wakes the first thread that waits, if there is one.            *)
LEMMA WakesIs ==
  ASSUME NEW kk, Listed(kk, {}), Counted(kk), NEW q \in Queue
  PROVE  \E T : WokenFirst(kk, Wakes(kk, q), q, T)
<1>1. kk \in KernelState /\ q \in Object /\ q \notin Sem
      /\ kk.q \in [Object -> Seq(Thread)] /\ kk.msg \in [Thread -> Messages]
  BY KernelIs, QueueObjects DEF Listed
<1>2. CASE kk.q[q] = <<>>
  <2>1. Wakes(kk, q) = kk
    BY <1>2 DEF Wakes
  <2>2. WokenFirst(kk, kk, q, {})
    BY <1>2 DEF WokenFirst
  <2> QED
    BY <2>1, <2>2
<1>3. CASE kk.q[q] # <<>>
  <2> DEFINE t == Head(kk.q[q])
             x == Tail(kk.q[q])
             w == [kk.q EXCEPT ![q] = x]
             n == [kk.msg EXCEPT ![t] = "OK"]
             e == [kk EXCEPT !.q[q] = Tail(@), !.msg[t] = "OK"]
             r == chSchReadyI(e, t)
  <2>1. Wakes(kk, q) = r
    BY <1>3 DEF Wakes, WakeOne
  <2>2. e = [kk EXCEPT !.q = w, !.msg = n]
    BY <1>1 DEF KernelState
  <2>3. kk.q[q] \in Seq(Thread) /\ kk.q[q] # <<>>
    BY <1>1, <1>3
  <2>4. x \in Seq(Thread) /\ t \in Thread
    BY <2>3, TailPlaces
  <2>5. w \in [Object -> Seq(Thread)] /\ n \in [Thread -> Messages]
    BY <1>1, <2>4 DEF Messages
  <2> HIDE DEF w, n, e
  <2>6. /\ e \in KernelState /\ SameThreads(kk, e) /\ e.q = w /\ e.cnt = kk.cnt /\ e.msg = n
        /\ e.realprio = kk.realprio /\ e.vt = kk.vt /\ e.due = kk.due
    BY <1>1, <2>2, <2>5 DEF KernelState, SameThreads
  <2>7. MadeReady(kk, e, r, {}, t) /\ t \in Members(kk.q[q])
    <3>1. e.q = [kk.q EXCEPT ![q] = Tail(kk.q[q])]
      BY <2>6 DEF w
    <3>2. e \in KernelState /\ SameThreads(kk, e)
      BY <2>6
    <3>3. /\ Leaves(kk, e, {}, q, Head(kk.q[q])) /\ Head(kk.q[q]) \in Members(kk.q[q])
          /\ MadeReady(kk, e, chSchReadyI(e, Head(kk.q[q])), {}, Head(kk.q[q]))
      BY <1>1, <1>3, <3>1, <3>2, FirstReady
    <3> QED
      BY <3>3
  <2> HIDE DEF r
  <2>8. \A u \in Thread : View(r)[u] = IF u = t THEN "RUNS" ELSE View(kk)[u]
    BY <2>7 DEF MadeReady, View
  <2>9. \A u \in Thread : r.msg[u] = IF u = t THEN "OK" ELSE kk.msg[u]
    BY <1>1, <2>6, <2>7 DEF MadeReady, n
  <2>10. \A o \in Object \ {q} : r.q[o] = kk.q[o]
    BY <1>1, <2>6, <2>7 DEF MadeReady, SameRest, w
  <2>11. Counted(r)
    <3>1. r.cnt = kk.cnt /\ \A s \in Sem : s \in Object \ {q}
      BY <1>1, <2>6, <2>7, ThreadAssumption DEF MadeReady, SameRest
    <3> QED
      BY <2>10, <3>1 DEF Counted
  <2> HIDE DEF t
  <2>12. WokenFirst(kk, r, q, {t})
    BY <1>3, <2>4, <2>6, <2>7, <2>8, <2>9, <2>10, <2>11
    DEF WokenFirst, MadeReady, SameRest, SameThreads
  <2> QED
    BY <2>1, <2>12
<1> QED
  BY <1>2, <1>3

(* That leaves the lists whole.                                             *)
LEMMA WokenFirstChanges ==
  ASSUME NEW kk, NEW p, NEW g \in Queue, Stable(kk, p, g), NEW h, NEW T, WokenFirst(kk, h, g, T)
  PROVE  Changed(kk, h, g)
<1>1. Changed(kk, kk, g)
  BY StillPlain
<1>2. \A o \in Object : o \in ObjectsOf(g) \/ h.q[o] = <<>>
  BY <1>1, QueueObjects DEF Changed, WokenFirst
<1>3. Frame(kk, h, Thread)
  BY <1>1 DEF Changed, Frame, WokenFirst
<1> QED
  BY <1>1, <1>2, <1>3 DEF Changed, WokenFirst

(* One more thread is on its way then.                                      *)
LEMMA OneGiven ==
  ASSUME NEW kk, NEW p, NEW g \in Queue, Stable(kk, p, g), NEW h, NEW T,
         WokenFirst(kk, h, g, T), kk.q[g] # <<>>
  PROVE  Cardinality(Given(h, p, g)) = Cardinality(Given(kk, p, g)) + 1
<1> DEFINE A == Given(kk, p, g)
           B == Given(h, p, g)
<1>1. PICK t \in Thread : T = {t}
  BY DEF WokenFirst
<1>2. t \in Members(kk.q[g]) /\ Listed(kk, {}) /\ Placed(kk, p, g) /\ g \in Object
      /\ Kind(g) = "WTQUEUE"
  BY <1>1, QueueObjects DEF WokenFirst, Stable, KernelRight
<1>3. kk.state[t] = "WTQUEUE"
  BY <1>2 DEF Listed, QueuesRight
<1>4. View(kk)[t] = "WTQUEUE"
  BY <1>3 DEF View, Runs
<1>5. p[t][1] = g
  <2>1. p[t] \in PlacesOf(g)
    BY <1>2 DEF Placed
  <2>2. p[t][1] \notin {"user", "more"}
    BY <1>2, <1>4 DEF Placed, Absent
  <2> QED
    BY <2>1, <2>2, QueuePlaces
<1>6. /\ \A u \in Thread : View(h)[u] = IF u = t THEN "RUNS" ELSE View(kk)[u]
      /\ \A u \in Thread : h.msg[u] = IF u = t THEN "OK" ELSE kk.msg[u]
  BY <1>1 DEF WokenFirst
<1>7. B = A \cup {t} /\ t \notin A
  BY <1>4, <1>5, <1>6 DEF Given
<1>8. IsFiniteSet(A)
  BY GivenIs
<1> HIDE DEF A, B
<1>9. Cardinality(A \cup {t}) = Cardinality(A) + 1
  BY <1>7, <1>8, FS_AddElement
<1> QED
  BY <1>7, <1>9 DEF A, B

(* A byte that a handler moves keeps the invariant.                         *)
LEMMA HandledRight ==
  ASSUME IInv, api \in Queue, IoqUntouched, api' = api, ByteMoved(api, 1), Handled(api)
  PROVE  IInv'
<1> DEFINE q == api
           h == Wakes(k, q)
           r == CH_IRQ_EPILOGUE(h)
           n == q_counter[q]
<1>1. Stable(k, pc, api) /\ Listed(k, {}) /\ Counted(k) /\ Size \in Nat /\ n \in 0..Size
      /\ QueueRight(k, pc, q, io[q], n, held[q])
  BY QueueIs
<1>2. PICK T : WokenFirst(k, h, q, T)
  BY <1>1, WakesIs
<1>3. k' = r /\ UNCHANGED <<pc, waiting, systime>>
  BY DEF Handled
<1> HIDE DEF h
<1>4. Changed(k, h, api)
  <2>1. q \in Queue /\ Stable(k, pc, q)
    BY <1>1
  <2> HIDE DEF q
  <2>2. Changed(k, h, q)
    BY <1>2, <2>1, WokenFirstChanges
  <2> QED
    BY <2>2 DEF q
<1>5. Settles(h, r)
  BY <1>4, SettlesI DEF Changed
<1> HIDE DEF r
<1>6. Stable(r, pc, api)
  BY <1>1, <1>4, <1>5, Stays
<1>7. PICK f, s : /\ Keeps(f, s) /\ Amount(q, s) = n + 1
                  /\ Updated(io, io', q, f) /\ Updated(held, held', q, s)
                  /\ Updated(q_counter, q_counter', q, Amount(q, s))
  BY DEF ByteMoved
<1>8. r.q = h.q /\ Same(h, r)
  BY <1>5 DEF Settles, Same, SameRest
<1>9. r.q[q] # <<>> => Amount(q, s) <= Cardinality(Given(r, pc, q))
  <2> SUFFICES ASSUME r.q[q] # <<>>
               PROVE  Amount(q, s) <= Cardinality(Given(r, pc, q))
    OBVIOUS
  <2>1. k.q[q] # <<>>
    BY <1>2, <1>8 DEF WokenFirst
  <2>2. n <= Cardinality(Given(k, pc, q))
    BY <1>1, <2>1 DEF QueueRight
  <2> DEFINE p == pc
  <2>3. q \in Queue /\ Stable(k, p, q) /\ p = pc
    BY <1>1
  <2> HIDE DEF p, q
  <2>4. Cardinality(Given(h, p, q)) = Cardinality(Given(k, p, q)) + 1
    BY <1>2, <2>1, <2>3, OneGiven
  <2>5. Given(r, p, q) = Given(h, p, q)
    BY <1>8, SameGiven
  <2>6. Cardinality(Given(k, p, q)) \in Nat
    BY GivenIs
  <2> HIDE DEF n
  <2> QED
    BY <1>1, <1>7, <2>2, <2>3, <2>4, <2>5, <2>6
<1> DEFINE m == Amount(q, s)
<1>10. QueueRight(r, pc, q, f, m, s)
  BY <1>7, <1>9 DEF QueueRight
<1>11. QueueRight(k', pc', api, f, m, s) /\ Stable(k', pc', api)
       /\ Updated(io, io', api, f) /\ Updated(q_counter, q_counter', api, m)
       /\ Updated(held, held', api, s)
  BY <1>3, <1>6, <1>7, <1>10
<1> HIDE DEF m, q
<1> QED
  BY <1>3, <1>11, IoqRight

(* All that wait leave a list at once.                                     *)
LEMMA AllLeave ==
  ASSUME NEW kk, Listed(kk, {}), NEW o \in Object, NEW r \in KernelState, SameThreads(kk, r),
         r.q = [kk.q EXCEPT ![o] = <<>>]
  PROVE  Listed(r, Members(kk.q[o])) /\ View(r) = View(kk)
<1> DEFINE L == Members(kk.q[o])
<1>1. kk \in KernelState /\ kk.q \in [Object -> Seq(Thread)] /\ kk.state \in [Thread -> States]
      /\ QueuesRight(kk, {}) /\ ReadyRight(kk, {}) /\ Idle \in Thread
  BY KernelIs, ThreadAssumption DEF Listed
<1>2. \A x \in Object : r.q[x] = IF x = o THEN <<>> ELSE kk.q[x]
  BY <1>1
<1>3. L \subseteq Thread /\ Once(<<>>) /\ Members(<<>>) = {}
      /\ \A pr : Ranked(pr, <<>>)
  <2>1. kk.q[o] \in Seq(Thread)
    BY <1>1
  <2>2. L \subseteq Thread
    BY <2>1, MembersAre
  <2> QED
    BY <2>2 DEF Once, Members, Ranked
<1>4. \A t \in L : kk.state[t] = Kind(o) /\ kk.state[t] \in Waits
  BY <1>1 DEF QueuesRight, Kind, Waits
<1>5. r.state = kk.state /\ r.prio = kk.prio /\ r.ready = kk.ready /\ r.current = kk.current
  BY DEF SameThreads
<1>6. \A x \in Object : Members(r.q[x]) = IF x = o THEN {} ELSE Members(kk.q[x])
  BY <1>2, <1>3
<1>7. QueuesRight(r, L)
  <2>1. \A x \in Object : Once(r.q[x])
    BY <1>1, <1>2, <1>3 DEF QueuesRight
  <2>2. \A x \in Object : \A t \in Members(r.q[x]) : t \notin L /\ r.state[t] = Kind(x)
    <3> SUFFICES ASSUME NEW x \in Object, NEW t \in Members(r.q[x])
                 PROVE  t \notin L /\ r.state[t] = Kind(x)
      OBVIOUS
    <3>1. x # o /\ t \in Members(kk.q[x])
      BY <1>6
    <3>2. t \in Thread
      <4>1. kk.q[x] \in Seq(Thread)
        BY <1>1
      <4> QED
        BY <3>1, <4>1, MembersAre
    <3> QED
      BY <1>1, <1>5, <3>1, <3>2 DEF QueuesRight
  <2>3. \A x, y \in Object : \A t \in Thread :
          t \in Members(r.q[x]) /\ t \in Members(r.q[y]) => x = y
    BY <1>1, <1>6 DEF QueuesRight
  <2>4. \A t \in Thread \ L : r.state[t] \in Waits => \E x \in Object : t \in Members(r.q[x])
    <3> SUFFICES ASSUME NEW t \in Thread \ L, r.state[t] \in Waits
                 PROVE  \E x \in Object : t \in Members(r.q[x])
      OBVIOUS
    <3>1. PICK x \in Object : t \in Members(kk.q[x])
      BY <1>1, <1>5 DEF QueuesRight
    <3> QED
      BY <1>6, <3>1
  <2>5. \A m \in Mutex : Ranked(r.prio, r.q[m])
    BY <1>1, <1>2, <1>3, <1>5, ThreadAssumption DEF QueuesRight
  <2> QED
    BY <2>1, <2>2, <2>3, <2>4, <2>5 DEF QueuesRight
<1>8. ReadyRight(r, L)
  <2>1. \A t \in L : kk.state[t] \notin Runs
    BY <1>4 DEF Waits, Runs
  <2> HIDE DEF L
  <2> QED
    <3>1. \A t \in L : kk.state[t] # "READY" /\ kk.state[t] # "CURRENT"
      BY <2>1 DEF Runs
    <3>2. Members(kk.ready) = {t \in Thread : kk.state[t] = "READY"}
      BY <1>1 DEF ReadyRight
    <3>3. {t \in Thread : kk.state[t] = "READY"} = {t \in Thread \ L : kk.state[t] = "READY"}
      BY <3>1
    <3>4. \A t \in Thread : kk.state[t] = "CURRENT" <=> t = kk.current
      BY <1>1 DEF ReadyRight
    <3>5. kk.current \notin L
      BY <1>1, <3>1, <3>4, KernelIs
    <3> QED
      BY <1>1, <1>5, <3>2, <3>3, <3>4, <3>5 DEF ReadyRight
<1>9. View(r) = View(kk)
  BY <1>5 DEF View
<1> QED
  BY <1>3, <1>7, <1>8, <1>9 DEF Listed

(* Those in T have been made ready with a message.                         *)
Told(l, y, L, T) ==
  /\ Listed(y, L \ T) /\ T \subseteq L
  /\ y.current = l.current /\ SameRest(l, y)
  /\ \A u \in Thread : View(y)[u] = IF u \in T THEN "RUNS" ELSE View(l)[u]
TellReset(y, t) == chSchReadyI([y EXCEPT !.msg[t] = "RESET"], t)
TellsAll(f, n, l, s) ==
  f = CHOOSE g : g = [i \in 0..n |-> IF i = 0 THEN l ELSE TellReset(g[i - 1], s[i])]
AfterTold(l, L, s, i) == {y \in KernelState : Told(l, y, L, First(s, i))}

(* One more thread is told of the reset.                                    *)
LEMMA TellMore ==
  ASSUME NEW l, NEW L, NEW T, NEW y, Told(l, y, L, T), NEW t \in L, t \notin T
  PROVE  Told(l, TellReset(y, t), L, T \cup {t})
<1> DEFINE n == [y.msg EXCEPT ![t] = "RESET"]
           e == [y EXCEPT !.msg[t] = "RESET"]
           z == chSchReadyI(e, t)
           X == L \ T
<1>1. Listed(y, X) /\ t \in X /\ t \in Thread /\ y \in KernelState
  BY DEF Told, Listed
<1>2. n \in [Thread -> Messages]
  BY <1>1, KernelIs DEF Messages
<1>3. e = [y EXCEPT !.msg = n]
  OBVIOUS
<1> HIDE DEF n, e
<1>4. e \in KernelState /\ SameThreads(y, e) /\ e.q = y.q /\ SameRest(y, e)
  BY <1>1, <1>2, <1>3 DEF KernelState, SameThreads, SameRest
<1> HIDE DEF X
<1>5. Listed(e, X) /\ View(e) = View(y)
  BY <1>1, <1>4, SameListed
<1>6. /\ Listed(z, X \ {t}) /\ View(z) = [View(e) EXCEPT ![t] = "RUNS"]
      /\ SameRest(e, z) /\ z.msg = e.msg /\ z.current = e.current
  BY <1>1, <1>5, ReadyIListed
<1>7. X \ {t} = L \ (T \cup {t})
  BY DEF X
<1>8. \A u \in Thread : View(z)[u] = IF u = t THEN "RUNS" ELSE View(y)[u]
  BY <1>5, <1>6 DEF View
<1>9. z = TellReset(y, t)
  BY DEF TellReset, e
<1> HIDE DEF z
<1>10. Listed(z, L \ (T \cup {t})) /\ T \cup {t} \subseteq L
  BY <1>6, <1>7 DEF Told
<1>11. \A u \in Thread : View(z)[u] = IF u \in T \cup {t} THEN "RUNS" ELSE View(l)[u]
  BY <1>8 DEF Told
<1>12. Told(l, z, L, T \cup {t})
  BY <1>4, <1>6, <1>10, <1>11 DEF Told, SameRest, SameThreads
<1> QED
  BY <1>9, <1>12

(* The loop of a reset tells all threads that wait.                         *)
LEMMA AllTold ==
  ASSUME NEW l, NEW L, Listed(l, L), NEW s, NEW n \in Nat, \A i \in 1..n : s[i] \in L,
         \A i, j \in 1..n : s[i] = s[j] => i = j,
         NEW f, TellsAll(f, n, l, s)
  PROVE  Told(l, f[n], L, First(s, n))
<1> DEFINE W(y, i) == TellReset(y, s[i])
           H == [i \in 0..n |-> AfterTold(l, L, s, i)]
           G == [i \in 1..n |-> [y \in H[i - 1] |-> W(y, i)]]
           E(g) == g = [i \in 0..n |-> IF i = 0 THEN l ELSE W(g[i - 1], i)]
<1>1. l \in H[0]
  <2>1. First(s, 0) = {} /\ L \ {} = L /\ {} \subseteq L
    BY DEF First
  <2>2. Told(l, l, L, {})
    BY <2>1 DEF Told, SameRest
  <2>3. l \in KernelState /\ 0 \in 0..n
    BY DEF Listed
  <2> QED
    BY <2>1, <2>2, <2>3 DEF AfterTold
<1>2. ASSUME NEW i \in 1..n, NEW y \in H[i - 1]
      PROVE  W(y, i) \in H[i]
  <2> DEFINE t == s[i]
             X == First(s, i - 1)
             z == W(y, i)
  <2>1. i - 1 \in 0..n /\ i \in 0..n
    OBVIOUS
  <2>2. Told(l, y, L, X) /\ t \in L
    BY <1>2, <2>1 DEF AfterTold
  <2>3. First(s, i) = X \cup {t} /\ t \notin X
    BY FirstIs
  <2> HIDE DEF X, t
  <2>4. Told(l, TellReset(y, t), L, X \cup {t})
    BY <2>2, <2>3, TellMore
  <2>5. Told(l, z, L, First(s, i))
    BY <2>3, <2>4 DEF t
  <2>6. z \in KernelState
    BY <2>5 DEF Told, Listed
  <2> QED
    BY <2>1, <2>5, <2>6 DEF AfterTold
<1> HIDE DEF H, W
<1>3. \A i \in 1..n : G[i] \in [H[i - 1] -> H[i]]
  BY <1>2
<1>4. \A i \in 1..n : \A y \in H[i - 1] : G[i][y] = W(y, i)
  OBVIOUS
<1> HIDE DEF G
<1>5. PICK g : Looped(g, n, l, H, G)
  BY <1>1, <1>3, LoopRuns
<1>6. E(g)
  <2>1. /\ g = [i \in 0..n |-> g[i]] /\ g[0] = l
        /\ \A i \in 1..n : g[i - 1] \in H[i - 1] /\ g[i] = G[i][g[i - 1]]
    BY <1>5 DEF Looped
  <2>2. \A i \in 0..n : g[i] = IF i = 0 THEN l ELSE W(g[i - 1], i)
    <3> SUFFICES ASSUME NEW i \in 0..n, i # 0
                 PROVE  g[i] = W(g[i - 1], i)
      BY <2>1
    <3>1. i \in 1..n
      OBVIOUS
    <3> QED
      BY <1>4, <2>1, <3>1
  <2> QED
    BY <2>1, <2>2
<1>7. E(f)
  BY <1>6 DEF W, TellsAll
<1>8. f[0] = l /\ \A i \in 1..n : f[i] = W(f[i - 1], i)
  <2>1. f = [i \in 0..n |-> IF i = 0 THEN l ELSE W(f[i - 1], i)]
    BY <1>7
  <2> HIDE DEF E
  <2>2. \A i \in 0..n : f[i] = IF i = 0 THEN l ELSE W(f[i - 1], i)
    BY <2>1
  <2>3. 0 \in 0..n /\ \A i \in 1..n : i \in 0..n /\ i # 0
    OBVIOUS
  <2> QED
    BY <2>2, <2>3
<1> HIDE DEF E
<1>9. f[n] \in H[n]
  <2>1. \A i \in 1..n : f[i - 1] \in H[i - 1] => f[i] \in H[i]
    BY <1>2, <1>8
  <2>2. f[0] \in H[0]
    BY <1>1, <1>8
  <2>3. \A i \in 0..n : f[i] \in H[i]
    BY <2>1, <2>2, LoopStays
  <2> QED
    BY <2>3
<1> QED
  BY <1>9 DEF H, AfterTold

(* All that wait in the queue of an object have been told that it was reset. *)
QueueReset(kk, h, q) ==
  /\ Listed(h, {}) /\ Counted(h) /\ h.q[q] = <<>>
  /\ h.prio = kk.prio /\ h.realprio = kk.realprio /\ h.vt = kk.vt /\ h.due = kk.due
  /\ \A o \in Object \ {q} : h.q[o] = kk.q[o]
  /\ \A u \in Thread : View(h)[u] \in {View(kk)[u], "RUNS"}

(* A reset of a queue tells all threads that wait.                          *)
LEMMA QueueResetIs ==
  ASSUME NEW kk, Listed(kk, {}), Counted(kk), NEW q \in Object \ Sem, NEW s, s = kk.q[q],
         NEW f, TellsAll(f, Len(s), [kk EXCEPT !.q[q] = <<>>], s)
  PROVE  QueueReset(kk, f[Len(s)], q)
<1> DEFINE w == [kk.q EXCEPT ![q] = <<>>]
           l == [kk EXCEPT !.q[q] = <<>>]
           L == Members(s)
           n == Len(s)
           h == f[n]
<1>1. kk \in KernelState /\ q \in Object /\ q \notin Sem
      /\ kk.q \in [Object -> Seq(Thread)] /\ s \in Seq(Thread) /\ Once(s)
  BY KernelIs DEF Listed, QueuesRight
<1>2. w \in [Object -> Seq(Thread)] /\ w = [kk.q EXCEPT ![q] = <<>>]
  BY <1>1
<1>3. l = [kk EXCEPT !.q = w]
  OBVIOUS
<1>4. TellsAll(f, n, l, s)
  OBVIOUS
<1> HIDE DEF w, l
<1>5. /\ l \in KernelState /\ SameThreads(kk, l) /\ l.q = w /\ l.cnt = kk.cnt
      /\ l.realprio = kk.realprio /\ l.vt = kk.vt /\ l.due = kk.due
  BY <1>1, <1>2, <1>3 DEF KernelState, SameThreads
<1>6. Listed(l, Members(kk.q[q])) /\ View(l) = View(kk)
  <2>1. l.q = [kk.q EXCEPT ![q] = <<>>]
    BY <1>2, <1>5
  <2> QED
    BY <1>1, <1>5, <2>1, AllLeave
<1>7. n \in Nat /\ (\A i \in 1..n : s[i] \in L) /\ \A i, j \in 1..n : s[i] = s[j] => i = j
  BY <1>1 DEF Members, Once
<1>8. Listed(l, L)
  BY <1>6
<1>9. First(s, n) = L
  <2>1. DOMAIN s = 1..Len(s)
    BY <1>1
  <2> QED
    BY <2>1 DEF First, Members
<1> HIDE DEF n
<1>10. Told(l, f[n], L, First(s, n))
  <2> HIDE DEF L
  <2> QED
    BY <1>4, <1>7, <1>8, AllTold
<1> HIDE DEF L, h
<1>11. Told(l, h, L, L) /\ L \ L = {}
  BY <1>9, <1>10 DEF h
<1>12. Listed(h, {}) /\ SameRest(l, h)
  BY <1>11 DEF Told
<1>13. \A o \in Object : h.q[o] = IF o = q THEN <<>> ELSE kk.q[o]
  BY <1>1, <1>2, <1>5, <1>12 DEF SameRest
<1>14. Counted(h)
  <2>1. h.cnt = kk.cnt /\ \A x \in Sem : x \in Object /\ x # q
    BY <1>1, <1>5, <1>12, ThreadAssumption DEF SameRest
  <2> QED
    BY <1>13, <2>1 DEF Counted
<1>15. \A u \in Thread : View(h)[u] \in {View(kk)[u], "RUNS"}
  BY <1>6, <1>11 DEF Told
<1>16. QueueReset(kk, h, q)
  BY <1>1, <1>5, <1>12, <1>13, <1>14, <1>15 DEF QueueReset, SameRest, SameThreads
<1> QED
  BY <1>16 DEF h, n

(* That leaves the lists whole.                                             *)
LEMMA QueueResetChanges ==
  ASSUME NEW kk, NEW p, NEW g \in Queue, Stable(kk, p, g), NEW h, QueueReset(kk, h, g)
  PROVE  Changed(kk, h, g)
<1>1. Changed(kk, kk, g)
  BY StillPlain
<1>2. \A o \in Object : o \in ObjectsOf(g) \/ h.q[o] = <<>>
  BY <1>1, QueueObjects DEF Changed, QueueReset
<1>3. Frame(kk, h, Thread)
  BY <1>1 DEF Changed, Frame, QueueReset
<1> QED
  BY <1>1, <1>2, <1>3 DEF Changed, QueueReset

(* chIQResetI and chOQResetI keep the invariant.                            *)
LEMMA QueueResetRight ==
  ASSUME IInv, api \in Queue, IoqUntouched, api' = api, ResetI(api)
  PROVE  IInv'
<1> DEFINE q == api
           z == k.q[q]
           f == CHOOSE g : g = [i \in 0..Len(z) |-> IF i = 0 THEN [k EXCEPT !.q[q] = <<>>]
                             ELSE TellReset(g[i - 1], z[i])]
           h == f[Len(z)]
           r == CH_IRQ_EPILOGUE(h)
           a == Rewound(io[q])
           m == NoneYet[q]
           s == <<>>
<1>1. /\ Updated(io, io', q, a) /\ Updated(q_counter, q_counter', q, m)
      /\ Updated(held, held', q, s) /\ UNCHANGED <<pc, waiting, systime>>
  BY QueueIs DEF ResetI, Updated
<1>2. k' = r
  BY Zenon DEF ResetI, TellReset
<1>3. Stable(k, pc, q) /\ Listed(k, {}) /\ Counted(k) /\ Keeps(io[q], held[q]) /\ q \in Queue
      /\ io[q] \in Ring
  BY QueueIs DEF QueueRight, Keeps
<1>4. TellsAll(f, Len(z), [k EXCEPT !.q[q] = <<>>], z)
  BY DEF TellsAll
<1>5. z = k.q[q]
  OBVIOUS
<1> HIDE DEF f, z, q
<1>6. QueueReset(k, f[Len(z)], q)
  <2>1. q \in Object \ Sem
    BY <1>3, QueueObjects
  <2> QED
    BY <1>3, <1>4, <1>5, <2>1, QueueResetIs
<1>7. QueueReset(k, h, q)
  BY <1>6
<1> HIDE DEF h
<1>8. Changed(k, h, q)
  BY <1>3, <1>7, QueueResetChanges
<1>9. Settles(h, r)
  BY <1>8, SettlesI DEF Changed
<1> HIDE DEF r
<1>10. Stable(r, pc, q)
  BY <1>3, <1>8, <1>9, Stays
<1>11. Keeps(a, s)
  BY <1>3, RewoundKeeps
<1>12. m = Amount(q, s)
  BY <1>3, SizeAssumption DEF NoneYet, Amount
<1>13. r.q[q] = <<>>
  BY <1>7, <1>9 DEF Settles, Same, SameRest, QueueReset
<1>14. QueueRight(r, pc, q, a, m, s)
  BY <1>11, <1>12, <1>13 DEF QueueRight
<1>15. QueueRight(k', pc', api, a, m, s) /\ Stable(k', pc', api)
       /\ Updated(io, io', api, a) /\ Updated(q_counter, q_counter', api, m)
       /\ Updated(held, held', api, s)
  BY <1>1, <1>2, <1>10, <1>14 DEF q
<1> HIDE DEF a, m, s
<1> QED
  BY <1>1, <1>15, IoqRight

(* chIQPutI keeps the invariant.                                            *)
LEMMA PutIRight ==
  ASSUME IInv, api = "iq", IoqUntouched, api' = api, NEW b \in Item, chIQPutI(b)
  PROVE  IInv'
<1> DEFINE d == 1
<1>1. api \in Queue /\ ~NoMore(api) /\ PutByte(api, b) /\ Handled(api)
  BY DEF Queue, chIQPutI
<1>2. Len(held[api]) < Size
  BY <1>1, BytesThere
<1>3. d = (IF api = "iq" THEN 1 ELSE -1) /\ q_counter' = [q_counter EXCEPT ![api] = q_counter[api] + d]
  BY <1>1 DEF Handled
<1> HIDE DEF d
<1>4. ByteMoved(api, d)
  BY <1>1, <1>2, <1>3, BytePut
<1>5. ByteMoved(api, 1)
  BY <1>4 DEF d
<1> QED
  BY <1>1, <1>5, HandledRight

(* chOQGetI keeps the invariant.                                            *)
LEMMA GetIRight ==
  ASSUME IInv, api = "oq", IoqUntouched, api' = api, chOQGetI
  PROVE  IInv'
<1> DEFINE d == 1
<1>1. api \in Queue /\ ~NoMore(api) /\ TakeByte(api) /\ Handled(api)
  BY DEF Queue, chOQGetI
<1>2. held[api] # <<>>
  BY <1>1, BytesThere
<1>3. d = (IF api = "iq" THEN -1 ELSE 1) /\ q_counter' = [q_counter EXCEPT ![api] = q_counter[api] + d]
  BY <1>1 DEF Handled
<1> HIDE DEF d
<1>4. ByteMoved(api, d)
  BY <1>1, <1>2, <1>3, ByteTaken
<1>5. ByteMoved(api, 1)
  BY <1>4 DEF d
<1> QED
  BY <1>1, <1>5, HandledRight

(* The I/O queues' calls keep the invariant.                               *)
LEMMA IoqCallsRight ==
  ASSUME IInv, api \in Queue, IoqUntouched, api' = api, IoqCalls(api)
  PROVE  IInv'
<1>1. MaxBytes \in Nat
  BY KernelAssumption
<1>2. 1 \in 1..MaxBytes + 1 /\ 2..MaxBytes \subseteq 1..MaxBytes + 1
  BY <1>1
<1>3. CASE \E n \in 1..MaxBytes + 1, time \in Limits :
             /\ Calls /\ Bytes(api, k, n, time) /\ UNCHANGED <<waiting, systime>>
  BY <1>3, ByteCallRight
<1>4. CASE api = "iq" /\ IQCalls
  <2>1. CASE \E time \in Time \cup {Infinite, Immediate} :
               chIQGetTimeout(time) \/ \E n \in 2..MaxBytes : chIQReadTimeout(n, time)
    <3>1. PICK time \in Limits : chIQGetTimeout(time) \/ \E n \in 2..MaxBytes : chIQReadTimeout(n, time)
      BY <2>1 DEF Limits
    <3>2. \E n \in 1..MaxBytes + 1 : Calls /\ IQBytes(k, n, time) /\ UNCHANGED <<waiting, systime>>
      BY <1>2, <3>1 DEF chIQGetTimeout, chIQReadTimeout
    <3>3. \E n \in 1..MaxBytes + 1 : Calls /\ Bytes(api, k, n, time) /\ UNCHANGED <<waiting, systime>>
      BY <1>4, <3>2 DEF Bytes
    <3> QED
      BY <1>3, <3>3
  <2>2. CASE \E b \in Item : chIQPutI(b)
    BY <1>4, <2>2, PutIRight
  <2>3. CASE chIQResetI
    <3>1. ResetI(api)
      BY <1>4, <2>3 DEF chIQResetI
    <3> QED
      BY <3>1, QueueResetRight
  <2> QED
    BY <1>4, <2>1, <2>2, <2>3 DEF IQCalls
<1>5. CASE api = "oq" /\ OQCalls
  <2>1. CASE \E time \in Time \cup {Infinite, Immediate} :
               chOQPutTimeout(time) \/ \E n \in 2..MaxBytes : chOQWriteTimeout(n, time)
    <3>1. PICK time \in Limits : chOQPutTimeout(time) \/ \E n \in 2..MaxBytes : chOQWriteTimeout(n, time)
      BY <2>1 DEF Limits
    <3>2. \E n \in 1..MaxBytes + 1 : Calls /\ OQBytes(k, n, time) /\ UNCHANGED <<waiting, systime>>
      BY <1>2, <3>1 DEF chOQPutTimeout, chOQWriteTimeout
    <3>3. \E n \in 1..MaxBytes + 1 : Calls /\ Bytes(api, k, n, time) /\ UNCHANGED <<waiting, systime>>
      BY <1>5, <3>2 DEF Bytes
    <3> QED
      BY <1>3, <3>3
  <2>2. CASE chOQGetI
    BY <1>5, <2>2, GetIRight
  <2>3. CASE chOQResetI
    <3>1. ResetI(api)
      BY <1>5, <2>3 DEF chOQResetI
    <3> QED
      BY <3>1, QueueResetRight
  <2> QED
    BY <1>5, <2>1, <2>2, <2>3 DEF OQCalls
<1>6. CASE QueueWoken(api)
  BY <1>6, QueueWokenRight
<1>7. CASE MoreBytes
  BY <1>7, MoreBytesRight
<1> QED
  BY <1>4, <1>5, <1>6, <1>7 DEF IoqCalls

(* The kernel when the system starts.                                      *)
LEMMA BootedIs ==
  ASSUME NEW n \in [Sem -> Nat], NEW r, r = [Booted EXCEPT !.cnt = n]
  PROVE  /\ Listed(r, {}) /\ HighestCurrent(r) /\ r.q = [o \in Object |-> <<>>]
         /\ r.cnt = n /\ r.vt = <<>> /\ r.due = [t \in Thread |-> 0] /\ r.prio = r.realprio
         /\ r.state = [t \in Thread |-> IF t = Main THEN "CURRENT"
                                        ELSE IF t = Idle THEN "READY" ELSE "NONE"]
<1>1. Main \in Thread /\ Idle \in Thread /\ Main # Idle /\ Quantum \in Nat /\ HIGHPRIO = 127
  BY ThreadAssumption, ThreadsAssumption DEF HIGHPRIO
<1>2. /\ r.state = [t \in Thread |-> IF t = Main THEN "CURRENT"
                                     ELSE IF t = Idle THEN "READY" ELSE "NONE"]
      /\ r.prio = [t \in Thread |-> IF t = Main THEN 2 ELSE 1]
      /\ r.realprio = [t \in Thread |-> IF t = Main THEN 2 ELSE 1]
      /\ r.preempt = [t \in Thread |-> Quantum]
      /\ r.msg = [t \in Thread |-> "OK"]
      /\ r.ready = <<Idle>> /\ r.current = Main /\ r.vt = <<>>
      /\ r.q = [o \in Object |-> <<>>] /\ r.cnt = n /\ r.due = [t \in Thread |-> 0]
  BY DEF Booted
<1>3. r = [state |-> r.state, prio |-> r.prio, realprio |-> r.realprio,
           preempt |-> r.preempt, msg |-> r.msg, ready |-> r.ready, current |-> r.current,
           vt |-> r.vt, q |-> r.q, cnt |-> r.cnt, due |-> r.due]
  BY DEF Booted
<1>4. r \in KernelState
  <2>1. r.state \in [Thread -> States]
    BY <1>2 DEF States
  <2>2. 1 \in Prios /\ 2 \in Prios
    BY <1>1 DEF Prios
  <2>3. r.prio \in [Thread -> Prios] /\ r.realprio \in [Thread -> Prios]
    BY <1>2, <2>2
  <2>4. r.preempt \in [Thread -> 0..Quantum] /\ r.msg \in [Thread -> Messages]
    BY <1>1, <1>2 DEF Messages
  <2>5. r.ready \in Seq(Thread) /\ r.current \in Thread /\ r.vt \in Seq(VTimer)
    <3>1. <<Idle>> \in Seq(Thread)
      BY <1>1
    <3>2. <<>> \in Seq(VTimer)
      OBVIOUS
    <3> QED
      BY <1>1, <1>2, <3>1, <3>2
  <2>6. r.q \in [Object -> Seq(Thread)] /\ r.cnt \in [Sem -> Int] /\ r.due \in [Thread -> Nat]
    <3>1. <<>> \in Seq(Thread)
      OBVIOUS
    <3>2. [o \in Object |-> <<>>] \in [Object -> Seq(Thread)]
      BY <3>1
    <3>3. [t \in Thread |-> 0] \in [Thread -> Nat]
      OBVIOUS
    <3>4. n \in [Sem -> Int]
      OBVIOUS
    <3> QED
      BY <1>2, <3>2, <3>3, <3>4
  <2> QED
    BY <1>3, <2>1, <2>3, <2>4, <2>5, <2>6 DEF KernelState
<1>5. Members(<<>>) = {} /\ Once(<<>>) /\ \A p : Ranked(p, <<>>)
  BY DEF Members, Once, Ranked
<1>6. Members(<<Idle>>) = {Idle} /\ Once(<<Idle>>) /\ \A p : Ranked(p, <<Idle>>)
  BY DEF Members, Once, Ranked
<1>7. QueuesRight(r, {})
  <2>1. \A o \in Object : r.q[o] = <<>>
    BY <1>2
  <2>2. \A t \in Thread : r.state[t] \notin Waits
    BY <1>2 DEF Waits
  <2>3. \A m \in Mutex : m \in Object
    BY MutexAssumption
  <2> QED
    BY <1>5, <2>1, <2>2, <2>3 DEF QueuesRight
<1>8. ReadyRight(r, {})
  <2>1. {t \in Thread \ {} : r.state[t] = "READY"} = {Idle}
    BY <1>1, <1>2
  <2>2. \A t \in Thread : r.state[t] = "CURRENT" <=> t = r.current
    BY <1>1, <1>2
  <2>3. r.state[Idle] \in Runs
    BY <1>1, <1>2 DEF Runs
  <2> QED
    BY <1>2, <1>6, <2>1, <2>2, <2>3 DEF ReadyRight
<1>9. HighestCurrent(r)
  BY <1>1, <1>2 DEF HighestCurrent
<1>10. Listed(r, {})
  BY <1>4, <1>7, <1>8 DEF Listed
<1>11. r.prio = r.realprio
  BY <1>2
<1> QED
  BY <1>2, <1>9, <1>10, <1>11

(* chCondBroadcastI: all that wait are ready.                               *)
LEMMA CondBroadcastIIs ==
  ASSUME NEW p, Stable(k, p, "mtx"), NEW c \in CondVar, NEW h, h = chCondBroadcastI(k, c)
  PROVE  Changed(k, h, "mtx") /\ SameMtx(k, h)
<1> DEFINE z == k.q[c]
           f == CHOOSE g : g = [i \in 0..Len(z) |-> IF i = 0 THEN [k EXCEPT !.q[c] = <<>>]
                             ELSE TellReset(g[i - 1], z[i])]
<1>1. h = f[Len(z)]
  BY Zenon DEF chCondBroadcastI, TellReset
<1>2. Listed(k, {}) /\ Counted(k) /\ Changed(k, k, "mtx")
  BY StillPlain DEF Stable, KernelRight
<1>3. c \in Object \ Sem /\ c \notin Mutex /\ \A m \in Mutex : m \in Object /\ m # c
  BY MutexAssumption
<1>4. TellsAll(f, Len(z), [k EXCEPT !.q[c] = <<>>], z)
  BY DEF TellsAll
<1>5. z = k.q[c]
  OBVIOUS
<1> HIDE DEF f, z
<1>6. QueueReset(k, f[Len(z)], c)
  BY <1>2, <1>3, <1>4, <1>5, QueueResetIs
<1>7. QueueReset(k, h, c)
  BY <1>1, <1>6
<1>8. Frame(k, h, Thread)
  BY <1>2, <1>7 DEF Changed, Frame, QueueReset
<1>9. \A o \in Object : o \in ObjectsOf("mtx") \/ h.q[o] = <<>>
  BY <1>2, <1>7 DEF Changed, QueueReset
<1>10. Changed(k, h, "mtx")
  BY <1>2, <1>7, <1>8, <1>9 DEF Changed, QueueReset
<1>11. SameMtx(k, h)
  BY <1>3, <1>7 DEF QueueReset, SameMtx
<1> QED
  BY <1>10, <1>11

(* chCondBroadcast keeps the invariant.                                     *)
LEMMA CondBroadcastRight ==
  ASSUME KInv, api = "mtx", api' = api, UNCHANGED MtxOthers, NEW c \in CondVar,
         chCondBroadcast(c)
  PROVE  KInv'
<1> DEFINE h == chCondBroadcastI(k, c)
           r == chSchRescheduleS(h)
<1>1. Stable(k, pc, "mtx")
  BY DEF KInv, IInv, Stable
<1>2. k' = r /\ UNCHANGED <<pc, mtxVars>>
  BY DEF chCondBroadcast
<1>3. Changed(k, h, "mtx") /\ SameMtx(k, h)
  BY <1>1, CondBroadcastIIs
<1> HIDE DEF h
<1>4. Settles(h, r)
  BY <1>3, SettlesS DEF Changed
<1> HIDE DEF r
<1> QED
  BY <1>2, <1>3, <1>4, CondStep

(* So do both when an interrupt handler calls them.                         *)
LEMMA CondIsrRight ==
  ASSUME KInv, api = "mtx", api' = api, UNCHANGED MtxOthers, NEW c \in CondVar, CondIsr(c)
  PROVE  KInv'
<1>1. Stable(k, pc, "mtx")
  BY DEF KInv, IInv, Stable
<1>2. \E h \in {chCondSignalI(k, c), chCondBroadcastI(k, c)} : k' = CH_IRQ_EPILOGUE(h)
  BY DEF CondIsr
<1>3. PICK h \in {chCondSignalI(k, c), chCondBroadcastI(k, c)} : k' = CH_IRQ_EPILOGUE(h)
  BY <1>2
<1>4. Changed(k, h, "mtx") /\ SameMtx(k, h)
  BY <1>1, <1>3, CondSignalIIs, CondBroadcastIIs
<1>5. UNCHANGED <<pc, mtxVars>>
  BY DEF CondIsr
<1> DEFINE r == CH_IRQ_EPILOGUE(h)
<1>6. Settles(h, r) /\ k' = r
  BY <1>3, <1>4, SettlesI DEF Changed
<1> HIDE DEF r
<1> QED
  BY <1>4, <1>5, <1>6, CondStep

(* A thread without mutexes, for which nobody waits, sets its own priority. *)
LEMMA OwnPrioInherits ==
  ASSUME NEW kk, Listed(kk, {}), MtxOK(kk, owner, mtxlist), mtxlist[kk.current] = <<>>,
         NEW n \in Prios, NEW h, h = NewPrio(kk, n)
  PROVE  MtxOK(h, owner, mtxlist)
<1> DEFINE c == kk.current
           x == IF kk.prio[c] = kk.realprio[c] \/ n > kk.prio[c] THEN n ELSE kk.prio[c]
           a == [kk.prio EXCEPT ![c] = x]
           b == [kk.realprio EXCEPT ![c] = n]
<1>1. kk \in KernelState /\ c \in Thread /\ kk.prio \in [Thread -> Prios]
      /\ kk.realprio \in [Thread -> Prios]
  BY KernelIs DEF Listed
<1>2. Owned(kk.q, owner, mtxlist) /\ Inherits(kk, owner)
  BY DEF MtxOK
<1>3. \A m \in Mutex : owner[m] # c
  <2>1. \A m \in Mutex : m \notin Members(mtxlist[c])
    BY DEF Members
  <2> QED
    BY <1>1, <1>2, <2>1 DEF Owned
<1>4. \A u : ~WaitsFor(kk.q, owner, u, c)
  BY <1>3 DEF WaitsFor
<1>5. kk.prio[c] = kk.realprio[c]
  BY <1>1, <1>2, <1>4 DEF Inherits
<1>6. x = n
  BY <1>5
<1>7. h = [kk EXCEPT !.prio = a, !.realprio = b]
  BY DEF NewPrio
<1> HIDE DEF x
<1>8. \A t \in Thread : a[t] = (IF t = c THEN n ELSE kk.prio[t])
                        /\ b[t] = (IF t = c THEN n ELSE kk.realprio[t])
  BY <1>1, <1>6
<1> HIDE DEF a, b
<1>9. h.prio = a /\ h.realprio = b /\ h.q = kk.q
  BY <1>1, <1>7 DEF KernelState
<1>10. \A u, t \in Thread : WaitsFor(kk.q, owner, u, t) => u # c /\ t # c
  <2>1. \A m \in Mutex : c \notin Members(kk.q[m])
    BY MutexQueues
  <2> QED
    BY <1>4, <2>1 DEF WaitsFor
<1>11. Inherits(h, owner)
  <2>1. ASSUME NEW t \in Thread
        PROVE  /\ b[t] <= a[t]
               /\ \A u \in Thread : WaitsFor(kk.q, owner, u, t) => a[u] <= a[t]
               /\ \/ a[t] = b[t]
                  \/ \E u \in Thread : WaitsFor(kk.q, owner, u, t) /\ a[u] = a[t]
    <3>1. CASE t = c
      BY <1>4, <1>8, <3>1 DEF Prios
    <3>2. CASE t # c
      BY <1>2, <1>8, <1>10, <3>2 DEF Inherits
    <3> QED
      BY <3>1, <3>2
  <2> QED
    BY <1>9, <2>1 DEF Inherits
<1> QED
  BY <1>2, <1>9, <1>11 DEF MtxOK

(* Main sets its priority while it owns no mutex.                           *)
LEMMA OwnPriorityRight ==
  ASSUME KInv, api = "mtx", api' = api, ~SetsPriorityAnyTime, OwnPriority,
         UNCHANGED <<mtxVars, msgVars, evtVars, mbxVars, ioqVars>>
  PROVE  KInv'
<1>1. PICK n \in Prio : chThdSetPriority(n)
  BY DEF OwnPriority
<1>2. mtxlist[me] = <<>>
  BY DEF OwnPriority
<1> DEFINE h == NewPrio(k, n)
           r == chSchRescheduleS(h)
<1>3. k' = r /\ UNCHANGED <<pc, waiting, systime>> /\ me = k.current
  BY <1>1 DEF chThdSetPriority, NewPrio, me
<1>4. IInv /\ Stable(k, pc, "mtx") /\ MtxOK(k, owner, mtxlist) /\ Listed(k, {}) /\ k \in KernelState
  BY DEF KInv, IInv, Stable, KernelRight, Listed
<1>5. n \in Prios
  BY ThreadsAssumption DEF Prios
<1>6. /\ Repriced(k, h)
      /\ \E x \in Prios : h.prio = [k.prio EXCEPT ![k.current] = x]
  BY <1>4, <1>5, NewPrioIs
<1>7. MtxOK(h, owner, mtxlist)
  BY <1>2, <1>3, <1>4, <1>5, OwnPrioInherits
<1> HIDE DEF h
<1>8. Changed(k, h, "mtx")
  BY <1>4, <1>6, RepricedChanges
<1>9. Settles(h, r)
  BY <1>8, SettlesS DEF Changed
<1> HIDE DEF r
<1>10. Stable(r, pc, "mtx")
  BY <1>4, <1>8, <1>9, Stays
<1>11. SameMtx(h, r)
  BY <1>9 DEF Settles, Same, SameRest, SameMtx
<1>12. MtxOK(r, owner, mtxlist)
  BY <1>7, <1>11, SameMtxOK
<1>13. Stable(k', pc', api) /\ MtxOK(k', owner', mtxlist')
  BY <1>3, <1>10, <1>12 DEF mtxVars
<1>14. UNCHANGED MtxOthers
  BY <1>3 DEF MtxOthers, msgVars, evtVars, mbxVars, ioqVars
<1> QED
  BY <1>4, <1>13, <1>14, MtxRight

(* Ticks and returns keep the invariant with the mutexes.                   *)
LEMMA KeepsOwners ==
  ASSUME KInv, IInv', api' = api, SameMtx(k, k'), UNCHANGED mtxVars
  PROVE  KInv'
<1> SUFFICES ASSUME api' = "mtx"
             PROVE  MtxOK(k', owner', mtxlist')
  BY DEF KInv
<1>1. MtxOK(k, owner, mtxlist)
  BY DEF KInv
<1>2. MtxOK(k', owner, mtxlist)
  BY <1>1, SameMtxOK
<1> QED
  BY <1>2 DEF mtxVars

(* A tick leaves priorities and the mutexes' queues alone.                  *)
LEMMA TickSame ==
  ASSUME IInv, Tick
  PROVE  SameMtx(k, k')
<1> DEFINE h == chSysTimerHandlerI(k)
           r == CH_IRQ_EPILOGUE(h)
<1>1. KernelRight(k) /\ Placed(k, pc, api)
  BY DEF IInv
<1>2. Interrupts /\ k' = r
  BY DEF Tick
<1>3. k.due[k.current] = 0 /\ Listed(k, {}) /\ Counted(k) /\ TimersRight(k)
  BY <1>1, <1>2, InterruptIs DEF KernelRight
<1>4. PICK F : TimeGoesOn(k, h, F)
  BY <1>3, TickIs
<1>5. Listed(h, {})
  BY <1>4 DEF TimeGoesOn
<1>6. Settles(h, r)
  BY <1>5, SettlesI
<1> HIDE DEF h, r
<1>7. \A m \in Mutex : m \in Object
  BY MutexAssumption
<1> QED
  BY <1>2, <1>4, <1>6, <1>7 DEF TimeGoesOn, Settles, Same, SameRest, SameMtx

(* So does a thread that goes on after its wait.                            *)
LEMMA WokenSame ==
  ASSUME IInv, Woken
  PROVE  SameMtx(k, k')
<1> DEFINE r == AwakeOf(k)
<1>1. k \in KernelState /\ TimersAre(k.vt, k.due)
  BY DEF IInv, KernelRight, TimersRight, Listed
<1>2. k' = r
  BY DEF Woken, Awake, AwakeOf, me
<1>3. Resumed(k, r)
  BY <1>1, AwakeIs
<1> HIDE DEF r
<1> QED
  BY <1>2, <1>3 DEF Resumed, SameThreads, SameMtx

(* One mutex of those that a thread unlocks at once: the first that waits   *)
(* for it is ready, and has it in its stack.                                *)
FreeOne(y, m, t) == IF t = NoThread THEN y ELSE chSchReadyI([y EXCEPT !.q[m] = Tail(@)], t)
GiveOne(l, m, t) == IF t = NoThread THEN l ELSE [l EXCEPT ![t] = Stacked(m, @)]
Freed(kk, y, T) ==
  /\ Listed(y, {}) /\ y.current = kk.current
  /\ y.prio = kk.prio /\ y.realprio = kk.realprio
  /\ y.vt = kk.vt /\ y.due = kk.due /\ y.cnt = kk.cnt
  /\ \A o \in Object : y.q[o] = IF o \in T /\ kk.q[o] # <<>> THEN Tail(kk.q[o]) ELSE kk.q[o]
  /\ \A u \in Thread : View(y)[u] \in {View(kk)[u], "RUNS"}
Stacks(kk, c, l, T) ==
  /\ l \in [Thread -> Seq(Mutex)]
  /\ \A t \in Thread :
       /\ Once(l[t])
       /\ Members(l[t]) = (IF t = c THEN {} ELSE Members(mtxlist[t])) \cup {n \in T : To(kk, n) = t}

(* One more mutex is freed.                                                 *)
LEMMA FreedMore ==
  ASSUME NEW kk, Listed(kk, {}), NEW y, NEW T, Freed(kk, y, T), NEW m \in Mutex, m \notin T,
         NEW t, t = To(kk, m)
  PROVE  Freed(kk, FreeOne(y, m, t), T \cup {m})
<1>1. m \in Object /\ kk.q[m] \in Seq(Thread) /\ (kk.q[m] # <<>> => t \in Thread)
      /\ NoThread \notin Thread /\ y.q[m] = kk.q[m]
  BY MutexQueues, MutexAssumption DEF To, Freed
<1>2. Listed(y, {}) /\ y \in KernelState /\ y.q \in [Object -> Seq(Thread)]
  BY KernelIs DEF Freed, Listed
<1>3. CASE t = NoThread
  <2>1. FreeOne(y, m, t) = y /\ kk.q[m] = <<>>
    BY <1>1, <1>3 DEF FreeOne
  <2>2. \A o \in Object : y.q[o] = IF o \in T \cup {m} /\ kk.q[o] # <<>> THEN Tail(kk.q[o]) ELSE kk.q[o]
    BY <1>1, <2>1 DEF Freed
  <2> QED
    BY <2>1, <2>2 DEF Freed
<1>4. CASE t # NoThread
  <2> DEFINE w == [y.q EXCEPT ![m] = Tail(y.q[m])]
             e == [y EXCEPT !.q[m] = Tail(@)]
             z == chSchReadyI(e, t)
  <2>1. y.q[m] # <<>> /\ t = Head(y.q[m])
    BY <1>1, <1>4 DEF To
  <2>2. Tail(y.q[m]) \in Seq(Thread)
    BY <1>1, <2>1, TailPlaces
  <2>3. w \in [Object -> Seq(Thread)] /\ e = [y EXCEPT !.q = w] /\ w = [y.q EXCEPT ![m] = Tail(y.q[m])]
    BY <1>2, <2>2
  <2>4. FreeOne(y, m, t) = z
    BY <1>4 DEF FreeOne
  <2>5. \A o \in Object : w[o] = IF o \in T \cup {m} /\ kk.q[o] # <<>> THEN Tail(kk.q[o]) ELSE kk.q[o]
    BY <1>1, <1>2, <2>1 DEF Freed
  <2> HIDE DEF w, e
  <2>6. /\ e \in KernelState /\ SameThreads(y, e) /\ e.q = w /\ e.cnt = y.cnt /\ e.vt = y.vt
        /\ e.due = y.due /\ e.realprio = y.realprio
    BY <1>2, <2>3 DEF KernelState, SameThreads
  <2>7. MadeReady(y, e, z, {}, t)
    <3>1. e.q = [y.q EXCEPT ![m] = Tail(y.q[m])]
      BY <2>3, <2>6
    <3>2. MadeReady(y, e, chSchReadyI(e, Head(y.q[m])), {}, Head(y.q[m]))
      BY <1>1, <1>2, <2>1, <2>6, <3>1, FirstReady
    <3> QED
      BY <2>1, <3>2
  <2> HIDE DEF z
  <2>8. \A u \in Thread : View(z)[u] \in {View(y)[u], "RUNS"}
    BY <2>7 DEF MadeReady, View
  <2>9. Listed(z, {}) /\ SameRest(e, z) /\ z.current = y.current
    BY <2>7 DEF MadeReady
  <2>10. Freed(kk, z, T \cup {m})
    BY <2>5, <2>6, <2>8, <2>9 DEF Freed, SameRest, SameThreads
  <2> QED
    BY <2>4, <2>10
<1> QED
  BY <1>3, <1>4

(* One more mutex is in the stack of its new owner.                         *)
LEMMA StacksMore ==
  ASSUME NEW kk, Listed(kk, {}), Owned(kk.q, owner, mtxlist), NEW l, NEW T \in SUBSET Mutex,
         Stacks(kk, kk.current, l, T), NEW m \in Mutex, m \notin T, owner[m] = kk.current,
         NEW t, t = To(kk, m)
  PROVE  Stacks(kk, kk.current, GiveOne(l, m, t), T \cup {m})
<1> DEFINE c == kk.current
<1>1. (kk.q[m] # <<>> => t \in Thread \ {c}) /\ NoThread \notin Thread /\ c \in Thread
  BY MutexQueues, MutexAssumption, KernelIs DEF To, Listed
<1>2. /\ l \in [Thread -> Seq(Mutex)]
      /\ \A u \in Thread :
           /\ Once(l[u])
           /\ Members(l[u]) = (IF u = c THEN {} ELSE Members(mtxlist[u])) \cup {n \in T : To(kk, n) = u}
  BY DEF Stacks
<1>3. \A u \in Thread : {n \in T \cup {m} : To(kk, n) = u}
                          = {n \in T : To(kk, n) = u} \cup (IF u = t THEN {m} ELSE {})
  OBVIOUS
<1>4. CASE t = NoThread
  <2>1. \A u \in Thread : {n \in T \cup {m} : To(kk, n) = u} = {n \in T : To(kk, n) = u}
    BY <1>1, <1>4
  <2>2. GiveOne(l, m, t) = l
    BY <1>4 DEF GiveOne
  <2> QED
    BY <1>2, <2>1, <2>2 DEF Stacks
<1>5. CASE t # NoThread
  <2> DEFINE x == l[t]
             g == Stacked(m, x)
             z == [l EXCEPT ![t] = g]
  <2>1. t \in Thread /\ t # c
    BY <1>1, <1>5 DEF To
  <2>2. x \in Seq(Mutex) /\ Once(x) /\ Members(x) = Members(mtxlist[t]) \cup {n \in T : To(kk, n) = t}
    BY <1>2, <2>1
  <2>3. m \notin Members(x)
    BY <2>1, <2>2 DEF Owned
  <2>4. GiveOne(l, m, t) = z
    BY <1>5 DEF GiveOne
  <2> HIDE DEF x
  <2>5. g \in Seq(Mutex) /\ Members(g) = Members(x) \cup {m} /\ Once(g)
    BY <2>2, <2>3, StackedIs
  <2> HIDE DEF g
  <2>6. z \in [Thread -> Seq(Mutex)] /\ \A u \in Thread : z[u] = IF u = t THEN g ELSE l[u]
    BY <1>2, <2>5
  <2> HIDE DEF z, c
  <2>7. ASSUME NEW u \in Thread
        PROVE  /\ Once(z[u])
               /\ Members(z[u]) = (IF u = c THEN {} ELSE Members(mtxlist[u]))
                                    \cup {n \in T \cup {m} : To(kk, n) = u}
    <3>1. CASE u = t
      BY <1>3, <2>1, <2>2, <2>5, <2>6, <3>1
    <3>2. CASE u # t
      <4>1. {n \in T \cup {m} : To(kk, n) = u} = {n \in T : To(kk, n) = u}
        BY <1>3, <3>2
      <4> QED
        BY <1>2, <2>6, <3>2, <4>1
    <3> QED
      BY <3>1, <3>2
  <2>8. Stacks(kk, c, z, T \cup {m})
    BY <2>6, <2>7 DEF Stacks
  <2> QED
    BY <2>4, <2>8 DEF c
<1> QED
  BY <1>4, <1>5

(* The loop over the stack frees every mutex in it.                         *)
Frees(f, kk, s, to) ==
  f = CHOOSE g : g = [i \in 0..Len(s) |-> IF i = 0 THEN kk ELSE FreeOne(g[i - 1], s[i], to[i])]
AfterFreed(kk, s, i) == {y \in KernelState : Freed(kk, y, First(s, i))}

(* The loop frees every mutex of the stack.                                 *)
LEMMA AllFreed ==
  ASSUME NEW kk, Listed(kk, {}), NEW s \in Seq(Mutex), Once(s), NEW to,
         \A i \in 1..Len(s) : to[i] = To(kk, s[i]), NEW f, Frees(f, kk, s, to)
  PROVE  Freed(kk, f[Len(s)], Members(s))
<1> DEFINE n == Len(s)
           W(y, i) == FreeOne(y, s[i], to[i])
           H == [i \in 0..n |-> AfterFreed(kk, s, i)]
           G == [i \in 1..n |-> [y \in H[i - 1] |-> W(y, i)]]
           E(g) == g = [i \in 0..n |-> IF i = 0 THEN kk ELSE W(g[i - 1], i)]
<1>0. n \in Nat /\ DOMAIN s = 1..n /\ (\A i \in 1..n : s[i] \in Mutex /\ to[i] = To(kk, s[i]))
      /\ \A i, j \in 1..n : s[i] = s[j] => i = j
  BY DEF Once
<1>01. f = CHOOSE g : E(g)
  BY DEF Frees
<1>02. First(s, n) = Members(s)
  BY <1>0 DEF First, Members
<1> HIDE DEF n
<1>1. kk \in H[0]
  <2>1. First(s, 0) = {}
    BY DEF First
  <2>2. Freed(kk, kk, {})
    BY DEF Freed
  <2>3. kk \in KernelState /\ 0 \in 0..n
    BY <1>0 DEF Listed
  <2> QED
    BY <2>1, <2>2, <2>3 DEF AfterFreed
<1>2. ASSUME NEW i \in 1..n, NEW y \in H[i - 1]
      PROVE  W(y, i) \in H[i]
  <2> DEFINE m == s[i]
             t == to[i]
             X == First(s, i - 1)
             z == W(y, i)
  <2>1. i - 1 \in 0..n /\ i \in 0..n
    BY <1>0
  <2>2. Freed(kk, y, X) /\ m \in Mutex /\ t = To(kk, m)
    BY <1>0, <1>2, <2>1 DEF AfterFreed
  <2>3. First(s, i) = X \cup {m} /\ m \notin X
    BY <1>0, FirstIs
  <2>4. z = FreeOne(y, m, t)
    OBVIOUS
  <2> HIDE DEF X, m, t, z
  <2>5. Freed(kk, z, First(s, i))
    BY <2>2, <2>3, <2>4, FreedMore
  <2>6. z \in KernelState
    BY <2>5 DEF Freed, Listed
  <2> QED
    BY <2>1, <2>5, <2>6 DEF AfterFreed, z
<1> HIDE DEF H, W
<1>3. \A i \in 1..n : G[i] \in [H[i - 1] -> H[i]]
  BY <1>2
<1>4. \A i \in 1..n : \A y \in H[i - 1] : G[i][y] = W(y, i)
  OBVIOUS
<1> HIDE DEF G
<1>5. PICK g : Looped(g, n, kk, H, G)
  BY <1>0, <1>1, <1>3, LoopRuns
<1>6. E(g)
  <2>1. /\ g = [i \in 0..n |-> g[i]] /\ g[0] = kk
        /\ \A i \in 1..n : g[i - 1] \in H[i - 1] /\ g[i] = G[i][g[i - 1]]
    BY <1>5 DEF Looped
  <2>2. \A i \in 0..n : g[i] = IF i = 0 THEN kk ELSE W(g[i - 1], i)
    <3> SUFFICES ASSUME NEW i \in 0..n, i # 0
                 PROVE  g[i] = W(g[i - 1], i)
      BY <2>1
    <3>1. i \in 1..n
      BY <1>0
    <3> QED
      BY <1>4, <2>1, <3>1
  <2> QED
    BY <2>1, <2>2
<1>7. E(f)
  BY <1>01, <1>6
<1>8. f[0] = kk /\ \A i \in 1..n : f[i] = W(f[i - 1], i)
  <2>1. f = [i \in 0..n |-> IF i = 0 THEN kk ELSE W(f[i - 1], i)]
    BY <1>7
  <2> HIDE DEF E
  <2>2. \A i \in 0..n : f[i] = IF i = 0 THEN kk ELSE W(f[i - 1], i)
    BY <2>1
  <2>3. 0 \in 0..n /\ \A i \in 1..n : i \in 0..n /\ i # 0
    BY <1>0
  <2> QED
    BY <2>2, <2>3
<1> HIDE DEF E
<1>9. f[n] \in H[n] /\ n \in 0..n
  <2>1. \A i \in 1..n : f[i - 1] \in H[i - 1] => f[i] \in H[i]
    BY <1>2, <1>8
  <2>2. f[0] \in H[0]
    BY <1>1, <1>8
  <2>3. \A i \in 0..n : f[i] \in H[i]
    BY <1>0, <2>1, <2>2, LoopStays
  <2> QED
    BY <1>0, <2>3
<1>10. Freed(kk, f[n], First(s, n))
  BY <1>9 DEF H, AfterFreed
<1> QED
  BY <1>02, <1>10 DEF n

(* The second loop over the stack fills those of the new owners.            *)
Gives(f, l, s, to) ==
  f = CHOOSE g : g = [i \in 0..Len(s) |-> IF i = 0 THEN l ELSE GiveOne(g[i - 1], s[i], to[i])]
AfterGiven(kk, s, i) == {l \in [Thread -> Seq(Mutex)] : Stacks(kk, kk.current, l, First(s, i))}

(* The loop puts every mutex into the stack of its new owner.               *)
LEMMA AllGiven ==
  ASSUME NEW kk, Listed(kk, {}), Owned(kk.q, owner, mtxlist), NEW s, s = mtxlist[kk.current],
         NEW to, \A i \in 1..Len(s) : to[i] = To(kk, s[i]),
         NEW f, Gives(f, [mtxlist EXCEPT ![kk.current] = <<>>], s, to)
  PROVE  Stacks(kk, kk.current, f[Len(s)], Members(s))
<1> DEFINE n == Len(s)
           x == [mtxlist EXCEPT ![kk.current] = <<>>]
           W(y, i) == GiveOne(y, s[i], to[i])
           H == [i \in 0..n |-> AfterGiven(kk, s, i)]
           G == [i \in 1..n |-> [y \in H[i - 1] |-> W(y, i)]]
           E(g) == g = [i \in 0..n |-> IF i = 0 THEN x ELSE W(g[i - 1], i)]
<1>0. /\ s \in Seq(Mutex) /\ Once(s) /\ mtxlist \in [Thread -> Seq(Mutex)] /\ kk.current \in Thread
      /\ (\A u \in Thread : Once(mtxlist[u])) /\ \A m \in Members(s) : owner[m] = kk.current
  <2>1. kk.current \in Thread
    BY KernelIs DEF Listed
  <2>2. s \in Seq(Mutex) /\ Once(s)
    BY <2>1 DEF Owned
  <2>3. Members(s) \subseteq Mutex
    BY <2>2, MembersAre
  <2> QED
    BY <2>1, <2>2, <2>3 DEF Owned
<1>00. n \in Nat /\ DOMAIN s = 1..n
       /\ (\A i \in 1..n : s[i] \in Mutex /\ to[i] = To(kk, s[i]) /\ owner[s[i]] = kk.current)
  BY <1>0 DEF Members
<1>03. \A i, j \in 1..n : s[i] = s[j] => i = j
  BY <1>0, <1>00, Zenon DEF Once
<1>01. f = CHOOSE g : E(g)
  BY DEF Gives
<1>02. First(s, n) = Members(s)
  BY <1>00 DEF First, Members
<1> HIDE DEF n
<1>1. x \in H[0]
  <2>1. First(s, 0) = {} /\ <<>> \in Seq(Mutex) /\ Once(<<>>) /\ Members(<<>>) = {}
    BY DEF First, Once, Members
  <2>2. x \in [Thread -> Seq(Mutex)] /\ \A u \in Thread : x[u] = IF u = kk.current THEN <<>> ELSE mtxlist[u]
    BY <1>0, <2>1
  <2> HIDE DEF x
  <2>3. Stacks(kk, kk.current, x, {})
    BY <1>0, <2>1, <2>2 DEF Stacks
  <2>4. 0 \in 0..n
    BY <1>00
  <2> QED
    BY <2>1, <2>2, <2>3, <2>4 DEF AfterGiven
<1>2. ASSUME NEW i \in 1..n, NEW y \in H[i - 1]
      PROVE  W(y, i) \in H[i]
  <2> DEFINE m == s[i]
             t == to[i]
             X == First(s, i - 1)
             z == W(y, i)
  <2>1. i - 1 \in 0..n /\ i \in 0..n
    BY <1>00
  <2>2. Stacks(kk, kk.current, y, X) /\ m \in Mutex /\ t = To(kk, m) /\ owner[m] = kk.current
    BY <1>00, <1>2, <2>1 DEF AfterGiven
  <2>3. First(s, i) = X \cup {m} /\ m \notin X
    <3>1. \A v : (\A j, h \in 1..n : v[j] = v[h] => j = h) =>
                  First(v, i) = First(v, i - 1) \cup {v[i]} /\ v[i] \notin First(v, i - 1)
      BY <1>00, FirstIs
    <3> QED
      BY <1>03, <3>1, Zenon
  <2>4. z = GiveOne(y, m, t)
    OBVIOUS
  <2>5. X \in SUBSET Mutex
    <3>1. \A j \in 1..(i - 1) : j \in 1..n
      BY <1>00
    <3> QED
      BY <1>00, <3>1 DEF First
  <2> HIDE DEF X, m, t, z
  <2>6. Stacks(kk, kk.current, z, First(s, i))
    <3>1. Stacks(kk, kk.current, GiveOne(y, m, t), X \cup {m})
      BY <2>2, <2>3, <2>5, StacksMore
    <3> QED
      BY <2>3, <2>4, <3>1
  <2>7. z \in [Thread -> Seq(Mutex)]
    BY <2>6 DEF Stacks
  <2> QED
    BY <2>1, <2>6, <2>7 DEF AfterGiven, z
<1> HIDE DEF H, W, x
<1>3. \A i \in 1..n : G[i] \in [H[i - 1] -> H[i]]
  BY <1>2
<1>4. \A i \in 1..n : \A y \in H[i - 1] : G[i][y] = W(y, i)
  OBVIOUS
<1> HIDE DEF G
<1>5. PICK g : Looped(g, n, x, H, G)
  BY <1>00, <1>1, <1>3, LoopRuns
<1>6. E(g)
  <2>1. /\ g = [i \in 0..n |-> g[i]] /\ g[0] = x
        /\ \A i \in 1..n : g[i - 1] \in H[i - 1] /\ g[i] = G[i][g[i - 1]]
    BY <1>5 DEF Looped
  <2>2. \A i \in 0..n : g[i] = IF i = 0 THEN x ELSE W(g[i - 1], i)
    <3> SUFFICES ASSUME NEW i \in 0..n, i # 0
                 PROVE  g[i] = W(g[i - 1], i)
      BY <2>1
    <3>1. i \in 1..n
      BY <1>00
    <3> QED
      BY <1>4, <2>1, <3>1
  <2> QED
    BY <2>1, <2>2
<1>7. E(f)
  BY <1>01, <1>6
<1>8. f[0] = x /\ \A i \in 1..n : f[i] = W(f[i - 1], i)
  <2>1. f = [i \in 0..n |-> IF i = 0 THEN x ELSE W(f[i - 1], i)]
    BY <1>7
  <2> HIDE DEF E
  <2>2. \A i \in 0..n : f[i] = IF i = 0 THEN x ELSE W(f[i - 1], i)
    BY <2>1
  <2>3. 0 \in 0..n /\ \A i \in 1..n : i \in 0..n /\ i # 0
    BY <1>00
  <2> QED
    BY <2>2, <2>3
<1> HIDE DEF E
<1>9. f[n] \in H[n] /\ n \in 0..n
  <2>1. \A i \in 1..n : f[i - 1] \in H[i - 1] => f[i] \in H[i]
    BY <1>2, <1>8
  <2>2. f[0] \in H[0]
    BY <1>1, <1>8
  <2>3. \A i \in 0..n : f[i] \in H[i]
    BY <1>00, <2>1, <2>2, LoopStays
  <2> QED
    BY <1>00, <2>3
<1>10. Stacks(kk, kk.current, f[n], First(s, n))
  BY <1>9 DEF H, AfterGiven
<1> QED
  BY <1>02, <1>10 DEF n

(* What the call to unlock all mutexes computes.                            *)
AllUnlocked(s, to, f, g) ==
  /\ s = mtxlist[me] /\ to = [i \in DOMAIN s |-> To(k, s[i])]
  /\ Frees(f, k, s, to) /\ Gives(g, [mtxlist EXCEPT ![me] = <<>>], s, to)
  /\ owner' = [m \in Mutex |-> IF m \in Members(s) THEN to[CHOOSE i \in DOMAIN s : s[i] = m]
                               ELSE owner[m]]
  /\ mtxlist' = g[Len(s)]
  /\ k' = chSchRescheduleS([f[Len(s)] EXCEPT !.prio[me] = k.realprio[me]])

(* chMtxUnlockAll is these two loops.                                       *)
LEMMA AllUnlockedIs ==
  ASSUME chMtxUnlockAll
  PROVE  \E s, to, f, g : AllUnlocked(s, to, f, g)
<1> DEFINE s == mtxlist[me]
           to == [i \in DOMAIN s |-> IF k.q[s[i]] = <<>> THEN NoThread ELSE Head(k.q[s[i]])]
           x == [mtxlist EXCEPT ![me] = <<>>]
           f == CHOOSE h : h = [i \in 0..Len(s) |->
                  IF i = 0 THEN k
                  ELSE IF to[i] = NoThread THEN h[i - 1]
                  ELSE chSchReadyI([h[i - 1] EXCEPT !.q[s[i]] = Tail(@)], to[i])]
           g == CHOOSE h : h = [i \in 0..Len(s) |->
                  IF i = 0 THEN x
                  ELSE IF to[i] = NoThread THEN h[i - 1]
                  ELSE [h[i - 1] EXCEPT ![to[i]] = Stacked(s[i], @)]]
<1>1. /\ owner' = [m \in Mutex |-> IF m \in Members(s) THEN to[CHOOSE i \in DOMAIN s : s[i] = m]
                                   ELSE owner[m]]
      /\ mtxlist' = g[Len(s)]
      /\ k' = chSchRescheduleS([f[Len(s)] EXCEPT !.prio[me] = k.realprio[me]])
  BY Zenon DEF chMtxUnlockAll, OwnPrio
<1>2. to = [i \in DOMAIN s |-> To(k, s[i])]
  BY DEF To
<1>3. Frees(f, k, s, to)
  BY DEF Frees, FreeOne
<1>4. Gives(g, x, s, to)
  BY DEF Gives, GiveOne
<1> HIDE DEF f, g, to
<1>5. AllUnlocked(s, to, f, g)
  BY <1>1, <1>2, <1>3, <1>4, Zenon DEF AllUnlocked
<1> QED
  BY <1>5

(* Every mutex goes to the first thread that waits for it, and the thread   *)
(* that unlocked them has its own priority again.                           *)
LEMMA UnlockAllRight ==
  ASSUME KInv, api = "mtx", api' = api, UNCHANGED MtxOthers, chMtxUnlockAll
  PROVE  KInv'
<1>1. PICK s, to, f, g : AllUnlocked(s, to, f, g)
  BY AllUnlockedIs
<1>2. /\ IInv /\ Stable(k, pc, "mtx") /\ Caller(k, pc) /\ me = k.current
      /\ me \in Thread /\ Listed(k, {}) /\ MtxOK(k, owner, mtxlist) /\ Changed(k, k, "mtx")
      /\ pc' = pc
  BY MtxCalled DEF chMtxUnlockAll
<1>3. Owned(k.q, owner, mtxlist) /\ Inherits(k, owner)
  BY <1>2 DEF MtxOK
<1> DEFINE y == f[Len(s)]
           M == Members(s)
           x == k.realprio[me]
           h == [y EXCEPT !.prio[me] = x]
           r == chSchRescheduleS(h)
<1>4. /\ s = mtxlist[k.current] /\ s \in Seq(Mutex) /\ Once(s) /\ DOMAIN s = 1..Len(s)
      /\ to = [i \in DOMAIN s |-> To(k, s[i])]
  BY <1>1, <1>2, <1>3 DEF AllUnlocked, Owned
<1>5. \A i \in 1..Len(s) : to[i] = To(k, s[i])
  BY <1>4
<1>6. Freed(k, y, M)
  <2>1. Frees(f, k, s, to)
    BY <1>1 DEF AllUnlocked
  <2> QED
    BY <1>2, <1>4, <1>5, <2>1, AllFreed
<1>7. Stacks(k, k.current, mtxlist', M)
  <2>1. Gives(g, [mtxlist EXCEPT ![k.current] = <<>>], s, to) /\ mtxlist' = g[Len(s)]
    BY <1>1, <1>2 DEF AllUnlocked
  <2> QED
    BY <1>2, <1>3, <1>4, <1>5, <2>1, AllGiven
<1>8. M \in SUBSET Mutex /\ \A m \in Mutex : m \in M <=> owner[m] = k.current
  BY <1>2, <1>3, <1>4, MembersAre DEF Owned
<1>9. NewOwners(k, owner, owner', M)
  <2>1. owner' = [m \in Mutex |-> IF m \in M THEN to[CHOOSE i \in DOMAIN s : s[i] = m]
                                  ELSE owner[m]]
    BY <1>1 DEF AllUnlocked
  <2>2. ASSUME NEW m \in M
        PROVE  to[CHOOSE i \in DOMAIN s : s[i] = m] = To(k, m)
    <3>1. \E i \in DOMAIN s : s[i] = m
      BY DEF Members
    <3> DEFINE j == CHOOSE i \in DOMAIN s : s[i] = m
    <3>2. j \in DOMAIN s /\ s[j] = m
      BY <3>1
    <3> HIDE DEF j
    <3>3. to[j] = To(k, m)
      BY <1>4, <3>2
    <3> QED
      BY <3>3 DEF j
  <2> HIDE DEF M
  <2> QED
    BY <2>1, <2>2 DEF NewOwners
<1>10. NewLists(k, mtxlist, mtxlist', M, k.current)
  <2>1. \A m \in Mutex : To(k, m) # k.current
    BY <1>2, MutexQueues, MutexAssumption, KernelIs DEF To, Listed
  <2>2. Members(mtxlist[k.current]) \ M = {}
    BY <1>4
  <2>3. {n \in M : To(k, n) = k.current} = {}
    BY <1>8, <2>1
  <2> HIDE DEF M
  <2> QED
    BY <1>7, <2>2, <2>3 DEF Stacks, NewLists
<1>11. x \in Prios /\ k \in KernelState /\ k.prio \in [Thread -> Prios]
  BY <1>2, KernelIs DEF Listed
<1>12. LeftWith(k, owner, k.current, M, x)
  BY <1>2, <1>3, <1>8, <1>11 DEF LeftWith, Inherits, Prios
<1> HIDE DEF M, x, y
<1>13. /\ y \in KernelState /\ Listed(y, {}) /\ y.current = me
       /\ y.prio = k.prio /\ y.realprio = k.realprio
       /\ y.vt = k.vt /\ y.due = k.due /\ y.cnt = k.cnt
  BY <1>2, <1>6 DEF Freed, Listed
<1>14. h \in KernelState /\ h.state = y.state /\ h.ready = y.ready /\ h.current = y.current
       /\ h.q = y.q /\ h.prio = [y.prio EXCEPT ![y.current] = x] /\ h.realprio = y.realprio
       /\ h.vt = y.vt /\ h.due = y.due /\ h.cnt = y.cnt
  BY <1>11, <1>13 DEF KernelState
<1> HIDE DEF h
<1>15. Listed(h, {}) /\ View(h) = View(y)
  BY <1>13, <1>14, RunningPrio
<1>16. GivenUp(k, h, M, k.current, x)
  <2>1. \A n \in Mutex : n \in Object
    BY MutexAssumption
  <2> QED
    BY <1>2, <1>6, <1>13, <1>14, <2>1 DEF GivenUp, Freed
<1>17. MtxOK(h, owner', mtxlist')
  <2>1. Inherits(h, owner')
    BY <1>2, <1>3, <1>8, <1>9, <1>12, <1>16, GivenUpInherits DEF Owned
  <2>2. Owned(h.q, owner', mtxlist')
    BY <1>2, <1>3, <1>8, <1>9, <1>10, <1>16, GivenUpOwned
  <2> QED
    BY <2>1, <2>2 DEF MtxOK
<1>18. Changed(k, h, "mtx")
  <2>1. Counted(h) /\ TimersAre(h.vt, h.due)
    <3>1. \A o \in Sem : o \in Object /\ o \notin M
      BY <1>8, ThreadAssumption, MutexAssumption
    <3>2. \A o \in Sem : h.q[o] = k.q[o]
      BY <1>6, <1>14, <3>1 DEF Freed
    <3>3. Counted(k) /\ TimersAre(k.vt, k.due)
      BY <1>2 DEF Changed
    <3>4. h.cnt = k.cnt
      BY <1>13, <1>14
    <3> QED
      BY <1>13, <1>14, <3>2, <3>3, <3>4 DEF Counted
  <2>2. \A o \in Object : o \in ObjectsOf("mtx") \/ h.q[o] = <<>>
    <3>1. \A o \in Object : o \in ObjectsOf("mtx") \/ k.q[o] = <<>>
      BY <1>2 DEF Changed
    <3>2. \A o \in Object : k.q[o] = <<>> => h.q[o] = <<>>
      BY <1>6, <1>14 DEF Freed
    <3> QED
      BY <3>1, <3>2
  <2>3. Frame(k, h, Thread)
    BY <1>6, <1>13, <1>14, <1>15 DEF Frame, Freed
  <2> QED
    BY <1>15, <2>1, <2>2, <2>3 DEF Changed
<1>19. Settles(h, r)
  BY <1>15, SettlesS
<1>20. k' = r
  BY <1>1 DEF AllUnlocked, h, x, y
<1> HIDE DEF r
<1>21. Stable(r, pc, "mtx")
  BY <1>2, <1>18, <1>19, Stays
<1>22. SameMtx(h, r)
  BY <1>19 DEF Settles, Same, SameRest, SameMtx
<1>23. MtxOK(r, owner', mtxlist')
  BY <1>17, <1>22, SameMtxOK
<1> QED
  BY <1>2, <1>20, <1>21, <1>23, MtxRight

(* Every call on mutexes and condition variables keeps the invariant.       *)
LEMMA MtxCallsRight ==
  ASSUME KInv, api = "mtx", api' = api, MtxCalls, UNCHANGED <<msgVars, evtVars, mbxVars, ioqVars>>
  PROVE  KInv'
<1>1. UNCHANGED <<waiting, systime>> => UNCHANGED MtxOthers
  BY DEF msgVars, evtVars, mbxVars, ioqVars, MtxOthers
<1>2. ASSUME NEW m \in Mutex, chMtxLock(m)
      PROVE  KInv'
  <2>1. UNCHANGED MtxOthers
    BY <1>1, <1>2 DEF chMtxLock
  <2> QED
    BY <1>2, <2>1, LockRight
<1>3. ASSUME NEW m \in Mutex, chMtxTryLock(m)
      PROVE  KInv'
  <2>1. UNCHANGED MtxOthers
    BY <1>1, <1>3 DEF chMtxTryLock, threadVars
  <2> QED
    BY <1>3, <2>1, TryLockRight
<1>4. CASE chMtxUnlock
  <2>1. UNCHANGED MtxOthers
    BY <1>1, <1>4 DEF chMtxUnlock
  <2> QED
    BY <1>4, <2>1, UnlockRight
<1>5. CASE chMtxUnlockAll
  <2>1. UNCHANGED MtxOthers
    BY <1>1, <1>5 DEF chMtxUnlockAll
  <2> QED
    BY <1>5, <2>1, UnlockAllRight
<1>6. ASSUME NEW c \in CondVar, NEW time \in Time \cup {Infinite}, chCondWait(c, time)
      PROVE  KInv'
  <2>1. UNCHANGED MtxOthers
    BY <1>1, <1>6 DEF chCondWait
  <2> QED
    BY <1>6, <2>1, CondWaitRight
<1>7. ASSUME NEW c \in CondVar, chCondSignal(c)
      PROVE  KInv'
  <2>1. UNCHANGED MtxOthers
    BY <1>1, <1>7 DEF chCondSignal
  <2> QED
    BY <1>7, <2>1, CondSignalRight
<1>8. ASSUME NEW c \in CondVar, chCondBroadcast(c)
      PROVE  KInv'
  <2>1. UNCHANGED MtxOthers
    BY <1>1, <1>8 DEF chCondBroadcast
  <2> QED
    BY <1>8, <2>1, CondBroadcastRight
<1>9. ASSUME NEW c \in CondVar, CondIsr(c)
      PROVE  KInv'
  <2>1. UNCHANGED MtxOthers
    BY <1>1, <1>9 DEF CondIsr
  <2> QED
    BY <1>9, <2>1, CondIsrRight
<1>10. CASE CondWoken
  <2>1. UNCHANGED MtxOthers
    BY <1>1, <1>10 DEF CondWoken
  <2> QED
    BY <1>10, <2>1, CondWokenRight
<1> QED
  BY <1>2, <1>3, <1>4, <1>5, <1>6, <1>7, <1>8, <1>9, <1>10, Zenon DEF MtxCalls

(* The first i of the threads w have been created.                         *)
Begun(y, n, w, i) ==
  /\ Listed(y, {}) /\ HighestCurrent(y) /\ y.q = [o \in Object |-> <<>>]
  /\ y.cnt = n /\ y.vt = <<>> /\ y.due = [t \in Thread |-> 0] /\ y.prio = y.realprio
  /\ \A t \in Thread : View(y)[t] \in {"NONE", "RUNS"}
  /\ \A j \in i + 1..Len(w) : View(y)[w[j].thd] = "NONE"

Jobs == [thd : Thread \ {Main, Idle}, prio : 1..HIGHPRIO]
Distinct(w) == \A i, j \in DOMAIN w : w[i].thd = w[j].thd => i = j

(* One more thread that main has created.                                   *)
LEMMA OneBegun ==
  ASSUME NEW n, NEW w \in Seq(Jobs), Distinct(w), NEW i \in 1..Len(w),
         NEW y, Begun(y, n, w, i - 1)
  PROVE  Begun(Created(y, w[i].thd, w[i].prio), n, w, i)
<1> DEFINE t == w[i].thd
           p == w[i].prio
           r == Created(y, t, p)
<1>1. t \in Thread /\ p \in Prios /\ i \in (i - 1) + 1..Len(w) /\ Len(w) \in Nat
      /\ \A j \in 1..Len(w) : w[j] \in Jobs
  <2>1. Len(w) \in Nat /\ \A j \in 1..Len(w) : w[j] \in Jobs
    OBVIOUS
  <2>2. \A x \in Jobs : x.thd \in Thread /\ x.prio \in Prios
    BY DEF Jobs, Prios
  <2>3. i \in (i - 1) + 1..Len(w)
    BY <2>1
  <2> QED
    BY <2>1, <2>2, <2>3
<1>2. View(y)[t] = "NONE"
  BY <1>1 DEF Begun
<1>3. y.state[t] = "NONE"
  BY <1>1, <1>2 DEF View
<1>4. Listed(y, {}) /\ HighestCurrent(y)
  BY DEF Begun
<1>5. \A j \in i + 1..Len(w) : j \in (i - 1) + 1..Len(w) /\ w[j].thd # t /\ w[j].thd \in Thread
  BY <1>1 DEF Distinct, Jobs
<1> HIDE DEF t, p
<1>6. /\ Made(y, r, t, p) /\ View(r) = [View(y) EXCEPT ![t] = "RUNS"]
      /\ r.msg = [y.msg EXCEPT ![t] = "OK"]
  BY <1>1, <1>3, <1>4, CreatedIs
<1> HIDE DEF r
<1>7. \A u \in Thread : View(r)[u] = IF u = t THEN "RUNS" ELSE View(y)[u]
  BY <1>6 DEF View
<1>8. r.prio = r.realprio
  BY <1>6 DEF Made, Begun
<1>9. \A u \in Thread : View(r)[u] \in {"NONE", "RUNS"}
  BY <1>7 DEF Begun
<1>10. \A j \in i + 1..Len(w) : View(r)[w[j].thd] = "NONE"
  BY <1>5, <1>7 DEF Begun
<1>11. Begun(r, n, w, i)
  BY <1>6, <1>8, <1>9, <1>10 DEF Begun, Made
<1> QED
  BY <1>11 DEF r, t, p

(* Main's threads are ready when the system starts.                         *)
LEMMA StartedIs ==
  ASSUME NEW g \in Group
  PROVE  Begun(Started(g), InitialCounts(g), Workers[g], Len(Workers[g]))
<1> DEFINE w == Workers[g]
           n == Len(w)
           cs == InitialCounts(g)
           x == [Booted EXCEPT !.cnt = cs]
           W(y, i) == Created(y, w[i].thd, w[i].prio)
           f == CHOOSE h : h = [i \in 0..n |-> IF i = 0 THEN x ELSE W(h[i - 1], i)]
           H == [i \in 0..n |-> {y \in KernelState : Begun(y, cs, w, i)}]
           G == [i \in 1..n |-> [y \in H[i - 1] |-> W(y, i)]]
           E(h) == h = [i \in 0..n |-> IF i = 0 THEN x ELSE W(h[i - 1], i)]
<1>1. w \in Seq(Jobs) /\ Distinct(w) /\ n \in Nat
  <2>1. w \in Seq([thd : Thread \ {Main, Idle}, prio : 1..HIGHPRIO])
    BY KernelAssumption
  <2>2. w \in Seq(Jobs)
    BY <2>1 DEF Jobs
  <2> QED
    BY <2>2, KernelAssumption DEF Distinct
<1>2. Started(g) = f[n]
  BY Zenon DEF Started
<1>3. x \in H[0]
  <2>1. cs \in [Sem -> Nat]
    BY SizeAssumption DEF InitialCounts
  <2> HIDE DEF cs
  <2>2. /\ Listed(x, {}) /\ HighestCurrent(x) /\ x.q = [o \in Object |-> <<>>]
        /\ x.cnt = cs /\ x.vt = <<>> /\ x.due = [t \in Thread |-> 0] /\ x.prio = x.realprio
        /\ x.state = [t \in Thread |-> IF t = Main THEN "CURRENT"
                                       ELSE IF t = Idle THEN "READY" ELSE "NONE"]
    BY <2>1, BootedIs
  <2> HIDE DEF x
  <2>3. \A t \in Thread : View(x)[t] \in {"NONE", "RUNS"}
                          /\ (t # Main /\ t # Idle => View(x)[t] = "NONE")
    BY <2>2 DEF View, Runs
  <2>4. \A j \in 0 + 1..Len(w) : w[j].thd \in Thread /\ w[j].thd # Main /\ w[j].thd # Idle
    <3>1. \A j \in 1..Len(w) : w[j] \in Jobs
      BY <1>1
    <3>2. \A j \in Jobs : j.thd \in Thread /\ j.thd # Main /\ j.thd # Idle
      BY DEF Jobs
    <3> HIDE DEF w
    <3> QED
      BY <3>1, <3>2
  <2> HIDE DEF w, n
  <2>5. Begun(x, cs, w, 0)
    BY <2>2, <2>3, <2>4 DEF Begun
  <2>6. x \in KernelState /\ 0 \in 0..n
    BY <1>1, <2>2 DEF Listed
  <2> QED
    BY <2>5, <2>6
<1> HIDE DEF cs, x
<1>4. ASSUME NEW i \in 1..n, NEW y \in H[i - 1]
      PROVE  W(y, i) \in H[i]
  <2>1. i - 1 \in 0..n /\ i \in 0..n /\ i \in 1..Len(w)
    BY <1>1
  <2> HIDE DEF w, n
  <2>2. Begun(y, cs, w, i - 1)
    BY <1>4, <2>1
  <2>3. Begun(Created(y, w[i].thd, w[i].prio), cs, w, i)
    BY <1>1, <2>1, <2>2, OneBegun
  <2> DEFINE z == Created(y, w[i].thd, w[i].prio)
  <2>4. Begun(z, cs, w, i)
    BY <2>3
  <2> HIDE DEF z
  <2>5. z \in KernelState
    BY <2>4 DEF Begun, Listed
  <2>6. z \in H[i]
    BY <2>1, <2>4, <2>5
  <2> QED
    BY <2>6 DEF z
<1> HIDE DEF H, W, n, f, w
<1>5. \A i \in 1..n : G[i] \in [H[i - 1] -> H[i]]
  BY <1>4
<1>6. \A i \in 1..n : \A y \in H[i - 1] : G[i][y] = W(y, i)
  OBVIOUS
<1> HIDE DEF G
<1>7. PICK h : Looped(h, n, x, H, G)
  BY <1>1, <1>3, <1>5, LoopRuns
<1>8. E(h)
  <2>1. /\ h = [i \in 0..n |-> h[i]] /\ h[0] = x
        /\ \A i \in 1..n : h[i - 1] \in H[i - 1] /\ h[i] = G[i][h[i - 1]]
    BY <1>7 DEF Looped
  <2>2. \A i \in 0..n : h[i] = IF i = 0 THEN x ELSE W(h[i - 1], i)
    <3> SUFFICES ASSUME NEW i \in 0..n, i # 0
                 PROVE  h[i] = W(h[i - 1], i)
      BY <2>1
    <3>1. i \in 1..n
      BY <1>1
    <3> QED
      BY <1>6, <2>1, <3>1
  <2> QED
    BY <2>1, <2>2
<1>9. E(f)
  BY <1>8 DEF W, f
<1>10. f[0] = x /\ \A i \in 1..n : f[i] = W(f[i - 1], i)
  <2>1. f = [i \in 0..n |-> IF i = 0 THEN x ELSE W(f[i - 1], i)]
    BY <1>9
  <2> HIDE DEF E
  <2>2. \A i \in 0..n : f[i] = IF i = 0 THEN x ELSE W(f[i - 1], i)
    BY <2>1
  <2>3. 0 \in 0..n /\ \A i \in 1..n : i \in 0..n /\ i # 0
    BY <1>1
  <2> QED
    BY <2>2, <2>3
<1> HIDE DEF E
<1>11. f[n] \in H[n]
  <2>1. \A i \in 1..n : f[i - 1] \in H[i - 1] => f[i] \in H[i]
    BY <1>4, <1>10
  <2>2. f[0] \in H[0]
    BY <1>3, <1>10
  <2>3. \A i \in 0..n : f[i] \in H[i]
    BY <1>1, <2>1, <2>2, LoopStays
  <2> QED
    BY <1>1, <2>3
<1>12. n \in 0..n
  BY <1>1
<1>13. Begun(f[n], cs, w, n)
  BY <1>11, <1>12 DEF H
<1> QED
  BY <1>2, <1>13 DEF cs, w, n

(* That state has what the invariant says of lists and places.              *)
LEMMA BegunIs ==
  ASSUME NEW n, NEW w, NEW i, NEW y, Begun(y, n, w, i), n \in [Sem -> Nat],
         NEW p, p = [t \in Thread |-> InUser], NEW g \in Group
  PROVE  KernelRight(y) /\ Placed(y, p, g)
<1>1. Listed(y, {}) /\ HighestCurrent(y) /\ y.q = [o \in Object |-> <<>>]
      /\ y.cnt = n /\ y.vt = <<>> /\ y.due = [t \in Thread |-> 0] /\ y.prio = y.realprio
      /\ \A t \in Thread : View(y)[t] \in {"NONE", "RUNS"}
  BY DEF Begun
<1>2. \A o \in Object : y.q[o] = <<>>
  BY <1>1
<1>3. Counted(y)
  <2>1. Len(<<>>) = 0
    OBVIOUS
  <2>2. \A s \in Sem : s \in Object /\ y.cnt[s] \in Nat
    BY <1>1, ThreadAssumption
  <2> QED
    BY <1>2, <2>1, <2>2 DEF Counted
<1>4. TimersAre(y.vt, y.due)
  <2>1. <<>> \in Seq(VTimer) /\ Len(<<>>) = 0 /\ 1..0 = {}
    OBVIOUS
  <2>2. y.due \in [Thread -> Nat] /\ \A t \in Thread : y.due[t] = 0
    BY <1>1
  <2>3. y.vt \in Seq(VTimer) /\ 1..Len(y.vt) = {}
    BY <1>1, <2>1
  <2> QED
    BY <2>2, <2>3 DEF TimersAre
<1>5. TimersRight(y)
  BY <1>1, <1>4 DEF TimersRight
<1>6. KernelRight(y)
  BY <1>1, <1>3, <1>5 DEF KernelRight
<1>7. p \in [Thread -> PlacesOf(g)] /\ p[Idle] = InUser
  BY ThreadAssumption DEF PlacesOf
<1>8. {"NONE", "RUNS"} \subseteq ViewsOf(g) /\ {"NONE", "RUNS"} \subseteq Absent \cup {"RUNS"}
  BY DEF ViewsOf, Absent
<1>9. \A t \in Thread : p[t][1] = "user" /\ y.due[t] = 0
  BY <1>1 DEF InUser
<1>10. Placed(y, p, g)
  BY <1>1, <1>2, <1>7, <1>8, <1>9 DEF Placed
<1> QED
  BY <1>6, <1>10

(* The invariant holds when the system starts.                             *)
LEMMA InitIInv ==
  ASSUME Init
  PROVE  IInv
<1> DEFINE c == InitialCounts(api)
           w == Workers[api]
           n == Len(w)
<1>1. api \in Group /\ k = Started(api) /\ ThreadsInit /\ MtxInit /\ MsgInit /\ EvtInit
  BY DEF Init
<1>2. PICK x \in Item : chMBInit(x) /\ chIQInit(x)
  <2> DEFINE x == CHOOSE i \in Item : TRUE
  <2>1. x \in Item
    BY KernelAssumption
  <2>2. chMBInit(x) /\ chIQInit(x)
    BY DEF Init
  <2> QED
    BY <2>1, <2>2
<1>3. Begun(k, c, w, n)
  BY <1>1, StartedIs
<1>4. c \in [Sem -> Nat]
  BY SizeAssumption DEF InitialCounts
<1>5. pc = [t \in Thread |-> InUser] /\ waiting = [t \in Thread |-> <<>>] /\ systime = 0
  BY <1>1 DEF ThreadsInit
<1>6. \A s \in Sem : c[s] = IF api = "mbx" /\ s = EmptySem THEN Size ELSE 0
  BY DEF InitialCounts
<1> HIDE DEF c, w, n
<1>7. KernelRight(k) /\ Placed(k, pc, api)
  BY <1>1, <1>3, <1>4, <1>5, BegunIs
<1>8. \A t \in Thread : View(k)[t] \in {"NONE", "RUNS"} /\ pc[t] = InUser
  BY <1>3, <1>5 DEF Begun
<1>9. k.q = [o \in Object |-> <<>>] /\ k.cnt = c
  BY <1>3 DEF Begun
<1>10. Untouched(api)
  BY <1>1, <1>2, <1>5 DEF Untouched
<1>11. ExitOK(View(k), waiting)
  BY <1>5, <1>8, NoExit
<1>12. MsgOK(View(k), pc, msgqueue, taken)
  BY <1>1, <1>8, NoMsg DEF MsgInit, InUser
<1>13. EvtOK(View(k), pc, k.msg, epending, ewmask, listeners)
  <2>1. \A t \in Thread : View(k)[t] \notin {"WTOREVT", "WTANDEVT"} /\ pc[t][1] # "evt"
    BY <1>8 DEF InUser
  <2> DEFINE v == View(k)
             m == k.msg
  <2> HIDE DEF v, m
  <2>2. EvtOK(v, pc, m, epending, ewmask, listeners)
    BY <1>1, <2>1, NoEvt DEF EvtInit, v
  <2> QED
    BY <2>2 DEF v, m
<1>14. RingRight
  BY <1>2, EmptyKeeps DEF RingRight, chMBInit
<1>15. api = "mbx" => MbxOK(k, pc, mb, posted)
  <2> SUFFICES ASSUME api = "mbx"
               PROVE  MbxOK(k, pc, mb, posted)
    OBVIOUS
  <2>1. {EmptySem, FullSem} \subseteq Sem /\ EmptySem # FullSem /\ {EmptySem, FullSem} \subseteq Object
    BY MailboxAssumption, ThreadAssumption
  <2>2. k.q[EmptySem] = <<>> /\ k.q[FullSem] = <<>> /\ Members(<<>>) = {}
    BY <1>9, <2>1 DEF Members
  <2>3. Given(k, pc, "fetch") = {} /\ Given(k, pc, "post") = {}
    BY <1>8 DEF Given, InUser
  <2>4. Cardinality({}) = 0 /\ Len(<<>>) = 0 /\ posted = <<>> /\ Size \in Nat
    BY <1>2, FS_EmptySet, SizeAssumption DEF chMBInit
  <2>5. Units(k, FullSem) = 0 /\ Units(k, EmptySem) = Size
    BY <1>6, <1>9, <2>1, <2>4 DEF Units
  <2>6. Len(posted) = 0 /\ Cardinality(Given(k, pc, "fetch")) = 0 /\ Cardinality(Given(k, pc, "post")) = 0
    BY <2>3, <2>4
  <2>7. Units(k, FullSem) + Cardinality(Given(k, pc, "fetch")) = Len(posted)
    BY <2>5, <2>6
  <2>8. Units(k, EmptySem) + Cardinality(Given(k, pc, "post")) = Size - Len(posted)
    BY <2>4, <2>5, <2>6
  <2>9. Members(k.q[EmptySem]) = {} /\ Members(k.q[FullSem]) = {}
    BY <2>2
  <2>10. Keeps(mb, posted)
    BY <1>14 DEF RingRight
  <2> QED
    BY <2>7, <2>8, <2>9, <2>10 DEF MbxOK
<1>16. IoqOK(k, pc, io, q_counter, held)
  <2>1. \A q \in Queue : k.q[q] = <<>>
    BY <1>9, QueueObjects
  <2> QED
    BY <1>2, <2>1, NoIoq DEF chIQInit
<1>17. systime \in 0..1
  BY <1>5
<1> QED
  BY <1>1, <1>7, <1>10, <1>11, <1>12, <1>13, <1>14, <1>15, <1>16, <1>17 DEF IInv

(* A step that changes nothing keeps the invariant.                        *)
LEMMA StutterRight ==
  ASSUME IInv, UNCHANGED vars
  PROVE  IInv' /\ api' = api
<1>1. /\ k' = k /\ pc' = pc /\ waiting' = waiting /\ systime' = systime /\ api' = api
      /\ UNCHANGED Others
  BY OthersAre DEF vars, threadVars
<1>2. Untouched(api) <=> Untouched(api)'
  BY <1>1, Zenon DEF Untouched, MtxInit, MsgInit, EvtInit, chMBInit, chIQInit, Others
<1>3. (api \in Group /\ systime \in 0..1 /\ KernelRight(k) /\ Placed(k, pc, api))'
  BY <1>1, Zenon DEF IInv
<1>4. (ExitOK(View(k), waiting) /\ MsgOK(View(k), pc, msgqueue, taken))'
  BY <1>1, Zenon DEF IInv, Others
<1>5. EvtOK(View(k), pc, k.msg, epending, ewmask, listeners)'
  BY <1>1, Zenon DEF IInv, Others
<1>6. (RingRight /\ (api = "mbx" => MbxOK(k, pc, mb, posted)))'
  BY <1>1, Zenon DEF IInv, Others, RingRight
<1>7. IoqOK(k, pc, io, q_counter, held)'
  BY <1>1, Zenon DEF IInv, Others
<1> QED
  BY <1>1, <1>2, <1>3, <1>4, <1>5, <1>6, <1>7 DEF IInv

(* Every step keeps the invariant, where the calls are not the mutexes'.   *)
LEMMA NextIInv ==
  ASSUME IInv, api # "mtx", ~ResetsAnyTime, [Next]_vars
  PROVE  IInv' /\ api' = api
<1>1. CASE UNCHANGED vars
  BY <1>1, StutterRight
<1>2. CASE Next
  <2>1. api' = api
    BY <1>2 DEF Next
  <2>2. CASE UNCHANGED <<mtxVars, msgVars, evtVars, mbxVars, ioqVars>>
             /\ (Woken \/ Tick \/ (api = "threads" /\ ThreadCalls) \/ (api = "sem" /\ SemCalls))
    <3>1. UNCHANGED Others
      BY <2>2, OthersAre
    <3>2. IInv'
      BY <2>1, <2>2, <3>1, WokenRight, TickRight, ThreadCallsRight, SemCallsRight
    <3> QED
      BY <2>1, <3>2
  <2>3. CASE api = "msg" /\ MsgCalls /\ UNCHANGED <<mtxVars, evtVars, mbxVars, ioqVars>>
    <3>1. IInv'
      BY <2>1, <2>3, MsgCallsRight
    <3> QED
      BY <2>1, <3>1
  <2>4. CASE api = "evt" /\ EvtCalls /\ UNCHANGED <<mtxVars, msgVars, mbxVars, ioqVars>>
    <3>1. IInv'
      BY <2>1, <2>4, EvtCallsRight
    <3> QED
      BY <2>1, <3>1
  <2>5. CASE api = "mbx" /\ MbxCalls /\ UNCHANGED <<mtxVars, msgVars, evtVars, ioqVars>>
    <3>1. IInv'
      BY <2>1, <2>5, MbxCallsRight
    <3> QED
      BY <2>1, <3>1
  <2>6. CASE api \in Queue /\ IoqCalls(api) /\ UNCHANGED <<mtxVars, msgVars, evtVars, mbxVars>>
    <3>1. IoqUntouched
      BY <2>6 DEF IoqUntouched
    <3>2. IInv'
      BY <2>1, <2>6, <3>1, IoqCallsRight
    <3> QED
      BY <2>1, <3>2
  <2> QED
    BY <1>2, <2>2, <2>3, <2>4, <2>5, <2>6, Zenon DEF Next
<1> QED
  BY <1>1, <1>2

(* When the system starts, nobody owns or waits for a mutex.                *)
LEMMA InitKInv ==
  ASSUME Init
  PROVE  KInv
<1>1. IInv
  BY InitIInv
<1>2. MtxInit /\ Begun(k, InitialCounts(api), Workers[api], Len(Workers[api]))
  <2>1. api \in Group /\ k = Started(api) /\ MtxInit
    BY DEF Init
  <2> QED
    BY <2>1, StartedIs
<1>3. k.q = [o \in Object |-> <<>>] /\ k.prio = k.realprio /\ k \in KernelState
  BY <1>2 DEF Begun, Listed
<1>4. \A m \in Mutex : k.q[m] = <<>>
  BY <1>3, MutexAssumption
<1>5. Members(<<>>) = {} /\ Once(<<>>) /\ <<>> \in Seq(Mutex)
  BY DEF Members, Once
<1>6. Owned(k.q, owner, mtxlist)
  BY <1>2, <1>4, <1>5, MutexAssumption DEF MtxInit, Owned
<1>7. \A u, t : ~WaitsFor(k.q, owner, u, t)
  BY <1>4, <1>5 DEF WaitsFor
<1>8. Inherits(k, owner)
  <2>1. \A t \in Thread : k.realprio[t] <= k.prio[t]
    BY <1>3, KernelIs DEF Prios
  <2> QED
    BY <1>3, <1>7, <2>1 DEF Inherits
<1> QED
  BY <1>1, <1>6, <1>8 DEF KInv, MtxOK

(* Every step keeps the invariant with the mutexes.                         *)
LEMMA NextKInv ==
  ASSUME KInv, ~ResetsAnyTime, ~SetsPriorityAnyTime, [Next]_vars
  PROVE  KInv'
<1>1. IInv /\ api' = api
  BY DEF KInv, Next, vars
<1>2. CASE api # "mtx"
  <2>1. IInv'
    BY <1>1, <1>2, NextIInv
  <2> QED
    BY <1>1, <1>2, <2>1 DEF KInv
<1>3. CASE api = "mtx"
  <2>1. CASE UNCHANGED vars
    <3>1. IInv'
      BY <1>1, <2>1, StutterRight
    <3>2. SameMtx(k, k') /\ UNCHANGED mtxVars
      BY <2>1 DEF vars, threadVars, SameMtx
    <3> QED
      BY <1>1, <3>1, <3>2, KeepsOwners
  <2>2. CASE Woken /\ UNCHANGED <<mtxVars, msgVars, evtVars, mbxVars, ioqVars>>
    <3>1. UNCHANGED Others
      BY <2>2, OthersAre
    <3>2. IInv'
      BY <1>1, <2>2, <3>1, WokenRight
    <3>3. SameMtx(k, k')
      BY <1>1, <2>2, WokenSame
    <3> QED
      BY <1>1, <2>2, <3>2, <3>3, KeepsOwners
  <2>3. CASE Tick /\ UNCHANGED <<mtxVars, msgVars, evtVars, mbxVars, ioqVars>>
    <3>1. UNCHANGED Others
      BY <2>3, OthersAre
    <3>2. IInv'
      BY <1>1, <2>3, <3>1, TickRight
    <3>3. SameMtx(k, k')
      BY <1>1, <2>3, TickSame
    <3> QED
      BY <1>1, <2>3, <3>2, <3>3, KeepsOwners
  <2>4. CASE OwnPriority /\ UNCHANGED <<mtxVars, msgVars, evtVars, mbxVars, ioqVars>>
    BY <1>1, <1>3, <2>4, OwnPriorityRight
  <2>5. CASE MtxCalls /\ UNCHANGED <<msgVars, evtVars, mbxVars, ioqVars>>
    BY <1>1, <1>3, <2>5, MtxCallsRight
  <2>6. "mtx" \notin Queue
    BY DEF Queue
  <2> QED
    BY <1>3, <2>1, <2>2, <2>3, <2>4, <2>5, <2>6, Zenon DEF Next
<1> QED
  BY <1>2, <1>3

(* The invariant of the kernel, whichever group of calls is used.           *)
LEMMA KernelInvariant ==
  ASSUME ~ResetsAnyTime, ~SetsPriorityAnyTime
  PROVE  Spec => []KInv
<1>1. Init => KInv
  BY InitKInv
<1>2. KInv /\ [Next]_vars => KInv'
  BY NextKInv
<1> QED
  BY <1>1, <1>2, PTL DEF Spec

(* A sequence without repetition is as long as it has members.             *)
LEMMA OnceCounts ==
  ASSUME NEW T, NEW s \in Seq(T), Once(s)
  PROVE  Len(s) = Cardinality(Members(s)) /\ IsFiniteSet(Members(s))
<1> DEFINE n == Len(s)
           S == Members(s)
           f == [i \in 1..n |-> s[i]]
<1>1. n \in Nat /\ DOMAIN s = 1..n
  OBVIOUS
<1>2. f \in [1..n -> S] /\ (\A i, j \in 1..n : f[i] = f[j] => i = j)
      /\ \A x \in S : \E i \in 1..n : f[i] = x
  BY <1>1 DEF Members, Once
<1> HIDE DEF f, S, n
<1>3. f \in Bijection(1..n, S)
  BY <1>2 DEF Bijection, Injection, Surjection, IsInjective
<1>4. ExistsBijection(1..n, S)
  BY <1>3 DEF ExistsBijection
<1>5. IsFiniteSet(1..n) /\ Cardinality(1..n) = n
  BY <1>1, FS_Interval
<1>6. IsFiniteSet(S) /\ Cardinality(S) = Cardinality(1..n)
  BY <1>4, <1>5, FS_Bijection
<1> QED
  BY <1>5, <1>6 DEF S, n

(* A set of which all members are equal has one, if it has any.            *)
LEMMA OneCounts ==
  ASSUME NEW S, NEW x \in S, \A y \in S : y = x
  PROVE  Cardinality(S) = 1
<1>1. S = {x}
  OBVIOUS
<1> QED
  BY <1>1, FS_Singleton

(* A set without members counts none.                                       *)
LEMMA NoneCounts ==
  ASSUME NEW S, \A y \in S : FALSE
  PROVE  Cardinality(S) = 0
<1>1. S = {}
  OBVIOUS
<1> QED
  BY <1>1, FS_EmptySet

(* The places of all groups.                                               *)
LEMMA PlacesAre ==
  ASSUME NEW g \in Group, NEW p \in PlacesOf(g)
  PROVE  p[1] \in Places
<1>1. g \in {"threads", "sem", "mtx", "msg", "evt", "mbx", "iq", "oq"}
  BY KernelAssumption DEF Queue
<1>2. CASE g \in {"threads", "sem", "msg", "evt", "mtx"}
  BY <1>2 DEF PlacesOf, Places, InUser
<1>3. CASE g = "mbx"
  BY <1>3 DEF PlacesOf, Places, InUser
<1>4. CASE g \in {"iq", "oq"}
  BY <1>4 DEF PlacesOf, Places, InUser
<1> QED
  BY <1>1, <1>2, <1>3, <1>4

(* The invariant types every variable.                                     *)
LEMMA TypesRight ==
  ASSUME KInv
  PROVE  TypeOK
<1>0. IInv
  BY DEF KInv
<1>1. k \in KernelState /\ KernelRight(k) /\ Placed(k, pc, api) /\ Untouched(api) /\ api \in Group
  BY <1>0 DEF IInv, KernelRight, Listed
<1>2. /\ k.state \in [Thread -> States]
      /\ k.prio \in [Thread -> 1..HIGHPRIO] /\ k.realprio \in [Thread -> 1..HIGHPRIO]
      /\ k.preempt \in [Thread -> 0..Quantum]
      /\ k.msg \in [Thread -> {"OK", "TIMEOUT", "RESET"}]
      /\ k.current \in Thread /\ k.ready \in Seq(Thread)
      /\ k.vt \in Seq([thd : Thread, time : Nat])
      /\ k.q \in [Object -> Seq(Thread)] /\ k.cnt \in [Sem -> Int]
  BY <1>1, KernelIs DEF Prios, Messages, VTimer
<1>3. \A t \in Thread : pc[t][1] \in Places
  <2>1. \A t \in Thread : pc[t] \in PlacesOf(api)
    BY <1>1 DEF Placed
  <2> QED
    BY <1>1, <2>1, PlacesAre
<1>4. waiting \in [Thread -> Seq(Thread)] /\ systime \in 0..1
  BY <1>0 DEF IInv, ExitOK
<1>5. owner \in [Mutex -> Thread \cup {NoThread}] /\ mtxlist \in [Thread -> Seq(Mutex)]
  <2>1. CASE api = "mtx"
    BY <2>1 DEF KInv, MtxOK, Owned
  <2>2. CASE api # "mtx"
    <3>1. MtxInit
      BY <1>1, <2>2 DEF Untouched
    <3>2. <<>> \in Seq(Mutex)
      OBVIOUS
    <3> QED
      BY <3>1, <3>2 DEF MtxInit
  <2> QED
    BY <2>1, <2>2
<1>6. msgqueue \in [Thread -> Seq(Thread)] /\ taken \in [Thread -> SUBSET Thread]
  BY <1>0 DEF IInv, MsgOK
<1>7. epending \in [Thread -> SUBSET Event] /\ ewmask \in [Thread -> SUBSET Event]
      /\ listeners \in Seq([el_listener : Thread, el_mask : SUBSET Event])
  BY <1>0 DEF IInv, EvtOK
<1>8. mb \in Ring /\ posted \in Seq(Item)
  BY <1>0 DEF IInv, RingRight, Keeps
<1>9. mb.wr \in 0..Size - 1 /\ mb.rd \in 0..Size - 1
  BY <1>8 DEF Ring
<1>10. io \in [Queue -> Ring] /\ q_counter \in [Queue -> 0..Size] /\ held \in [Queue -> Seq(Item)]
  BY <1>0 DEF IInv, IoqOK
<1>11. \A q \in Queue : io[q].wr \in 0..Size - 1 /\ io[q].rd \in 0..Size - 1
  BY <1>10 DEF Ring
<1> QED
  BY <1>2, <1>3, <1>4, <1>5, <1>6, <1>7, <1>8, <1>9, <1>10, <1>11 DEF TypeOK

(* The lists of a kernel in which all threads are listed.                  *)
LEMMA PlacesRight ==
  ASSUME NEW kk, Listed(kk, {})
  PROVE  /\ \A t \in Thread : kk.state[t] = "CURRENT" <=> t = kk.current
         /\ Members(kk.ready) = {t \in Thread : kk.state[t] = "READY"}
         /\ Len(kk.ready) = Cardinality(Members(kk.ready))
         /\ \A i, j \in DOMAIN kk.ready : i < j => kk.prio[kk.ready[i]] >= kk.prio[kk.ready[j]]
         /\ \A t \in Thread :
              Cardinality({o \in Object : t \in Members(kk.q[o])})
                = IF kk.state[t] \in Waits THEN 1 ELSE 0
<1>1. kk \in KernelState /\ QueuesRight(kk, {}) /\ ReadyRight(kk, {}) /\ Thread \ {} = Thread
  BY DEF Listed
<1>2. /\ \A t \in Thread : kk.state[t] = "CURRENT" <=> t = kk.current
      /\ Members(kk.ready) = {t \in Thread : kk.state[t] = "READY"}
      /\ Once(kk.ready) /\ Ranked(kk.prio, kk.ready)
  BY <1>1 DEF ReadyRight
<1>3. Len(kk.ready) = Cardinality(Members(kk.ready))
  <2>1. kk.ready \in Seq(Thread)
    BY <1>1, KernelIs
  <2> QED
    BY <1>2, <2>1, OnceCounts
<1>4. \A i, j \in DOMAIN kk.ready : i < j => kk.prio[kk.ready[i]] >= kk.prio[kk.ready[j]]
  BY <1>2 DEF Ranked
<1>5. ASSUME NEW t \in Thread
      PROVE  Cardinality({o \in Object : t \in Members(kk.q[o])})
                = IF kk.state[t] \in Waits THEN 1 ELSE 0
  <2> DEFINE S == {o \in Object : t \in Members(kk.q[o])}
  <2>1. CASE kk.state[t] \in Waits
    <3>1. PICK o \in Object : t \in Members(kk.q[o])
      BY <1>1, <2>1 DEF QueuesRight
    <3>2. o \in S /\ \A p \in S : p = o
      BY <1>1, <3>1 DEF QueuesRight
    <3> HIDE DEF S
    <3>3. Cardinality(S) = 1
      BY <3>2, OneCounts
    <3> QED
      BY <2>1, <3>3 DEF S
  <2>2. CASE kk.state[t] \notin Waits
    <3>1. \A o \in S : FALSE
      BY <1>1, <2>2 DEF QueuesRight, Kind, Waits
    <3> HIDE DEF S
    <3>2. Cardinality(S) = 0
      BY <3>1, NoneCounts
    <3> QED
      BY <2>2, <3>2 DEF S
  <2> QED
    BY <2>1, <2>2
<1> QED
  BY <1>2, <1>3, <1>4, <1>5

(* There are as many timers as threads that wait for a time.               *)
LEMMA TimersCount ==
  ASSUME NEW vt, NEW due, TimersAre(vt, due)
  PROVE  Len(vt) = Cardinality({t \in Thread : due[t] > 0})
<1> DEFINE n == Len(vt)
           S == {t \in Thread : due[t] > 0}
           f == [i \in 1..n |-> vt[i].thd]
<1>1. n \in Nat /\ \A i \in 1..n : vt[i].thd \in Thread
  BY TimerIs DEF TimersAre
<1>2. f \in [1..n -> S] /\ (\A i, j \in 1..n : f[i] = f[j] => i = j)
      /\ \A x \in S : \E i \in 1..n : f[i] = x
  BY <1>1 DEF TimersAre
<1> HIDE DEF f, S, n
<1>3. f \in Bijection(1..n, S)
  BY <1>2 DEF Bijection, Injection, Surjection, IsInjective
<1>4. ExistsBijection(1..n, S)
  BY <1>3 DEF ExistsBijection
<1>5. IsFiniteSet(1..n) /\ Cardinality(1..n) = n
  BY <1>1, FS_Interval
<1>6. Cardinality(S) = Cardinality(1..n)
  BY <1>4, <1>5, FS_Bijection
<1> QED
  BY <1>5, <1>6 DEF S, n

(* The invariant implies ListsRight.                                        *)
LEMMA ListsAreRight ==
  ASSUME IInv
  PROVE  ListsRight
<1>1. Listed(k, {}) /\ HighestCurrent(k) /\ TimersAre(k.vt, k.due) /\ Placed(k, pc, api)
  BY DEF IInv, KernelRight, TimersRight
<1>2. k \in KernelState /\ k.current \in Thread /\ DOMAIN k.vt = 1..Len(k.vt)
  BY <1>1, KernelIs, TimerIs DEF Listed, TimersAre
<1>3. HighestRuns
  BY <1>1 DEF HighestRuns, HighestCurrent, me
<1>4. InOnePlace
  <2>1. /\ \A t \in Thread : k.state[t] = "CURRENT" <=> t = k.current
        /\ Members(k.ready) = {t \in Thread : k.state[t] = "READY"}
        /\ Len(k.ready) = Cardinality(Members(k.ready))
        /\ \A i, j \in DOMAIN k.ready : i < j => k.prio[k.ready[i]] >= k.prio[k.ready[j]]
        /\ \A t \in Thread :
             Cardinality({o \in Object : t \in Members(k.q[o])})
               = IF k.state[t] \in Waits THEN 1 ELSE 0
    BY <1>1, PlacesRight
  <2> QED
    BY <2>1 DEF InOnePlace, Waits, me
<1>5. \A i \in DOMAIN k.vt : Elapsed(k.vt, i) = k.due[k.vt[i].thd] /\ k.due[k.vt[i].thd] > 0
  BY <1>1, <1>2 DEF TimersAre
<1>6. Len(k.vt) = Cardinality({t \in Thread : k.due[t] > 0})
  BY <1>1, TimersCount
<1>7. pc[me] = InUser => ~chVTIsArmedI(k, me)
  <2>1. pc[me] = InUser => k.due[me] = 0
    BY <1>1, <1>2 DEF Placed, InUser, me
  <2>2. chVTIsArmedI(k, me) <=> k.due[me] > 0
    BY <1>1, <1>2, ArmedIs DEF me
  <2> QED
    BY <2>1, <2>2
<1> QED
  BY <1>3, <1>4, <1>5, <1>6, <1>7 DEF ListsRight, TimersExact

(* The invariant implies ExitsAreSeen.                                      *)
LEMMA ExitsRight ==
  ASSUME IInv
  PROVE  ExitsAreSeen
<1> DEFINE v == View(k)
<1>1. ExitOK(v, waiting)
  BY DEF IInv
<1>2. \A t \in Thread : k.state[t] = "WTEXIT" => v[t] = "WTEXIT"
  BY DEF View, Runs
<1>3. \A t \in Thread : v[t] # "FINAL" => k.state[t] # "FINAL"
  BY DEF View, Runs
<1> HIDE DEF v
<1> SUFFICES ASSUME NEW t \in Thread, k.state[t] = "WTEXIT"
             PROVE  \E u \in Thread : k.state[u] # "FINAL" /\ t \in Members(waiting[u])
  BY DEF ExitsAreSeen
<1>4. PICK u \in Thread : t \in Members(waiting[u])
  BY <1>1, <1>2 DEF ExitOK
<1>5. waiting[u] # <<>>
  BY <1>4 DEF Members
<1>6. v[u] # "FINAL"
  BY <1>1, <1>5 DEF ExitOK
<1> QED
  BY <1>3, <1>4, <1>6

(* A thread that some set has, and no other one has, is counted once.      *)
LEMMA InOne ==
  ASSUME NEW t, NEW F, NEW b \in BOOLEAN,
         \A u, x \in Thread : t \in F[u] /\ t \in F[x] => u = x,
         b => \E u \in Thread : t \in F[u],
         ~b => \A u \in Thread : t \notin F[u]
  PROVE  Cardinality({u \in Thread : t \in F[u]}) = IF b THEN 1 ELSE 0
<1> DEFINE S == {u \in Thread : t \in F[u]}
<1>1. CASE b
  <2>1. PICK u \in Thread : t \in F[u]
    BY <1>1
  <2>2. u \in S /\ \A x \in S : x = u
    BY <2>1
  <2> HIDE DEF S
  <2>3. Cardinality(S) = 1
    BY <2>2, OneCounts
  <2> QED
    BY <1>1, <2>3 DEF S
<1>2. CASE ~b
  <2>1. \A u \in S : FALSE
    BY <1>2
  <2> HIDE DEF S
  <2>2. Cardinality(S) = 0
    BY <2>1, NoneCounts
  <2> QED
    BY <1>2, <2>2 DEF S
<1> QED
  BY <1>1, <1>2

(* The invariant implies MessagesAreReceived.                               *)
LEMMA MessagesRight ==
  ASSUME IInv
  PROVE  MessagesAreReceived
<1> DEFINE v == View(k)
<1>1. MsgOK(v, pc, msgqueue, taken)
  BY DEF IInv
<1>2. \A t \in Thread : /\ k.state[t] = "SNDMSGQ" <=> v[t] = "SNDMSGQ"
                        /\ k.state[t] = "SNDMSG" <=> v[t] = "SNDMSG"
                        /\ k.state[t] = "WTMSG" <=> v[t] = "WTMSG"
  BY DEF View, Runs
<1> HIDE DEF v
<1>3. ASSUME NEW t \in Thread
      PROVE  Cardinality({u \in Thread : t \in Members(msgqueue[u])})
               = IF k.state[t] = "SNDMSGQ" THEN 1 ELSE 0
  <2> DEFINE F == [u \in Thread |-> Members(msgqueue[u])]
             b == v[t] = "SNDMSGQ"
  <2>1. b \in BOOLEAN /\ (b => \E u \in Thread : t \in F[u]) /\ (~b => \A u \in Thread : t \notin F[u])
        /\ \A u, x \in Thread : t \in F[u] /\ t \in F[x] => u = x
    BY <1>1 DEF MsgOK
  <2>2. {u \in Thread : t \in Members(msgqueue[u])} = {u \in Thread : t \in F[u]}
    OBVIOUS
  <2>3. b <=> k.state[t] = "SNDMSGQ"
    BY <1>2
  <2> HIDE DEF F, b
  <2>4. Cardinality({u \in Thread : t \in F[u]}) = IF b THEN 1 ELSE 0
    BY <2>1, InOne
  <2> QED
    BY <2>2, <2>3, <2>4
<1>4. ASSUME NEW t \in Thread
      PROVE  Cardinality({u \in Thread : t \in taken[u]})
               = IF k.state[t] = "SNDMSG" THEN 1 ELSE 0
  <2> DEFINE b == v[t] = "SNDMSG"
  <2>1. b \in BOOLEAN /\ (b => \E u \in Thread : t \in taken[u]) /\ (~b => \A u \in Thread : t \notin taken[u])
        /\ \A u, x \in Thread : t \in taken[u] /\ t \in taken[x] => u = x
    BY <1>1 DEF MsgOK
  <2>3. b <=> k.state[t] = "SNDMSG"
    BY <1>2
  <2> HIDE DEF b
  <2>4. Cardinality({u \in Thread : t \in taken[u]}) = IF b THEN 1 ELSE 0
    BY <2>1, InOne
  <2> QED
    BY <2>3, <2>4
<1>5. /\ \A t \in Thread : k.state[t] = "WTMSG" => msgqueue[t] = <<>>
      /\ \A t \in Thread : pc[t] = <<"msg">> /\ k.state[t] # "WTMSG" => msgqueue[t] # <<>>
  BY <1>1, <1>2 DEF MsgOK
<1> QED
  BY <1>3, <1>4, <1>5 DEF MessagesAreReceived

(* The invariant implies NoEventMissed.                                     *)
LEMMA EventsRight ==
  ASSUME IInv
  PROVE  NoEventMissed
<1> DEFINE v == View(k)
           ms == k.msg
<1>1. EvtOK(v, pc, ms, epending, ewmask, listeners) /\ pc \in [Thread -> PlacesOf(api)]
      /\ api \in Group
  BY DEF IInv, Placed
<1>2. \A t \in Thread : /\ k.state[t] = "WTOREVT" <=> v[t] = "WTOREVT"
                        /\ k.state[t] = "WTANDEVT" <=> v[t] = "WTANDEVT"
                        /\ k.state[t] \in {"READY", "CURRENT"} <=> v[t] = "RUNS"
                        /\ k.msg[t] = ms[t]
  BY <1>1 DEF View, Runs, IInv, KernelRight, Listed, KernelState, States
<1> HIDE DEF v, ms
<1>3. \A t \in Thread, all \in BOOLEAN :
        Has(t, all) <=> Come(epending[t], ewmask[t], all)
  BY DEF Has, Come
<1>4. \A t \in Thread : pc[t][1] = "evt" => (pc[t] = <<"evt", "all">> <=> pc[t][2] = "all")
  <2> SUFFICES ASSUME NEW t \in Thread, pc[t][1] = "evt"
               PROVE  pc[t] = <<"evt", "all">> <=> pc[t][2] = "all"
    OBVIOUS
  <2>1. pc[t] \in PlacesOf(api)
    BY <1>1
  <2>2. api # "mtx"
    <3> SUFFICES ASSUME api = "mtx"
                 PROVE  FALSE
      OBVIOUS
    <3>1. pc[t] = InUser \/ pc[t] = <<"woken">> \/ \E m \in Mutex : pc[t] = <<"cond", m>>
      BY <2>1 DEF PlacesOf
    <3> QED
      BY <3>1 DEF InUser
  <2>3. \E how \in {"one", "any", "all"} : pc[t] = <<"evt", how>>
    BY <1>1, <2>1, <2>2, KernelAssumption DEF PlacesOf, InUser, Queue
  <2> QED
    BY <2>3
<1>5. ASSUME NEW t \in Thread
      PROVE  /\ k.state[t] = "WTOREVT" => ~Has(t, FALSE)
             /\ k.state[t] = "WTANDEVT" => ~Has(t, TRUE)
             /\ k.state[t] \in {"READY", "CURRENT"} /\ pc[t][1] = "evt" /\ k.msg[t] = "OK"
                  => Has(t, pc[t][2] = "all")
  <2>1. /\ v[t] = "WTOREVT" => ~Come(epending[t], ewmask[t], FALSE)
        /\ v[t] = "WTANDEVT" => ~Come(epending[t], ewmask[t], TRUE)
        /\ v[t] = "RUNS" /\ pc[t][1] = "evt" /\ ms[t] = "OK"
             => Come(epending[t], ewmask[t], pc[t] = <<"evt", "all">>)
    BY <1>1 DEF EvtOK
  <2> DEFINE all == pc[t][2] = "all"
             al == pc[t] = <<"evt", "all">>
  <2>2. all \in BOOLEAN /\ (pc[t][1] = "evt" => (al <=> all))
    BY <1>4
  <2>3. Come(epending[t], ewmask[t], al) /\ (al <=> all) => Come(epending[t], ewmask[t], all)
    BY DEF Come
  <2>4. Has(t, all) <=> Come(epending[t], ewmask[t], all)
    BY DEF Has, Come
  <2>5. v[t] = "RUNS" /\ pc[t][1] = "evt" /\ ms[t] = "OK" => Come(epending[t], ewmask[t], al)
    BY <2>1
  <2>6. Has(t, FALSE) <=> Come(epending[t], ewmask[t], FALSE)
    BY <1>3
  <2>7. Has(t, TRUE) <=> Come(epending[t], ewmask[t], TRUE)
    BY <1>3
  <2> HIDE DEF all, al
  <2>8. k.state[t] \in {"READY", "CURRENT"} /\ pc[t][1] = "evt" /\ k.msg[t] = "OK" => Has(t, all)
    BY <1>2, <2>2, <2>3, <2>4, <2>5
  <2> QED
    BY <1>2, <2>1, <2>6, <2>7, <2>8 DEF all
<1> QED
  BY <1>5 DEF NoEventMissed

(* Who was given something is who has yet to use it.                       *)
LEMMA GivenAre ==
  ASSUME NEW x, k \in KernelState
  PROVE  {t \in Thread : /\ pc[t][1] = x
                         /\ k.state[t] \in {"READY", "CURRENT"} /\ k.msg[t] = "OK"}
           = Given(k, pc, x)
<1>1. \A t \in Thread : k.state[t] \in {"READY", "CURRENT"} <=> View(k)[t] = "RUNS"
  BY DEF View, Runs, KernelState, States
<1> QED
  BY <1>1 DEF Given

(* The invariant implies MailIsFetched.                                     *)
LEMMA MailFetchedRight ==
  ASSUME IInv
  PROVE  MailIsFetched
<1> SUFFICES ASSUME api = "mbx"
             PROVE  NoMailWaits
  BY DEF MailIsFetched
<1>1. k \in KernelState /\ MbxOK(k, pc, mb, posted) /\ Counted(k) /\ posted \in Seq(Item)
  BY DEF IInv, KernelRight, Listed, RingRight, Keeps
<1>2. Granted("fetch") = Given(k, pc, "fetch") /\ Granted("post") = Given(k, pc, "post")
  BY <1>1, GivenAre DEF Granted
<1>3. {EmptySem, FullSem} \subseteq Sem /\ {EmptySem, FullSem} \subseteq Object
  BY MailboxAssumption, ThreadAssumption
<1>4. ASSUME NEW s \in {EmptySem, FullSem}, k.q[s] # <<>>
      PROVE  Units(k, s) = 0
  <2>1. k.q[s] \in Seq(Thread) /\ k.cnt[s] \in Int
    BY <1>1, <1>3, KernelIs
  <2>2. Len(k.q[s]) > 0
    BY <1>4, <2>1
  <2>3. Len(k.q[s]) = IF k.cnt[s] < 0 THEN -k.cnt[s] ELSE 0
    BY <1>1, <1>3 DEF Counted
  <2> QED
    BY <2>1, <2>2, <2>3 DEF Units
<1> DEFINE f == Cardinality(Given(k, pc, "fetch"))
           p == Cardinality(Given(k, pc, "post"))
           l == Len(posted)
<1>5. f \in Nat /\ p \in Nat /\ l \in Nat /\ Size \in Nat
  BY <1>1, GivenIs, SizeAssumption
<1>6. Units(k, FullSem) + f = l /\ Units(k, EmptySem) + p = Size - l
  BY <1>1 DEF MbxOK
<1> HIDE DEF f, p, l
<1>7. k.q[FullSem] # <<>> => l <= f
  BY <1>4, <1>5, <1>6
<1>8. k.q[EmptySem] # <<>> => Size - l <= p
  BY <1>4, <1>5, <1>6
<1>9. /\ k.q[FullSem] # <<>> => Len(posted) <= Cardinality(Given(k, pc, "fetch"))
      /\ k.q[EmptySem] # <<>> => Size - Len(posted) <= Cardinality(Given(k, pc, "post"))
  BY <1>7, <1>8 DEF f, p, l
<1> QED
  BY <1>2, <1>9 DEF NoMailWaits

(* The invariant implies NoWakeupLost.                                      *)
LEMMA WakeUpsRight ==
  ASSUME IInv
  PROVE  NoWakeupLost
<1>1. k \in KernelState /\ IoqOK(k, pc, io, q_counter, held)
  BY DEF IInv, KernelRight, Listed
<1>2. \A q \in Queue : k.q[q] # <<>> => q_counter[q] <= Cardinality(Given(k, pc, q))
  BY <1>1 DEF IoqOK
<1>3. \A q \in Queue :
        {t \in Thread : /\ pc[t][1] = q /\ k.msg[t] = "OK"
                        /\ k.state[t] \in {"READY", "CURRENT"}} = Given(k, pc, q)
  <2>1. \A t \in Thread : k.state[t] \in {"READY", "CURRENT"} <=> View(k)[t] = "RUNS"
    BY <1>1 DEF View, Runs, KernelState, States
  <2> QED
    BY <2>1 DEF Given
<1> QED
  BY <1>2, <1>3 DEF NoWakeupLost

(* The invariant implies MailboxInOrder.                                    *)
LEMMA MailInOrder ==
  ASSUME IInv
  PROVE  MailboxInOrder
BY KeepsHolds DEF MailboxInOrder, IInv, RingRight

(* The invariant implies BytesInOrder.                                      *)
LEMMA QueuesInOrder ==
  ASSUME IInv
  PROVE  BytesInOrder
BY KeepsHolds DEF BytesInOrder, IInv, IoqOK

(* In the other groups nobody waits for a mutex.                            *)
LEMMA MutexQueueless ==
  ASSUME NEW kk, NEW p, NEW g \in Group, Placed(kk, p, g), g # "mtx"
  PROVE  \A m \in Mutex : kk.q[m] = <<>>
<1>1. \A m \in Mutex : m \in Object /\ m \notin Sem /\ m \notin Queue
  BY MutexAssumption, KernelAssumption
<1>2. g \in {"threads", "sem", "msg", "evt", "mbx"} \cup Queue
  BY KernelAssumption
<1>3. {EmptySem, FullSem} \subseteq Sem
  BY MailboxAssumption
<1>4. \A o \in Object : o \in ObjectsOf(g) \/ kk.q[o] = <<>>
  BY DEF Placed
<1> QED
  BY <1>1, <1>2, <1>3, <1>4 DEF ObjectsOf

(* The invariant implies OwnersAgree.                                       *)
LEMMA OwnersRight ==
  ASSUME KInv
  PROVE  OwnersAgree
<1>1. IInv /\ Untouched(api) /\ k \in KernelState /\ Placed(k, pc, api) /\ api \in Group
  BY DEF KInv, IInv, KernelRight, Listed
<1>2. Owned(k.q, owner, mtxlist)
  <2>1. CASE api = "mtx"
    BY <2>1 DEF KInv, MtxOK
  <2>2. CASE api # "mtx"
    <3>1. MtxInit
      BY <1>1, <2>2 DEF Untouched
    <3>2. \A m \in Mutex : k.q[m] = <<>>
      BY <1>1, <2>2, MutexQueueless
    <3>3. Members(<<>>) = {} /\ Once(<<>>) /\ <<>> \in Seq(Mutex)
      BY DEF Members, Once
    <3> QED
      BY <3>1, <3>2, <3>3, MutexAssumption DEF MtxInit, Owned
  <2> QED
    BY <2>1, <2>2
<1>3. ASSUME NEW t \in Thread
      PROVE  Len(mtxlist[t]) = Cardinality(Members(mtxlist[t]))
  <2>1. mtxlist[t] \in Seq(Mutex) /\ Once(mtxlist[t])
    BY <1>2 DEF Owned
  <2> QED
    BY <2>1, OnceCounts
<1> QED
  BY <1>2, <1>3 DEF Owned, OwnersAgree

(* The invariant implies PriorityIsInherited.                               *)
LEMMA PrioritiesRight ==
  ASSUME KInv
  PROVE  PriorityIsInherited
<1>1. IInv /\ Placed(k, pc, api) /\ Listed(k, {}) /\ k \in KernelState /\ api \in Group
  BY DEF KInv, IInv, KernelRight, Listed
<1>2. OwnersAgree
  BY OwnersRight
<1>3. Inherits(k, owner)
  <2>1. CASE api = "mtx"
    BY <2>1 DEF KInv, MtxOK
  <2>2. CASE api # "mtx"
    <3>1. k.prio = k.realprio
      BY <1>1, <2>2 DEF Placed
    <3>2. \A m \in Mutex : k.q[m] = <<>>
      BY <1>1, <2>2, MutexQueueless
    <3>3. \A u, t : ~WaitsFor(k.q, owner, u, t)
      BY <3>2 DEF WaitsFor, Members
    <3>4. \A t \in Thread : k.realprio[t] <= k.prio[t]
      BY <1>1, <3>1, KernelIs DEF Prios
    <3> QED
      BY <3>1, <3>3, <3>4 DEF Inherits
  <2> QED
    BY <2>1, <2>2
<1>4. \A u, t \in Thread : u \in Waiting(t) <=> WaitsFor(k.q, owner, u, t)
  <2>1. \A t \in Thread : \A m \in Members(mtxlist[t]) : m \in Mutex
    <3>1. \A t \in Thread : mtxlist[t] \in Seq(Mutex)
      BY TypesRight DEF TypeOK
    <3> QED
      BY <3>1, MembersAre
  <2> QED
    BY <1>2, <2>1 DEF Waiting, WaitsFor, OwnersAgree
<1>5. ASSUME NEW t \in Thread
      PROVE  k.prio[t] = MaxOf({k.realprio[t]} \cup {k.prio[u] : u \in Waiting(t)})
  <2> DEFINE S == {k.realprio[t]} \cup {k.prio[u] : u \in Waiting(t)}
             p == k.prio[t]
             x == MaxOf(S)
  <2>1. Waiting(t) \subseteq Thread
    <3>1. \A m \in Members(mtxlist[t]) : m \in Object
      <4>1. mtxlist[t] \in Seq(Mutex)
        BY TypesRight DEF TypeOK
      <4> QED
        BY <4>1, MembersAre, MutexAssumption
    <3>2. \A o \in Object : Members(k.q[o]) \subseteq Thread
      BY <1>1, KernelIs, MembersAre
    <3> QED
      BY <3>1, <3>2 DEF Waiting
  <2>2. S \subseteq Prios /\ S # {} /\ p \in Prios
    <3>1. k.prio \in [Thread -> Prios] /\ k.realprio \in [Thread -> Prios]
      BY <1>1, KernelIs
    <3>2. \A u \in Waiting(t) : k.prio[u] \in Prios
      BY <2>1, <3>1
    <3> QED
      BY <3>1, <3>2
  <2>3. p \in S
    BY <1>3, <1>4 DEF Inherits
  <2>4. \A i \in S : i <= p
    BY <1>3, <1>4, <2>1 DEF Inherits
  <2> HIDE DEF S, p
  <2>5. x \in S /\ \A i \in S : i <= x
    BY <2>2, MaxOfIs
  <2> HIDE DEF x
  <2>6. x <= p /\ p <= x /\ x \in Nat /\ p \in Nat
    BY <2>2, <2>3, <2>4, <2>5 DEF Prios
  <2> QED
    BY <2>6 DEF S, p, x
<1> QED
  BY <1>5 DEF PriorityIsInherited

(* For any threads, priorities and calls of any group, however they         *)
(* interleave with ticks and interrupt handlers, the kernel's variables     *)
(* keep their types: no list, state, counter or timer leaves its range.     *)
(* Threads do not set their priority while they own a mutex, and do not     *)
(* reset a mailbox while others have yet to use the unit they were given.   *)
THEOREM KernelTypeCorrect ==
  ASSUME ~ResetsAnyTime, ~SetsPriorityAnyTime
  PROVE  Spec => []TypeOK
<1>1. KInv => TypeOK
  BY TypesRight
<1> QED
  BY <1>1, KernelInvariant, PTL

(* A thread is in the one list that its state names and in no other, the   *)
(* lists are in order of priority where the code keeps them so, also when   *)
(* an owner inherits a priority while it waits itself, the thread that runs *)
(* has the highest priority at the end of a call, and each timer fires when *)
(* it is due, through every switch, wakeup and timeout.                     *)
THEOREM ListsCorrect ==
  ASSUME ~ResetsAnyTime, ~SetsPriorityAnyTime
  PROVE  Spec => []ListsRight
<1>1. KInv => ListsRight
  BY ListsAreRight DEF KInv
<1> QED
  BY <1>1, KernelInvariant, PTL

(* The counter of each semaphore is minus the length of its queue when     *)
(* threads wait in it, also when a timeout or a reset races a signal; a     *)
(* mutex is in the stack of its owner and in no other; and an owner has the *)
(* priority of the highest that waits for it, directly or along a chain of  *)
(* owners that wait for each other, and no longer than they wait.           *)
THEOREM ObjectsCorrect ==
  ASSUME ~ResetsAnyTime, ~SetsPriorityAnyTime
  PROVE  Spec => []ObjectsAgree
<1>1. KInv => CounterIsQueue
  BY DEF KInv, IInv, KernelRight, Counted, CounterIsQueue
<1>2. KInv => OwnersAgree
  BY OwnersRight
<1>3. KInv => PriorityIsInherited
  BY PrioritiesRight
<1>4. KInv => ObjectsAgree
  BY <1>1, <1>2, <1>3 DEF ObjectsAgree
<1> QED
  BY <1>4, KernelInvariant, PTL

(* No thread waits in vain: not for a thread that has ended, a message     *)
(* that was sent, an event that is pending, mail or space that is there,   *)
(* or bytes that a handler moved before it looked.                         *)
THEOREM NoWaitCorrect ==
  ASSUME ~ResetsAnyTime, ~SetsPriorityAnyTime
  PROVE  Spec => []NoWaitInVain
<1>1. KInv => NoWaitInVain
  <2> SUFFICES ASSUME KInv
               PROVE  NoWaitInVain
    OBVIOUS
  <2>0. IInv
    BY DEF KInv
  <2>1. ExitsAreSeen
    BY <2>0, ExitsRight
  <2>2. MessagesAreReceived
    BY <2>0, MessagesRight
  <2>3. NoEventMissed
    BY <2>0, EventsRight
  <2>4. MailIsFetched
    BY <2>0, MailFetchedRight
  <2>5. NoWakeupLost
    BY <2>0, WakeUpsRight
  <2> QED
    BY <2>1, <2>2, <2>3, <2>4, <2>5, Zenon DEF NoWaitInVain
<1> QED
  BY <1>1, KernelInvariant, PTL

(* Nobody is further from the head of a semaphore's queue but the thread    *)
(* that ran, which may have joined it.                                     *)
Closer(kk, r) ==
  \A s \in Sem : \A i \in DOMAIN r.q[s] :
    r.q[s][i] # kk.current => \E j \in DOMAIN kk.q[s] : i <= j /\ kk.q[s][j] = r.q[s][i]

(* Within a step that has moved nobody back.                               *)
Going(kk, h) ==
  /\ kk \in KernelState /\ Listed(h, {}) /\ Counted(h) /\ h.current = kk.current
  /\ Shrinks(kk, h)

(* Queues that only shrink.                                                *)
LEMMA ShrinksCloser ==
  ASSUME NEW kk, NEW r, Shrinks(kk, r)
  PROVE  Closer(kk, r)
<1>1. Sem \subseteq Object
  BY ThreadAssumption
<1> QED
  BY <1>1 DEF Closer, Shrinks, Forward

(* A further part of the step.                                             *)
LEMMA GoesFurther ==
  ASSUME NEW kk, NEW h, Going(kk, h), NEW r, Listed(r, {}), Counted(r),
         r.current = h.current, Shrinks(h, r)
  PROVE  Going(kk, r)
<1>1. \A x \in {kk, h, r} : x.q \in [Object -> Seq(Thread)]
  BY KernelIs DEF Going, Listed
<1>2. Shrinks(kk, h)
  BY DEF Going
<1>3. Shrinks(kk, r)
  BY <1>1, <1>2, ShrinksIs
<1> QED
  BY <1>3 DEF Going

(* The semaphore's functions move nobody back.                             *)
LEMMA UnitsGoing ==
  ASSUME NEW kk, NEW h, Going(kk, h), NEW s \in Sem
  PROVE  /\ Going(kk, chSemSignalI(h, s))
         /\ h.cnt[s] > 0 => Going(kk, chSemFastWaitI(h, s))
         /\ \A n \in Nat : Going(kk, chSemResetI(h, s, n))
         /\ Going(kk, chBSemSignalI(h, s))
<1>1. Listed(h, {}) /\ Counted(h) /\ h \in KernelState /\ h.q \in [Object -> Seq(Thread)]
      /\ s \in Object
  BY KernelIs, ThreadAssumption DEF Going, Listed
<1>2. Going(kk, chSemSignalI(h, s))
  <2> DEFINE r == chSemSignalI(h, s)
  <2>1. (\E T : Signalled(h, r, s, T)) /\ r.current = h.current
    BY <1>1, SignalIIs
  <2> HIDE DEF r
  <2>2. Going(kk, r)
    BY <2>1, GoesFurther DEF Signalled
  <2> QED
    BY <2>2 DEF r
<1>3. ASSUME h.cnt[s] > 0
      PROVE  Going(kk, chSemFastWaitI(h, s))
  <2> DEFINE r == chSemFastWaitI(h, s)
  <2>1. UnitTaken(h, r, s)
    BY <1>1, <1>3, FastWaitIs
  <2> HIDE DEF r
  <2>2. Listed(r, {}) /\ Counted(r) /\ r.current = h.current /\ r.q = h.q
    BY <2>1 DEF UnitTaken, SameThreads
  <2>3. Shrinks(h, r)
    BY <1>1, <2>2, ShrinksIs
  <2>4. Going(kk, r)
    BY <2>2, <2>3, GoesFurther
  <2> QED
    BY <2>4 DEF r
<1>4. ASSUME NEW n \in Nat
      PROVE  Going(kk, chSemResetI(h, s, n))
  <2> DEFINE r == chSemResetI(h, s, n)
  <2>1. ResetTo(h, r, s, n, 0)
    <3>1. n \in Int
      OBVIOUS
    <3> QED
      BY <1>1, <3>1, ResetIs
  <2> HIDE DEF r
  <2>2. /\ Counted(r) /\ r.q[s] = <<>>
        /\ \A o \in Object \ {s} : r.q[o] = h.q[o]
    BY <1>1, <2>1, ResetCounted
  <2>3. Shrinks(h, r)
    <3> SUFFICES ASSUME NEW o \in Object
                 PROVE  Forward(h.q[o], r.q[o])
      BY DEF Shrinks
    <3>1. CASE o = s
      BY <2>2, <3>1 DEF Forward
    <3>2. CASE o # s
      <4>1. r.q[o] = h.q[o] /\ h.q[o] \in Seq(Thread)
        BY <1>1, <2>2, <3>2
      <4> QED
        BY <4>1, ForwardIs
    <3> QED
      BY <3>1, <3>2
  <2>4. Listed(r, {}) /\ r.current = h.current
    BY <2>1 DEF ResetTo
  <2>5. Going(kk, r)
    BY <2>2, <2>3, <2>4, GoesFurther
  <2> QED
    BY <2>5 DEF r
<1>5. Going(kk, chBSemSignalI(h, s))
  BY <1>2 DEF chBSemSignalI
<1> QED
  BY <1>2, <1>3, <1>4, <1>5

(* Nor does the scheduler.                                                 *)
LEMMA SettledGoing ==
  ASSUME NEW kk, NEW h, Going(kk, h), NEW r,
         r \in {chSchRescheduleS(h), CH_IRQ_EPILOGUE(h)}
  PROVE  Shrinks(kk, r)
<1>1. Listed(h, {}) /\ Shrinks(kk, h)
  BY DEF Going
<1>2. Settles(h, r)
  BY <1>1, SettlesS, SettlesI
<1>3. r.q = h.q
  BY <1>2 DEF Settles, Same, SameRest
<1> QED
  BY <1>1, <1>3 DEF Shrinks

(* The running thread joins a semaphore's queue as its last.               *)
LEMMA JoinsLast ==
  ASSUME NEW kk, NEW h, Going(kk, h), NEW s \in Sem, NEW r, SemSlept(h, r, s)
  PROVE  Closer(kk, r)
<1>1. h.q \in [Object -> Seq(Thread)] /\ Sem \subseteq Object /\ h.current = kk.current
  BY KernelIs, ThreadAssumption DEF Going, Listed
<1>2. \A o \in Object : r.q[o] = IF o = s THEN Append(h.q[s], kk.current) ELSE h.q[o]
  BY <1>1 DEF SemSlept, Sleep
<1>3. ASSUME NEW o \in Sem, NEW i \in DOMAIN r.q[o], r.q[o][i] # kk.current
      PROVE  i \in DOMAIN h.q[o] /\ h.q[o][i] = r.q[o][i]
  <2>1. h.q[o] \in Seq(Thread) /\ o \in Object
    BY <1>1
  <2>2. CASE o = s
    <3> DEFINE q == h.q[s]
               x == Append(q, kk.current)
    <3>1. q \in Seq(Thread) /\ r.q[o] = x
      BY <1>2, <2>1, <2>2
    <3> HIDE DEF q
    <3>2. DOMAIN x = 1..Len(q) + 1 /\ x[Len(q) + 1] = kk.current /\ DOMAIN q = 1..Len(q)
          /\ (\A j \in 1..Len(q) : x[j] = q[j]) /\ Len(q) \in Nat
      BY <3>1
    <3> HIDE DEF x
    <3>3. i \in 1..Len(q) /\ q[i] = r.q[o][i]
      BY <1>3, <3>1, <3>2
    <3> QED
      BY <2>2, <3>2, <3>3 DEF q
  <2>3. CASE o # s
    BY <1>2, <2>1, <2>3
  <2> QED
    BY <2>2, <2>3
<1>4. \A o \in Sem : \A i \in DOMAIN h.q[o] :
        \E j \in DOMAIN kk.q[o] : i <= j /\ kk.q[o][j] = h.q[o][i]
  BY <1>1 DEF Going, Shrinks, Forward
<1> QED
  BY <1>3, <1>4 DEF Closer

(* The calls on semaphores let nobody overtake.                             *)
LEMMA SemCloser ==
  ASSUME IInv, api = "sem", SemCalls
  PROVE  Closer(k, k')
<1>1. KernelRight(k) /\ Placed(k, pc, api) /\ Listed(k, {}) /\ Counted(k) /\ k \in KernelState
  BY DEF IInv, KernelRight, Listed
<1>2. Going(k, k)
  <2>1. Shrinks(k, k)
    BY <1>1, KernelIs, ShrinksIs
  <2> QED
    BY <1>1, <2>1 DEF Going
<1>3. ASSUME NEW h, Going(k, h), k' \in {chSchRescheduleS(h), CH_IRQ_EPILOGUE(h)}
      PROVE  Closer(k, k')
  BY <1>3, SettledGoing, ShrinksCloser
<1>4. ASSUME NEW s \in Sem, NEW n \in Time \cup {Infinite}, chSemWait(s, n)
      PROVE  Closer(k, k')
  <2>1. Caller(k, pc)
    BY <1>1, <1>4, CallerIs DEF chSemWait
  <2>2. CASE k.cnt[s] > 0 /\ k' = chSemFastWaitI(k, s)
    <3>1. Going(k, k')
      BY <1>2, <2>2, UnitsGoing
    <3> QED
      BY <3>1, ShrinksCloser DEF Going
  <2>3. CASE k.cnt[s] <= 0 /\ k' = chSemSleepS(k, s, n)
    <3>1. SemSlept(k, k', s)
      BY <2>1, <2>3, SemSleepIs DEF Caller
    <3> QED
      BY <1>2, <3>1, JoinsLast
  <2> QED
    BY <1>4, <2>2, <2>3 DEF chSemWait
<1>5. ASSUME NEW s \in Sem, chSemSignal(s)
      PROVE  Closer(k, k')
  <2>1. k' = chSemSignalS(k, s) /\ HighestCurrent(k)
    BY <1>1, <1>5 DEF chSemSignal, KernelRight
  <2>2. PICK T : Signalled(k, k', s, T)
    BY <1>1, <2>1, SignalSIs
  <2> QED
    BY <2>2, ShrinksCloser DEF Signalled
<1>6. ASSUME NEW s \in Sem, NEW n \in 0..1, chSemReset(s, n)
      PROVE  Closer(k, k')
  <2>1. n \in Nat
    OBVIOUS
  <2>2. Going(k, chSemResetI(k, s, n))
    BY <1>2, <2>1, UnitsGoing
  <2> QED
    BY <1>3, <1>6, <2>2 DEF chSemReset
<1>7. ASSUME NEW s \in Sem, NEW w \in Sem, chSemSignalWait(s, w)
      PROVE  Closer(k, k')
  <2> DEFINE h == chSemSignalI(k, s)
  <2>1. Going(k, h)
    BY <1>2, UnitsGoing
  <2>2. /\ h.cnt[w] > 0 => k' = chSchRescheduleS(chSemFastWaitI(h, w))
        /\ h.cnt[w] <= 0 => k' = chSemSleepS(h, w, Infinite)
        /\ h.cnt[w] > 0 \/ h.cnt[w] <= 0
    <3>1. \/ h.cnt[w] > 0 /\ k' = chSchRescheduleS(chSemFastWaitI(h, w))
          \/ h.cnt[w] <= 0 /\ k' = chSchGoSleepS(sem_insert(h, w), "WTSEM")
      BY <1>7, ZenonT(40) DEF chSemSignalWait
    <3>2. chSemSleepS(h, w, Infinite) = chSchGoSleepS(sem_insert(h, w), "WTSEM")
      BY SleepForEver DEF chSemSleepS
    <3> HIDE DEF h
    <3>3. h.cnt[w] \in Int
      BY <2>1 DEF Going, Listed, KernelState
    <3> QED
      BY <3>1, <3>2, <3>3, SMTT(40)
  <2>3. Caller(k, pc)
    BY <1>1, <1>7, CallerIs DEF chSemSignalWait
  <2>4. PICK T : Signalled(k, h, s, T)
    BY <1>1, SignalIIs
  <2> HIDE DEF h
  <2>5. CASE h.cnt[w] > 0
    <3>1. Going(k, chSemFastWaitI(h, w))
      BY <2>1, <2>5, UnitsGoing
    <3> QED
      BY <1>3, <2>2, <2>5, <3>1
  <2>6. CASE h.cnt[w] <= 0
    <3>1. /\ Listed(h, {}) /\ Counted(h) /\ h.current = k.current /\ h.current # Idle
          /\ TimersAre(h.vt, h.due) /\ h.due[h.current] = 0
      BY <2>1, <2>3, <2>4 DEF Caller, Going, Signalled
    <3>2. Infinite \in Time \cup {Infinite} /\ k' = chSemSleepS(h, w, Infinite)
      BY <2>2, <2>6
    <3>3. SemSlept(h, k', w)
      BY <2>6, <3>1, <3>2, SemSleepIs
    <3> QED
      BY <2>1, <3>3, JoinsLast
  <2> QED
    BY <2>2, <2>5, <2>6
<1>8. ASSUME NEW s \in Sem, chBSemSignal(s)
      PROVE  Closer(k, k')
  BY <1>2, <1>3, <1>8, UnitsGoing DEF chBSemSignal
<1>9. ASSUME NEW s \in Sem, SemIsr(s)
      PROVE  Closer(k, k')
  <2>1. Going(k, chSemSignalI(k, s)) /\ Going(k, chBSemSignalI(k, s))
        /\ Going(k, chSemResetI(k, s, 0))
    BY <1>2, UnitsGoing
  <2>2. Going(k, chSemAddTwoI(k, s))
    BY <2>1, UnitsGoing DEF chSemAddTwoI
  <2>3. k' \in {CH_IRQ_EPILOGUE(chSemSignalI(k, s)), CH_IRQ_EPILOGUE(chBSemSignalI(k, s)),
                CH_IRQ_EPILOGUE(chSemResetI(k, s, 0)), CH_IRQ_EPILOGUE(chSemAddTwoI(k, s))}
    BY <1>9 DEF SemIsr
  <2> QED
    BY <1>3, <2>1, <2>2, <2>3
<1> QED
  BY <1>4, <1>5, <1>6, <1>7, <1>8, <1>9 DEF SemCalls

(* Nor do the calls on a mailbox.                                           *)
LEMMA MbxCloser ==
  ASSUME IInv, api = "mbx", MbxCalls
  PROVE  Closer(k, k')
<1>1. KernelRight(k) /\ Placed(k, pc, api) /\ Listed(k, {}) /\ Counted(k) /\ k \in KernelState
      /\ TimersAre(k.vt, k.due)
  BY DEF IInv, KernelRight, Listed, TimersRight
<1>2. Going(k, k)
  <2>1. Shrinks(k, k)
    BY <1>1, KernelIs, ShrinksIs
  <2> QED
    BY <1>1, <2>1 DEF Going
<1>3. ASSUME NEW h, Going(k, h), k' \in {chSchRescheduleS(h), CH_IRQ_EPILOGUE(h)}
      PROVE  Closer(k, k')
  BY <1>3, SettledGoing, ShrinksCloser
<1>4. EmptySem \in Sem /\ FullSem \in Sem /\ Size \in Nat
  BY MailboxAssumption, MailRight
<1>5. ASSUME NEW s \in Sem, NEW o \in Sem, k.cnt[s] > 0,
             k' \in {chSchRescheduleS(GivesOn(chSemFastWaitI(k, s), o)),
                     CH_IRQ_EPILOGUE(GivesOn(chSemFastWaitI(k, s), o))}
      PROVE  Closer(k, k')
  <2>1. Going(k, chSemFastWaitI(k, s))
    BY <1>2, <1>5, UnitsGoing
  <2>2. Going(k, GivesOn(chSemFastWaitI(k, s), o))
    BY <2>1, UnitsGoing DEF GivesOn
  <2> QED
    BY <1>3, <1>5, <2>2
<1>6. ASSUME NEW s \in Sem, NEW n \in Time \cup {Infinite}, Calls, k.cnt[s] <= 0,
             k' = chSemSleepS(k, s, n)
      PROVE  Closer(k, k')
  <2>1. Caller(k, pc)
    BY <1>1, <1>6, CallerIs
  <2>2. SemSlept(k, k', s)
    BY <1>6, <2>1, SemSleepIs DEF Caller
  <2> QED
    BY <1>2, <2>2, JoinsLast
<1>7. Going(k, Awake)
  <2>1. Awake = AwakeOf(k)
    BY DEF Awake, AwakeOf, me
  <2>2. Resumed(k, Awake)
    BY <1>1, <2>1, AwakeIs
  <2>3. Changed(k, Awake, api) /\ Awake.current = k.current
    BY <1>1, <2>2, ResumedChanges DEF Stable
  <2>4. Shrinks(k, Awake)
    BY <1>1, <2>2, KernelIs, ShrinksIs DEF Resumed
  <2> QED
    BY <1>1, <2>3, <2>4 DEF Going, Changed
<1>8. ASSUME NEW o \in Sem, k' = Awake \/ k' = chSchRescheduleS(GivesOn(Awake, o))
      PROVE  Closer(k, k')
  <2>1. Going(k, GivesOn(Awake, o))
    BY <1>7, UnitsGoing DEF GivesOn
  <2>2. CASE k' = Awake
    BY <1>7, <2>2, ShrinksCloser DEF Going
  <2> QED
    BY <1>3, <1>8, <2>1, <2>2
<1>9. ASSUME NEW ahead, NEW m, NEW n \in Time \cup {Infinite}, chMBPost(ahead, m, n)
      PROVE  Closer(k, k')
  BY <1>4, <1>5, <1>6, <1>9 DEF chMBPost
<1>10. ASSUME NEW ahead, NEW m, chMBPostI(ahead, m)
       PROVE  Closer(k, k')
  BY <1>4, <1>5, <1>10 DEF chMBPostI
<1>11. ASSUME NEW n \in Time \cup {Infinite}, chMBFetch(n)
       PROVE  Closer(k, k')
  BY <1>4, <1>5, <1>6, <1>11 DEF chMBFetch
<1>12. ASSUME chMBFetchI
       PROVE  Closer(k, k')
  BY <1>4, <1>5, <1>12 DEF chMBFetchI
<1>13. ASSUME chMBReset
       PROVE  Closer(k, k')
  <2> DEFINE f == chSemResetI(k, EmptySem, Size)
  <2>1. Going(k, f)
    BY <1>2, <1>4, UnitsGoing
  <2>2. k' = chSchRescheduleS(chSemResetI(f, FullSem, 0))
    BY <1>13 DEF chMBReset
  <2> HIDE DEF f
  <2>3. Going(k, chSemResetI(f, FullSem, 0))
    BY <1>4, <2>1, UnitsGoing
  <2> QED
    BY <1>3, <2>2, <2>3
<1>14. ASSUME PostWoken \/ FetchWoken
       PROVE  Closer(k, k')
  BY <1>4, <1>8, <1>14 DEF PostWoken, FetchWoken
<1> QED
  BY <1>9, <1>10, <1>11, <1>12, <1>13, <1>14 DEF MbxCalls

(* In the other groups nobody waits for a semaphore.                        *)
LEMMA NobodyCloser ==
  ASSUME IInv, api \notin {"sem", "mbx"}, NEW kk
  PROVE  Closer(kk, k)
<1>1. api \in {"threads", "mtx", "msg", "evt"} \cup Queue
  BY KernelAssumption DEF IInv
<1>2. Sem \cap ObjectsOf(api) = {}
  BY <1>1, MutexAssumption, QueueObjects DEF ObjectsOf
<1>3. \A s \in Sem : k.q[s] = <<>>
  BY <1>2, ThreadAssumption DEF IInv, Placed
<1> QED
  BY <1>3 DEF Closer

(* A tick takes threads out of the queues, and lets nobody overtake.        *)
LEMMA TickCloser ==
  ASSUME IInv, Tick
  PROVE  Closer(k, k')
<1> DEFINE h == chSysTimerHandlerI(k)
<1>1. KernelRight(k) /\ Placed(k, pc, api) /\ Interrupts /\ k' = CH_IRQ_EPILOGUE(h)
      /\ k \in KernelState
  BY DEF IInv, Tick, KernelRight, Listed
<1>2. k.due[k.current] = 0 /\ Listed(k, {}) /\ Counted(k) /\ TimersRight(k)
  BY <1>1, InterruptIs DEF KernelRight
<1>3. PICK F : TimeGoesOn(k, h, F)
  BY <1>2, TickIs
<1> HIDE DEF h
<1>4. Going(k, h)
  BY <1>1, <1>3 DEF TimeGoesOn, Going
<1> QED
  BY <1>1, <1>4, SettledGoing, ShrinksCloser

(* Nor does a thread that goes on after its wait.                           *)
LEMMA WokenCloser ==
  ASSUME IInv, Woken
  PROVE  Closer(k, k')
<1>1. k \in KernelState /\ TimersAre(k.vt, k.due)
  BY DEF IInv, KernelRight, Listed, TimersRight
<1>2. k' = AwakeOf(k)
  BY DEF Woken, Awake, AwakeOf, me
<1>3. Resumed(k, k')
  BY <1>1, <1>2, AwakeIs
<1>4. Shrinks(k, k')
  BY <1>1, <1>3, KernelIs, ShrinksIs DEF Resumed
<1> QED
  BY <1>4, ShrinksCloser

(* So no step does.                                                         *)
LEMMA NextCloser ==
  ASSUME IInv, IInv', [Next]_vars, k' # k
  PROVE  Closer(k, k')
<1>1. Next /\ api' = api
  BY DEF vars, threadVars, Next
<1>2. CASE api \notin {"sem", "mbx"}
  <2>1. (api \notin {"sem", "mbx"})'
    BY <1>1, <1>2
  <2>2. ASSUME NEW kk
        PROVE  Closer(kk, k)'
    BY <2>1, NobodyCloser, PTL
  <2> QED
    BY <2>2
<1>3. CASE api \in {"sem", "mbx"}
  <2>1. Woken \/ Tick \/ (api = "sem" /\ SemCalls) \/ (api = "mbx" /\ MbxCalls)
    BY <1>1, <1>3 DEF Next, Queue
  <2> QED
    BY <2>1, WokenCloser, TickCloser, SemCloser, MbxCloser
<1> QED
  BY <1>2, <1>3

(* Who waits for a semaphore and has waited is no further from its head.    *)
LEMMA PlacesKept ==
  ASSUME IInv, Closer(k, k'), NEW s \in Sem, NEW t \in Thread,
         t \in Members(k.q[s]), t \in Members(k'.q[s])
  PROVE  Place(k', s, t) <= Place(k, s, t)
<1>1. Listed(k, {}) /\ k \in KernelState /\ s \in Object
  BY ThreadAssumption DEF IInv, KernelRight, Listed
<1>2. k.q[s] \in Seq(Thread) /\ Once(k.q[s])
  BY <1>1, KernelIs DEF Listed, QueuesRight
<1>3. t # k.current
  BY <1>1 DEF Listed, QueuesRight, ReadyRight, Kind
<1> DEFINE i == Place(k', s, t)
           n == Place(k, s, t)
<1>4. i \in DOMAIN k'.q[s] /\ k'.q[s][i] = t
  BY DEF Place, Members
<1>5. n \in DOMAIN k.q[s] /\ k.q[s][n] = t
  BY DEF Place, Members
<1> HIDE DEF i, n
<1>6. PICK j \in DOMAIN k.q[s] : i <= j /\ k.q[s][j] = t
  BY <1>3, <1>4 DEF Closer
<1>7. j = n
  BY <1>2, <1>5, <1>6 DEF Once
<1> QED
  BY <1>6, <1>7 DEF i, n

(* What is fetched from a mailbox is what was posted, in that order and    *)
(* once each, and so it is with the bytes of the I/O queues.               *)
THEOREM BytesCorrect ==
  ASSUME ~ResetsAnyTime, ~SetsPriorityAnyTime
  PROVE  Spec => [](MailboxInOrder /\ BytesInOrder)
<1>1. KInv => MailboxInOrder /\ BytesInOrder
  <2>1. KInv => IInv
    BY DEF KInv
  <2>2. IInv => MailboxInOrder
    BY MailInOrder
  <2>3. IInv => BytesInOrder
    BY QueuesInOrder
  <2> QED
    BY <2>1, <2>2, <2>3, Zenon
<1> QED
  BY <1>1, KernelInvariant, PTL

(* A unit of a semaphore is not taken past a thread that waits, through     *)
(* signals, resets and waits that time out: who waits only gets closer to   *)
(* the head of the queue.                                                   *)
THEOREM OvertakingCorrect ==
  ASSUME ~ResetsAnyTime, ~SetsPriorityAnyTime
  PROVE  Spec => NoOvertaking
<1> DEFINE A == \A s \in Sem, t \in Thread :
                  t \in Members(k.q[s]) /\ t \in Members(k.q[s])'
                    => Place(k, s, t)' <= Place(k, s, t)
<1>1. KInv /\ KInv' /\ [Next]_vars => [A]_k
  <2> SUFFICES ASSUME KInv, KInv', [Next]_vars, k' # k
               PROVE  A
    OBVIOUS
  <2>1. IInv /\ IInv'
    BY DEF KInv
  <2>2. Closer(k, k')
    BY <2>1, NextCloser
  <2> QED
    BY <2>1, <2>2, PlacesKept
<1>2. Spec => []KInv
  BY KernelInvariant
<1> QED
  BY <1>1, <1>2, PTL DEF Spec, NoOvertaking

(* The whole of InOrder: messages and bytes come out as they went in, and   *)
(* the threads that wait for a semaphore get its units in turn.             *)
THEOREM InOrderCorrect ==
  ASSUME ~ResetsAnyTime, ~SetsPriorityAnyTime
  PROVE  Spec => InOrder
BY BytesCorrect, OvertakingCorrect DEF InOrder

==============================================================================
