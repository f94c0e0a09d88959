------------------------------- MODULE ChSchd --------------------------------
(***************************************************************************)
(* The scheduler and the virtual timers of ChibiOS/RT as this firmware is  *)
(* built (time slices, FIFO semaphores and messages, an idle thread): what *)
(* each function of chschd.c, chlists.c and chvt.c makes of the kernel's   *)
(* state k, a record of                                                    *)
(*   state, prio, realprio, preempt, msg   of every thread (p_u.rdymsg)    *)
(*   ready, current                        the ready list and currp        *)
(*   vt            the delta list of timers, [thd, time] each              *)
(*   q, cnt        the threads queued on an object, semaphore counters     *)
(*   due           history: ticks until the timer of a thread must fire    *)
(***************************************************************************)
EXTENDS Integers, Sequences, FiniteSets

CONSTANTS Thread, Idle, Quantum, Object, Sem

ASSUME ThreadAssumption ==
  Idle \in Thread /\ Quantum \in Nat \ {0} /\ Sem \subseteq Object

Immediate == 0
Infinite == -1

(* How many of the first elements pass, and an insertion after them.       *)
Leading(s, Passed(_)) ==
  Cardinality({i \in DOMAIN s : \A j \in 1..i : Passed(s[j])})
InsertAfter(s, n, x) == SubSeq(s, 1, n) \o <<x>> \o SubSeq(s, n + 1, Len(s))

(* A list without its element n; without x, if it is there.                *)
Unlinked(s, n) == SubSeq(s, 1, n - 1) \o SubSeq(s, n + 1, Len(s))
Without(s, x) ==
  IF \E i \in DOMAIN s : s[i] = x
    THEN Unlinked(s, CHOOSE i \in DOMAIN s : s[i] = x) ELSE s

prio_insert_ahead(k, s, t) ==
  InsertAfter(s, Leading(s, LAMBDA u : k.prio[u] > k.prio[t]), t)
prio_insert(k, s, t) ==
  InsertAfter(s, Leading(s, LAMBDA u : k.prio[u] >= k.prio[t]), t)

firstprio(k) == IF k.ready = <<>> THEN 0 ELSE k.prio[Head(k.ready)]

------------------------------------------------------------------------------
chSchReadyI(k, t) ==
  [k EXCEPT !.state[t] = "READY", !.ready = prio_insert(k, @, t)]

(* The first ready thread takes the processor of one that leaves it as s.  *)
Switch(k, s) ==
  [k EXCEPT !.state = [@ EXCEPT ![k.current] = s, ![Head(k.ready)] = "CURRENT"],
            !.current = Head(k.ready), !.ready = Tail(@)]

chSchGoSleepS(k, newstate) ==
  [Switch(k, newstate) EXCEPT !.preempt[k.current] = Quantum]

chSchWakeupS(k, t, msg) ==
  LET woken == [k EXCEPT !.msg[t] = msg]
  IN IF k.prio[t] <= k.prio[k.current]
       THEN chSchReadyI(woken, t)
       ELSE [chSchReadyI(woken, k.current)
               EXCEPT !.state[t] = "CURRENT", !.current = t]

chSchDoRescheduleBehind(k) ==
  LET otp == k.current
  IN chSchReadyI([Switch(k, "READY") EXCEPT !.preempt[otp] = Quantum], otp)

chSchDoRescheduleAhead(k) ==
  LET next == Switch(k, "READY")
  IN [next EXCEPT !.ready = prio_insert_ahead(k, @, k.current)]

chSchRescheduleS(k) ==
  IF firstprio(k) > k.prio[k.current] THEN chSchDoRescheduleAhead(k) ELSE k

chSchDoReschedule(k) ==
  IF k.preempt[k.current] = 0
    THEN chSchDoRescheduleBehind(k) ELSE chSchDoRescheduleAhead(k)

NoSlices(k) == k.prio[k.current] + 1     \* fault: a time slice has no end
PreemptFrom(k) ==
  IF k.preempt[k.current] = 0 THEN k.prio[k.current] ELSE k.prio[k.current] + 1
chSchIsPreemptionRequired(k) == firstprio(k) >= PreemptFrom(k)

(* What every interrupt handler ends with.                                 *)
CH_IRQ_EPILOGUE(k) ==
  IF chSchIsPreemptionRequired(k) THEN chSchDoReschedule(k) ELSE k

------------------------------------------------------------------------------
(* Virtual timers: each thread has one, in chSchGoSleepTimeoutS.           *)

Elapsed(vt, n) ==
  LET sum[i \in 0..n] == IF i = 0 THEN 0 ELSE sum[i - 1] + vt[i].time
  IN sum[n]

chVTIsArmedI(k, t) == \E i \in DOMAIN k.vt : k.vt[i].thd = t

(* The timer behind a new one counts from the new one on.                  *)
SameDelta(vt, n, d) == vt               \* fault: its delta is left
ShorterDelta(vt, n, d) ==
  IF n > Len(vt) THEN vt ELSE [vt EXCEPT ![n].time = @ - d]
chVTSetI(k, t, time) ==
  LET n == Cardinality({i \in DOMAIN k.vt : Elapsed(k.vt, i) < time})
      rest == time - Elapsed(k.vt, n)
  IN [k EXCEPT !.vt = InsertAfter(ShorterDelta(@, n + 1, rest), n,
                                  [thd |-> t, time |-> rest]),
               !.due[t] = time]

chVTResetI(k, t) ==
  LET n == CHOOSE i \in DOMAIN k.vt : k.vt[i].thd = t
      longer == IF n = Len(k.vt) THEN k.vt
                ELSE [k.vt EXCEPT ![n + 1].time = @ + k.vt[n].time]
  IN [k EXCEPT !.vt = Unlinked(longer, n), !.due[t] = 0]

dequeue(k, t) == [k EXCEPT !.q = [o \in Object |-> Without(@[o], t)]]

(* The callback of a timer: the thread's wait has timed out, unless it was *)
(* woken since.                                                            *)
chSemFastSignalI(k, t) ==
  [s \in Sem |-> IF \E i \in DOMAIN k.q[s] : k.q[s][i] = t
                   THEN k.cnt[s] + 1 ELSE k.cnt[s]]
wakeup(k, t) ==
  IF k.state[t] = "READY" THEN k
  ELSE LET out == IF k.state[t] \in {"WTSEM", "WTQUEUE", "WTCOND"}
                    THEN dequeue([k EXCEPT !.cnt = chSemFastSignalI(k, t)], t)
                    ELSE k
       IN chSchReadyI([out EXCEPT !.msg[t] = "TIMEOUT"], t)

chSchGoSleepTimeoutS(k, newstate, time) ==
  chSchGoSleepS(IF time = Infinite THEN k ELSE chVTSetI(k, k.current, time),
                newstate)

(* What chSchGoSleepTimeoutS does when the thread runs again.              *)
TimerOff(k) == IF chVTIsArmedI(k, k.current) THEN chVTResetI(k, k.current) ELSE k

chVTDoTickI(k) ==
  IF k.vt = <<>> THEN k
  ELSE LET vt == [k.vt EXCEPT ![1].time = @ - 1]
           fired == Leading(vt, LAMBDA v : v.time = 0)
           left == [k EXCEPT !.vt = SubSeq(vt, fired + 1, Len(vt)),
                             !.due = [t \in Thread |-> IF @[t] > 0 THEN @[t] - 1 ELSE 0]]
           after[i \in 0..fired] ==
             IF i = 0 THEN left ELSE wakeup(after[i - 1], vt[i].thd)
       IN after[fired]

chSysTimerHandlerI(k) ==
  chVTDoTickI([k EXCEPT !.preempt[k.current] = IF @ > 0 THEN @ - 1 ELSE @])

==============================================================================
