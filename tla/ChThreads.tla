------------------------------ MODULE ChThreads ------------------------------
(***************************************************************************)
(* Threads of ChibiOS/RT: the calls of chthreads.c, each by the thread     *)
(* that runs, and the system tick.  A call holds the kernel's lock, so it  *)
(* is one step up to the place where its thread sleeps; what the call does *)
(* when the thread runs again is the next step of that thread, still under *)
(* the lock: no interrupt comes before it.                                 *)
(***************************************************************************)
EXTENDS ChSchd

CONSTANTS Main, Prio, Time

HIGHPRIO == 127

ASSUME ThreadsAssumption ==
  /\ IsFiniteSet(Thread) /\ Main \in Thread \ {Idle}
  /\ Prio \subseteq 1..HIGHPRIO /\ Time \subseteq Nat \ {0}

VARIABLES
  k,           \* the kernel's state, see ChSchd
  pc,          \* [Thread -> where it goes on, <<"user">> in its own code]
  waiting,     \* [Thread -> threads in chThdWait for it, last one first]
  systime      \* vtlist.vt_systime, its lowest bit

threadVars == <<k, pc, waiting, systime>>

InUser == <<"user">>
me == k.current

(* The running thread calls the kernel; interrupts come while a thread, or *)
(* the idle one, runs its own code.                                        *)
Calls == pc[me] = InUser /\ me # Idle
Interrupts == pc[me][1] \in {"user", "more"}   \* "more": see ChQueue
Sleeps(place) == pc' = [pc EXCEPT ![me] = place]
Returns == pc' = [pc EXCEPT ![me] = InUser]
GoesOn(place) == pc[me][1] = place

------------------------------------------------------------------------------
(* chSysInit: main runs and has created the idle thread.                   *)
Booted ==
  [state |-> [t \in Thread |->
                IF t = Main THEN "CURRENT" ELSE IF t = Idle THEN "READY" ELSE "NONE"],
   prio |-> [t \in Thread |-> IF t = Main THEN 2 ELSE 1],
   realprio |-> [t \in Thread |-> IF t = Main THEN 2 ELSE 1],
   preempt |-> [t \in Thread |-> Quantum],
   msg |-> [t \in Thread |-> "OK"],
   ready |-> <<Idle>>, current |-> Main, vt |-> <<>>,
   q |-> [o \in Object |-> <<>>], cnt |-> [s \in Sem |-> 0],
   due |-> [t \in Thread |-> 0]]

thread_init(kk, t, p) ==
  [kk EXCEPT !.prio[t] = p, !.realprio[t] = p, !.state[t] = "SUSPENDED",
             !.preempt[t] = Quantum]
Created(kk, t, p) == chSchWakeupS(thread_init(kk, t, p), t, "OK")

ThreadsInit ==
  /\ pc = [t \in Thread |-> InUser]
  /\ waiting = [t \in Thread |-> <<>>]
  /\ systime = 0

------------------------------------------------------------------------------
chThdCreateI(t, p) ==
  /\ Calls /\ k.state[t] = "NONE"
  /\ k' = thread_init(k, t, p)
  /\ UNCHANGED <<pc, waiting, systime>>

chThdCreateStatic(t, p) ==
  /\ Calls /\ k.state[t] = "NONE"
  /\ k' = Created(k, t, p)
  /\ UNCHANGED <<pc, waiting, systime>>

chThdResume(t) ==
  /\ Calls /\ k.state[t] = "SUSPENDED"
  /\ k' = chSchWakeupS(k, t, "OK")
  /\ UNCHANGED <<pc, waiting, systime>>

(* An inherited priority is kept when it is higher.                        *)
chThdSetPriority(p) ==
  /\ Calls
  /\ k' = chSchRescheduleS(
            [k EXCEPT !.prio[me] = IF @ = k.realprio[me] \/ p > @ THEN p ELSE @,
                      !.realprio[me] = p])
  /\ UNCHANGED <<pc, waiting, systime>>

chThdSleep(time) ==
  /\ Calls
  /\ k' = chSchGoSleepTimeoutS(k, "SLEEPING", time)
  /\ Sleeps(<<"woken">>)
  /\ UNCHANGED <<waiting, systime>>

chThdYield ==
  /\ Calls
  /\ firstprio(k) >= k.prio[me]
  /\ k' = chSchDoRescheduleBehind(k)
  /\ UNCHANGED <<pc, waiting, systime>>

(* The threads that wait are made ready, the last one first.               *)
WakeAll(s) == s
chThdExit ==
  /\ Calls /\ me # Main
  /\ LET woken == WakeAll(waiting[me])
         ready[i \in 0..Len(woken)] ==
           IF i = 0 THEN k ELSE chSchReadyI(ready[i - 1], woken[i])
     IN k' = chSchGoSleepS(ready[Len(woken)], "FINAL")
  /\ waiting' = [waiting EXCEPT ![me] = <<>>]
  /\ UNCHANGED <<pc, systime>>

chThdWait(t) ==
  /\ Calls
  /\ t \notin {me, Idle} /\ k.state[t] \notin {"NONE", "FINAL"}
  /\ waiting' = [waiting EXCEPT ![t] = <<me>> \o @]
  /\ k' = chSchGoSleepS(k, "WTEXIT")
  /\ Sleeps(<<"woken">>)
  /\ UNCHANGED systime

------------------------------------------------------------------------------
(* A thread that slept returns from its call.  Its message is read here,   *)
(* and is of no use after.                                                 *)
Awake == [TimerOff(k) EXCEPT !.msg[me] = "OK"]
Woken ==
  /\ GoesOn("woken")
  /\ k' = Awake
  /\ Returns
  /\ UNCHANGED <<waiting, systime>>

Tick ==
  /\ Interrupts
  /\ k' = CH_IRQ_EPILOGUE(chSysTimerHandlerI(k))
  /\ systime' = 1 - systime
  /\ UNCHANGED <<pc, waiting>>

ThreadCalls ==
  \/ \E t \in Thread, p \in Prio : chThdCreateI(t, p) \/ chThdCreateStatic(t, p)
  \/ \E t \in Thread : chThdResume(t) \/ chThdWait(t)
  \/ \E p \in Prio : chThdSetPriority(p)
  \/ \E n \in Time : chThdSleep(n)
  \/ chThdYield
  \/ chThdExit

(* A tick waits in its flag while interrupts are off, and comes when they  *)
(* are on; a thread that was given the processor within a call goes on.    *)
TickComes == Interrupts /\ systime' = 1 - systime
CallGoesOn == pc[me] # InUser /\ Returns
Fairness == SF_systime(TickComes) /\ WF_pc(CallGoesOn)

------------------------------------------------------------------------------
Members(s) == {s[i] : i \in DOMAIN s}

(* In its own code, the thread that runs has the highest priority of those *)
(* that could, through every wake up, tick, change of priority and         *)
(* inheritance.                                                            *)
HighestRuns ==
  pc[me] = InUser => \A t \in Thread : k.state[t] = "READY" => k.prio[t] <= k.prio[me]

(* A thread is in one place: running, in the ready list by priority, or    *)
(* in the queue of the object its state tells, never in two.               *)
InOnePlace ==
  /\ \A t \in Thread : k.state[t] = "CURRENT" <=> t = me
  /\ Members(k.ready) = {t \in Thread : k.state[t] = "READY"}
  /\ Len(k.ready) = Cardinality(Members(k.ready))
  /\ \A i, j \in DOMAIN k.ready : i < j => k.prio[k.ready[i]] >= k.prio[k.ready[j]]
  /\ \A t \in Thread :
       Cardinality({o \in Object : t \in Members(k.q[o])})
         = IF k.state[t] \in {"WTSEM", "WTMTX", "WTCOND", "WTQUEUE"} THEN 1 ELSE 0

(* Every timer fires at its time, however many are set and reset before    *)
(* and behind it; a thread that runs has none.                             *)
TimersExact ==
  /\ \A i \in DOMAIN k.vt : /\ Elapsed(k.vt, i) = k.due[k.vt[i].thd]
                            /\ k.due[k.vt[i].thd] > 0
  /\ Len(k.vt) = Cardinality({t \in Thread : k.due[t] > 0})
  /\ pc[me] = InUser => ~chVTIsArmedI(k, me)

(* Nobody waits for a thread that has ended.                               *)
ExitsAreSeen ==
  \A t \in Thread : k.state[t] = "WTEXIT" =>
    \E u \in Thread : k.state[u] # "FINAL" /\ t \in Members(waiting[u])

(* A thread that is ready runs, or one of higher priority does: a time     *)
(* slice ends, whatever the threads of its priority call.                  *)
TimeSliced ==
  \A t \in Thread :
    k.state[t] = "READY" ~> me = t \/ k.prio[me] > k.prio[t]

(* A wait with a time limit ends.                                          *)
TimedWaitEnds == \A t \in Thread : chVTIsArmedI(k, t) ~> ~chVTIsArmedI(k, t)

==============================================================================
