-------------------------------- MODULE ChSem --------------------------------
(***************************************************************************)
(* Counting and binary semaphores of ChibiOS/RT (chsem.c, chbsem.h): what  *)
(* each function makes of the kernel's state, and the calls of threads and *)
(* interrupt handlers.  A semaphore's counter below zero is the number of  *)
(* threads that wait.                                                      *)
(***************************************************************************)
EXTENDS ChThreads

CONSTANT MaxCnt       \* bound: a counter is not signalled above it

semsOf(kk) == {s \in Sem : kk.cnt[s] < MaxCnt}

------------------------------------------------------------------------------
(* Waits of the running thread: it takes a unit, or it queues and sleeps.  *)
chSemFastWaitI(kk, s) == [kk EXCEPT !.cnt[s] = @ - 1]

InFront(kk, s) == [kk EXCEPT !.cnt[s] = @ - 1, !.q[s] = <<kk.current>> \o @]
                            \* fault: the last one to come is the first
sem_insert(kk, s) == [kk EXCEPT !.cnt[s] = @ - 1, !.q[s] = Append(@, kk.current)]
chSemSleepS(kk, s, time) == chSchGoSleepTimeoutS(sem_insert(kk, s), "WTSEM", time)

(* A unit is given to the thread that waits first.                         *)
chSemSignalI(kk, s) ==
  LET more == [kk EXCEPT !.cnt[s] = @ + 1]
  IN IF more.cnt[s] > 0 THEN more
     ELSE chSchReadyI([more EXCEPT !.q[s] = Tail(@), !.msg[Head(kk.q[s])] = "OK"],
                      Head(kk.q[s]))

chSemSignalS(kk, s) ==
  LET more == [kk EXCEPT !.cnt[s] = @ + 1]
  IN IF more.cnt[s] > 0 THEN more
     ELSE chSchWakeupS([more EXCEPT !.q[s] = Tail(@)], Head(kk.q[s]), "OK")

(* Every thread that waits is told of the reset, the last one first.       *)
Waiters(kk, s) == kk.cnt[s]
chSemResetI(kk, s, n) ==
  LET many == IF Waiters(kk, s) < 0 THEN -Waiters(kk, s) ELSE 0
      after[i \in 0..many] ==
        IF i = 0 THEN [kk EXCEPT !.cnt[s] = n]
        ELSE LET last == after[i - 1].q[s][Len(after[i - 1].q[s])]
             IN chSchReadyI([after[i - 1] EXCEPT
                               !.q[s] = SubSeq(@, 1, Len(@) - 1),
                               !.msg[last] = "RESET"], last)
  IN after[many]

(* chSemAddCounterI(sp, 2)                                                 *)
chSemAddTwoI(kk, s) == chSemSignalI(chSemSignalI(kk, s), s)

chBSemSignalI(kk, s) == IF kk.cnt[s] < 1 THEN chSemSignalI(kk, s) ELSE kk

------------------------------------------------------------------------------
(* chSemWait, chSemWaitTimeout.  With no time to wait and no unit nothing  *)
(* changes.                                                                *)
chSemWait(s, time) ==
  /\ Calls
  /\ \/ k.cnt[s] > 0
        /\ k' = chSemFastWaitI(k, s)
        /\ UNCHANGED pc
     \/ k.cnt[s] <= 0
        /\ k' = chSemSleepS(k, s, time)
        /\ Sleeps(<<"woken">>)
  /\ UNCHANGED <<waiting, systime>>

chSemSignal(s) ==
  /\ Calls /\ s \in semsOf(k)
  /\ k' = chSemSignalS(k, s)
  /\ UNCHANGED <<pc, waiting, systime>>

chSemReset(s, n) ==
  /\ Calls
  /\ k' = chSchRescheduleS(chSemResetI(k, s, n))
  /\ UNCHANGED <<pc, waiting, systime>>

(* Signals one and waits for the other in one step.                        *)
chSemSignalWait(sps, spw) ==
  /\ Calls /\ sps \in semsOf(k)
  /\ LET given == chSemSignalI(k, sps)
     IN \/ given.cnt[spw] > 0
           /\ k' = chSchRescheduleS(chSemFastWaitI(given, spw))
           /\ UNCHANGED pc
        \/ given.cnt[spw] <= 0
           /\ k' = chSchGoSleepS(sem_insert(given, spw), "WTSEM")
           /\ Sleeps(<<"woken">>)
  /\ UNCHANGED <<waiting, systime>>

chBSemSignal(s) ==
  /\ Calls
  /\ k' = chSchRescheduleS(chBSemSignalI(k, s))
  /\ UNCHANGED <<pc, waiting, systime>>

(* An interrupt handler signals.                                           *)
SemIsr(s) ==
  /\ Interrupts /\ s \in semsOf(k)
  /\ k' \in {CH_IRQ_EPILOGUE(chSemSignalI(k, s)),
             CH_IRQ_EPILOGUE(chBSemSignalI(k, s)),
             CH_IRQ_EPILOGUE(chSemResetI(k, s, 0))}
            \cup IF k.cnt[s] + 1 < MaxCnt
                   THEN {CH_IRQ_EPILOGUE(chSemAddTwoI(k, s))} ELSE {}
  /\ UNCHANGED <<pc, waiting, systime>>

SemCalls ==
  \E s \in Sem :
    \/ \E time \in Time \cup {Infinite} : chSemWait(s, time)
    \/ chSemSignal(s)
    \/ \E n \in 0..1 : chSemReset(s, n)
    \/ \E other \in Sem : chSemSignalWait(s, other)
    \/ chBSemSignal(s)
    \/ SemIsr(s)

------------------------------------------------------------------------------
(* What the code asserts at every call: a counter below zero is the number *)
(* of threads in the queue, through time outs that race signals, and       *)
(* resets.                                                                 *)
CounterIsQueue ==
  \A s \in Sem : Len(k.q[s]) = IF k.cnt[s] < 0 THEN -k.cnt[s] ELSE 0

(* A unit is not taken past a thread that waits: who waits on a semaphore  *)
(* only gets closer to its head, until it leaves.                          *)
Place(kk, s, t) == CHOOSE i \in DOMAIN kk.q[s] : kk.q[s][i] = t
NoOvertaking ==
  [][\A s \in Sem, t \in Thread :
       t \in Members(k.q[s]) /\ t \in Members(k.q[s])'
         => Place(k, s, t)' <= Place(k, s, t)]_k

==============================================================================
