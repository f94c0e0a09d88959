-------------------------------- MODULE ChMtx --------------------------------
(***************************************************************************)
(* Mutexes with priority inheritance and condition variables of ChibiOS/RT *)
(* (chmtx.c, chcond.c).  A thread's mutexes are a stack, the last one      *)
(* locked is the first one unlocked.                                       *)
(***************************************************************************)
EXTENDS ChThreads

CONSTANTS Mutex, CondVar, NoThread

ASSUME MutexAssumption ==
  /\ NoThread \notin Thread
  /\ Mutex \subseteq Object \ Sem /\ CondVar \subseteq Object \ (Sem \cup Mutex)

VARIABLES
  owner,       \* [Mutex -> m_owner]
  mtxlist      \* [Thread -> p_mtxlist, the last mutex locked first]

mtxVars == <<owner, mtxlist>>

MtxInit ==
  /\ owner = [m \in Mutex |-> NoThread]
  /\ mtxlist = [t \in Thread |-> <<>>]

MaxOf(S) == CHOOSE n \in S : \A i \in S : i <= n
Queued(kk, t) == CHOOSE o \in Object : t \in Members(kk.q[o])

------------------------------------------------------------------------------
(* Raises a thread's priority and puts it where it belongs in its queue.   *)
Reprioritised(kk, t, p) ==
  LET up == [kk EXCEPT !.prio[t] = p]
      o == Queued(kk, t)
  IN IF kk.state[t] \in {"WTMTX", "WTCOND"}
       THEN [up EXCEPT !.q[o] = prio_insert(up, Without(@, t), t)]
     ELSE IF kk.state[t] = "READY"
       THEN chSchReadyI([up EXCEPT !.ready = Without(@, t)], t)
     ELSE up

(* The owner gains the priority, and the owner of what it waits for, as    *)
(* long as the priority is higher than theirs.                             *)
NextOwner(kk, t) ==
  IF kk.state[t] = "WTMTX" THEN owner[Queued(kk, t)] ELSE NoThread
Inherit(kk, first, p) ==
  LET chain[n \in 0..Cardinality(Thread)] ==
        IF n = 0 THEN <<kk, first>>
        ELSE LET on == chain[n - 1][1]  tp == chain[n - 1][2]
             IN IF tp = NoThread THEN <<on, tp>>
                ELSE IF on.prio[tp] >= p THEN <<on, NoThread>>
                ELSE <<Reprioritised(on, tp, p), NextOwner(on, tp)>>
  IN chain[Cardinality(Thread)][1]

(* chMtxLockS, by the running thread: the mutex becomes its own, or it     *)
(* sleeps until the mutex is handed to it.                                 *)
Stacked(m, list) == <<m>> \o list
Own(m, t) ==
  /\ owner' = [owner EXCEPT ![m] = t]
  /\ mtxlist' = [mtxlist EXCEPT ![t] = Stacked(m, @)]
MtxSleepS(kk, m) ==
  LET higher == Inherit(kk, owner[m], kk.prio[me])
  IN chSchGoSleepS([higher EXCEPT !.q[m] = prio_insert(higher, @, me)], "WTMTX")

(* The priority left to a thread by the mutexes it still owns.             *)
NoMutexes(kk, t, rest) == kk.realprio[t]    \* fault: they are forgotten
PrioLeft(kk, t, rest) ==
  MaxOf({kk.realprio[t]} \cup {kk.prio[Head(kk.q[m])] : m \in {n \in Members(rest) : kk.q[n] # <<>>}})

(* chMtxUnlockS without the wake up: the first mutex of the stack goes to  *)
(* the first thread in its queue.                                          *)
HandOver ==
  LET m == Head(mtxlist[me])
      rest == Tail(mtxlist[me])
      t == IF k.q[m] = <<>> THEN NoThread ELSE Head(k.q[m])
  IN [m |-> m, to |-> t,
      owner |-> [owner EXCEPT ![m] = t],
      list |-> [u \in Thread |-> IF u = me THEN rest
                                 ELSE IF u = t THEN Stacked(m, mtxlist[u]) ELSE mtxlist[u]],
      k |-> IF t = NoThread THEN k
            ELSE [k EXCEPT !.prio[me] = PrioLeft(k, me, rest), !.q[m] = Tail(@)]]

chMtxUnlockS(h) ==
  IF h.to = NoThread THEN h.k ELSE chSchReadyI(h.k, h.to)

------------------------------------------------------------------------------
chMtxLock(m) ==
  /\ Calls /\ owner[m] # me
  /\ \/ owner[m] = NoThread /\ Own(m, me) /\ UNCHANGED <<k, pc>>
     \/ owner[m] # NoThread
        /\ k' = MtxSleepS(k, m)
        /\ Sleeps(<<"woken">>)
        /\ UNCHANGED mtxVars
  /\ UNCHANGED <<waiting, systime>>

chMtxTryLock(m) ==
  /\ Calls /\ owner[m] = NoThread
  /\ Own(m, me)
  /\ UNCHANGED threadVars

chMtxUnlock ==
  /\ Calls /\ mtxlist[me] # <<>>
  /\ LET h == HandOver
     IN /\ owner' = h.owner /\ mtxlist' = h.list
        /\ k' = IF h.to = NoThread THEN h.k ELSE chSchWakeupS(h.k, h.to, "OK")
  /\ UNCHANGED <<pc, waiting, systime>>

OwnPrio(kk, t) == kk.realprio[t]
chMtxUnlockAll ==
  /\ Calls /\ mtxlist[me] # <<>>
  /\ LET mine == mtxlist[me]
         to == [i \in DOMAIN mine |-> IF k.q[mine[i]] = <<>> THEN NoThread
                                      ELSE Head(k.q[mine[i]])]
         after[i \in 0..Len(mine)] ==
           IF i = 0 THEN k
           ELSE IF to[i] = NoThread THEN after[i - 1]
           ELSE chSchReadyI([after[i - 1] EXCEPT !.q[mine[i]] = Tail(@)], to[i])
         lists[i \in 0..Len(mine)] ==
           IF i = 0 THEN [mtxlist EXCEPT ![me] = <<>>]
           ELSE IF to[i] = NoThread THEN lists[i - 1]
           ELSE [lists[i - 1] EXCEPT ![to[i]] = Stacked(mine[i], @)]
     IN /\ owner' = [m \in Mutex |->
                       IF m \in Members(mine) THEN to[CHOOSE i \in DOMAIN mine : mine[i] = m]
                       ELSE owner[m]]
        /\ mtxlist' = lists[Len(mine)]
        /\ k' = chSchRescheduleS([after[Len(mine)] EXCEPT
                                    !.prio[me] = OwnPrio(k, me)])
  /\ UNCHANGED <<pc, waiting, systime>>

------------------------------------------------------------------------------
(* Condition variables.                                                    *)

(* chCondWait, chCondWaitTimeout: the last mutex is unlocked for the wait. *)
chCondWait(c, time) ==
  /\ Calls /\ mtxlist[me] # <<>>
  /\ LET h == HandOver
         free == chMtxUnlockS(h)
     IN /\ owner' = h.owner /\ mtxlist' = h.list
        /\ k' = chSchGoSleepTimeoutS(
                  [free EXCEPT !.q[c] = prio_insert(free, @, me)], "WTCOND", time)
        /\ Sleeps(<<"cond", h.m>>)
  /\ UNCHANGED <<waiting, systime>>

(* It is locked again, unless the wait timed out.                          *)
CondWoken ==
  /\ GoesOn("cond")
  /\ LET m == pc[me][2]  on == Awake
     IN \/ k.msg[me] = "TIMEOUT" /\ k' = on /\ Returns /\ UNCHANGED mtxVars
        \/ k.msg[me] # "TIMEOUT" /\ owner[m] = NoThread
           /\ k' = on /\ Own(m, me) /\ Returns
        \/ k.msg[me] # "TIMEOUT" /\ owner[m] # NoThread
           /\ k' = MtxSleepS(on, m) /\ Sleeps(<<"woken">>) /\ UNCHANGED mtxVars
  /\ UNCHANGED <<waiting, systime>>

chCondSignal(c) ==
  /\ Calls /\ k.q[c] # <<>>
  /\ k' = chSchWakeupS([k EXCEPT !.q[c] = Tail(@)], Head(k.q[c]), "OK")
  /\ UNCHANGED <<pc, waiting, systime, mtxVars>>

chCondSignalI(kk, c) ==
  IF kk.q[c] = <<>> THEN kk
  ELSE chSchReadyI([kk EXCEPT !.q[c] = Tail(@), !.msg[Head(kk.q[c])] = "OK"],
                   Head(kk.q[c]))

chCondBroadcastI(kk, c) ==
  LET woken[i \in 0..Len(kk.q[c])] ==
        IF i = 0 THEN [kk EXCEPT !.q[c] = <<>>]
        ELSE chSchReadyI([woken[i - 1] EXCEPT !.msg[kk.q[c][i]] = "RESET"], kk.q[c][i])
  IN woken[Len(kk.q[c])]

chCondBroadcast(c) ==
  /\ Calls
  /\ k' = chSchRescheduleS(chCondBroadcastI(k, c))
  /\ UNCHANGED <<pc, waiting, systime, mtxVars>>

CondIsr(c) ==
  /\ Interrupts
  /\ k' \in {CH_IRQ_EPILOGUE(chCondSignalI(k, c)),
             CH_IRQ_EPILOGUE(chCondBroadcastI(k, c))}
  /\ UNCHANGED <<pc, waiting, systime, mtxVars>>

MtxCalls ==
  \/ \E m \in Mutex : chMtxLock(m) \/ chMtxTryLock(m)
  \/ chMtxUnlock
  \/ chMtxUnlockAll
  \/ \E c \in CondVar : \/ \E time \in Time \cup {Infinite} : chCondWait(c, time)
                        \/ chCondSignal(c)
                        \/ chCondBroadcast(c)
                        \/ CondIsr(c)
  \/ CondWoken

------------------------------------------------------------------------------
(* Who owns a mutex has it in its stack, once, and nobody waits for a      *)
(* mutex that is free.                                                     *)
OwnersAgree ==
  /\ \A t \in Thread, m \in Mutex : m \in Members(mtxlist[t]) <=> owner[m] = t
  /\ \A t \in Thread : Len(mtxlist[t]) = Cardinality(Members(mtxlist[t]))
  /\ \A m \in Mutex : owner[m] = NoThread => k.q[m] = <<>>

(* No priority inversion: who owns a mutex, and so whoever it waits for in *)
(* turn, runs with the priority of the threads that wait, and no longer    *)
(* than they wait.                                                         *)
Waiting(t) == UNION {Members(k.q[m]) : m \in Members(mtxlist[t])}
PriorityIsInherited ==
  \A t \in Thread :
    k.prio[t] = MaxOf({k.realprio[t]} \cup {k.prio[u] : u \in Waiting(t)})

==============================================================================
