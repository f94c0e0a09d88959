-------------------------------- MODULE Kernel --------------------------------
(***************************************************************************)
(* The ChibiOS/RT kernel under threads that call it in every legal way.    *)
(* One behaviour uses the calls of one group, api: the groups meet only in *)
(* the scheduler, the ready list and the timers.                           *)
(***************************************************************************)
EXTENDS ChSem, ChMtx, ChMsg, ChEvt, ChMbx, ChQueue

CONSTANTS
  Group,               \* the groups of calls
  Workers,             \* [Group -> <<[thd, prio], ...>> that main has created]
  SetsPriorityAnyTime  \* a thread sets its priority while it owns a mutex

ASSUME KernelAssumption ==
  /\ Group \subseteq {"threads", "sem", "mtx", "msg", "evt", "mbx"} \cup Queue
  /\ Queue \subseteq Object \ (Sem \cup Mutex \cup CondVar)
  /\ \A g \in Group :
       /\ Workers[g] \in Seq([thd : Thread \ {Main, Idle}, prio : 1..HIGHPRIO])
       /\ \A i, j \in DOMAIN Workers[g] :
            Workers[g][i].thd = Workers[g][j].thd => i = j
  /\ Item # {} /\ MaxBytes \in Nat

VARIABLE api

vars == <<threadVars, mtxVars, msgVars, evtVars, mbxVars, ioqVars, api>>

InitialCounts(g) ==
  [s \in Sem |-> IF g = "mbx" /\ s = EmptySem THEN Size ELSE 0]

Started(g) ==
  LET w == Workers[g]
      kk[i \in 0..Len(w)] ==
        IF i = 0 THEN [Booted EXCEPT !.cnt = InitialCounts(g)]
        ELSE Created(kk[i - 1], w[i].thd, w[i].prio)
  IN kk[Len(w)]

Init ==
  /\ api \in Group
  /\ k = Started(api)
  /\ ThreadsInit /\ MtxInit /\ MsgInit /\ EvtInit
  /\ LET x == CHOOSE i \in Item : TRUE IN chMBInit(x) /\ chIQInit(x)

(* With mutexes, main sets its priority, while it owns none of them.       *)
OwnPriority ==
  /\ me = Main /\ (SetsPriorityAnyTime \/ mtxlist[me] = <<>>)
  /\ \E p \in Prio : chThdSetPriority(p)

Next ==
  /\ \/ /\ \/ Woken \/ Tick
           \/ api = "threads" /\ ThreadCalls
           \/ api = "sem" /\ SemCalls
           \/ api = "mtx" /\ OwnPriority
        /\ UNCHANGED <<mtxVars, msgVars, evtVars, mbxVars, ioqVars>>
     \/ api = "mtx" /\ MtxCalls /\ UNCHANGED <<msgVars, evtVars, mbxVars, ioqVars>>
     \/ api = "msg" /\ MsgCalls /\ UNCHANGED <<mtxVars, evtVars, mbxVars, ioqVars>>
     \/ api = "evt" /\ EvtCalls /\ UNCHANGED <<mtxVars, msgVars, mbxVars, ioqVars>>
     \/ api = "mbx" /\ MbxCalls /\ UNCHANGED <<mtxVars, msgVars, evtVars, ioqVars>>
     \/ api \in Queue /\ IoqCalls(api) /\ UNCHANGED <<mtxVars, msgVars, evtVars, mbxVars>>
  /\ UNCHANGED api

Spec == Init /\ [][Next]_vars
FairSpec == Spec /\ Fairness

------------------------------------------------------------------------------
States == {"NONE", "SUSPENDED", "READY", "CURRENT", "SLEEPING", "FINAL", "WTSEM",
           "WTMTX", "WTCOND", "WTQUEUE", "WTEXIT", "WTOREVT", "WTANDEVT", "SNDMSGQ",
           "SNDMSG", "WTMSG"}
Places == {"user", "woken", "cond", "msg", "evt", "post", "fetch", "more", "iq", "oq"}

TypeOK ==
  /\ k.state \in [Thread -> States]
  /\ k.prio \in [Thread -> 1..HIGHPRIO] /\ k.realprio \in [Thread -> 1..HIGHPRIO]
  /\ k.preempt \in [Thread -> 0..Quantum]
  /\ k.msg \in [Thread -> {"OK", "TIMEOUT", "RESET"}]
  /\ k.current \in Thread /\ k.ready \in Seq(Thread)
  /\ k.vt \in Seq([thd : Thread, time : Nat])
  /\ k.q \in [Object -> Seq(Thread)] /\ k.cnt \in [Sem -> Int]
  /\ \A t \in Thread : pc[t][1] \in Places
  /\ waiting \in [Thread -> Seq(Thread)]
  /\ systime \in 0..1
  /\ owner \in [Mutex -> Thread \cup {NoThread}] /\ mtxlist \in [Thread -> Seq(Mutex)]
  /\ msgqueue \in [Thread -> Seq(Thread)] /\ taken \in [Thread -> SUBSET Thread]
  /\ epending \in [Thread -> SUBSET Event] /\ ewmask \in [Thread -> SUBSET Event]
  /\ listeners \in Seq([el_listener : Thread, el_mask : SUBSET Event])
  /\ mb.wr \in 0..Size - 1 /\ mb.rd \in 0..Size - 1 /\ posted \in Seq(Item)
  /\ q_counter \in [Queue -> 0..Size] /\ held \in [Queue -> Seq(Item)]
  /\ \A q \in Queue : io[q].wr \in 0..Size - 1 /\ io[q].rd \in 0..Size - 1

(* NoMailWaits of ChMbx, where the semaphores are the mailbox's.           *)
MailIsFetched == api = "mbx" => NoMailWaits

(* The thread of highest priority runs, each other one waits in one place, *)
(* and each timer fires at its time.                                       *)
ListsRight == HighestRuns /\ InOnePlace /\ TimersExact

(* Semaphores and mutexes agree with their queues and their owners, and    *)
(* owners have the priority of those that wait for them.                   *)
ObjectsAgree == CounterIsQueue /\ OwnersAgree /\ PriorityIsInherited

(* No thread waits for what has happened: an exit, a message, an event, a  *)
(* mail or a byte.                                                         *)
NoWaitInVain ==
  /\ ExitsAreSeen /\ MessagesAreReceived /\ NoEventMissed
  /\ MailIsFetched /\ NoWakeupLost

(* What goes through a mailbox or a queue comes out in order, and threads  *)
(* get the units of a semaphore in the order in which they wait.           *)
InOrder == [](MailboxInOrder /\ BytesInOrder) /\ NoOvertaking

(* Who is ready runs in the end, and who waits with a time limit, returns. *)
WaitsEnd == TimeSliced /\ TimedWaitEnds

==============================================================================
