------------------------------- MODULE ChQueue -------------------------------
(***************************************************************************)
(* I/O queues of ChibiOS/RT (chqueues.c): threads read from "iq" what      *)
(* interrupt handlers put there, and write to "oq" what handlers get.      *)
(* q_counter is what a thread can still do: the bytes to read, the room to *)
(* write.  A woken thread has to look again: the byte may be gone.         *)
(***************************************************************************)
EXTENDS ChThreads, ChRing

CONSTANT MaxBytes       \* bound: bytes of one read or write

Queue == {"iq", "oq"}

VARIABLES
  io,          \* [Queue -> the ring]
  q_counter,   \* [Queue -> q_counter]
  held         \* history: [Queue -> bytes put and not taken, first one first]

ioqVars == <<io, q_counter, held>>

NoneYet == [q \in Queue |-> IF q = "iq" THEN 0 ELSE Size]

chIQInit(x) ==
  /\ io = [q \in Queue |-> EmptyRing(x)]
  /\ q_counter = NoneYet
  /\ held = [q \in Queue |-> <<>>]

PutByte(q, b) ==
  /\ io' = [io EXCEPT ![q] = Put(@, b)]
  /\ held' = [held EXCEPT ![q] = Append(@, b)]
TakeByte(q) ==
  /\ io' = [io EXCEPT ![q] = Take(@)]
  /\ held' = [held EXCEPT ![q] = IF @ = <<>> THEN @ ELSE Tail(@)]

------------------------------------------------------------------------------
(* Threads.  qwait puts the thread at the end of the queue's waiting list. *)
qwait(kk, q, time) ==
  chSchGoSleepTimeoutS([kk EXCEPT !.q[q] = Append(@, me)], "WTQUEUE", time)

(* n more bytes to move, the first of them now if it can be.  The lock is  *)
(* released after each one.                                                *)
Moves(q, kk, n, time, Move) ==
  \/ /\ q_counter[q] > 0
     /\ Move
     /\ q_counter' = [q_counter EXCEPT ![q] = @ - 1]
     /\ k' = kk
     /\ pc' = [pc EXCEPT ![me] = IF n = 1 THEN InUser ELSE <<"more", q, n - 1, time>>]
  \/ /\ q_counter[q] <= 0
     /\ IF time = Immediate
          THEN k' = kk /\ Returns
          ELSE k' = qwait(kk, q, time) /\ Sleeps(<<q, n, time>>)
     /\ UNCHANGED ioqVars

IQBytes(kk, n, time) == Moves("iq", kk, n, time, TakeByte("iq"))
OQBytes(kk, n, time) == Moves("oq", kk, n, time, \E b \in Item : PutByte("oq", b))
Bytes(q, kk, n, time) == IF q = "iq" THEN IQBytes(kk, n, time) ELSE OQBytes(kk, n, time)

chIQGetTimeout(time) == Calls /\ IQBytes(k, 1, time) /\ UNCHANGED <<waiting, systime>>
chOQPutTimeout(time) == Calls /\ OQBytes(k, 1, time) /\ UNCHANGED <<waiting, systime>>
chIQReadTimeout(n, time) == Calls /\ IQBytes(k, n, time) /\ UNCHANGED <<waiting, systime>>
chOQWriteTimeout(n, time) == Calls /\ OQBytes(k, n, time) /\ UNCHANGED <<waiting, systime>>

(* In a read or a write of several bytes, the next one.                    *)
MoreBytes ==
  /\ GoesOn("more")
  /\ Bytes(pc[me][2], k, pc[me][3], pc[me][4])
  /\ UNCHANGED <<waiting, systime>>

(* Woken by a handler it looks again; timed out or reset it returns.       *)
QueueWoken(q) ==
  /\ GoesOn(q)
  /\ IF k.msg[me] = "OK"
       THEN Bytes(q, Awake, pc[me][2], pc[me][3])
       ELSE k' = Awake /\ Returns /\ UNCHANGED ioqVars
  /\ UNCHANGED <<waiting, systime>>

------------------------------------------------------------------------------
(* Interrupt handlers.  Each moves a byte and wakes the first thread.      *)
WakeOne(kk, q) ==
  chSchReadyI([kk EXCEPT !.q[q] = Tail(@), !.msg[Head(kk.q[q])] = "OK"], Head(kk.q[q]))
Wakes(kk, q) == IF kk.q[q] = <<>> THEN kk ELSE WakeOne(kk, q)
Handled(q) ==
  /\ q_counter' = [q_counter EXCEPT ![q] = @ + 1]
  /\ k' = CH_IRQ_EPILOGUE(Wakes(k, q))
  /\ UNCHANGED <<pc, waiting, systime>>

NoMore(q) == io[q].wr = io[q].rd /\ q_counter[q] # 0
chIQPutI(b) == Interrupts /\ ~NoMore("iq") /\ PutByte("iq", b) /\ Handled("iq")
chOQGetI == Interrupts /\ ~NoMore("oq") /\ TakeByte("oq") /\ Handled("oq")

(* chIQResetI, chOQResetI: all that wait are told.                         *)
ResetI(q) ==
  LET told[i \in 0..Len(k.q[q])] ==
        IF i = 0 THEN [k EXCEPT !.q[q] = <<>>]
        ELSE chSchReadyI([told[i - 1] EXCEPT !.msg[k.q[q][i]] = "RESET"], k.q[q][i])
  IN /\ Interrupts
     /\ io' = [io EXCEPT ![q] = Rewound(@)]
     /\ q_counter' = [q_counter EXCEPT ![q] = NoneYet[q]]
     /\ held' = [held EXCEPT ![q] = <<>>]
     /\ k' = CH_IRQ_EPILOGUE(told[Len(k.q[q])])
     /\ UNCHANGED <<pc, waiting, systime>>
chIQResetI == ResetI("iq")
chOQResetI == ResetI("oq")

IQCalls ==
  \/ \E time \in Time \cup {Infinite, Immediate} :
       chIQGetTimeout(time) \/ \E n \in 2..MaxBytes : chIQReadTimeout(n, time)
  \/ \E b \in Item : chIQPutI(b)
  \/ chIQResetI

OQCalls ==
  \/ \E time \in Time \cup {Infinite, Immediate} :
       chOQPutTimeout(time) \/ \E n \in 2..MaxBytes : chOQWriteTimeout(n, time)
  \/ chOQGetI
  \/ chOQResetI

IoqCalls(q) ==
  \/ q = "iq" /\ IQCalls
  \/ q = "oq" /\ OQCalls
  \/ QueueWoken(q)
  \/ MoreBytes

------------------------------------------------------------------------------
(* Between a handler and the threads no byte is lost, repeated or          *)
(* overtaken, and the counter, that each side moves, agrees with the       *)
(* pointers, that only one side does.                                      *)
BytesInOrder ==
  \A q \in Queue :
    /\ Holds(io[q], held[q])
    /\ q_counter[q] = IF q = "iq" THEN Len(held[q]) ELSE Size - Len(held[q])

(* No wake up is lost: when threads wait though there is something for     *)
(* them, as many threads are on their way to look.                         *)
NoWakeupLost ==
  \A q \in Queue :
    k.q[q] # <<>> =>
      q_counter[q] <= Cardinality({t \in Thread : /\ pc[t][1] = q /\ k.msg[t] = "OK"
                                                  /\ k.state[t] \in {"READY", "CURRENT"}})

==============================================================================
