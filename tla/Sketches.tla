------------------------------- MODULE Sketches -------------------------------
(***************************************************************************)
(* Example sketches of the ChibiOS_AVR library, each a few threads on the  *)
(* kernel: a step is a call of the kernel, or a piece of the thread's own  *)
(* code at whose end another thread may come.                              *)
(*   mail   chMailPool: two senders, pool objects through a mailbox        *)
(*   fifo   chFifoDataLogger: records in a ring between two semaphores     *)
(*   share  chDataSharing: a record read and written under a mutex         *)
(*   isr    chIsrSemaphore: an interrupt wakes its handler thread          *)
(*   print  chMutex: three threads print, one at a time                    *)
(*   slots  chSemaphore: three threads, two of them at a time              *)
(***************************************************************************)
EXTENDS ChMtx, ChMbx

CONSTANTS
  Th2, Th3,      \* the threads beside main
  Count,         \* bound: numbers are counted modulo this
  MaxErrors      \* bound: more missed points than this count as this many

ASSUME SketchAssumption ==
  Count \in Nat \ {0, 1} /\ MaxErrors \in Nat /\ Item = 1..Size

VARIABLES
  sketch,
  at,            \* [Thread -> where it is in its code]
  d              \* the sketch's data, a record

sketchVars == <<threadVars, mtxVars, mbxVars, sketch, at, d>>

(* Semaphores and the mutex by the names the sketches give them.           *)
fifoSpace == EmptySem
fifoData == FullSem
isrSem == FullSem
twoSlots == FullSem
demoMutex == CHOOSE m \in Mutex : TRUE

Workers(s) ==
  CASE s = "fifo" -> <<<<Th2, 3>>>>
    [] s = "share" -> <<<<Th2, 4>>, <<Th3, 3>>>>
    [] s = "isr" -> <<<<Th2, 3>>>>
    [] OTHER -> <<<<Th2, 2>>, <<Th3, 2>>>>
Counts(s) ==
  [x \in Sem |-> CASE s \in {"mail", "fifo"} /\ x = EmptySem -> Size
                   [] s = "slots" /\ x = twoSlots -> 2
                   [] OTHER -> 0]
Running(s) ==
  LET w == Workers(s)
      kk[i \in 0..Len(w)] == IF i = 0 THEN [Booted EXCEPT !.cnt = Counts(s)]
                             ELSE Created(kk[i - 1], w[i][1], w[i][2])
  IN kk[Len(w)]

Begins(s, t) ==
  CASE s = "mail" -> IF t = Main THEN "fetch" ELSE "alloc"
    [] s = "fifo" -> IF t = Main THEN "wait" ELSE "sleep"
    [] s = "share" -> IF t = Main THEN "spin" ELSE "sleep"
    [] s = "isr" -> IF t = Main THEN "rise" ELSE "wait"
    [] OTHER -> "lock"

Data ==
  [pool |-> [i \in Item |-> Size + 1 - i],
   item |-> [t \in Thread |-> 1], name |-> [i \in Item |-> Main],
   next |-> 0,
   slot |-> [i \in 0..Size - 1 |-> <<0, 0>>], head |-> 0, tail |-> 0,
   error |-> 0, filled |-> <<>>,
   copy |-> <<0, 0, 0, 0>>, data |-> <<0, 0, 0, 0>>, pending |-> FALSE]

SketchInit(s) ==
  /\ sketch = s
  /\ k = Running(s)
  /\ ThreadsInit /\ MtxInit
  /\ chMBInit(1)
  /\ at = [t \in Thread |-> Begins(s, t)]
  /\ d = Data

------------------------------------------------------------------------------
(* The running thread is at a place of its own code and goes to another.   *)
From(place) == Calls /\ at[me] = place
To(place) == at' = [at EXCEPT ![me] = place]
OwnCode(place, next, data) ==
  /\ From(place) /\ To(next)
  /\ d' = data
  /\ UNCHANGED <<threadVars, mtxVars, mbxVars>>

Sleep(place, next) ==
  /\ From(place) /\ To(next)
  /\ \E n \in Time : chThdSleep(n)
  /\ UNCHANGED <<mtxVars, mbxVars, d>>

SemWait(place, s, next) ==
  /\ From(place) /\ To(next)
  /\ chSemWait(s, Infinite)
  /\ UNCHANGED <<mtxVars, mbxVars, d>>

NotSaid(place, s, next, data) == OwnCode(place, next, data)  \* fault: no signal
SemSignal(place, s, next, data) ==
  /\ From(place) /\ To(next)
  /\ chSemSignal(s)
  /\ d' = data
  /\ UNCHANGED <<mtxVars, mbxVars>>

Unguarded(place, next) == OwnCode(place, next, d)     \* fault: no mutex
Lock(place, next) ==
  /\ From(place) /\ To(next)
  /\ chMtxLock(demoMutex)
  /\ UNCHANGED <<mbxVars, d>>
Unlock(place, next) ==
  /\ From(place) /\ To(next)
  /\ chMtxUnlock
  /\ UNCHANGED <<mbxVars, d>>

------------------------------------------------------------------------------
(* chMailPool *)

Sends ==
  \/ /\ d.pool # <<>>
     /\ OwnCode("alloc", "form", [d EXCEPT !.item[me] = Head(d.pool), !.pool = Tail(@)])
  \/ d.pool = <<>> /\ OwnCode("alloc", "no object", d)
  \/ OwnCode("form", "post", [d EXCEPT !.name[d.item[me]] = me])
  \/ /\ From("post")
     /\ IF k.cnt[EmptySem] > 0
          THEN /\ To("sleep")
               /\ chMBPost(FALSE, d.item[me], Immediate)
               /\ d' = [d EXCEPT !.item[me] = 1]       \* p is not used any more
          ELSE To("no slot") /\ UNCHANGED <<threadVars, mbxVars, d>>
     /\ UNCHANGED mtxVars
  \/ Sleep("sleep", "alloc")

(* The letter is taken when there is one, or when the thread wakes.        *)
Fetch ==
  /\ From("fetch") /\ To("print")
  /\ chMBFetch(Infinite)
  /\ d' = IF k.cnt[FullSem] > 0 THEN [d EXCEPT !.item[me] = mb.buf[mb.rd]] ELSE d
  /\ UNCHANGED mtxVars
Fetched ==
  /\ FetchWoken
  /\ d' = [d EXCEPT !.item[me] = mb.buf[mb.rd]]
  /\ UNCHANGED <<mtxVars, at>>

Freed == [d EXCEPT !.pool = <<d.item[me]>> \o @, !.item[me] = 1]
Receives ==
  \/ Fetch \/ Fetched
  \/ OwnCode("print", "free", d)
  \/ OwnCode("free", "fetch", Freed)

MailPool ==
  \/ me # Main /\ Sends
  \/ me = Main /\ Receives

------------------------------------------------------------------------------
(* chFifoDataLogger.  Without space the point is missed, and the next      *)
(* record tells how many were.                                             *)
Acquires ==
  \/ Sleep("sleep", "get")
  \/ /\ From("get") /\ k.cnt[fifoSpace] > 0
     /\ To("fill")
     /\ chSemWait(fifoSpace, Immediate)
     /\ UNCHANGED <<mtxVars, mbxVars, d>>
  \/ /\ k.cnt[fifoSpace] <= 0
     /\ OwnCode("get", "sleep", [d EXCEPT !.error = IF @ < MaxErrors THEN @ + 1 ELSE @])
  \/ OwnCode("fill", "signal",
             LET p == <<d.next, d.error>>
             IN [d EXCEPT !.slot[d.head] = p, !.filled = Append(@, p),
                          !.next = (@ + 1) % Count, !.error = 0])
  \/ SemSignal("signal", fifoData, "advance", d)
  \/ OwnCode("advance", "sleep", [d EXCEPT !.head = After(@)])

Writes ==
  \/ SemWait("wait", fifoData, "value")
  \/ OwnCode("value", "error", [d EXCEPT !.copy[1] = d.slot[d.tail][1]])
  \/ OwnCode("error", "release", [d EXCEPT !.copy[2] = d.slot[d.tail][2]])
  \/ SemSignal("release", fifoSpace, "next", [d EXCEPT !.filled = Tail(@)])
  \/ OwnCode("next", "wait", [d EXCEPT !.tail = After(@)])
  \/ OwnCode("wait", "done", d)       \* Serial.available()

FifoDataLogger ==
  \/ me = Th2 /\ Acquires
  \/ me = Main /\ Writes

------------------------------------------------------------------------------
(* chDataSharing: dataT, dataX, dataY and dataZ one after the other.       *)
Part == [T |-> 1, X |-> 2, Y |-> 3, Z |-> 4]
NextPart == [T |-> "X", X |-> "Y", Y |-> "Z", Z |-> "unlock"]

ReadsSensor ==
  \/ Sleep("sleep", "acquire")
  \/ OwnCode("acquire", "lock", [d EXCEPT !.next = (@ + 1) % Count])
  \/ Lock("lock", "T")
  \/ \E p \in DOMAIN Part :
       OwnCode(p, NextPart[p], [d EXCEPT !.data[Part[p]] = d.next])
  \/ Unlock("unlock", "sleep")

PrintsData ==
  \/ Sleep("sleep", "lock")
  \/ Lock("lock", "T")
  \/ \E p \in DOMAIN Part :
       OwnCode(p, NextPart[p], [d EXCEPT !.copy[Part[p]] = d.data[Part[p]]])
  \/ Unlock("unlock", "print")
  \/ OwnCode("print", "sleep", d)

DataSharing ==
  \/ me = Th2 /\ ReadsSensor
  \/ me = Th3 /\ PrintsData

------------------------------------------------------------------------------
(* chIsrSemaphore: an interrupt at any time.                               *)
isrFcn ==
  /\ Interrupts
  /\ k' = CH_IRQ_EPILOGUE(chBSemSignalI(k, isrSem))
  /\ d' = [d EXCEPT !.pending = TRUE]
  /\ UNCHANGED <<pc, waiting, systime, mtxVars, mbxVars, at>>

Handler ==
  \/ SemWait("wait", isrSem, "elapsed")
  \/ OwnCode("elapsed", "wait", [d EXCEPT !.pending = FALSE])

IsrSemaphore ==
  \/ isrFcn
  \/ me = Th2 /\ Handler
  \/ me = Main /\ Sleep("rise", "rise")

------------------------------------------------------------------------------
(* chMutex: notify, and a sleep; chSemaphore: a sleep within.              *)
notify ==
  \/ Lock("lock", "print")
  \/ OwnCode("print", "unlock", d)
  \/ Unlock("unlock", "sleep")
  \/ Sleep("sleep", "lock")

TakesSlot ==
  \/ SemWait("lock", twoSlots, "print")
  \/ OwnCode("print", "hold", d)
  \/ Sleep("hold", "give")
  \/ SemSignal("give", twoSlots, "lock", d)

------------------------------------------------------------------------------
SketchNext ==
  /\ \/ (Woken \/ Tick) /\ UNCHANGED <<mtxVars, mbxVars, at, d>>
     \/ sketch = "mail" /\ MailPool
     \/ sketch = "fifo" /\ FifoDataLogger
     \/ sketch = "share" /\ DataSharing
     \/ sketch = "isr" /\ IsrSemaphore
     \/ sketch = "print" /\ notify
     \/ sketch = "slots" /\ TakesSlot
  /\ UNCHANGED sketch

(* A thread that gets the processor again and again gets on in its code.   *)
Loops == {"spin", "no object", "no slot", "done"}
Places == {"fetch", "alloc", "form", "post", "print", "free", "sleep", "get", "fill",
           "signal", "advance", "wait", "value", "error", "release", "next", "acquire",
           "lock", "T", "X", "Y", "Z", "unlock", "rise", "elapsed", "hold", "give"} \cup Loops
CodeGoesOn(t) ==
  /\ me = t /\ From(at[t]) /\ at[t] \notin Loops
  /\ \E place \in Places : To(place)
SketchFairness == Fairness /\ \A t \in Thread \ {Idle} : SF_at(CodeGoesOn(t))

------------------------------------------------------------------------------
(* chMailPool: a sender that got an object always gets a slot for it; an   *)
(* object is in the pool, in a thread's hands or in the mailbox, in one of *)
(* them; so nobody changes what another one has to print.                  *)
Hands(i) ==
  {t \in {Th2, Th3} : at[t] \in {"form", "post"} /\ d.item[t] = i}
    \cup {t \in {Main} : /\ at[t] \in {"print", "free"} /\ pc[t] = InUser
                          /\ k.state[t] # "WTSEM" /\ d.item[t] = i}
MailRight ==
  /\ \A t \in {Th2, Th3} : at[t] # "no slot"
  /\ \A t \in {Th2, Th3} : at[t] = "post" => d.name[d.item[t]] = t
  /\ \A i \in Item :
       Cardinality({j \in DOMAIN d.pool : d.pool[j] = i})
         + Cardinality({j \in DOMAIN posted : posted[j] = i})
         + Cardinality(Hands(i)) = 1

(* chFifoDataLogger: the record written out is the oldest one filled,      *)
(* whole, with the number of points missed before it.                      *)
FifoRight ==
  at[Main] = "release" => <<d.copy[1], d.copy[2]>> = Head(d.filled)

(* chDataSharing: what is printed is of one reading.                       *)
SharedRight ==
  at[Th3] = "print" => \A i \in 2..4 : d.copy[i] = d.copy[1]

(* chIsrSemaphore: the handler does not wait while an interrupt is unseen. *)
IsrRight == d.pending => Th2 \notin Members(k.q[isrSem])

(* chMutex, chSemaphore: one, or two, are in the region.                   *)
Within == {t \in Thread \ {Idle} : /\ at[t] \in {"print", "unlock", "hold", "give"}
                                   /\ k.state[t] \notin {"WTMTX", "WTSEM"}}
RegionRight == Cardinality(Within) <= IF sketch = "print" THEN 1 ELSE 2

SketchTypeOK ==
  /\ at \in [Thread -> Places] /\ k.prio \in [Thread -> 1..4]
  /\ d.pool \in Seq(Item) /\ d.next \in 0..Count - 1 /\ d.error \in 0..MaxErrors
  /\ d.head \in 0..Size - 1 /\ d.tail \in 0..Size - 1

SketchesRight ==
  /\ SketchTypeOK
  /\ CASE sketch = "mail" -> MailRight
       [] sketch = "fifo" -> FifoRight
       [] sketch = "share" -> SharedRight
       [] sketch = "isr" -> IsrRight
       [] OTHER -> RegionRight

(* A letter is printed, a record is written, data are printed, an          *)
(* interrupt is handled and who waits for the region gets in.              *)
SketchesGoOn ==
  /\ (sketch = "mail" /\ posted # <<>>) ~> at[Main] = "free"
  /\ (sketch = "fifo" /\ d.filled # <<>>) ~> at[Main] \in {"next", "done"}
  /\ (sketch = "share" /\ at[Th3] = "lock") ~> at[Th3] = "print"
  /\ d.pending ~> ~d.pending
  /\ \A t \in {Main, Th2, Th3} :
       (sketch \in {"print", "slots"} /\ at[t] = "lock") ~> at[t] \in {"unlock", "hold"}

==============================================================================
