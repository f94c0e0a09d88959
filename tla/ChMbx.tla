-------------------------------- MODULE ChMbx --------------------------------
(***************************************************************************)
(* Mailboxes of ChibiOS/RT (chmboxes.c): a ring of messages, a semaphore   *)
(* that counts the free slots and one that counts the messages.  A thread  *)
(* that had to wait is given its slot or message with the semaphore, and   *)
(* uses it when it runs.                                                   *)
(***************************************************************************)
EXTENDS ChSem, ChRing

CONSTANTS
  EmptySem, FullSem,
  ResetsAnyTime       \* the mailbox is reset even while a woken thread has
                      \* yet to use the slot or the message it was given

ASSUME MailboxAssumption == {EmptySem, FullSem} \subseteq Sem /\ EmptySem # FullSem

VARIABLES
  mb,          \* the ring
  posted       \* history: messages posted and not fetched, first one first

mbxVars == <<mb, posted>>

chMBInit(x) == mb = EmptyRing(x) /\ posted = <<>>

FirstGone(s) == IF s = <<>> THEN s ELSE Tail(s)

------------------------------------------------------------------------------
(* A slot was got from emptysem: the message goes behind or ahead of the   *)
(* others.                                                                 *)
Stores(ahead, m) ==
  /\ mb' = IF ahead THEN PutAhead(mb, m) ELSE Put(mb, m)
  /\ posted' = IF ahead THEN <<m>> \o posted ELSE Append(posted, m)
Fetches ==
  /\ mb' = Take(mb)
  /\ posted' = FirstGone(posted)

(* Who used a slot or a message gives on the message or the slot.          *)
GivesOn(kk, s) == chSemSignalI(kk, s)

(* chMBPostS, chMBPostAheadS                                               *)
chMBPost(ahead, m, time) ==
  /\ Calls
  /\ \/ k.cnt[EmptySem] > 0
        /\ Stores(ahead, m)
        /\ k' = chSchRescheduleS(GivesOn(chSemFastWaitI(k, EmptySem), FullSem))
        /\ UNCHANGED pc
     \/ k.cnt[EmptySem] <= 0
        /\ k' = chSemSleepS(k, EmptySem, time)
        /\ Sleeps(<<"post", ahead, m>>)
        /\ UNCHANGED mbxVars
  /\ UNCHANGED <<waiting, systime>>

GotSlot(msg) == msg = "OK"
PostWoken ==
  /\ GoesOn("post")
  /\ Returns
  /\ IF GotSlot(k.msg[me])
       THEN /\ Stores(pc[me][2], pc[me][3])
            /\ k' = chSchRescheduleS(GivesOn(Awake, FullSem))
       ELSE k' = Awake /\ UNCHANGED mbxVars
  /\ UNCHANGED <<waiting, systime>>

chMBFetch(time) ==
  /\ Calls
  /\ \/ k.cnt[FullSem] > 0
        /\ Fetches
        /\ k' = chSchRescheduleS(GivesOn(chSemFastWaitI(k, FullSem), EmptySem))
        /\ UNCHANGED pc
     \/ k.cnt[FullSem] <= 0
        /\ k' = chSemSleepS(k, FullSem, time)
        /\ Sleeps(<<"fetch">>)
        /\ UNCHANGED mbxVars
  /\ UNCHANGED <<waiting, systime>>

FetchWoken ==
  /\ GoesOn("fetch")
  /\ Returns
  /\ IF k.msg[me] = "OK"
       THEN Fetches /\ k' = chSchRescheduleS(GivesOn(Awake, EmptySem))
       ELSE k' = Awake /\ UNCHANGED mbxVars
  /\ UNCHANGED <<waiting, systime>>

(* Threads that were given a slot or a message and have not run yet.       *)
Granted(place) ==
  {t \in Thread : /\ pc[t][1] = place
                  /\ k.state[t] \in {"READY", "CURRENT"} /\ k.msg[t] = "OK"}

chMBReset ==
  /\ Calls
  /\ ResetsAnyTime \/ Granted("post") \cup Granted("fetch") = {}
  /\ mb' = Rewound(mb) /\ posted' = <<>>
  /\ k' = chSchRescheduleS(chSemResetI(chSemResetI(k, EmptySem, Size), FullSem, 0))
  /\ UNCHANGED <<pc, waiting, systime>>

------------------------------------------------------------------------------
(* An interrupt handler posts or fetches, if it need not wait.             *)
(* chMBPostI, chMBPostAheadI                                               *)
chMBPostI(ahead, m) ==
  /\ Interrupts /\ k.cnt[EmptySem] > 0
  /\ Stores(ahead, m)
  /\ k' = CH_IRQ_EPILOGUE(GivesOn(chSemFastWaitI(k, EmptySem), FullSem))
  /\ UNCHANGED <<pc, waiting, systime>>

chMBFetchI ==
  /\ Interrupts /\ k.cnt[FullSem] > 0
  /\ Fetches
  /\ k' = CH_IRQ_EPILOGUE(GivesOn(chSemFastWaitI(k, FullSem), EmptySem))
  /\ UNCHANGED <<pc, waiting, systime>>

MbxCalls ==
  \/ \E ahead \in BOOLEAN, m \in Item :
       \/ \E time \in Time \cup {Infinite} : chMBPost(ahead, m, time)
       \/ chMBPostI(ahead, m)
  \/ \E time \in Time \cup {Infinite} : chMBFetch(time)
  \/ chMBFetchI
  \/ chMBReset
  \/ PostWoken
  \/ FetchWoken

------------------------------------------------------------------------------
(* The mailbox holds what was posted and not fetched, in order, and        *)
(* nothing is written over, though the threads that wait are given their   *)
(* slot or message long before they use it, and time out meanwhile.        *)
MailboxInOrder == Holds(mb, posted)

(* Nobody waits for a message, or for a slot, that is there for the taking: *)
(* all that are there have been given to threads that are about to run.    *)
NoMailWaits ==
  /\ k.q[FullSem] # <<>> => Len(posted) <= Cardinality(Granted("fetch"))
  /\ k.q[EmptySem] # <<>> => Size - Len(posted) <= Cardinality(Granted("post"))

==============================================================================
