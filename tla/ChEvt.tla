-------------------------------- MODULE ChEvt --------------------------------
(***************************************************************************)
(* Event flags of ChibiOS/RT (chevents.c): a thread waits for one, any or  *)
(* all of a set of events, with a time limit or none; sources tell their   *)
(* listeners.  An event mask is a set of events.                           *)
(***************************************************************************)
EXTENDS ChThreads

CONSTANT Event

VARIABLES
  epending,    \* [Thread -> p_epending]
  ewmask,      \* [Thread -> p_u.ewmask]
  listeners    \* the source's list of [el_listener, el_mask], last one first

evtVars == <<epending, ewmask, listeners>>

Masks == SUBSET Event \ {{}}
Flags == {{e} : e \in Event}     \* bound: events come one at a time
SourceEvent == CHOOSE e \in Event : \A f \in Event : e <= f
                    \* bound: the event of the source, all wait for it or more

EvtInit ==
  /\ epending = [t \in Thread |-> {}]
  /\ ewmask = [t \in Thread |-> {}]
  /\ listeners = <<>>

------------------------------------------------------------------------------
(* What the thread waits for has come.                                     *)
MissAll(t, state, pending) ==    \* fault: a wait for all is never over
  state = "WTOREVT" /\ pending \cap ewmask[t] # {}
Satisfied(t, state, pending) ==
  \/ state = "WTOREVT" /\ pending \cap ewmask[t] # {}
  \/ state = "WTANDEVT" /\ ewmask[t] \subseteq pending

chEvtSignalI(kk, t, mask) ==
  IF Satisfied(t, kk.state[t], epending[t] \cup mask)
    THEN chSchReadyI([kk EXCEPT !.msg[t] = "OK"], t) ELSE kk

(* A source tells its listeners.                                           *)
chEvtBroadcastFlagsI ==
  LET after[i \in 0..Len(listeners)] ==
        IF i = 0 THEN <<k, epending>>
        ELSE LET kk == after[i - 1][1]  pend == after[i - 1][2]
                 t == listeners[i].el_listener
                 now == pend[t] \cup listeners[i].el_mask
             IN <<IF Satisfied(t, kk.state[t], now)
                    THEN chSchReadyI([kk EXCEPT !.msg[t] = "OK"], t) ELSE kk,
                  [pend EXCEPT ![t] = now]>>
  IN after[Len(listeners)]

------------------------------------------------------------------------------
Listening == {listeners[i].el_listener : i \in DOMAIN listeners}
chEvtRegisterMask(mask) ==
  /\ Calls /\ me \notin Listening      \* bound: once per thread
  /\ listeners' = <<[el_listener |-> me, el_mask |-> mask]>> \o listeners
  /\ UNCHANGED <<threadVars, epending, ewmask>>

chEvtUnregister(n) ==
  /\ Calls /\ n \in DOMAIN listeners
  /\ listeners' = Unlinked(listeners, n)
  /\ UNCHANGED <<threadVars, epending, ewmask>>

chEvtGetAndClearEvents(mask) ==
  /\ Calls
  /\ epending' = [epending EXCEPT ![me] = @ \ mask]
  /\ UNCHANGED <<threadVars, ewmask, listeners>>

chEvtAddEvents(mask) ==
  /\ Calls
  /\ epending' = [epending EXCEPT ![me] = @ \cup mask]
  /\ UNCHANGED <<threadVars, ewmask, listeners>>

chEvtSignal(t, mask) ==
  /\ Calls /\ t # Idle
  /\ k' = chSchRescheduleS(chEvtSignalI(k, t, mask))
  /\ epending' = [epending EXCEPT ![t] = @ \cup mask]
  /\ UNCHANGED <<pc, waiting, systime, ewmask, listeners>>

chEvtBroadcastFlags ==
  /\ Calls
  /\ k' = chSchRescheduleS(chEvtBroadcastFlagsI[1])
  /\ epending' = chEvtBroadcastFlagsI[2]
  /\ UNCHANGED <<pc, waiting, systime, ewmask, listeners>>

EvtIsr ==
  /\ Interrupts
  /\ \/ \E t \in Thread \ {Idle}, mask \in Flags :
          /\ k' = CH_IRQ_EPILOGUE(chEvtSignalI(k, t, mask))
          /\ epending' = [epending EXCEPT ![t] = @ \cup mask]
     \/ /\ k' = CH_IRQ_EPILOGUE(chEvtBroadcastFlagsI[1])
        /\ epending' = chEvtBroadcastFlagsI[2]
  /\ UNCHANGED <<pc, waiting, systime, ewmask, listeners>>

------------------------------------------------------------------------------
(* chEvtWaitOne, Any, All and their Timeout forms.                         *)

(* The events a wait takes: the lowest one, all of them, or what it        *)
(* waited for.                                                             *)
Takes(how, mask, pending) ==
  IF how = "one" /\ mask \cap pending # {}
    THEN {{CHOOSE e \in mask \cap pending : \A f \in mask \cap pending : e <= f}}
    ELSE IF how = "all" THEN {mask} ELSE {mask \cap pending}
Consume(how, mask) ==
  \E taken \in Takes(how, mask, epending[me]) :
    epending' = [epending EXCEPT ![me] = @ \ taken]

chEvtWait(how, mask, time) ==
  /\ Calls
  /\ IF IF how = "all" THEN mask \subseteq epending[me] ELSE mask \cap epending[me] # {}
       THEN /\ Consume(how, mask)
            /\ UNCHANGED <<k, pc, ewmask>>
       ELSE /\ ewmask' = [ewmask EXCEPT ![me] = mask]
            /\ k' = chSchGoSleepTimeoutS(k, IF how = "all" THEN "WTANDEVT" ELSE "WTOREVT",
                                         time)
            /\ Sleeps(<<"evt", how>>)
            /\ UNCHANGED epending
  /\ UNCHANGED <<waiting, systime, listeners>>

EvtWoken ==
  /\ GoesOn("evt")
  /\ k' = Awake
  /\ IF k.msg[me] = "TIMEOUT" THEN UNCHANGED epending
                              ELSE Consume(pc[me][2], ewmask[me])
  /\ Returns
  /\ ewmask' = [ewmask EXCEPT ![me] = {}]
  /\ UNCHANGED <<waiting, systime, listeners>>

(* To wait for one event is the same in each way.                          *)
Hows(mask) == IF Cardinality(mask) = 1 THEN {"any"} ELSE {"one", "any", "all"}

EvtCalls ==
  \/ \E mask \in Flags :
       \/ SourceEvent \in mask /\ chEvtRegisterMask(mask)
       \/ chEvtAddEvents(mask)
       \/ \E t \in Thread : chEvtSignal(t, mask)
  \/ \E mask \in Masks :
       \/ chEvtGetAndClearEvents(mask)
       \/ SourceEvent \in mask /\ \E how \in Hows(mask), time \in Time \cup {Infinite} :
            chEvtWait(how, mask, time)
  \/ \E n \in DOMAIN listeners : chEvtUnregister(n)
  \/ chEvtBroadcastFlags
  \/ EvtIsr
  \/ EvtWoken

------------------------------------------------------------------------------
(* No event is missed: a thread that waits has not what it waits for, and  *)
(* one that was woken by events still has them when it runs.               *)
Has(t, all) ==
  IF all THEN ewmask[t] \subseteq epending[t] ELSE ewmask[t] \cap epending[t] # {}
NoEventMissed ==
  \A t \in Thread :
    /\ k.state[t] = "WTOREVT" => ~Has(t, FALSE)
    /\ k.state[t] = "WTANDEVT" => ~Has(t, TRUE)
    /\ k.state[t] \in {"READY", "CURRENT"} /\ pc[t][1] = "evt" /\ k.msg[t] = "OK"
         => Has(t, pc[t][2] = "all")

==============================================================================
