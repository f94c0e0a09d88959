-------------------------------- MODULE ChMsg --------------------------------
(***************************************************************************)
(* Synchronous messages of ChibiOS/RT (chmsg.c): a thread that sends       *)
(* sleeps in the queue of the receiver until it is answered.               *)
(***************************************************************************)
EXTENDS ChThreads

VARIABLES
  msgqueue,    \* [Thread -> senders in p_msgqueue, the first one first]
  taken        \* [Thread -> senders it got from chMsgWait, not yet released]

msgVars == <<msgqueue, taken>>

MsgInit ==
  /\ msgqueue = [t \in Thread |-> <<>>]
  /\ taken = [t \in Thread |-> {}]

IsReceiving(t) == k.state[t] = "WTMSG"
chMsgSend(t) ==
  /\ Calls /\ t \notin {me, Idle} /\ k.state[t] \notin {"NONE", "FINAL"}
  /\ msgqueue' = [msgqueue EXCEPT ![t] = Append(@, me)]
  /\ k' = chSchGoSleepS(IF IsReceiving(t) THEN chSchReadyI(k, t) ELSE k, "SNDMSGQ")
  /\ Sleeps(<<"woken">>)
  /\ UNCHANGED <<waiting, systime, taken>>

(* The first sender leaves the queue and waits for its answer.             *)
Receive(kk) ==
  LET t == Head(msgqueue[me])
  IN /\ k' = [kk EXCEPT !.state[t] = "SNDMSG"]
     /\ msgqueue' = [msgqueue EXCEPT ![me] = Tail(@)]
     /\ taken' = [taken EXCEPT ![me] = @ \cup {t}]

chMsgWait ==
  /\ Calls
  /\ \/ msgqueue[me] # <<>> /\ Receive(k) /\ UNCHANGED pc
     \/ msgqueue[me] = <<>>
        /\ k' = chSchGoSleepS(k, "WTMSG")
        /\ Sleeps(<<"msg">>)
        /\ UNCHANGED msgVars
  /\ UNCHANGED <<waiting, systime>>

MsgWoken ==
  /\ GoesOn("msg")
  /\ Receive(k)
  /\ Returns
  /\ UNCHANGED <<waiting, systime>>

chMsgRelease(t) ==
  /\ Calls /\ t \in taken[me]
  /\ k' = chSchWakeupS(k, t, "OK")
  /\ taken' = [taken EXCEPT ![me] = @ \ {t}]
  /\ UNCHANGED <<pc, waiting, systime, msgqueue>>

MsgCalls ==
  \/ \E t \in Thread : chMsgSend(t) \/ chMsgRelease(t)
  \/ chMsgWait
  \/ MsgWoken

------------------------------------------------------------------------------
(* A sender is in the queue of one receiver, or taken by one, and its      *)
(* state tells which; no receiver sleeps while there is a message for it.  *)
MessagesAreReceived ==
  /\ \A t \in Thread :
       /\ Cardinality({u \in Thread : t \in Members(msgqueue[u])})
            = IF k.state[t] = "SNDMSGQ" THEN 1 ELSE 0
       /\ Cardinality({u \in Thread : t \in taken[u]})
            = IF k.state[t] = "SNDMSG" THEN 1 ELSE 0
  /\ \A t \in Thread : k.state[t] = "WTMSG" => msgqueue[t] = <<>>
  /\ \A t \in Thread : pc[t] = <<"msg">> /\ k.state[t] # "WTMSG" => msgqueue[t] # <<>>

==============================================================================
