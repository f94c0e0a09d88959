------------------------------- MODULE McpCan --------------------------------
(***************************************************************************)
(* The driver of the MCP2515 CAN controller, and the two sketches that use *)
(* it: the deck firmware, which polls, and CAN_UNLOCK, which reads in the  *)
(* Timer1 interrupt while loop() may be sending through the same object.   *)
(*                                                                         *)
(* One step is one SPI transaction or one pass of a polling loop; between  *)
(* them the controller works on the bus by itself.  Messages to send and   *)
(* frames that come in are numbered.  Of what a message says only its      *)
(* origin is kept: "own", as asked for, "read", left by the last frame, or *)
(* "junk", the bytes of another transaction.                               *)
(***************************************************************************)
EXTENDS Integers, FiniteSets, McpBitRate

CONSTANTS
  Speed,        \* the bit rate of the bus (47620)
  Timeout,      \* TIMEOUTVALUE: passes of a polling loop
  Slow,         \* messages whose identifier has bit 3 of its high byte set
  MaxAsked,     \* bound: messages asked for
  MaxArrived,   \* bound: frames that come in
  MaxTotal,     \* bound: messages and frames together
  MaxUnlock     \* bound: the same for CAN_UNLOCK

ASSUME CanAssumption ==
  /\ Timeout \in Nat \ {0} /\ MaxAsked \in Nat /\ MaxArrived \in Nat
  /\ MaxTotal \in Nat /\ MaxUnlock \in Nat
  /\ Slow \subseteq 1..MaxAsked

VARIABLES
  sketch,              \* "deck" or "unlock"
  setup,               \* where CAN_setup is, "done" after it
  reqop, mode,         \* the mode asked of the controller, and its mode
  m,                   \* the driver's message: origin of m_nID, m_nDta; m_nRtr
  send, polls, txbuf,  \* where sendMsg is, its uiTimeOut and buffer
  tx,                  \* transmit buffers; n and wiped are about the message
  onbus,               \* the buffer the controller is sending, or none
  rx,                  \* receive buffers; n = 0: empty
  Flag_Recv,           \* CAN_UNLOCK: the interrupt pin fell
  asked, refused, sent, wiped, \* history: messages, and what became of them
  arrived, taken, remoted,     \* history: frames; a remote one was read
  cut,                 \* history: messages that a read fell into
  missed, failed       \* history: see Arrive and InitMask

setupVars == <<sketch, setup, reqop, mode, failed>>
sendVars == <<send, polls, txbuf, asked, refused>>
busVars == <<tx, onbus, sent, wiped>>
recvVars == <<rx, Flag_Recv, arrived, taken, remoted, missed>>
vars == <<setupVars, m, sendVars, busVars, recvVars, cut>>

TxBuf == 0..2
RxBuf == 0..1
none == 3
Origin == {"own", "read", "junk"}

Pending == {b \in TxBuf : tx[b].req = 1}
Waiting == {b \in RxBuf : rx[b].n # 0}

WithinTotal == asked + arrived < IF sketch = "deck" THEN MaxTotal ELSE MaxUnlock

EmptyTx == [b \in TxBuf |-> [n |-> 0, id |-> "own", data |-> "own", rtr |-> 0, req |-> 0]]
EmptyRx == [b \in RxBuf |-> [n |-> 0, rtr |-> 0]]

Init ==
  /\ sketch \in {"deck", "unlock"}
  /\ setup = "begin" /\ reqop = "config" /\ mode = "config" /\ failed = 0
  /\ m = [id |-> "own", data |-> "own", rtr |-> 0]
  /\ send = "idle" /\ polls = 0 /\ txbuf = 0
  /\ tx = EmptyTx /\ onbus = none /\ rx = EmptyRx /\ Flag_Recv = 0
  /\ asked = 0 /\ refused = {} /\ sent = {} /\ wiped = {}
  /\ arrived = 0 /\ taken = {} /\ remoted = 0 /\ cut = {} /\ missed = 0

------------------------------------------------------------------------------
(* CAN_setup of the two sketches *)

Ready == setup = "done"

(* setCANCTRL_Mode reads back the request, not the mode: it fails only if  *)
(* the controller does not answer, and may have been heard all the same.   *)
setCANCTRL_Mode(new) == reqop' = new

mcp2515_reset ==
  /\ tx' = EmptyTx /\ rx' = EmptyRx /\ onbus' = none /\ mode' = "config"
  /\ wiped' = wiped \cup {tx[b].n : b \in Pending}

(* begin, which succeeds at a rate it does not know as well, but leaves    *)
(* the controller as it was reset; CAN_UNLOCK then attaches its interrupt. *)
Begin ==
  /\ setup = "begin"
  /\ mcp2515_reset
  /\ setCANCTRL_Mode(IF configRate(Speed) THEN "normal" ELSE "config")
  /\ setup' = IF sketch = "deck" THEN "mask0" ELSE "attach"
  /\ UNCHANGED <<sketch, m, sendVars, sent, Flag_Recv, arrived, taken,
                 remoted, missed, cut, failed>>

BeginFails ==
  /\ setup = "begin"
  /\ mcp2515_reset
  /\ \E new \in {"config", "normal"} : setCANCTRL_Mode(new)
  /\ UNCHANGED <<sketch, setup, m, sendVars, sent, Flag_Recv, arrived, taken,
                 remoted, missed, cut, failed>>

AfterMask == [s \in {"mask0", "mask1", "filter0"} |->
                IF s = "mask0" THEN "mask1"
                ELSE IF s = "mask1" THEN "filter0" ELSE "done"]

(* init_Mask, init_Filt: configuration mode and back; the calls' results   *)
(* are not looked at.                                                      *)
Masking == setup \in {"mask0", "mask1", "filter0"}

BackToNormal == setCANCTRL_Mode("normal")

InitMask ==
  /\ Masking
  /\ mode' = "config"
  /\ onbus' = none
  /\ BackToNormal
  /\ setup' = AfterMask[setup]
  /\ UNCHANGED <<sketch, failed, m, sendVars, tx, sent, wiped, recvVars, cut>>

InitMaskFails ==
  /\ Masking
  /\ \E new \in {reqop, "config", "normal"} : setCANCTRL_Mode(new)
  /\ failed' = 1
  /\ setup' = AfterMask[setup]
  /\ UNCHANGED <<sketch, mode, m, sendVars, busVars, recvVars, cut>>

AttachInterrupt ==
  /\ setup = "attach"
  /\ setup' = "done"
  /\ missed' = IF Waiting = {} THEN missed ELSE 1
  /\ UNCHANGED <<sketch, reqop, mode, failed, m, sendVars, busVars, rx,
                 Flag_Recv, arrived, taken, remoted, cut>>

------------------------------------------------------------------------------
(* sendMsgBuf *)

(* setMsg leaves m_nRtr as the last frame read has set it.                 *)
KeepRtr == m.rtr

setMsg ==
  /\ Ready /\ send = "idle"
  /\ asked < MaxAsked /\ WithinTotal
  /\ asked' = asked + 1
  /\ m' = [id |-> "own", data |-> "own", rtr |-> KeepRtr]
  /\ send' = "free" /\ polls' = 0
  /\ UNCHANGED <<setupVars, txbuf, refused, busVars, recvVars, cut>>

Free == TxBuf \ Pending
AnyBuffer == TxBuf       \* fault: a buffer is taken although it waits
FreeBuffer == Free

Lowest(B) == CHOOSE b \in B : \A c \in B : b <= c

NoLimit == FALSE         \* fault: polled for ever
LastPoll == polls + 1 = Timeout

(* A buffer that is free on the last pass is not used.                     *)
getNextFreeTXBuf ==
  /\ send = "free"
  /\ \/ /\ ~LastPoll /\ FreeBuffer # {}
        /\ txbuf' = Lowest(FreeBuffer)
        /\ send' = "data" /\ polls' = 0
        /\ UNCHANGED refused
     \/ /\ ~LastPoll /\ FreeBuffer = {}
        /\ polls' = polls + 1
        /\ UNCHANGED <<txbuf, send, refused>>
     \/ /\ LastPoll
        /\ refused' = refused \cup {asked}
        /\ send' = "idle" /\ polls' = 0
        /\ UNCHANGED txbuf
  /\ UNCHANGED <<setupVars, m, asked, busVars, recvVars, cut>>

(* write_canMsg: data, then length with the remote bit, then identifier.   *)
write_canMsg ==
  /\ \/ /\ send = "data" /\ send' = "dlc"
        /\ tx' = [tx EXCEPT ![txbuf].data = m.data]
     \/ /\ send = "dlc" /\ send' = "id"
        /\ tx' = [tx EXCEPT ![txbuf].rtr = m.rtr]
     \/ /\ send = "id" /\ send' = "start"
        /\ tx' = [tx EXCEPT ![txbuf].id = m.id]
  /\ UNCHANGED <<setupVars, m, polls, txbuf, asked, refused, onbus, sent,
                 wiped, recvVars, cut>>

start_transmit ==
  /\ send = "start"
  /\ tx' = [tx EXCEPT ![txbuf].n = asked, ![txbuf].req = 1]
  /\ send' = "sent" /\ polls' = 0
  /\ UNCHANGED <<setupVars, m, txbuf, asked, refused, onbus, sent, wiped,
                 recvVars, cut>>

(* The wait looks at the identifier, not at the control register, so it    *)
(* ends at once or times out, whatever became of the message; a frame's    *)
(* identifier may be either.                                               *)
WaitOver ==
  \/ tx[txbuf].id = "own" /\ asked \notin Slow
  \/ tx[txbuf].id # "own"
  \/ LastPoll

AwaitSent ==
  /\ send = "sent"
  /\ \/ WaitOver /\ send' = "idle" /\ polls' = 0 /\ txbuf' = 0
     \/ /\ ~LastPoll
        /\ tx[txbuf].id # "own" \/ asked \in Slow
        /\ polls' = polls + 1 /\ UNCHANGED <<send, txbuf>>
  /\ UNCHANGED <<setupVars, m, asked, refused, busVars, recvVars, cut>>

sendMsgBuf ==
  setMsg \/ getNextFreeTXBuf \/ write_canMsg \/ start_transmit \/ AwaitSent

------------------------------------------------------------------------------
(* readMsgBuf *)

OnlyRxb0 == Waiting \cap {0}      \* fault: the second buffer is not seen
Status == Waiting

KeepFlag(b) == rx                                  \* fault: flag not cleared
ClearFlag(b) == [rx EXCEPT ![b].n = 0]

readMsg(b) ==
  /\ m' = [id |-> "read", data |-> "read", rtr |-> rx[b].rtr]
  /\ remoted' = IF rx[b].rtr = 1 THEN 1 ELSE remoted
  /\ rx' = ClearFlag(b)
  /\ taken' = taken \cup {rx[b].n}

(* The deck polls between two calls of sendMsgBuf.                         *)
CAN_message_handler ==
  /\ sketch = "deck" /\ Ready /\ send = "idle"
  /\ Status # {}
  /\ readMsg(Lowest(Status))
  /\ UNCHANGED <<setupVars, sendVars, busVars, Flag_Recv, arrived, missed, cut>>

(* CAN_UNLOCK: timer1Isr, if the pin has fallen since, between two SPI     *)
(* transactions of sendMsgBuf.                                             *)
ReadBetween ==
  /\ Flag_Recv = 1 /\ Flag_Recv' = 0
  /\ IF Status = {} THEN UNCHANGED <<m, rx, taken, remoted>>
                    ELSE readMsg(Lowest(Status))
  /\ cut' = IF send = "idle" THEN cut ELSE cut \cup {asked}
  /\ UNCHANGED <<setupVars, sendVars, busVars, arrived, missed>>

(* Within one: its own status read goes into the other transaction, so it  *)
(* may read either buffer or none, and the rest of that transaction is not *)
(* heard.                                                                  *)
ReadAny ==
  \/ UNCHANGED <<m, rx, taken, remoted>>
  \/ \E b \in Status : readMsg(b)
  \/ /\ \E r \in 0..1 : /\ m' = [id |-> "read", data |-> "read", rtr |-> r]
                         /\ remoted' = IF r = 1 THEN 1 ELSE remoted
     /\ UNCHANGED <<rx, taken>>

ReadWithin ==
  /\ Flag_Recv = 1 /\ Flag_Recv' = 0
  /\ ReadAny
  /\ \/ /\ send = "free" /\ ~LastPoll /\ send' = "data"
        /\ UNCHANGED tx
     \/ /\ send = "data" /\ send' = "dlc"
        /\ tx' = [tx EXCEPT ![txbuf].data = "junk"]
     \/ /\ send = "dlc" /\ send' = "id"
        /\ \E r \in 0..1 : tx' = [tx EXCEPT ![txbuf].rtr = r]
     \/ /\ send = "id" /\ send' = "start"
        /\ tx' = [tx EXCEPT ![txbuf].id = "junk"]
     \/ /\ send = "start" /\ send' = "sent"
        /\ \E r \in {tx[txbuf].req, 1} :
             tx' = [tx EXCEPT ![txbuf].n = asked, ![txbuf].req = r]
     \/ /\ send = "sent" /\ send' = "idle"
        /\ UNCHANGED tx
  /\ txbuf' \in IF send = "free" THEN TxBuf ELSE IF send = "sent" THEN {0} ELSE {txbuf}
  /\ cut' = cut \cup ({asked, tx[txbuf'].n} \ {0})
  /\ missed' = 1
  /\ polls' = 0
  /\ UNCHANGED <<setupVars, asked, refused, onbus, sent, wiped, arrived>>

timer1Isr == ReadBetween \/ ReadWithin

------------------------------------------------------------------------------
(* The controller and the bus *)

ModeFollows ==
  /\ mode # reqop /\ onbus = none
  /\ mode' = reqop
  /\ UNCHANGED <<sketch, setup, reqop, failed, m, sendVars, busVars, recvVars, cut>>

(* Of buffers with the same priority the highest is sent first.            *)
Arbitrate ==
  /\ mode = "normal" /\ onbus = none
  /\ \E b \in Pending : (\A c \in Pending : c <= b) /\ onbus' = b
  /\ UNCHANGED <<setupVars, m, sendVars, tx, sent, wiped, recvVars, cut>>

(* Another node has the bus, or nobody acknowledges: to be tried again.    *)
LoseArbitration ==
  /\ onbus # none
  /\ onbus' = none
  /\ UNCHANGED <<setupVars, m, sendVars, tx, sent, wiped, recvVars, cut>>

Frame(b) == [n |-> tx[b].n, id |-> tx[b].id, data |-> tx[b].data, rtr |-> tx[b].rtr]

(* Of what the buffer keeps only the identifier is looked at again.        *)
Transmitted ==
  /\ onbus # none
  /\ onbus' = none
  /\ tx' = [tx EXCEPT ![onbus] = [EmptyTx[onbus] EXCEPT !.id = tx[onbus].id]]
  /\ sent' = sent \cup {Frame(onbus)}
  /\ UNCHANGED <<setupVars, m, sendVars, wiped, recvVars, cut>>

(* RXB0 rolls over into RXB1.  The pin falls when the first of the two is  *)
(* filled; a frame that comes while it is low goes unnoticed.              *)
Arrive ==
  /\ mode = "normal" /\ onbus = none
  /\ arrived < MaxArrived /\ WithinTotal
  /\ arrived' = arrived + 1
  /\ IF rx[0].n = 0 \/ rx[1].n = 0
       THEN \E r \in 0..1 :
              rx' = [rx EXCEPT ![IF rx[0].n = 0 THEN 0 ELSE 1] = [n |-> arrived', rtr |-> r]]
       ELSE UNCHANGED rx
  /\ Flag_Recv' = IF sketch = "unlock" /\ Ready /\ Waiting = {} THEN 1 ELSE Flag_Recv
  /\ missed' = IF sketch = "unlock" /\ Waiting # {} THEN 1 ELSE missed
  /\ UNCHANGED <<setupVars, m, sendVars, busVars, taken, remoted, cut>>

(* The controller loses its supply for a moment.                           *)
Brownout ==
  /\ Ready /\ failed = 0
  /\ failed' = 1
  /\ mcp2515_reset
  /\ reqop' = "config"
  /\ UNCHANGED <<sketch, setup, m, sendVars, sent, Flag_Recv, arrived, taken,
                 remoted, missed, cut>>

Setup == Begin \/ BeginFails \/ InitMask \/ InitMaskFails \/ AttachInterrupt
Controller ==
  ModeFollows \/ Arbitrate \/ LoseArbitration \/ Transmitted \/ Arrive \/ Brownout

Next == Setup \/ sendMsgBuf \/ CAN_message_handler \/ timer1Isr \/ Controller

Spec == Init /\ [][Next]_vars

(* The deck's traffic need not end at the bounds: the last number there is *)
(* is given out again once its message or frame is gone, as though it had  *)
(* not been.  This is bookkeeping and no step of the program.              *)
ReuseMessage ==
  /\ sketch = "deck" /\ send = "idle"
  /\ asked = MaxAsked /\ asked # 0
  /\ \A b \in TxBuf : tx[b].n # asked
  /\ asked' = asked - 1
  /\ sent' = {f \in sent : f.n # asked}
  /\ refused' = refused \ {asked} /\ wiped' = wiped \ {asked} /\ cut' = cut \ {asked}
  /\ UNCHANGED <<setupVars, m, send, polls, txbuf, tx, onbus, recvVars>>

ReuseFrame ==
  /\ sketch = "deck"
  /\ arrived = MaxArrived /\ arrived # 0
  /\ \A b \in RxBuf : rx[b].n # arrived
  /\ arrived' = arrived - 1
  /\ taken' = taken \ {arrived}
  /\ UNCHANGED <<setupVars, m, sendVars, busVars, rx, Flag_Recv, remoted, missed, cut>>

Reuse == ReuseMessage \/ ReuseFrame

(* The program goes on: a call of sendMsgBuf goes through, though there    *)
(* need not be another, and between two of them the deck's loop comes to   *)
(* its poll again and again.  The controller answers, and the bus is free  *)
(* for it some time.                                                       *)
Fairness ==
  /\ SF_vars(Begin) /\ WF_vars(InitMask \/ InitMaskFails \/ AttachInterrupt)
  /\ WF_vars(getNextFreeTXBuf \/ write_canMsg \/ start_transmit \/ AwaitSent)
  /\ SF_vars(CAN_message_handler) /\ WF_vars(ReadBetween)
  /\ WF_vars(ModeFollows) /\ WF_vars(Arbitrate) /\ SF_vars(Transmitted)

FairSpec == Init /\ [][Next \/ Reuse]_vars /\ Fairness

------------------------------------------------------------------------------
Message == [n : 0..MaxAsked, id : Origin, data : Origin, rtr : 0..1]

TypeOK ==
  /\ sketch \in {"deck", "unlock"}
  /\ setup \in {"begin", "mask0", "mask1", "filter0", "attach", "done"}
  /\ reqop \in {"config", "normal"} /\ mode \in {"config", "normal"}
  /\ m \in [id : Origin, data : Origin, rtr : 0..1]
  /\ send \in {"idle", "free", "data", "dlc", "id", "start", "sent"}
  /\ polls \in 0..(Timeout - 1) /\ txbuf \in TxBuf
  /\ tx \in [TxBuf -> [n : 0..MaxAsked, id : Origin, data : Origin,
                       rtr : 0..1, req : 0..1]]
  /\ onbus \in TxBuf \cup {none}
  /\ rx \in [RxBuf -> [n : 0..MaxArrived, rtr : 0..1]]
  /\ Flag_Recv \in 0..1
  /\ asked \in 0..MaxAsked /\ arrived \in 0..MaxArrived
  /\ sent \subseteq Message
  /\ refused \subseteq 1..MaxAsked /\ wiped \subseteq 0..MaxAsked
  /\ cut \subseteq 0..MaxAsked /\ taken \subseteq 1..MaxArrived
  /\ remoted \in 0..1 /\ missed \in 0..1 /\ failed \in 0..1

SentNumbers == {f.n : f \in sent}
PendingNumbers == {tx[b].n : b \in Pending}

(* Every message asked for is being worked on, waits in a buffer of its    *)
(* own, was sent or was refused, whatever the buffers and the bus do:      *)
(* sendMsgBuf itself never tells.  A read that falls into it may change    *)
(* that, and a reset of the controller.                                    *)
EachIsSomewhere ==
  /\ \A n \in 1..asked :
       \/ n = asked /\ send # "idle"
       \/ n \in PendingNumbers \cup SentNumbers \cup refused \cup wiped \cup cut
  /\ \A b, c \in Pending : tx[b].n = tx[c].n => b = c \/ tx[b].n \in cut

(* What is on the bus was asked for in one piece and as a data frame,      *)
(* unless a read fell into its sending or a remote frame was ever read.    *)
SentAsAsked ==
  \A f \in sent \cup {Frame(b) : b \in Pending} :
    /\ f.n \in cut \/ (f.id = "own" /\ f.data = "own")
    /\ f.rtr = 1 => f.n \in cut \/ remoted = 1

(* CAN_UNLOCK: a frame that waits is known to the program, unless it came  *)
(* while another one was waiting, or before the interrupt was attached.    *)
NoFrameUnnoticed ==
  sketch = "unlock" /\ Ready /\ Waiting # {} => Flag_Recv = 1 \/ missed = 1

(* No message and no frame vanishes or is changed on its way through the   *)
(* driver's three layers, the controller and the interrupt.                *)
NothingVanishes == TypeOK /\ EachIsSomewhere /\ SentAsAsked /\ NoFrameUnnoticed

(* The driver and its controller are the link, for a sketch that does not  *)
(* read in an interrupt: each of their steps is one of the link's.         *)
Link == INSTANCE CanLink WITH
  outbox <- PendingNumbers,
  sent <- SentNumbers,
  inbox <- {rx[b].n : b \in Waiting}
IsCanLink == Link!Init /\ [][sketch = "deck" => Link!Next \/ Reuse]_(Link!linkVars)

(* An accepted message is sent.  One in the highest buffer is whatever     *)
(* else is asked for; one in a lower buffer may see others sent before it  *)
(* for as long as messages are asked for, but no longer.                   *)
Leaves(b) == tx[b].req = 1 ~> tx[b].req = 0 \/ failed = 1
AcceptedIsSent == Leaves(2) /\ ([]<><<asked' > asked>>_vars \/ (Leaves(0) /\ Leaves(1)))

(* A frame that was kept is read.  One in the first buffer is whatever     *)
(* comes in; one in the second may see others read before it for as long   *)
(* as frames come in, but no longer.                                       *)
IsRead(b) == rx[b].n # 0 ~> rx[b].n = 0 \/ missed = 1
KeptIsRead == IsRead(0) /\ ([]<><<arrived' > arrived>>_vars \/ IsRead(1))

(* CAN_setup ends, and leaves the controller on the bus unless one of the  *)
(* calls failed whose results it does not look at.                         *)
SetupEndsOnBus == <>[](Ready /\ (mode = "normal" \/ failed = 1))

(* And so, once the controller is on the bus, the buffers that are served  *)
(* first always get through, and all of them when the traffic pauses.      *)
FramesGetThrough == AcceptedIsSent /\ KeptIsRead /\ SetupEndsOnBus

==============================================================================
