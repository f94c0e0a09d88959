---------------------------- MODULE McpCanProofs -----------------------------
(***************************************************************************)
(* Proofs about the CAN driver: for any number of messages and frames, any *)
(* time limit and bit rate, with the controller losing its supply, nothing *)
(* vanishes in it, and it is the abstract link.                            *)
(***************************************************************************)
EXTENDS McpCan, FiniteSetTheorems, TLAPS

USE CanAssumption

------------------------------------------------------------------------------
(* The inductive invariant *)

(* sendMsgBuf has the message but has not asked for its transmission yet.  *)
BeforeStart == {"free", "data", "dlc", "id", "start"}
Filling == BeforeStart \ {"free"}

(* The driver's object holds what was asked for while it is being sent,    *)
(* unless a read fell into it, which only CAN_UNLOCK can do.               *)
ObjectInv ==
  /\ send # "idle" => asked > 0
  /\ send # "idle" => asked \in cut \/ (m.id = "own" /\ m.data = "own")
  /\ m.rtr = 1 => remoted = 1
  /\ sketch = "deck" => Flag_Recv = 0 /\ cut = {}
  /\ sketch = "unlock" => ~Masking

(* A number is in a buffer or on the bus only once its transmission was    *)
(* asked for, and the buffer on the bus is one that waits.                 *)
NumberInv ==
  /\ onbus # none => onbus \in Pending
  /\ \A b \in TxBuf : tx[b].n <= asked
  /\ \A b \in Pending : tx[b].n # 0
  /\ \A f \in sent : f.n <= asked
  /\ send \in BeforeStart =>
       (\A b \in Pending : tx[b].n < asked) /\ (\A f \in sent : f.n < asked)

(* The buffer that is being filled does not wait, and has got what was     *)
(* written so far, again unless a read fell into it.                       *)
FillInv ==
  /\ send \in Filling /\ tx[txbuf].req = 1 => {asked, tx[txbuf].n} \subseteq cut
  /\ send \in {"dlc", "id", "start"} => asked \in cut \/ tx[txbuf].data = "own"
  /\ send \in {"id", "start"} =>
       asked \in cut \/ (tx[txbuf].rtr = 1 => remoted = 1)
  /\ send = "start" => asked \in cut \/ tx[txbuf].id = "own"

(* After that the buffer or the bus has the message.                       *)
Out == PendingNumbers \cup SentNumbers \cup wiped \cup cut
HandedOver == send = "sent" => asked \in Out

(* Frames that wait are different ones, and the interrupt pin does not     *)
(* tell of the second.                                                     *)
FrameInv ==
  /\ \A b \in RxBuf : rx[b].n <= arrived
  /\ rx[0].n # 0 => rx[0].n # rx[1].n
  /\ sketch = "unlock" /\ rx[0].n # 0 /\ rx[1].n # 0 => missed = 1

IInv ==
  /\ TypeOK /\ ObjectInv /\ NumberInv /\ FillInv /\ HandedOver /\ FrameInv
  /\ EachIsSomewhere /\ SentAsAsked /\ NoFrameUnnoticed

------------------------------------------------------------------------------
(* Types *)

LEMMA InitIInv == Init => IInv
<1> SUFFICES ASSUME Init PROVE IInv
  OBVIOUS
<1>1. TypeOK
  BY DEF Init, TypeOK, EmptyTx, EmptyRx, Origin, TxBuf, RxBuf, none
<1>2. Pending = {} /\ Waiting = {}
  BY DEF Init, Pending, Waiting, EmptyTx, EmptyRx, TxBuf, RxBuf
<1>3. ObjectInv /\ NumberInv /\ FillInv /\ HandedOver /\ FrameInv
  BY <1>2 DEF Init, ObjectInv, NumberInv, FillInv, HandedOver, FrameInv, EmptyTx,
     EmptyRx, BeforeStart, Filling, Masking, TxBuf, RxBuf
<1>4. EachIsSomewhere /\ SentAsAsked /\ NoFrameUnnoticed
  BY <1>2 DEF Init, EachIsSomewhere, SentAsAsked, NoFrameUnnoticed
<1> QED
  BY <1>1, <1>3, <1>4 DEF IInv

(* What a read does to the message, the buffers and the frames read.       *)
LEMMA ReadType ==
  ASSUME TypeOK, NEW b \in Waiting, readMsg(b)
  PROVE  /\ m' \in [id : {"read"}, data : {"read"}, rtr : 0..1]
         /\ remoted' \in 0..1 /\ (m'.rtr = 1 => remoted' = 1) /\ remoted <= remoted'
         /\ rx' \in [RxBuf -> [n : 0..MaxArrived, rtr : 0..1]]
         /\ taken' \subseteq 1..MaxArrived
BY DEF readMsg, ClearFlag, TypeOK, Waiting, RxBuf

LEMMA ReadAnyType ==
  ASSUME TypeOK, ReadAny
  PROVE  /\ m' = m \/ m' \in [id : {"read"}, data : {"read"}, rtr : 0..1]
         /\ m'.rtr = 1 => m' = m \/ remoted' = 1
         /\ remoted' \in 0..1 /\ remoted <= remoted'
         /\ rx' \in [RxBuf -> [n : 0..MaxArrived, rtr : 0..1]]
         /\ taken' \subseteq 1..MaxArrived
<1>1. CASE UNCHANGED <<m, rx, taken, remoted>>
  BY <1>1 DEF TypeOK
<1>2. CASE \E b \in Status : readMsg(b)
  BY <1>2, ReadType DEF Status
<1>3. ASSUME NEW r \in 0..1, m' = [id |-> "read", data |-> "read", rtr |-> r],
             remoted' = IF r = 1 THEN 1 ELSE remoted, UNCHANGED <<rx, taken>>
      PROVE  /\ m' \in [id : {"read"}, data : {"read"}, rtr : 0..1]
             /\ m'.rtr = 1 => remoted' = 1
             /\ remoted' \in 0..1 /\ remoted <= remoted'
  BY <1>3 DEF TypeOK
<1> QED
  BY <1>1, <1>2, <1>3 DEF ReadAny, TypeOK

LEMMA LowestIsOne ==
  ASSUME NEW B \in SUBSET (0..2), B # {}
  PROVE  Lowest(B) \in B
<1>1. \E b \in B : \A c \in B : b <= c
  <2>1. CASE 0 \in B
    BY <2>1
  <2>2. CASE 0 \notin B /\ 1 \in B
    BY <2>2
  <2>3. CASE 0 \notin B /\ 1 \notin B
    <3>1. \A b \in B : b = 2
      BY <2>3
    <3>2. PICK b \in B : TRUE
      OBVIOUS
    <3> QED
      BY <3>1, <3>2
  <2> QED
    BY <2>1, <2>2, <2>3
<1> QED
  BY <1>1 DEF Lowest

LEMMA TypeStep == IInv /\ [Next]_vars => TypeOK'
<1> SUFFICES ASSUME TypeOK, ObjectInv, NumberInv, [Next]_vars PROVE TypeOK'
  BY DEF IInv
<1> USE DEF TypeOK, setupVars, sendVars, busVars, recvVars, TxBuf, RxBuf, none, Origin
<1>1. CASE Begin \/ BeginFails \/ Brownout
  <2>1. tx' = EmptyTx /\ rx' = EmptyRx /\ onbus' = none /\ mode' = "config"
    BY <1>1 DEF Begin, BeginFails, Brownout, mcp2515_reset
  <2>2. wiped' \subseteq 0..MaxAsked
    <3>1. wiped' = wiped \cup {tx[b].n : b \in Pending}
      BY <1>1 DEF Begin, BeginFails, Brownout, mcp2515_reset
    <3>2. \A b \in Pending : tx[b].n \in 0..MaxAsked
      BY DEF Pending
    <3>3. {tx[b].n : b \in Pending} \subseteq 0..MaxAsked
      BY ONLY <3>2
    <3> QED
      BY <3>1, <3>3
  <2>3. reqop' \in {"config", "normal"} /\ failed' \in 0..1
    BY <1>1 DEF Begin, BeginFails, Brownout, setCANCTRL_Mode
  <2>4. setup' \in {"begin", "mask0", "attach", "done"}
    BY <1>1 DEF Begin, BeginFails, Brownout, Ready
  <2>5. UNCHANGED <<sketch, m, sendVars, sent, Flag_Recv, arrived, taken,
                    remoted, missed, cut>>
    BY <1>1 DEF Begin, BeginFails, Brownout
  <2> QED
    BY <2>1, <2>2, <2>3, <2>4, <2>5 DEF EmptyTx, EmptyRx
<1>2. CASE InitMask \/ InitMaskFails
  <2>1. setup' \in {"mask1", "filter0", "done"}
    BY <1>2 DEF InitMask, InitMaskFails, Masking, AfterMask
  <2>2. /\ reqop' \in {"config", "normal"} /\ mode' \in {"config", "normal"}
        /\ onbus' \in TxBuf \cup {none} /\ failed' \in 0..1
    BY <1>2 DEF InitMask, InitMaskFails, BackToNormal, setCANCTRL_Mode
  <2> QED
    BY <1>2, <2>1, <2>2 DEF InitMask, InitMaskFails
<1>13. CASE AttachInterrupt
  BY <1>13 DEF AttachInterrupt
<1>3. CASE setMsg
  BY <1>3 DEF setMsg, KeepRtr
<1>14. CASE AwaitSent
  <2>1. polls' \in 0..(Timeout - 1) /\ txbuf' \in TxBuf /\ send' \in {"idle", "sent"}
    BY <1>14 DEF AwaitSent, LastPoll
  <2> QED
    BY <1>14, <2>1 DEF AwaitSent
<1>4. CASE getNextFreeTXBuf
  <2>1. FreeBuffer # {} => Lowest(FreeBuffer) \in 0..2
    <3>1. FreeBuffer \in SUBSET (0..2)
      BY DEF FreeBuffer, Free
    <3> QED
      BY <3>1, LowestIsOne
  <2>2. send = "free" /\ asked \in 1..MaxAsked
    BY <1>4 DEF getNextFreeTXBuf, ObjectInv
  <2>3. /\ polls' \in 0..(Timeout - 1) /\ txbuf' \in TxBuf
        /\ send' \in {"idle", "free", "data"} /\ refused' \subseteq 1..MaxAsked
    <3>1. CASE ~LastPoll /\ FreeBuffer # {} /\ txbuf' = Lowest(FreeBuffer)
               /\ send' = "data" /\ polls' = 0 /\ UNCHANGED refused
      BY <3>1, <2>1
    <3>2. CASE ~LastPoll /\ polls' = polls + 1 /\ UNCHANGED <<txbuf, send, refused>>
      BY <3>2, <2>2 DEF LastPoll
    <3>3. CASE refused' = refused \cup {asked} /\ send' = "idle" /\ polls' = 0
               /\ UNCHANGED txbuf
      BY <3>3, <2>2
    <3> QED
      BY <1>4, <3>1, <3>2, <3>3 DEF getNextFreeTXBuf
  <2> QED
    BY <1>4, <2>3 DEF getNextFreeTXBuf
<1>5. CASE write_canMsg \/ start_transmit
  BY <1>5 DEF write_canMsg, start_transmit
<1>6. CASE CAN_message_handler
  <2>1. Lowest(Status) \in Waiting
    BY <1>6, LowestIsOne DEF CAN_message_handler, Status, Waiting
  <2> QED
    BY <1>6, <2>1, ReadType DEF CAN_message_handler
<1>7. CASE ReadBetween
  <2>1. Status # {} => Lowest(Status) \in Waiting
    BY LowestIsOne DEF Status, Waiting
  <2>2. /\ m' \in [id : Origin, data : Origin, rtr : 0..1] /\ remoted' \in 0..1
        /\ rx' \in [RxBuf -> [n : 0..MaxArrived, rtr : 0..1]]
        /\ taken' \subseteq 1..MaxArrived
    <3>1. CASE Status = {}
      BY <1>7, <3>1 DEF ReadBetween
    <3>2. CASE Status # {}
      <4>1. readMsg(Lowest(Status))
        BY <1>7, <3>2 DEF ReadBetween
      <4> QED
        BY <4>1, <3>2, <2>1, ReadType
    <3> QED
      BY <3>1, <3>2
  <2>3. cut' \subseteq 0..MaxAsked /\ Flag_Recv' = 0
    BY <1>7 DEF ReadBetween
  <2> QED
    BY <1>7, <2>2, <2>3 DEF ReadBetween
<1>8. CASE ReadWithin
  <2>1. txbuf' \in TxBuf
    BY <1>8 DEF ReadWithin
  <2>2. tx' \in [TxBuf -> [n : 0..MaxAsked, id : Origin, data : Origin,
                          rtr : 0..1, req : 0..1]]
    BY <1>8 DEF ReadWithin
  <2>3. cut' \subseteq 0..MaxAsked
    BY <1>8, <2>1 DEF ReadWithin
  <2> QED
    BY <1>8, <2>1, <2>2, <2>3, ReadAnyType DEF ReadWithin
<1>9. CASE ModeFollows \/ Arbitrate \/ LoseArbitration
  <2>1. onbus' \in TxBuf \cup {none} /\ mode' \in {"config", "normal"}
    BY <1>9 DEF ModeFollows, Arbitrate, LoseArbitration, Pending
  <2> QED
    <3>1. CASE ModeFollows
      BY <3>1, <2>1 DEF ModeFollows
    <3>2. CASE Arbitrate
      BY <3>2, <2>1 DEF Arbitrate
    <3>3. CASE LoseArbitration
      BY <3>3, <2>1 DEF LoseArbitration
    <3> QED
      BY <1>9, <3>1, <3>2, <3>3
<1>10. CASE Transmitted
  <2>1. Frame(onbus) \in Message
    BY <1>10 DEF Transmitted, Frame, Message
  <2>2. tx' \in [TxBuf -> [n : 0..MaxAsked, id : Origin, data : Origin,
                          rtr : 0..1, req : 0..1]]
    BY <1>10 DEF Transmitted, EmptyTx
  <2> QED
    BY <1>10, <2>1, <2>2 DEF Transmitted
<1>11. CASE Arrive
  BY <1>11 DEF Arrive
<1>12. CASE UNCHANGED vars
  BY <1>12 DEF vars
<1> QED
  BY <1>1, <1>2, <1>3, <1>4, <1>5, <1>6, <1>7, <1>8, <1>9, <1>10, <1>11, <1>12,
     <1>13, <1>14
     DEF Next, Setup, sendMsgBuf, timer1Isr, Controller


------------------------------------------------------------------------------
(* The driver's object *)

LEMMA ObjectStep == IInv /\ [Next]_vars => ObjectInv'
<1> SUFFICES ASSUME TypeOK, ObjectInv, [Next]_vars PROVE ObjectInv'
  BY DEF IInv
<1> USE DEF ObjectInv, setupVars, sendVars, busVars, recvVars
<1>1. CASE Begin \/ BeginFails \/ Brownout \/ AttachInterrupt
  BY <1>1 DEF Begin, BeginFails, Brownout, AttachInterrupt, Ready, Masking, TypeOK
<1>2. CASE InitMask \/ InitMaskFails
  BY <1>2 DEF InitMask, InitMaskFails, Masking, AfterMask, TypeOK
<1>3. CASE setMsg
  BY <1>3 DEF setMsg, KeepRtr, Ready, Masking, TypeOK
<1>4. CASE getNextFreeTXBuf \/ write_canMsg \/ start_transmit \/ AwaitSent
  <2>1. UNCHANGED <<sketch, setup, m, asked, remoted, Flag_Recv, cut>>
    BY <1>4 DEF getNextFreeTXBuf, write_canMsg, start_transmit, AwaitSent
  <2>2. send # "idle"
    BY <1>4 DEF getNextFreeTXBuf, write_canMsg, start_transmit, AwaitSent
  <2> QED
    BY <2>1, <2>2 DEF Masking
<1>5. CASE CAN_message_handler
  <2>1. /\ send = "idle" /\ sketch = "deck"
        /\ UNCHANGED <<sketch, send, asked, Flag_Recv, cut>>
        /\ m'.rtr = 1 => remoted' = 1
    BY <1>5 DEF CAN_message_handler, readMsg
  <2> QED
    BY <2>1
<1>6. CASE ReadBetween
  <2>1. sketch # "deck" /\ UNCHANGED <<sketch, setup, send, asked>>
    BY <1>6 DEF ReadBetween
  <2>2. m'.rtr = 1 => remoted' = 1
    BY <1>6 DEF ReadBetween, readMsg
  <2>3. (send = "idle" /\ UNCHANGED cut) \/ asked \in cut'
    BY <1>6 DEF ReadBetween
  <2> QED
    BY <2>1, <2>2, <2>3 DEF Masking
<1>7. CASE ReadWithin
  <2>1. sketch # "deck" /\ UNCHANGED <<sketch, setup, asked>>
    BY <1>7 DEF ReadWithin
  <2>2. send # "idle"
    BY <1>7 DEF ReadWithin
  <2>3. m'.rtr = 1 => remoted' = 1
    <3>1. ReadAny
      BY <1>7 DEF ReadWithin
    <3>2. remoted' \in 0..1 /\ remoted <= remoted' /\ (m'.rtr = 1 => m' = m \/ remoted' = 1)
      BY <3>1, ReadAnyType
    <3> QED
      BY <3>2
  <2>4. asked \in cut'
    BY <1>7, <2>2 DEF ReadWithin, TypeOK
  <2> QED
    BY <2>1, <2>2, <2>3, <2>4 DEF Masking
<1>8. CASE ModeFollows \/ Arbitrate \/ LoseArbitration \/ Transmitted
  BY <1>8 DEF ModeFollows, Arbitrate, LoseArbitration, Transmitted, Masking
<1>9. CASE Arrive
  BY <1>9 DEF Arrive, Masking
<1>10. CASE UNCHANGED vars
  BY <1>10 DEF vars, Masking
<1> QED
  BY <1>1, <1>2, <1>3, <1>4, <1>5, <1>6, <1>7, <1>8, <1>9, <1>10
     DEF Next, Setup, sendMsgBuf, timer1Isr, Controller

------------------------------------------------------------------------------
(* Numbers *)

(* What a read within a transaction does to the buffer that is being sent. *)
LEMMA ReadWithinTx ==
  ASSUME TypeOK, ReadWithin
  PROVE  \/ UNCHANGED tx /\ send \in {"free", "sent"}
         \/ /\ send \in {"data", "dlc", "id"} /\ txbuf' = txbuf
            /\ \A b \in TxBuf : tx'[b].n = tx[b].n /\ tx'[b].req = tx[b].req
            /\ \A b \in TxBuf \ {txbuf} : tx'[b] = tx[b]
         \/ /\ send = "start" /\ send' = "sent" /\ txbuf' = txbuf
            /\ tx'[txbuf].n = asked /\ tx'[txbuf].req \in {tx[txbuf].req, 1}
            /\ tx'[txbuf].id = tx[txbuf].id /\ tx'[txbuf].data = tx[txbuf].data
            /\ tx'[txbuf].rtr = tx[txbuf].rtr
            /\ \A b \in TxBuf \ {txbuf} : tx'[b] = tx[b]
BY DEF ReadWithin, TypeOK

LEMMA NumberStep == IInv /\ [Next]_vars => NumberInv'
<1> SUFFICES ASSUME TypeOK, ObjectInv, NumberInv, [Next]_vars PROVE NumberInv'
  BY DEF IInv
<1> USE DEF setupVars, sendVars, busVars, recvVars
<1>1. CASE UNCHANGED <<tx, sent>> /\ UNCHANGED asked
           /\ (send' \in BeforeStart => send \in BeforeStart)
           /\ (onbus' = onbus \/ onbus' \in Pending \cup {none})
  BY <1>1 DEF NumberInv, Pending
<1>2. CASE Begin \/ BeginFails \/ Brownout
  <2>1. /\ tx' = EmptyTx /\ onbus' = none /\ UNCHANGED <<asked, send, sent>>
    BY <1>2 DEF Begin, BeginFails, Brownout, mcp2515_reset
  <2>2. Pending' = {} /\ \A b \in TxBuf : tx'[b].n = 0
    BY <2>1 DEF Pending, EmptyTx
  <2> QED
    BY <2>1, <2>2 DEF NumberInv, TypeOK
<1>3. CASE InitMask \/ InitMaskFails \/ AttachInterrupt
  BY <1>1, <1>3 DEF InitMask, InitMaskFails, AttachInterrupt
<1>4. CASE setMsg
  <2>1. asked' = asked + 1 /\ UNCHANGED <<tx, sent, onbus>>
    BY <1>4 DEF setMsg
  <2>2. /\ \A b \in TxBuf : tx[b].n \in Nat /\ tx[b].n <= asked
        /\ \A f \in sent : f.n \in Nat /\ f.n <= asked
    BY DEF TypeOK, NumberInv, Message
  <2> QED
    BY <2>1, <2>2 DEF NumberInv, Pending, TypeOK
<1>5. CASE getNextFreeTXBuf \/ AwaitSent
  BY <1>1, <1>5 DEF getNextFreeTXBuf, AwaitSent, BeforeStart
<1>6. CASE write_canMsg
  <2>1. /\ UNCHANGED <<asked, sent, onbus>>
        /\ \A b \in TxBuf : tx'[b].n = tx[b].n /\ tx'[b].req = tx[b].req
        /\ send \in BeforeStart
    BY <1>6 DEF write_canMsg, TypeOK, BeforeStart
  <2> QED
    BY <2>1 DEF NumberInv, Pending
<1>7. CASE start_transmit
  <2>1. /\ UNCHANGED <<asked, sent, onbus>> /\ asked > 0 /\ send' = "sent"
        /\ tx'[txbuf].n = asked /\ tx'[txbuf].req = 1
        /\ \A b \in TxBuf \ {txbuf} : tx'[b] = tx[b]
    BY <1>7 DEF start_transmit, TypeOK, ObjectInv
  <2> QED
    BY <2>1 DEF NumberInv, Pending, BeforeStart, TypeOK
<1>8. CASE CAN_message_handler
  BY <1>1, <1>8 DEF CAN_message_handler
<1>9. CASE ReadBetween
  BY <1>1, <1>9 DEF ReadBetween
<1>10. CASE ReadWithin
  <2>1. /\ UNCHANGED <<asked, sent, onbus>> /\ asked > 0
        /\ send' \in BeforeStart => send \in BeforeStart
    BY <1>10 DEF ReadWithin, BeforeStart, ObjectInv
  <2>2. send = "start" => send' \notin BeforeStart
    BY <1>10 DEF ReadWithin, BeforeStart
  <2> QED
    BY <1>10, <2>1, <2>2, ReadWithinTx DEF NumberInv, Pending, TypeOK
<1>11. CASE ModeFollows \/ Arbitrate \/ LoseArbitration \/ Arrive
  BY <1>1, <1>11 DEF ModeFollows, Arbitrate, LoseArbitration, Arrive
<1>12. CASE Transmitted
  <2>1. /\ onbus \in Pending /\ onbus' = none /\ UNCHANGED <<asked, send>>
        /\ tx'[onbus].n = 0 /\ tx'[onbus].req = 0
        /\ \A b \in TxBuf \ {onbus} : tx'[b] = tx[b]
    BY <1>12 DEF Transmitted, NumberInv, TypeOK, EmptyTx, Pending
  <2>2. sent' = sent \cup {Frame(onbus)} /\ Frame(onbus).n = tx[onbus].n
    BY <1>12 DEF Transmitted, Frame
  <2> QED
    BY <2>1, <2>2 DEF NumberInv, Pending, TypeOK
<1>13. CASE UNCHANGED vars
  BY <1>1, <1>13 DEF vars
<1> QED
  BY <1>2, <1>3, <1>4, <1>5, <1>6, <1>7, <1>8, <1>9, <1>10, <1>11, <1>12, <1>13
     DEF Next, Setup, sendMsgBuf, timer1Isr, Controller

------------------------------------------------------------------------------
(* The buffer that is being filled *)

(* That a read fell in, or that a remote frame was read, is not forgotten. *)
LEMMA Grows ==
  ASSUME TypeOK, [Next]_vars
  PROVE  cut \subseteq cut' /\ (remoted = 1 => remoted' = 1)
<1> USE DEF setupVars, sendVars, busVars, recvVars
<1>1. CASE Setup
  BY <1>1 DEF Setup, Begin, BeginFails, InitMask, InitMaskFails, AttachInterrupt
<1>2. CASE sendMsgBuf
  BY <1>2 DEF sendMsgBuf, setMsg, getNextFreeTXBuf, write_canMsg, start_transmit, AwaitSent
<1>3. CASE CAN_message_handler
  BY <1>3 DEF CAN_message_handler, readMsg
<1>4. CASE ReadBetween
  BY <1>4 DEF ReadBetween, readMsg
<1>5. CASE ReadWithin
  BY <1>5 DEF ReadWithin, ReadAny, readMsg
<1>6. CASE Controller
  BY <1>6 DEF Controller, ModeFollows, Arbitrate, LoseArbitration, Transmitted,
     Arrive, Brownout
<1>7. CASE UNCHANGED vars
  BY <1>7 DEF vars
<1> QED
  BY <1>1, <1>2, <1>3, <1>4, <1>5, <1>6, <1>7 DEF Next, timer1Isr

LEMMA FillStep == IInv /\ [Next]_vars => FillInv'
<1> SUFFICES ASSUME TypeOK, ObjectInv, NumberInv, FillInv, [Next]_vars PROVE FillInv'
  BY DEF IInv
<1> USE DEF setupVars, sendVars, busVars, recvVars
<1>1. cut \subseteq cut' /\ (remoted = 1 => remoted' = 1)
  BY Grows
<1>2. CASE UNCHANGED <<tx, txbuf, asked, send>>
  BY <1>1, <1>2 DEF FillInv
<1>3. CASE send' \notin Filling
  BY <1>3 DEF FillInv, Filling, BeforeStart
<1>4. CASE Begin \/ BeginFails \/ Brownout
  <2>1. tx' = EmptyTx /\ txbuf' = txbuf
    BY <1>4 DEF Begin, BeginFails, Brownout, mcp2515_reset
  <2> QED
    BY <2>1 DEF FillInv, EmptyTx, TypeOK
<1>5. CASE InitMask \/ InitMaskFails \/ AttachInterrupt
  BY <1>2, <1>5 DEF InitMask, InitMaskFails, AttachInterrupt
<1>6. CASE setMsg \/ start_transmit \/ AwaitSent
  BY <1>3, <1>6 DEF setMsg, start_transmit, AwaitSent, Filling, BeforeStart
<1>7. CASE getNextFreeTXBuf
  <2>1. CASE send' = "data"
    <3>1. FreeBuffer # {} /\ txbuf' = Lowest(FreeBuffer) /\ UNCHANGED tx
      BY <1>7, <2>1 DEF getNextFreeTXBuf
    <3>2. FreeBuffer \in SUBSET (0..2)
      BY DEF FreeBuffer, Free, TxBuf
    <3>3. txbuf' \in FreeBuffer
      BY <3>1, <3>2, LowestIsOne
    <3>4. tx[txbuf'].req # 1
      BY <3>3 DEF FreeBuffer, Free, Pending
    <3> QED
      BY <2>1, <3>1, <3>4 DEF FillInv
  <2>2. CASE send' # "data"
    BY <1>3, <1>7, <2>2 DEF getNextFreeTXBuf, Filling, BeforeStart
  <2> QED
    BY <2>1, <2>2
<1>8. CASE write_canMsg
  <2>1. UNCHANGED <<txbuf, asked, cut, remoted, m>>
    BY <1>8 DEF write_canMsg
  <2>2. tx'[txbuf].n = tx[txbuf].n /\ tx'[txbuf].req = tx[txbuf].req
    BY <1>8 DEF write_canMsg, TypeOK
  <2>3. CASE send = "data"
    <3>1. send' = "dlc" /\ tx'[txbuf].data = m.data
      BY <1>8, <2>3 DEF write_canMsg, TypeOK
    <3> QED
      BY <2>1, <2>2, <2>3, <3>1 DEF FillInv, ObjectInv, Filling, BeforeStart
  <2>4. CASE send = "dlc"
    <3>1. send' = "id" /\ tx'[txbuf].rtr = m.rtr /\ tx'[txbuf].data = tx[txbuf].data
      BY <1>8, <2>4 DEF write_canMsg, TypeOK
    <3> QED
      BY <2>1, <2>2, <2>4, <3>1 DEF FillInv, ObjectInv, Filling, BeforeStart
  <2>5. CASE send = "id"
    <3>1. /\ send' = "start" /\ tx'[txbuf].id = m.id /\ tx'[txbuf].data = tx[txbuf].data
          /\ tx'[txbuf].rtr = tx[txbuf].rtr
      BY <1>8, <2>5 DEF write_canMsg, TypeOK
    <3> QED
      BY <2>1, <2>2, <2>5, <3>1 DEF FillInv, ObjectInv, Filling, BeforeStart
  <2> QED
    BY <1>8, <2>3, <2>4, <2>5 DEF write_canMsg
<1>9. CASE CAN_message_handler \/ ReadBetween
  BY <1>2, <1>9 DEF CAN_message_handler, ReadBetween
<1>10. CASE ReadWithin
  <2>1. asked' = asked /\ asked \in cut'
    BY <1>10 DEF ReadWithin, ObjectInv, TypeOK
  <2>2. CASE send \in {"free", "data", "dlc", "id"}
    <3>1. tx'[txbuf'].n = tx[txbuf'].n /\ tx'[txbuf'].req = tx[txbuf'].req /\ txbuf' \in TxBuf
      BY <1>10, <2>2, ReadWithinTx DEF ReadWithin, TypeOK
    <3>2. tx[txbuf'].n \in cut' \cup {0}
      BY <1>10 DEF ReadWithin
    <3>3. tx[txbuf'].req = 1 => tx[txbuf'].n # 0
      BY <3>1 DEF NumberInv, Pending
    <3> QED
      BY <2>1, <3>1, <3>2, <3>3 DEF FillInv
  <2>3. CASE send \in {"start", "sent"}
    BY <1>3, <1>10, <2>3 DEF ReadWithin, Filling, BeforeStart
  <2> QED
    BY <1>10, <2>2, <2>3 DEF ReadWithin
<1>11. CASE ModeFollows \/ Arbitrate \/ LoseArbitration \/ Arrive
  BY <1>2, <1>11 DEF ModeFollows, Arbitrate, LoseArbitration, Arrive
<1>12. CASE Transmitted
  <2>1. /\ onbus \in TxBuf /\ UNCHANGED <<txbuf, asked, send>>
        /\ tx'[onbus].req = 0 /\ tx'[onbus].data = "own" /\ tx'[onbus].rtr = 0
        /\ tx'[onbus].id = tx[onbus].id
        /\ \A b \in TxBuf \ {onbus} : tx'[b] = tx[b]
    BY <1>12 DEF Transmitted, TypeOK, EmptyTx
  <2>2. CASE txbuf = onbus
    BY <1>1, <2>1, <2>2 DEF FillInv
  <2>3. CASE txbuf # onbus
    BY <1>1, <2>1, <2>3 DEF FillInv, TypeOK
  <2> QED
    BY <2>2, <2>3
<1>13. CASE UNCHANGED vars
  BY <1>2, <1>13 DEF vars
<1> QED
  BY <1>4, <1>5, <1>6, <1>7, <1>8, <1>9, <1>10, <1>11, <1>12, <1>13
     DEF Next, Setup, sendMsgBuf, timer1Isr, Controller

------------------------------------------------------------------------------
(* The frames that wait *)

(* What a read does to the receive buffers.                                *)
LEMMA ReadRx ==
  ASSUME TypeOK, NEW b \in Waiting, readMsg(b)
  PROVE  /\ b \in RxBuf /\ rx'[b].n = 0
         /\ \A c \in RxBuf \ {b} : rx'[c] = rx[c]
         /\ taken' = taken \cup {rx[b].n}
BY DEF readMsg, ClearFlag, TypeOK, Waiting

LEMMA FrameStep == IInv /\ [Next]_vars => FrameInv' /\ NoFrameUnnoticed'
<1> SUFFICES ASSUME TypeOK, ObjectInv, FrameInv, NoFrameUnnoticed, [Next]_vars
             PROVE  FrameInv' /\ NoFrameUnnoticed'
  BY DEF IInv
<1> USE DEF setupVars, sendVars, busVars, recvVars
<1>1. CASE UNCHANGED <<rx, Flag_Recv, arrived, missed>> /\ sketch' = sketch
           /\ (sketch = "unlock" /\ Ready' => Ready)
  BY <1>1 DEF FrameInv, NoFrameUnnoticed, Waiting
<1>2. ASSUME UNCHANGED <<sketch, setup, arrived>>, NEW b \in Waiting, readMsg(b),
             Flag_Recv' = 0, missed' = missed \/ missed' = 1
      PROVE  FrameInv' /\ NoFrameUnnoticed'
  <2>1. /\ b \in RxBuf /\ rx'[b].n = 0 /\ rx[b].n # 0
        /\ \A c \in RxBuf \ {b} : rx'[c] = rx[c]
    BY <1>2, ReadRx DEF Waiting
  <2>2. sketch = "unlock" /\ Waiting' # {} => missed = 1
    BY <2>1 DEF FrameInv, Waiting, RxBuf
  <2> QED
    BY <1>2, <2>1, <2>2 DEF FrameInv, NoFrameUnnoticed, TypeOK, RxBuf
<1>3. CASE Begin \/ BeginFails \/ Brownout
  <2>1. rx' = EmptyRx /\ UNCHANGED <<arrived, sketch>>
    BY <1>3 DEF Begin, BeginFails, Brownout, mcp2515_reset
  <2>2. Waiting' = {}
    BY <2>1 DEF Waiting, EmptyRx
  <2> QED
    BY <2>1, <2>2 DEF FrameInv, NoFrameUnnoticed, EmptyRx, TypeOK, RxBuf
<1>4. CASE InitMask \/ InitMaskFails
  <2>1. UNCHANGED <<recvVars, sketch>> /\ sketch # "unlock"
    BY <1>4 DEF InitMask, InitMaskFails, ObjectInv
  <2> QED
    BY <1>1, <2>1
<1>5. CASE AttachInterrupt
  BY <1>5 DEF AttachInterrupt, FrameInv, NoFrameUnnoticed, Waiting
<1>6. CASE sendMsgBuf
  <2>1. UNCHANGED <<recvVars, setupVars>>
    BY <1>6 DEF sendMsgBuf, setMsg, getNextFreeTXBuf, write_canMsg, start_transmit, AwaitSent
  <2> QED
    BY <1>1, <2>1 DEF Ready
<1>7. CASE CAN_message_handler
  <2>1. Lowest(Status) \in Waiting
    BY <1>7, LowestIsOne DEF CAN_message_handler, Status, Waiting, RxBuf
  <2> QED
    BY <1>2, <1>7, <2>1 DEF CAN_message_handler, ObjectInv
<1>8. CASE ReadBetween
  <2>1. CASE Status = {}
    BY <1>8, <2>1 DEF ReadBetween, FrameInv, NoFrameUnnoticed, Waiting, Status
  <2>2. CASE Status # {}
    <3>1. Lowest(Status) \in Waiting
      BY <2>2, LowestIsOne DEF Status, Waiting, RxBuf
    <3> QED
      BY <1>2, <1>8, <2>2, <3>1 DEF ReadBetween
  <2> QED
    BY <2>1, <2>2
<1>9. CASE ReadWithin
  <2>1. UNCHANGED <<sketch, setup, arrived>> /\ missed' = 1 /\ Flag_Recv' = 0
    BY <1>9 DEF ReadWithin
  <2>2. CASE UNCHANGED rx
    BY <2>1, <2>2 DEF FrameInv, NoFrameUnnoticed
  <2>3. CASE \E b \in Status : readMsg(b)
    BY <1>2, <2>1, <2>3 DEF Status
  <2> QED
    BY <1>9, <2>2, <2>3 DEF ReadWithin, ReadAny
<1>10. CASE ModeFollows \/ Arbitrate \/ LoseArbitration \/ Transmitted
  BY <1>1, <1>10 DEF ModeFollows, Arbitrate, LoseArbitration, Transmitted, Ready
<1>11. CASE Arrive
  <2>1. arrived' = arrived + 1 /\ UNCHANGED <<sketch, setup>>
    BY <1>11 DEF Arrive
  <2>2. \/ rx[0].n = 0 /\ rx'[0].n = arrived + 1 /\ rx'[1] = rx[1]
        \/ rx[0].n # 0 /\ rx[1].n = 0 /\ rx'[1].n = arrived + 1 /\ rx'[0] = rx[0]
        \/ rx[0].n # 0 /\ rx[1].n # 0 /\ UNCHANGED rx
    BY <1>11 DEF Arrive, TypeOK, RxBuf
  <2>3. Waiting # {} <=> rx[0].n # 0 \/ rx[1].n # 0
    BY DEF Waiting, RxBuf
  <2>4. /\ sketch = "unlock" /\ Ready /\ Waiting = {} => Flag_Recv' = 1
        /\ sketch = "unlock" /\ Waiting # {} => missed' = 1
    BY <1>11 DEF Arrive
  <2>5. NoFrameUnnoticed'
    BY <2>1, <2>4 DEF NoFrameUnnoticed, Ready
  <2> QED
    BY <2>1, <2>2, <2>3, <2>4, <2>5 DEF FrameInv, TypeOK, RxBuf
<1>12. CASE UNCHANGED vars
  BY <1>1, <1>12 DEF vars, Ready
<1> QED
  BY <1>3, <1>4, <1>5, <1>6, <1>7, <1>8, <1>9, <1>10, <1>11, <1>12
     DEF Next, Setup, timer1Isr, Controller

------------------------------------------------------------------------------
(* Where each message is *)

(* What is out of the program's hands stays so: a buffer that waits is     *)
(* overwritten only when a read fell into the sending of what it holds.    *)
LEMMA OutGrows == IInv /\ [Next]_vars => Out \subseteq Out'
<1> SUFFICES ASSUME TypeOK, ObjectInv, NumberInv, FillInv, [Next]_vars
             PROVE  Out \subseteq Out'
  BY DEF IInv
<1> USE DEF setupVars, sendVars, busVars, recvVars
<1>1. cut \subseteq cut'
  BY Grows
<1>2. CASE UNCHANGED <<tx, sent, wiped>>
  BY <1>1, <1>2 DEF Out, PendingNumbers, Pending, SentNumbers
<1>3. ASSUME UNCHANGED <<sent, wiped>>,
             \A b \in Pending : tx[b].n \in cut' \/ (tx'[b].req = 1 /\ tx'[b].n = tx[b].n)
      PROVE  Out \subseteq Out'
  BY <1>1, <1>3 DEF Out, PendingNumbers, Pending, SentNumbers
<1>4. CASE Begin \/ BeginFails \/ Brownout
  <2>1. wiped' = wiped \cup PendingNumbers /\ sent' = sent
    BY <1>4 DEF Begin, BeginFails, Brownout, mcp2515_reset, PendingNumbers
  <2> QED
    BY <1>1, <2>1 DEF Out, SentNumbers
<1>5. CASE InitMask \/ InitMaskFails \/ AttachInterrupt
  BY <1>2, <1>5 DEF InitMask, InitMaskFails, AttachInterrupt
<1>6. CASE setMsg \/ getNextFreeTXBuf \/ AwaitSent
  BY <1>2, <1>6 DEF setMsg, getNextFreeTXBuf, AwaitSent
<1>7. CASE write_canMsg
  <2>1. /\ UNCHANGED <<sent, wiped>>
        /\ \A b \in TxBuf : tx'[b].n = tx[b].n /\ tx'[b].req = tx[b].req
    BY <1>7 DEF write_canMsg, TypeOK
  <2> QED
    BY <1>3, <2>1 DEF Pending
<1>8. CASE start_transmit
  <2>1. /\ UNCHANGED <<sent, wiped>>
        /\ \A b \in TxBuf \ {txbuf} : tx'[b] = tx[b]
    BY <1>8 DEF start_transmit, TypeOK
  <2>2. txbuf \in Pending => tx[txbuf].n \in cut
    BY <1>8 DEF start_transmit, FillInv, Filling, BeforeStart, Pending
  <2> QED
    BY <1>1, <1>3, <2>1, <2>2 DEF Pending
<1>9. CASE CAN_message_handler \/ ReadBetween
  BY <1>2, <1>9 DEF CAN_message_handler, ReadBetween
<1>10. CASE ReadWithin
  <2>1. UNCHANGED <<sent, wiped>>
    BY <1>10 DEF ReadWithin
  <2>2. send = "start" /\ txbuf \in Pending => tx[txbuf].n \in cut
    BY DEF FillInv, Filling, BeforeStart, Pending
  <2> QED
    BY <1>1, <1>3, <1>10, <2>1, <2>2, ReadWithinTx DEF Pending
<1>11. CASE ModeFollows \/ Arbitrate \/ LoseArbitration \/ Arrive
  BY <1>2, <1>11 DEF ModeFollows, Arbitrate, LoseArbitration, Arrive
<1>12. CASE Transmitted
  <2>1. /\ onbus \in TxBuf /\ sent' = sent \cup {Frame(onbus)} /\ UNCHANGED wiped
        /\ \A b \in TxBuf \ {onbus} : tx'[b] = tx[b]
    BY <1>12 DEF Transmitted, TypeOK
  <2>2. tx[onbus].n \in SentNumbers' /\ SentNumbers \subseteq SentNumbers'
    <3>1. Frame(onbus) \in sent' /\ Frame(onbus).n = tx[onbus].n
      BY <2>1 DEF Frame
    <3> QED
      BY <2>1, <3>1 DEF SentNumbers
  <2>3. \A b \in Pending : tx[b].n \in SentNumbers' \cup PendingNumbers'
    BY <2>1, <2>2 DEF Pending, PendingNumbers
  <2> QED
    BY <1>1, <2>1, <2>2, <2>3 DEF Out, PendingNumbers
<1>13. CASE UNCHANGED vars
  BY <1>2, <1>13 DEF vars
<1> QED
  BY <1>4, <1>5, <1>6, <1>7, <1>8, <1>9, <1>10, <1>11, <1>12, <1>13
     DEF Next, Setup, sendMsgBuf, timer1Isr, Controller

(* sendMsgBuf goes on until it has handed the message over or refused it.  *)
LEMMA SendGoesOn ==
  ASSUME TypeOK, ObjectInv, [Next]_vars
  PROVE  /\ refused \subseteq refused'
         /\ \/ UNCHANGED <<asked, send>>
            \/ send = "idle" /\ send' = "free" /\ asked' = asked + 1
            \/ send \in BeforeStart /\ send' \in BeforeStart /\ asked' = asked
            \/ send = "free" /\ send' = "idle" /\ asked' = asked /\ asked \in refused'
            \/ send = "start" /\ send' = "sent" /\ asked' = asked /\ asked \in Out'
            \/ send = "sent" /\ send' \in {"sent", "idle"} /\ asked' = asked
<1> USE DEF setupVars, sendVars, busVars, recvVars
<1>1. CASE Setup
  BY <1>1 DEF Setup, Begin, BeginFails, InitMask, InitMaskFails, AttachInterrupt
<1>2. CASE setMsg \/ getNextFreeTXBuf \/ write_canMsg \/ AwaitSent
  BY <1>2 DEF setMsg, getNextFreeTXBuf, write_canMsg, AwaitSent, BeforeStart
<1>3. CASE start_transmit
  <2>1. txbuf \in Pending' /\ tx'[txbuf].n = asked
    BY <1>3 DEF start_transmit, Pending, TypeOK
  <2> QED
    BY <1>3, <2>1 DEF start_transmit, Out, PendingNumbers
<1>4. CASE CAN_message_handler \/ ReadBetween
  BY <1>4 DEF CAN_message_handler, ReadBetween
<1>5. CASE ReadWithin
  <2>1. asked \in cut'
    BY <1>5 DEF ReadWithin, ObjectInv, TypeOK
  <2> QED
    BY <1>5, <2>1 DEF ReadWithin, Out, BeforeStart
<1>6. CASE Controller
  BY <1>6 DEF Controller, ModeFollows, Arbitrate, LoseArbitration, Transmitted,
     Arrive, Brownout
<1>7. CASE UNCHANGED vars
  BY <1>7 DEF vars
<1> QED
  BY <1>1, <1>2, <1>3, <1>4, <1>5, <1>6, <1>7 DEF Next, sendMsgBuf, timer1Isr

(* No two buffers wait with the same message, unless a read fell into it.  *)
AreDifferent == \A b, c \in Pending : tx[b].n = tx[c].n => b = c \/ tx[b].n \in cut

LEMMA DifferentStep == IInv /\ [Next]_vars => AreDifferent'
<1> SUFFICES ASSUME TypeOK, ObjectInv, NumberInv, FillInv, AreDifferent, [Next]_vars
             PROVE  AreDifferent'
  BY DEF IInv, EachIsSomewhere, AreDifferent
<1> USE DEF setupVars, sendVars, busVars, recvVars
<1>1. cut \subseteq cut'
  BY Grows
<1>2. ASSUME \A b \in Pending' : b \in Pending /\ tx'[b].n = tx[b].n
      PROVE  AreDifferent'
  BY <1>1, <1>2 DEF AreDifferent
<1>3. CASE UNCHANGED tx
  BY <1>2, <1>3 DEF Pending
<1>4. ASSUME send = "start", tx'[txbuf].n = asked,
             \A b \in TxBuf \ {txbuf} : tx'[b] = tx[b]
      PROVE  AreDifferent'
  <2>1. \A b \in Pending' \ {txbuf} : b \in Pending /\ tx'[b].n = tx[b].n /\ tx[b].n < asked
    BY <1>4 DEF NumberInv, BeforeStart, Pending
  <2>2. \A b \in Pending' \ {txbuf} : tx'[b].n # tx'[txbuf].n
    BY <1>4, <2>1 DEF TypeOK, Pending
  <2>3. ASSUME NEW b \in Pending', NEW c \in Pending', tx'[b].n = tx'[c].n
        PROVE  b = c \/ tx'[b].n \in cut'
    BY <1>1, <2>1, <2>2, <2>3 DEF AreDifferent
  <2> QED
    BY <2>3 DEF AreDifferent
<1>5. CASE Begin \/ BeginFails \/ Brownout
  <2>1. tx' = EmptyTx
    BY <1>5 DEF Begin, BeginFails, Brownout, mcp2515_reset
  <2> QED
    BY <1>2, <2>1 DEF Pending, EmptyTx
<1>6. CASE InitMask \/ InitMaskFails \/ AttachInterrupt
  BY <1>3, <1>6 DEF InitMask, InitMaskFails, AttachInterrupt
<1>7. CASE setMsg \/ getNextFreeTXBuf \/ AwaitSent
  BY <1>3, <1>7 DEF setMsg, getNextFreeTXBuf, AwaitSent
<1>8. CASE write_canMsg
  <2>1. \A b \in TxBuf : tx'[b].n = tx[b].n /\ tx'[b].req = tx[b].req
    BY <1>8 DEF write_canMsg, TypeOK
  <2> QED
    BY <1>2, <2>1 DEF Pending
<1>9. CASE start_transmit
  <2>1. /\ send = "start" /\ tx'[txbuf].n = asked
        /\ \A b \in TxBuf \ {txbuf} : tx'[b] = tx[b]
    BY <1>9 DEF start_transmit, TypeOK
  <2> QED
    BY <1>4, <2>1
<1>10. CASE CAN_message_handler \/ ReadBetween
  BY <1>3, <1>10 DEF CAN_message_handler, ReadBetween
<1>11. CASE ReadWithin
  <2>1. CASE send = "start"
    BY <1>4, <1>11, <2>1, ReadWithinTx
  <2>2. CASE send # "start"
    BY <1>2, <1>3, <1>11, <2>2, ReadWithinTx DEF Pending
  <2> QED
    BY <2>1, <2>2
<1>12. CASE ModeFollows \/ Arbitrate \/ LoseArbitration \/ Arrive
  BY <1>3, <1>12 DEF ModeFollows, Arbitrate, LoseArbitration, Arrive
<1>13. CASE Transmitted
  <2>1. /\ onbus \in TxBuf /\ tx'[onbus].req = 0
        /\ \A b \in TxBuf \ {onbus} : tx'[b] = tx[b]
    BY <1>13 DEF Transmitted, TypeOK, EmptyTx
  <2> QED
    BY <1>2, <2>1 DEF Pending
<1>14. CASE UNCHANGED vars
  BY <1>3, <1>14 DEF vars
<1> QED
  BY <1>5, <1>6, <1>7, <1>8, <1>9, <1>10, <1>11, <1>12, <1>13, <1>14
     DEF Next, Setup, sendMsgBuf, timer1Isr, Controller

LEMMA SomewhereStep == IInv /\ [Next]_vars => HandedOver' /\ EachIsSomewhere'
<1> SUFFICES ASSUME IInv, [Next]_vars PROVE HandedOver' /\ EachIsSomewhere'
  OBVIOUS
<1>1. TypeOK /\ ObjectInv /\ HandedOver /\ EachIsSomewhere
  BY DEF IInv
<1>2. Out \subseteq Out'
  BY OutGrows
<1>3. /\ refused \subseteq refused'
      /\ \/ UNCHANGED <<asked, send>>
         \/ send = "idle" /\ send' = "free" /\ asked' = asked + 1
         \/ send \in BeforeStart /\ send' \in BeforeStart /\ asked' = asked
         \/ send = "free" /\ send' = "idle" /\ asked' = asked /\ asked \in refused'
         \/ send = "start" /\ send' = "sent" /\ asked' = asked /\ asked \in Out'
         \/ send = "sent" /\ send' \in {"sent", "idle"} /\ asked' = asked
  BY <1>1, SendGoesOn
<1>4. HandedOver'
  BY <1>1, <1>2, <1>3 DEF HandedOver, BeforeStart
<1>5. ASSUME NEW n \in 1..asked'
      PROVE  (n = asked' /\ send' # "idle") \/ n \in Out' \cup refused'
  <2>1. asked \in Nat /\ n \in Nat
    BY <1>1, <1>3 DEF TypeOK
  <2>2. CASE n \in Out \cup refused
    BY <1>2, <1>3, <2>2
  <2>3. CASE n \in 1..asked /\ n = asked /\ send # "idle"
    BY <1>1, <1>2, <1>3, <2>3 DEF HandedOver, BeforeStart
  <2>4. CASE n \notin 1..asked
    BY <1>3, <2>1, <2>4
  <2>5. n \in 1..asked => (n = asked /\ send # "idle") \/ n \in Out \cup refused
    BY <1>1 DEF EachIsSomewhere, Out
  <2> QED
    BY <2>2, <2>3, <2>4, <2>5
<1>6. AreDifferent'
  BY DifferentStep
<1> QED
  BY <1>4, <1>5, <1>6 DEF EachIsSomewhere, Out, AreDifferent

------------------------------------------------------------------------------
(* What is sent is what was asked for *)

(* A message, on the bus or in a buffer, is as it was asked for.           *)
AsAsked(f) ==
  /\ f.n \in cut \/ (f.id = "own" /\ f.data = "own")
  /\ f.rtr = 1 => f.n \in cut \/ remoted = 1

LEMMA FrameOfBuffer ==
  SentAsAsked <=> (\A f \in sent : AsAsked(f)) /\ (\A b \in Pending : AsAsked(tx[b]))
<1>1. \A b \in Pending : AsAsked(Frame(b)) <=> AsAsked(tx[b])
  BY DEF AsAsked, Frame
<1> QED
  BY <1>1 DEF SentAsAsked, AsAsked

LEMMA AsAskedStep == IInv /\ [Next]_vars => SentAsAsked'
<1> SUFFICES ASSUME TypeOK, ObjectInv, NumberInv, FillInv, SentAsAsked, [Next]_vars
             PROVE  SentAsAsked'
  BY DEF IInv
<1> USE DEF setupVars, sendVars, busVars, recvVars
<1>1. /\ \A f \in sent : AsAsked(f)
      /\ \A b \in Pending : AsAsked(tx[b])
  BY FrameOfBuffer
<1>2. cut \subseteq cut' /\ (remoted = 1 => remoted' = 1)
  BY Grows
<1>3. /\ \A f \in sent : AsAsked(f)'
      /\ \A b \in Pending : tx'[b] = tx[b] => AsAsked(tx[b])'
  BY <1>1, <1>2 DEF AsAsked
<1>4. ASSUME \A f \in sent' : AsAsked(f)', \A b \in Pending' : AsAsked(tx[b])'
      PROVE  SentAsAsked'
  <2>1. \A b \in Pending' : AsAsked(tx[b])' => AsAsked(Frame(b))'
    BY DEF AsAsked, Frame
  <2> QED
    BY <1>4, <2>1 DEF SentAsAsked, AsAsked
<1>5. CASE UNCHANGED <<tx, sent>>
  BY <1>3, <1>4, <1>5 DEF Pending
<1>6. ASSUME sent' = sent, NEW b \in TxBuf, AsAsked(tx[b])' \/ b \notin Pending',
             \A c \in TxBuf \ {b} : tx'[c] = tx[c]
      PROVE  SentAsAsked'
  BY <1>3, <1>4, <1>6 DEF Pending
<1>7. CASE Begin \/ BeginFails \/ Brownout
  <2>1. tx' = EmptyTx /\ sent' = sent
    BY <1>7 DEF Begin, BeginFails, Brownout, mcp2515_reset
  <2>2. Pending' = {}
    BY <2>1 DEF Pending, EmptyTx
  <2> QED
    BY <1>3, <1>4, <2>1, <2>2
<1>8. CASE InitMask \/ InitMaskFails \/ AttachInterrupt
  BY <1>5, <1>8 DEF InitMask, InitMaskFails, AttachInterrupt
<1>9. CASE setMsg \/ getNextFreeTXBuf \/ AwaitSent
  BY <1>5, <1>9 DEF setMsg, getNextFreeTXBuf, AwaitSent
<1>10. CASE write_canMsg
  <2>1. /\ sent' = sent /\ send \in Filling /\ txbuf \in TxBuf
        /\ tx'[txbuf].n = tx[txbuf].n /\ tx'[txbuf].req = tx[txbuf].req
        /\ \A c \in TxBuf \ {txbuf} : tx'[c] = tx[c]
    BY <1>10 DEF write_canMsg, TypeOK, Filling, BeforeStart
  <2>2. txbuf \in Pending' => tx'[txbuf].n \in cut'
    BY <1>2, <2>1 DEF FillInv, Pending
  <2> QED
    BY <1>6, <2>1, <2>2 DEF AsAsked
<1>11. CASE start_transmit
  <2>1. /\ sent' = sent /\ send = "start" /\ txbuf \in TxBuf /\ txbuf' = txbuf
        /\ tx'[txbuf].n = asked /\ tx'[txbuf].id = tx[txbuf].id
        /\ tx'[txbuf].data = tx[txbuf].data /\ tx'[txbuf].rtr = tx[txbuf].rtr
        /\ \A c \in TxBuf \ {txbuf} : tx'[c] = tx[c]
    BY <1>11 DEF start_transmit, TypeOK
  <2>2. AsAsked(tx[txbuf])'
    BY <1>2, <2>1 DEF FillInv, AsAsked
  <2> QED
    BY <1>6, <2>1, <2>2 DEF AsAsked
<1>12. CASE CAN_message_handler \/ ReadBetween
  BY <1>5, <1>12 DEF CAN_message_handler, ReadBetween
<1>13. CASE ReadWithin
  <2>1. sent' = sent /\ txbuf \in TxBuf /\ cut' = cut \cup ({asked, tx[txbuf'].n} \ {0})
    BY <1>13 DEF ReadWithin, TypeOK
  <2>2. CASE UNCHANGED tx
    BY <1>5, <2>1, <2>2
  <2>3. CASE send \in {"data", "dlc", "id"}
    <3>1. /\ txbuf' = txbuf
          /\ tx'[txbuf].n = tx[txbuf].n /\ tx'[txbuf].req = tx[txbuf].req
          /\ \A b \in TxBuf \ {txbuf} : tx'[b] = tx[b]
      BY <1>13, <2>1, <2>3, ReadWithinTx
    <3>2. txbuf \in Pending' => tx'[txbuf].n \in cut'
      BY <2>1, <3>1 DEF NumberInv, Pending
    <3> QED
      BY <1>6, <2>1, <3>1, <3>2 DEF AsAsked
  <2>4. CASE send = "start"
    <3>1. /\ tx'[txbuf].n = asked
          /\ \A b \in TxBuf \ {txbuf} : tx'[b] = tx[b]
      BY <1>13, <2>4, ReadWithinTx
    <3>2. asked \in cut'
      BY <2>1, <2>4 DEF ObjectInv, TypeOK
    <3> QED
      BY <1>6, <2>1, <3>1, <3>2 DEF AsAsked
  <2> QED
    BY <1>13, <2>2, <2>3, <2>4, ReadWithinTx
<1>14. CASE ModeFollows \/ Arbitrate \/ LoseArbitration \/ Arrive
  BY <1>5, <1>14 DEF ModeFollows, Arbitrate, LoseArbitration, Arrive
<1>15. CASE Transmitted
  <2>1. /\ onbus \in Pending /\ sent' = sent \cup {Frame(onbus)}
        /\ tx'[onbus].req = 0 /\ UNCHANGED <<cut, remoted>>
        /\ \A b \in TxBuf \ {onbus} : tx'[b] = tx[b]
    BY <1>15 DEF Transmitted, TypeOK, EmptyTx, NumberInv
  <2>2. AsAsked(Frame(onbus))
    BY <1>1, <2>1 DEF AsAsked, Frame
  <2>3. \A f \in sent' : AsAsked(f)'
    BY <1>1, <2>1, <2>2 DEF AsAsked
  <2>4. \A b \in Pending' : AsAsked(tx[b])'
    BY <1>3, <2>1 DEF Pending
  <2> QED
    BY <1>4, <2>3, <2>4
<1>16. CASE UNCHANGED vars
  BY <1>5, <1>16 DEF vars
<1> QED
  BY <1>7, <1>8, <1>9, <1>10, <1>11, <1>12, <1>13, <1>14, <1>15, <1>16
     DEF Next, Setup, sendMsgBuf, timer1Isr, Controller

------------------------------------------------------------------------------
(* The invariant *)

LEMMA Inductive == Spec => []IInv
<1>1. IInv /\ [Next]_vars => IInv'
  BY TypeStep, ObjectStep, NumberStep, FillStep, FrameStep, SomewhereStep,
     AsAskedStep DEF IInv
<1> QED
  BY InitIInv, <1>1, PTL DEF Spec

(* Type correctness: every variable keeps its type, in particular the      *)
(* counter of passes stays under the time limit, and the number of a       *)
(* buffer is that of one of the controller's three.                        *)
THEOREM TypeCorrect == Spec => []TypeOK
<1>1. IInv => TypeOK
  BY DEF IInv
<1> QED
  BY Inductive, <1>1, PTL

(* No message and no frame vanishes or is changed on its way through the   *)
(* driver, its controller and the interrupt: every message asked for is    *)
(* being sent, waits in a buffer of its own, was sent, refused or wiped,   *)
(* or a read fell into it, and then only is it changed; a frame that waits *)
(* is known to the program unless its interrupt was missed.                *)
THEOREM NothingEverVanishes == Spec => []NothingVanishes
<1>1. IInv => NothingVanishes
  BY DEF IInv, NothingVanishes
<1> QED
  BY Inductive, <1>1, PTL

------------------------------------------------------------------------------
(* The deck's driver is the abstract link *)

Inbox == {rx[b].n : b \in Waiting}

LEMMA InitLink == Init => Link!Init
<1> SUFFICES ASSUME Init PROVE Link!Init
  OBVIOUS
<1>1. Pending = {} /\ Waiting = {}
  BY DEF Init, Pending, Waiting, EmptyTx, EmptyRx, TxBuf, RxBuf
<1> QED
  BY <1>1 DEF Init, Link!Init, PendingNumbers, SentNumbers

(* The link is where it was.                                               *)
LEMMA LinkStutters ==
  ASSUME UNCHANGED <<asked, Pending, PendingNumbers, sent, arrived, rx, taken>>
  PROVE  UNCHANGED Link!linkVars
BY DEF Link!linkVars, SentNumbers, Waiting

(* Sizes of small sets; the link counts as the driver does.                *)

LEMMA LinkCardinality == \A S : Link!Cardinality(S) = Cardinality(S)
BY DEF Cardinality, Link!Cardinality

LEMMA OneOrTwo ==
  ASSUME NEW u, NEW v
  PROVE  /\ IsFiniteSet({u, v}) /\ Cardinality({u, v}) = IF u = v THEN 1 ELSE 2
         /\ Cardinality({u, v}) <= 2 /\ Cardinality({u}) = 1
<1>1. IsFiniteSet({u}) /\ Cardinality({u}) = 1
  BY FS_Singleton
<1>2. {u, v} = {u} \cup {v} /\ (v \in {u} <=> u = v)
  OBVIOUS
<1>3. /\ IsFiniteSet({u} \cup {v})
      /\ Cardinality({u} \cup {v}) = IF v \in {u} THEN Cardinality({u}) ELSE Cardinality({u}) + 1
  BY <1>1, FS_AddElement
<1> QED
  BY <1>1, <1>2, <1>3

(* A buffer that is free leaves at most two numbers that wait.             *)
LEMMA RoomInOutbox ==
  ASSUME TypeOK, NEW b \in TxBuf, b \notin Pending
  PROVE  Cardinality(PendingNumbers) < 3
<1>1. PICK x \in TxBuf, y \in TxBuf : TxBuf = {b, x, y}
  <2>1. TxBuf = {b, (b + 1) % 3, (b + 2) % 3} /\ (b + 1) % 3 \in TxBuf /\ (b + 2) % 3 \in TxBuf
    BY DEF TxBuf
  <2> QED
    BY <2>1
<1>2. PendingNumbers \subseteq {tx[x].n, tx[y].n}
  BY <1>1 DEF PendingNumbers, Pending
<1>3. IsFiniteSet({tx[x].n, tx[y].n}) /\ Cardinality({tx[x].n, tx[y].n}) <= 2
  BY OneOrTwo, Zenon
<1> QED
  BY <1>2, <1>3, FS_Subset, FS_CardinalityType

(* The two receive buffers hold different frames: only when both are full  *)
(* is the link's inbox.                                                    *)
LEMMA RoomInInbox ==
  ASSUME TypeOK, FrameInv
  PROVE  Cardinality(Inbox) < 2 <=> rx[0].n = 0 \/ rx[1].n = 0
<1>1. CASE rx[0].n = 0 /\ rx[1].n = 0
  <2>1. Inbox = {}
    BY <1>1 DEF Inbox, Waiting, RxBuf
  <2> QED
    BY <1>1, <2>1, FS_EmptySet
<1>2. CASE rx[0].n = 0 /\ rx[1].n # 0
  <2>1. Inbox = {rx[1].n}
    BY <1>2 DEF Inbox, Waiting, RxBuf
  <2>2. Cardinality(Inbox) = 1
    BY <2>1, OneOrTwo
  <2> QED
    BY <1>2, <2>2
<1>3. CASE rx[0].n # 0 /\ rx[1].n = 0
  <2>1. Inbox = {rx[0].n}
    BY <1>3 DEF Inbox, Waiting, RxBuf
  <2>2. Cardinality(Inbox) = 1
    BY <2>1, OneOrTwo
  <2> QED
    BY <1>3, <2>2
<1>4. CASE rx[0].n # 0 /\ rx[1].n # 0
  <2>1. Inbox = {rx[0].n, rx[1].n} /\ rx[0].n # rx[1].n
    BY <1>4 DEF Inbox, Waiting, RxBuf, FrameInv
  <2>2. Cardinality(Inbox) = 2
    BY <2>1, OneOrTwo
  <2> QED
    BY <1>4, <2>2
<1> QED
  BY <1>1, <1>2, <1>3, <1>4

LEMMA LinkStep == IInv /\ [Next]_vars => [sketch = "deck" => Link!Next]_(Link!linkVars)
<1> SUFFICES ASSUME IInv, [Next]_vars, sketch = "deck"
             PROVE  Link!Next \/ UNCHANGED Link!linkVars
  OBVIOUS
<1> USE DEF setupVars, sendVars, busVars, recvVars
<1>1. TypeOK /\ ObjectInv /\ NumberInv /\ FillInv /\ FrameInv /\ AreDifferent
  BY DEF IInv, EachIsSomewhere, AreDifferent
<1>2. CASE UNCHANGED <<asked, tx, sent, arrived, rx, taken>>
  BY <1>2, LinkStutters DEF Pending, PendingNumbers
<1>3. CASE Begin \/ BeginFails \/ Brownout
  <2>1. tx' = EmptyTx /\ rx' = EmptyRx /\ UNCHANGED <<asked, sent, arrived, taken>>
    BY <1>3 DEF Begin, BeginFails, Brownout, mcp2515_reset
  <2>2. Pending' = {} /\ Waiting' = {}
    BY <2>1 DEF Pending, Waiting, EmptyTx, EmptyRx, TxBuf, RxBuf
  <2>3. PendingNumbers' = {} /\ Inbox' = {} /\ SentNumbers' = SentNumbers
    BY <2>1, <2>2 DEF PendingNumbers, Inbox, SentNumbers
  <2>4. Link!Reset
    BY <2>1, <2>3 DEF Link!Reset, Inbox
  <2> QED
    BY <2>4 DEF Link!Next
<1>4. CASE InitMask \/ InitMaskFails \/ AttachInterrupt
  BY <1>2, <1>4 DEF InitMask, InitMaskFails, AttachInterrupt
<1>5. CASE setMsg
  <2>1. asked' = asked + 1 /\ UNCHANGED <<tx, sent, arrived, rx, taken>>
    BY <1>5 DEF setMsg
  <2>2. UNCHANGED <<PendingNumbers, SentNumbers, Inbox>>
    BY <2>1 DEF PendingNumbers, Pending, SentNumbers, Inbox, Waiting
  <2>3. Link!Ask
    BY <2>1, <2>2 DEF Link!Ask, Inbox
  <2> QED
    BY <2>3 DEF Link!Next
<1>6. CASE getNextFreeTXBuf \/ AwaitSent
  BY <1>2, <1>6 DEF getNextFreeTXBuf, AwaitSent
<1>7. CASE write_canMsg
  <2>1. /\ UNCHANGED <<asked, sent, arrived, rx, taken>>
        /\ \A b \in TxBuf : tx'[b].n = tx[b].n /\ tx'[b].req = tx[b].req
    BY <1>1, <1>7 DEF write_canMsg, TypeOK
  <2>2. Pending' = Pending
    BY <2>1 DEF Pending
  <2>3. PendingNumbers' = PendingNumbers
    BY <2>1, <2>2 DEF PendingNumbers, Pending
  <2> QED
    BY <2>1, <2>2, <2>3, LinkStutters
<1>8. CASE start_transmit
  <2>1. /\ UNCHANGED <<asked, sent, arrived, rx, taken>> /\ send = "start"
        /\ txbuf \in TxBuf /\ tx'[txbuf].n = asked /\ tx'[txbuf].req = 1
        /\ \A b \in TxBuf \ {txbuf} : tx'[b] = tx[b]
    BY <1>1, <1>8 DEF start_transmit, TypeOK
  <2>2. txbuf \notin Pending
    BY <1>1, <2>1 DEF FillInv, ObjectInv, Filling, BeforeStart, Pending
  <2>3. Pending' = Pending \cup {txbuf}
    BY <2>1 DEF Pending
  <2>4. PendingNumbers' = PendingNumbers \cup {asked}
    BY <2>1, <2>2, <2>3 DEF PendingNumbers, Pending
  <2>5. asked \notin PendingNumbers \cup SentNumbers
    BY <1>1, <2>1 DEF NumberInv, BeforeStart, PendingNumbers, SentNumbers, TypeOK
  <2>6. Cardinality(PendingNumbers) < 3
    BY <1>1, <2>1, <2>2, RoomInOutbox
  <2>7. UNCHANGED <<SentNumbers, Inbox>>
    BY <2>1 DEF SentNumbers, Inbox, Waiting
  <2>8. Link!Accept
    BY <2>1, <2>4, <2>5, <2>6, <2>7, LinkCardinality DEF Link!Accept, Link!OutboxSize, Inbox
  <2> QED
    BY <2>8 DEF Link!Next
<1>9. CASE CAN_message_handler
  <2> DEFINE b == Lowest(Status)
  <2>1. b \in Waiting
    BY <1>9, LowestIsOne DEF CAN_message_handler, Status, Waiting, RxBuf
  <2>2. readMsg(b) /\ UNCHANGED <<asked, tx, sent, arrived>>
    BY <1>9 DEF CAN_message_handler
  <2> HIDE DEF b
  <2>3. /\ b \in RxBuf /\ rx'[b].n = 0 /\ taken' = taken \cup {rx[b].n}
        /\ \A c \in RxBuf \ {b} : rx'[c] = rx[c]
    BY <1>1, <2>1, <2>2, ReadRx
  <2>4. Waiting' = Waiting \ {b}
    BY <2>3 DEF Waiting
  <2>5. \A c \in Waiting \ {b} : rx[c].n # rx[b].n
    BY <1>1, <2>1 DEF FrameInv, Waiting, RxBuf
  <2>6. Inbox' = Inbox \ {rx[b].n} /\ rx[b].n \in Inbox
    BY <2>1, <2>3, <2>4, <2>5 DEF Inbox, Waiting
  <2>7. UNCHANGED <<PendingNumbers, SentNumbers>>
    BY <2>2 DEF PendingNumbers, Pending, SentNumbers
  <2>8. Link!Take
    BY <2>2, <2>3, <2>6, <2>7 DEF Link!Take, Inbox
  <2> QED
    BY <2>8 DEF Link!Next
<1>10. CASE timer1Isr
  BY <1>1, <1>10 DEF timer1Isr, ReadBetween, ReadWithin, ObjectInv
<1>11. CASE ModeFollows \/ Arbitrate \/ LoseArbitration
  BY <1>2, <1>11 DEF ModeFollows, Arbitrate, LoseArbitration
<1>12. CASE Transmitted
  <2>1. /\ onbus \in Pending /\ sent' = sent \cup {Frame(onbus)}
        /\ tx'[onbus].req = 0 /\ UNCHANGED <<asked, arrived, rx, taken>>
        /\ \A b \in TxBuf \ {onbus} : tx'[b] = tx[b]
    BY <1>1, <1>12 DEF Transmitted, TypeOK, EmptyTx, NumberInv
  <2>2. Pending' = Pending \ {onbus}
    BY <2>1 DEF Pending
  <2>3. \A b \in Pending \ {onbus} : tx[b].n # tx[onbus].n
    BY <1>1, <2>1 DEF AreDifferent, ObjectInv
  <2>4. /\ tx[onbus].n \in PendingNumbers
        /\ PendingNumbers' = PendingNumbers \ {tx[onbus].n}
    BY <2>1, <2>2, <2>3 DEF PendingNumbers, Pending
  <2>5. SentNumbers' = SentNumbers \cup {tx[onbus].n}
    <3>1. Frame(onbus).n = tx[onbus].n
      BY DEF Frame
    <3> QED
      BY <2>1, <3>1 DEF SentNumbers
  <2>6. Inbox' = Inbox
    BY <2>1 DEF Inbox, Waiting
  <2>7. Link!Deliver
    BY <2>1, <2>4, <2>5, <2>6 DEF Link!Deliver, Inbox
  <2> QED
    BY <2>7 DEF Link!Next
<1>13. CASE Arrive
  <2>1. arrived' = arrived + 1 /\ UNCHANGED <<asked, tx, sent, taken>>
    BY <1>13 DEF Arrive
  <2>2. UNCHANGED <<PendingNumbers, SentNumbers>>
    BY <2>1 DEF PendingNumbers, Pending, SentNumbers
  <2>3. CASE rx[0].n = 0 \/ rx[1].n = 0
    <3>1. PICK b \in RxBuf : /\ rx[b].n = 0 /\ rx'[b].n = arrived'
                             /\ \A c \in RxBuf \ {b} : rx'[c] = rx[c]
      BY <1>1, <1>13, <2>3 DEF Arrive, TypeOK, RxBuf
    <3>2. arrived' # 0
      BY <1>1, <2>1 DEF TypeOK
    <3>3. Waiting' = Waiting \cup {b} /\ b \notin Waiting
      BY <3>1, <3>2 DEF Waiting
    <3>4. Inbox' = Inbox \cup {arrived'}
      BY <3>1, <3>3 DEF Inbox, Waiting
    <3>5. Cardinality(Inbox) < 2
      BY <1>1, <2>3, RoomInInbox
    <3>6. Link!Arrive
      BY <2>1, <2>2, <3>4, <3>5, LinkCardinality DEF Link!Arrive, Link!InboxSize, Inbox
    <3> QED
      BY <3>6 DEF Link!Next
  <2>4. CASE ~(rx[0].n = 0 \/ rx[1].n = 0)
    <3>1. rx' = rx
      BY <1>13, <2>4 DEF Arrive
    <3>2. ~(Cardinality(Inbox) < 2)
      BY <1>1, <2>4, RoomInInbox
    <3>3. Inbox' = Inbox
      BY <3>1 DEF Inbox, Waiting
    <3>4. Link!Arrive
      BY <2>1, <2>2, <3>2, <3>3, LinkCardinality DEF Link!Arrive, Link!InboxSize, Inbox
    <3> QED
      BY <3>4 DEF Link!Next
  <2> QED
    BY <2>3, <2>4
<1>14. CASE UNCHANGED vars
  BY <1>2, <1>14 DEF vars
<1> QED
  BY <1>3, <1>4, <1>5, <1>6, <1>7, <1>8, <1>9, <1>10, <1>11, <1>12, <1>13, <1>14
     DEF Next, Setup, sendMsgBuf, Controller

(* For a sketch that does not read in an interrupt, the driver and the     *)
(* controller implement the link: a message accepted is sent once, one     *)
(* refused never, and a frame kept is read once.  No step of theirs needs  *)
(* the bookkeeping of numbers that are given out again.                    *)
THEOREM DeckIsCanLink ==
  Spec => /\ Link!Init /\ [][sketch = "deck" => Link!Next]_(Link!linkVars)
          /\ IsCanLink
BY Inductive, InitLink, LinkStep, PTL DEF Spec, IsCanLink

==============================================================================
