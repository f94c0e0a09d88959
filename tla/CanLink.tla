------------------------------- MODULE CanLink -------------------------------
(***************************************************************************)
(* What the CAN driver and its controller promise together: a message that *)
(* was accepted is on the bus once, in whatever order, one that was        *)
(* refused is never; a frame that came in is read once, in whatever order, *)
(* unless two others wait already, and then it is lost.  A reset of the    *)
(* controller empties both sides.                                          *)
(***************************************************************************)
EXTENDS Integers, FiniteSets

VARIABLES
  asked,       \* messages asked for so far, numbered from 1
  outbox,      \* messages accepted and not on the bus yet
  sent,        \* messages that were on the bus
  arrived,     \* frames for us so far, numbered from 1
  inbox,       \* frames kept and not read yet
  taken        \* frames read

linkVars == <<asked, outbox, sent, arrived, inbox, taken>>

OutboxSize == 3
InboxSize == 2

Init ==
  /\ asked = 0 /\ outbox = {} /\ sent = {}
  /\ arrived = 0 /\ inbox = {} /\ taken = {}

Ask ==
  /\ asked' = asked + 1
  /\ UNCHANGED <<outbox, sent, arrived, inbox, taken>>

(* Only the message asked for last may be accepted, and only once.         *)
Accept ==
  /\ asked \notin outbox \cup sent
  /\ Cardinality(outbox) < OutboxSize
  /\ outbox' = outbox \cup {asked}
  /\ UNCHANGED <<asked, sent, arrived, inbox, taken>>

Deliver ==
  \E n \in outbox :
    /\ outbox' = outbox \ {n}
    /\ sent' = sent \cup {n}
    /\ UNCHANGED <<asked, arrived, inbox, taken>>

Arrive ==
  /\ arrived' = arrived + 1
  /\ IF Cardinality(inbox) < InboxSize
       THEN inbox' = inbox \cup {arrived'}
       ELSE UNCHANGED inbox
  /\ UNCHANGED <<asked, outbox, sent, taken>>

Take ==
  \E n \in inbox :
    /\ inbox' = inbox \ {n}
    /\ taken' = taken \cup {n}
    /\ UNCHANGED <<asked, outbox, sent, arrived>>

Reset ==
  /\ outbox' = {} /\ inbox' = {}
  /\ UNCHANGED <<asked, sent, arrived, taken>>

Next == Ask \/ Accept \/ Deliver \/ Arrive \/ Take \/ Reset

Spec == Init /\ [][Next]_linkVars

==============================================================================
