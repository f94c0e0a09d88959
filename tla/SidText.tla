------------------------------- MODULE SidText -------------------------------
(***************************************************************************)
(* Texts on the SID: a request names a text, and SID_CAN_text_handler      *)
(* sends the packets of its two rows three times over.                     *)
(*                                                                         *)
(* WorkerThread (wpc) asks for the texts of the equaliser and of repeat    *)
(* and sends all packets, with a sleep between any two of them.            *)
(* DeckSimulatorThread asks for a song number at any moment: it has the    *)
(* higher priority and does not sleep meanwhile, so this is one step.      *)
(***************************************************************************)
EXTENDS Naturals

CONSTANTS
  Texts,    \* messages with a fixed text: REPEAT_OFF, REPEAT_ON, EQ1 .. EQ4
  Songs,    \* song numbers
  SONG,     \* the message that shows a number
  NONE,     \* no text yet
  Bursts    \* how often a text is sent (3)

ASSUME TextAssumption ==
  /\ SONG \notin Texts /\ NONE \notin Texts \cup Songs \cup {SONG}
  /\ Bursts \in Nat \ {0}

VARIABLES
  sid_message,   \* the text asked for
  send_text,     \* it is being sent
  sends_count,   \* bursts begun
  s_text_2_song, \* the number in the second packet of SONG: two bytes of it
  wpc,           \* where the Worker is
  branch,        \* the branch of the switch it is in
  packet,        \* the first byte of s_text_2_song, copied
  first, second, \* what the SID shows: contents of the first two packets
  asked,         \* the text last asked for
  late,          \* 1: it was, after the last burst had chosen its text
  torn           \* 1: a song was asked for while the number sent last was copied

request == <<sid_message, send_text, sends_count, s_text_2_song>>
display == <<first, second>>
sidVars == <<request, wpc, branch, packet, display, asked, late, torn>>

Messages == Texts \cup {SONG}
Number == Songs \cup {NONE}
Text(m, n) == [message |-> m, number |-> n]
Blank == <<NONE, NONE>>

(***************************************************************************)
(* Program points of the Worker:                                           *)
(*   loop    CAN_message_handler and mp3_handler                           *)
(*   asked   send_SID_CAN_text has stored sid_message                      *)
(*   test    SID_CAN_text_handler                                          *)
(*   choose  a burst is counted, its text is not yet chosen                *)
(*   second  the sleep before the second packet                            *)
(*   copy    half way in copying the second packet of SONG                 *)
(*   third   the sleep before the third packet                             *)
(*   rest    the sleeps before the packets that are the same for all texts *)
(*   close   send_text is not yet cleared, then sends_count is not         *)
(***************************************************************************)
WorkerPoint ==
  {"loop", "asked", "test", "choose", "second", "copy", "third", "rest",
   "close1", "close2"}

SidInit ==
  /\ sid_message = NONE /\ send_text = 0 /\ sends_count = 0
  /\ s_text_2_song = Blank
  /\ wpc = "loop" /\ branch = NONE /\ packet = NONE
  /\ first = NONE /\ second = Text(NONE, Blank)
  /\ asked = Text(NONE, Blank) /\ late = 0 /\ torn = 0

------------------------------------------------------------------------------
(* Requests *)

(* No burst will look at sid_message again before it is given up.          *)
TooLate == sends_count = Bursts /\ wpc \notin {"choose", "close2"}

Asked(m, n) ==
  /\ sid_message' = m
  /\ asked' = Text(m, n)
  /\ late' = IF TooLate THEN 1 ELSE 0

(* The deck thread, at any point of the Worker.                            *)
send_SID_CAN_song ==
  /\ \E n \in Songs : s_text_2_song' = <<n, n>> /\ Asked(SONG, <<n, n>>)
  /\ send_text' = 1
  /\ torn' = IF wpc = "copy" THEN 1 ELSE torn
  /\ UNCHANGED <<sends_count, wpc, branch, packet, display>>

(* music_player_eq or music_player_repeat, in CAN_message_handler.         *)
AskText ==
  /\ wpc = "loop"
  /\ \E m \in Texts : Asked(m, Blank)
  /\ wpc' = "asked"
  /\ UNCHANGED <<send_text, sends_count, s_text_2_song, branch, packet, display, torn>>

SetSendText ==
  /\ wpc = "asked"
  /\ send_text' = 1
  /\ wpc' = "test"
  /\ UNCHANGED <<sid_message, sends_count, s_text_2_song, branch, packet,
                 display, asked, late, torn>>

NothingAsked ==
  /\ wpc = "loop"
  /\ wpc' = "test"
  /\ UNCHANGED <<request, branch, packet, display, asked, late, torn>>

------------------------------------------------------------------------------
(* SID_CAN_text_handler *)

NothingToSend ==
  /\ wpc = "test"
  /\ send_text = 0
  /\ wpc' = "loop"
  /\ UNCHANGED <<request, branch, packet, display, asked, late, torn>>

OneMore == sends_count <= Bursts          \* fault: off by one
MoreBursts == sends_count < Bursts

NotCounted == sends_count                 \* fault: sent again and again
Counted == sends_count + 1

BeginBurst ==
  /\ wpc = "test"
  /\ send_text = 1 /\ MoreBursts
  /\ sends_count' = Counted
  /\ wpc' = "choose"
  /\ UNCHANGED <<sid_message, send_text, s_text_2_song, branch, packet, display,
                 asked, late, torn>>

(* The switch: the message is looked at once, for all of the burst.        *)
Choose ==
  /\ wpc = "choose"
  /\ branch' = sid_message
  /\ first' = sid_message
  /\ wpc' = "second"
  /\ UNCHANGED <<request, packet, second, asked, late, torn>>

Reread == sid_message                     \* fault: looked at for every packet
Chosen == branch

SendSecond ==
  /\ wpc = "second"
  /\ \/ /\ Chosen = SONG
        /\ packet' = s_text_2_song[1]
        /\ wpc' = "copy"
        /\ UNCHANGED second
     \/ /\ Chosen # SONG
        /\ second' = Text(Chosen, Blank)
        /\ wpc' = "third"
        /\ UNCHANGED packet
  /\ torn' = 0
  /\ UNCHANGED <<request, branch, first, asked, late>>

(* sendMsgBuf copies byte by byte: the number may have changed meanwhile.  *)
CopyRest ==
  /\ wpc = "copy"
  /\ second' = Text(SONG, <<packet, s_text_2_song[2]>>)
  /\ wpc' = "third"
  /\ UNCHANGED <<request, branch, packet, first, asked, late, torn>>

SendRest ==
  /\ \/ wpc = "third" /\ wpc' = "rest"
     \/ wpc = "rest" /\ wpc' = "loop"
  /\ UNCHANGED <<request, branch, packet, display, asked, late, torn>>

EnoughBursts ==
  /\ wpc = "test"
  /\ send_text = 1 /\ ~MoreBursts
  /\ wpc' = "close1"
  /\ UNCHANGED <<request, branch, packet, display, asked, late, torn>>

ClearSendText ==
  /\ wpc = "close1"
  /\ send_text' = 0
  /\ wpc' = "close2"
  /\ UNCHANGED <<sid_message, sends_count, s_text_2_song, branch, packet, display,
                 asked, late, torn>>

ClearSendsCount ==
  /\ wpc = "close2"
  /\ sends_count' = 0
  /\ wpc' = "loop"
  /\ UNCHANGED <<sid_message, send_text, s_text_2_song, branch, packet, display,
                 asked, late, torn>>

SID_CAN_text_handler ==
  \/ NothingToSend
  \/ BeginBurst \/ Choose \/ SendSecond \/ CopyRest \/ SendRest
  \/ EnoughBursts \/ ClearSendText \/ ClearSendsCount

Worker == AskText \/ SetSendText \/ NothingAsked \/ SID_CAN_text_handler

SidNext == Worker \/ send_SID_CAN_song

SidSpec == SidInit /\ [][SidNext]_sidVars

(* The Worker keeps running while the deck thread sleeps in its handler.   *)
SidFairSpec == SidSpec /\ WF_sidVars(Worker)

------------------------------------------------------------------------------
SidTypeOK ==
  /\ sid_message \in Messages \cup {NONE}
  /\ send_text \in 0..1
  /\ sends_count \in 0..Bursts
  /\ s_text_2_song \in Number \X Number
  /\ wpc \in WorkerPoint
  /\ branch \in Messages \cup {NONE}
  /\ packet \in Number
  /\ first \in Messages \cup {NONE}
  /\ second \in [message : Messages \cup {NONE}, number : Number \X Number]
  /\ asked \in [message : Messages \cup {NONE}, number : Number \X Number]
  /\ late \in 0..1 /\ torn \in 0..1

(* The packets of a row are sent as a group: except between the two that   *)
(* differ, both are of one kind of text, whatever is asked for meanwhile.  *)
GroupIsOneText ==
  wpc \notin {"second", "copy"} => first = second.message

(* A number on the SID is one that was asked for, and not of two such      *)
(* numbers a byte each, unless a song was asked for just while the packet  *)
(* was copied.                                                             *)
NumberIsWhole ==
  wpc # "copy" /\ torn = 0 => second.number[1] = second.number[2]

(* When the sending is over the SID shows the text last asked for, with    *)
(* its own number, unless that came after the last burst had chosen: only  *)
(* in that burst can a mixed number be left standing.                      *)
ShowsLastUnlessLate ==
  send_text = 0 /\ wpc # "asked" /\ late = 0 =>
    first = asked.message /\ second = asked

(* What the screen shows is of one text and one number but for the named   *)
(* exceptions, and in the end the right one.                               *)
ScreenIsRight ==
  SidTypeOK /\ GroupIsOneText /\ NumberIsWhole /\ ShowsLastUnlessLate

(* Sending ends again and again, however many texts are asked for, so the  *)
(* bus is not flooded for ever.                                            *)
SendingEnds == []<>(send_text = 0)

==============================================================================
