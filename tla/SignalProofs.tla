----------------------------- MODULE SignalProofs -----------------------------
(***************************************************************************)
(* Proofs about four small parts that end in a signal: the encoder lines,  *)
(* for trains with any edges; the texts on the SID, for every number of    *)
(* bursts; the player's keys, for any number of equaliser settings; and    *)
(* the infrared receiver, for codes of any length after any pauses.        *)
(***************************************************************************)
EXTENDS Encoders, SidText, Player, IrLink, TLAPS

(* After a step backwards the line that is not led yet is where its next   *)
(* edge would put it.                                                      *)
NextEdgeIsIdle ==
  /\ 1 \in astray => \/ pwm1 = 1 /\ Rise2 <= pwm1_timer /\ pwm1_timer < Rise1
                     \/ pwm1 = 0 /\ Fall2 <= pwm1_timer
  /\ 2 \in astray => \/ pwm2 = 0 /\ Rise1 <= pwm1_timer /\ pwm1_timer < Fall2
                     \/ pwm2 = 1 /\ pwm1_timer < Rise2
OneBack ==
  /\ back <= 1
  /\ back = 1 => deck_version = 0 /\ pwm_state = 1 /\ NextEdgeIsIdle

IInv == TypeOK /\ LineFollowsTrain /\ LinesInPhase

LEMMA InitIInv == Init => IInv
BY EdgeAssumption DEF Init, IInv, TypeOK, LineFollowsTrain, LinesInPhase, Lines,
   Train

------------------------------------------------------------------------------
LEMMA PulseKeepsLine ==
  ASSUME IInv, deck_version = 1, deck_version' = 1, pwm_state \in 3..6,
         Pulse(TrainOf[pwm_state]), UNCHANGED Signal1
  PROVE  IInv'
<1> DEFINE t == TrainOf[pwm_state]
<1>0. /\ t \in Train /\ TrainOf[pwm_state] = TrainOf[pwm_state']
      /\ pwm_state' = pwm_state
  <2>1. t \in Train
    BY ONLY pwm_state \in 3..6 DEF TrainOf, Train
  <2>2. pwm_state' = pwm_state
    BY DEF Pulse
  <2> QED BY ONLY <2>1, <2>2
<1> HIDE DEF t
<1>1. /\ timer[t] \in Nat /\ timer[t] < Edge[t][4]
      /\ \A e \in 1..4 : Edge[t][e] \in Nat
      /\ 0 < Edge[t][1] /\ Edge[t][1] < Edge[t][2]
      /\ Edge[t][2] < Edge[t][3] /\ Edge[t][3] < Edge[t][4]
  BY <1>0, EdgeAssumption DEF IInv, TypeOK
<1>2. /\ timer' = Count(t)
      /\ \/ \E e \in 1..4 : timer[t] + 1 = Edge[t][e] /\ pwm1' = LevelAt(e) /\ astray' = {}
         \/ (\A e \in 1..4 : timer[t] + 1 # Edge[t][e]) /\ pwm1' = pwm1 /\ astray' = astray
      /\ UNCHANGED <<pwm_state, pwm1_timer, pwm2_timer, pwm2, back>>
  BY DEF Pulse, t
<1>3. timer'[t] = IF timer[t] + 1 = Edge[t][4] THEN 0 ELSE timer[t] + 1
  BY <1>0, <1>2 DEF Count, IInv, TypeOK
<1>4. timer' \in [Train -> Nat] /\ \A u \in Train : timer'[u] < Edge[u][4]
  BY <1>0, <1>1, <1>2, EdgeAssumption DEF Count, IInv, TypeOK
<1>5. TypeOK'
  <2>1. pwm1' \in 0..1
    <3>1. CASE pwm1' = pwm1
      BY <3>1 DEF IInv, TypeOK
    <3>2. CASE \E e \in 1..4 : pwm1' = LevelAt(e)
      BY <3>2 DEF LevelAt
    <3> QED BY <1>2, <3>1, <3>2
  <2>2. astray' \subseteq {1, 2}
    BY <1>2, Zenon DEF IInv, TypeOK
  <2> QED BY ONLY IInv, deck_version = 1, deck_version' = 1, UNCHANGED Signal1,
       <1>0, <1>2, <1>4, <2>1, <2>2 DEF IInv, TypeOK
<1>6. ASSUME 1 \notin astray' PROVE pwm1' = Level(t, timer'[t])
  <2>1. CASE \E e \in 1..4 : timer[t] + 1 = Edge[t][e] /\ pwm1' = LevelAt(e)
    <3>1. PICK e \in 1..4 : timer[t] + 1 = Edge[t][e] /\ pwm1' = LevelAt(e)
      BY <2>1
    <3>2. e = 1 \/ e = 2 \/ e = 3 \/ e = 4
      OBVIOUS
    <3> QED BY <3>1, <3>2, <1>1, <1>3 DEF LevelAt, Level
  <2>2. CASE (\A e \in 1..4 : timer[t] + 1 # Edge[t][e]) /\ pwm1' = pwm1 /\ astray' = astray
    <3>1. pwm1 = Level(t, timer[t])
      BY <2>2, <1>6 DEF IInv, LineFollowsTrain, t
    <3>2. /\ timer[t] + 1 # Edge[t][1] /\ timer[t] + 1 # Edge[t][2]
          /\ timer[t] + 1 # Edge[t][3] /\ timer[t] + 1 # Edge[t][4]
      BY <2>2
    <3> QED BY <3>1, <3>2, <2>2, <1>1, <1>3 DEF Level
  <2> QED BY <1>2, <2>1, <2>2
<1>7. LineFollowsTrain'
  BY <1>0, <1>6 DEF LineFollowsTrain, t
<1>8. LinesInPhase'
  BY DEF LinesInPhase
<1> QED BY <1>5, <1>7, <1>8 DEF IInv

LEMMA NewKeepsIInv ==
  ASSUME IInv, deck_version = 1, deck_version' = 1, UNCHANGED Signal1,
         new_deck_simulator_PWM_handler
  PROVE  IInv'
<1>1. CASE Winding
  <2>1. CASE pwm_state \in Gated /\ Signal1 = 0
    BY <1>1, <2>1 DEF Winding, timers, lines, IInv, TypeOK, LineFollowsTrain, LinesInPhase
  <2> QED BY <1>1, <2>1, PulseKeepsLine DEF Winding
<1>2. CASE Rest
  BY <1>2 DEF Rest, timers, IInv, TypeOK, LineFollowsTrain, LinesInPhase
<1>3. CASE Hold
  BY <1>3 DEF Hold, LetGo, timers, Lines, IInv, TypeOK, LineFollowsTrain, LinesInPhase
<1> QED BY <1>1, <1>2, <1>3 DEF new_deck_simulator_PWM_handler

LEMMA OldKeepsIInv ==
  ASSUME IInv, deck_version = 0, deck_version' = 0, UNCHANGED Signal1,
         old_deck_simulator_PWM_handler
  PROVE  IInv'
<1> USE EdgeAssumption DEF IInv, TypeOK, LineFollowsTrain, LinesInPhase
<1>1. CASE Running
  <2>1. TypeOK'
    BY <1>1 DEF Running, pwm1Isr, pwm2Isr, pwm2Period
  <2>2. pwm1_timer' = pwm2_timer'
    BY <1>1 DEF Running, pwm1Isr, pwm2Isr, pwm2Period
  <2>3. 1 \notin astray' => pwm1' = IF Rise1 <= pwm1_timer' THEN 1 ELSE 0
    BY <1>1 DEF Running, pwm1Isr, pwm2Isr, pwm2Period
  <2>4. 2 \notin astray' => pwm2' = IF Rise2 <= pwm1_timer' /\ pwm1_timer' < Fall2 THEN 1 ELSE 0
    BY <1>1 DEF Running, pwm1Isr, pwm2Isr, pwm2Period
  <2> QED BY <2>1, <2>2, <2>3, <2>4
<1>2. CASE AtRest
  BY <1>2 DEF AtRest, timers
<1> QED BY <1>1, <1>2 DEF old_deck_simulator_PWM_handler

LEMMA NextIInv == IInv /\ [Next]_vars => IInv'
<1> SUFFICES ASSUME IInv, [Next]_vars PROVE IInv'
  OBVIOUS
<1>1. CASE timer1Isr
  BY <1>1, NewKeepsIInv, OldKeepsIInv DEF timer1Isr
<1>2. CASE Radio
  BY <1>2 DEF Radio, timers, lines, IInv, TypeOK, LineFollowsTrain, LinesInPhase
<1>3. ASSUME NEW s \in 0..6, Command(s) PROVE IInv'
  BY <1>3 DEF Command, timers, Lines, IInv, TypeOK, LineFollowsTrain, LinesInPhase
<1>4. CASE UNCHANGED vars
  BY <1>4 DEF vars, timers, lines, IInv, TypeOK, LineFollowsTrain, LinesInPhase
<1> QED BY <1>1, <1>2, <1>3, <1>4 DEF Next

(* The four edges of the OLD deck's period, and the times between them.    *)
LEMMA RunningKeepsOneBack ==
  ASSUME IInv, OneBack, deck_version = 0, deck_version' = 0, Running
  PROVE  OneBack' /\ (back' > back => back = 0 /\ astray # {})
<1> DEFINE n == pwm1_timer + 1
<1>1. /\ pwm1 \in 0..1 /\ pwm2 \in 0..1 /\ back \in Nat
      /\ pwm1_timer \in Nat /\ pwm1_timer < Period /\ pwm2_timer = pwm1_timer
      /\ 1 \notin astray => pwm1 = IF Rise1 <= pwm1_timer THEN 1 ELSE 0
      /\ 2 \notin astray => pwm2 = IF Rise2 <= pwm1_timer /\ pwm1_timer < Fall2 THEN 1 ELSE 0
  BY EdgeAssumption DEF IInv, TypeOK, LinesInPhase, Running
<1>2. /\ pwm1_timer' = IF n = Period THEN 0 ELSE n
      /\ pwm1' = IF n = Rise1 THEN 1 ELSE IF n = Period THEN 0 ELSE pwm1
      /\ pwm2' = IF n = Rise2 THEN 1 ELSE IF n = Fall2 THEN 0 ELSE pwm2
      /\ astray' = astray \ ((IF n \in {Rise2, Fall2} THEN {2} ELSE {})
                     \cup (IF n \in {Rise1, Period} THEN {1} ELSE {}))
      /\ pwm_state' = 1 /\ pwm_state = 1
  BY <1>1 DEF Running, pwm1Isr, pwm2Isr, pwm2Period
<1>3. back' = IF lines' = lines \/ Forward(lines, lines') THEN back ELSE back + 1
  BY DEF Running
<1>4. back <= 1 /\ (back = 1 => NextEdgeIsIdle)
  BY DEF OneBack
<1> HIDE DEF n
<1> USE EdgeAssumption DEF NextEdgeIsIdle
<1>5. ASSUME back = 1 PROVE NextEdgeIsIdle' /\ back' = 1
  <2> USE DEF n
  <2>1. NextEdgeIsIdle'
    <3>1. 1 \in astray' => \/ pwm1' = 1 /\ Rise2 <= pwm1_timer' /\ pwm1_timer' < Rise1
                           \/ pwm1' = 0 /\ Fall2 <= pwm1_timer'
      BY <1>1, <1>2, <1>4, <1>5
    <3>2. 2 \in astray' => \/ pwm2' = 0 /\ Rise1 <= pwm1_timer' /\ pwm1_timer' < Fall2
                           \/ pwm2' = 1 /\ pwm1_timer' < Rise2
      BY <1>1, <1>2, <1>4, <1>5
    <3> QED BY ONLY <3>1, <3>2 DEF NextEdgeIsIdle
  <2>2. <<pwm1', pwm2'>> = <<pwm1, pwm2>> \/ Forward(lines, lines')
    BY <1>1, <1>2, <1>4, <1>5 DEF Forward, lines
  <2> QED BY <1>1, <1>3, <1>5, <2>1, <2>2 DEF lines
<1>6. ASSUME back = 0 PROVE back' <= 1 /\ (back' = 1 => NextEdgeIsIdle' /\ astray # {})
  <2> USE DEF n
  <2>1. back' \in 0..1
    BY <1>3, <1>6
  <2>2. ASSUME back' = 1 PROVE NextEdgeIsIdle' /\ astray # {}
    <3>1. lines' # lines /\ ~Forward(lines, lines')
      BY <1>3, <1>6, <2>2
    <3>2. n \in {Rise1, Rise2, Fall2, Period}
      BY <1>2, <3>1 DEF lines
    <3>3. CASE n = Rise2
      <4>1. pwm2' = 1 /\ pwm1' = pwm1 /\ pwm1_timer' = n /\ 2 \notin astray'
        BY <1>1, <1>2, <3>3
      <4>2. pwm2 = 0 /\ pwm1 = 1
        BY <1>1, <3>1, <4>1 DEF Forward, lines
      <4>3. 1 \in astray
        BY <1>1, <3>3, <4>2
      <4> QED BY <3>3, <4>1, <4>2, <4>3
    <3>4. CASE n = Rise1
      <4>1. pwm1' = 1 /\ pwm2' = pwm2 /\ pwm1_timer' = n /\ 1 \notin astray'
        BY <1>1, <1>2, <3>4
      <4>2. pwm1 = 0 /\ pwm2 = 0
        BY <1>1, <3>1, <4>1 DEF Forward, lines
      <4>3. 2 \in astray
        BY <1>1, <3>4, <4>2
      <4> QED BY <3>4, <4>1, <4>2, <4>3
    <3>5. CASE n = Fall2
      BY <1>1, <1>2, <3>1, <3>5 DEF Forward, lines
    <3>6. CASE n = Period
      BY <1>1, <1>2, <3>1, <3>6 DEF Forward, lines
    <3> QED BY <3>2, <3>3, <3>4, <3>5, <3>6
  <2> QED BY <2>1, <2>2
<1>7. back = 0 \/ back = 1
  BY <1>1, <1>4
<1>8. deck_version' = 0 /\ pwm_state' = 1
  BY <1>2
<1>9. OneBack'
  BY ONLY <1>5, <1>6, <1>7, <1>8 DEF OneBack
<1>10. back' > back => back = 0 /\ astray # {}
  <2>1. back = 1 => ~(back' > back)
    BY <1>5
  <2>2. back = 0 => (back' > back => astray # {})
    <3>1. ASSUME back = 0, back' > back PROVE back' = 1
      BY <1>3, <3>1
    <3> QED BY <1>6, <3>1
  <2> QED BY <1>7, <2>1, <2>2
<1> QED BY ONLY <1>9, <1>10

LEMMA NextOneBack ==
  IInv /\ OneBack /\ [Next]_vars
    => OneBack' /\ (back' > back => back = 0 /\ astray # {})
<1> SUFFICES ASSUME IInv, OneBack, [Next]_vars
             PROVE  OneBack' /\ (back' > back => back = 0 /\ astray # {})
  OBVIOUS
<1> USE DEF IInv, TypeOK, OneBack, NextEdgeIsIdle
<1>1. CASE timer1Isr
  <2>1. CASE deck_version = 1 /\ new_deck_simulator_PWM_handler
    BY <1>1, <2>1 DEF timer1Isr, new_deck_simulator_PWM_handler, Winding, Pulse,
       Rest, Hold, timers, lines
  <2>2. CASE deck_version = 0 /\ Running
    BY <1>1, <2>2, RunningKeepsOneBack DEF timer1Isr
  <2>3. CASE deck_version = 0 /\ AtRest
    BY <1>1, <2>3 DEF timer1Isr, AtRest, timers
  <2> QED BY <1>1, <2>1, <2>2, <2>3 DEF timer1Isr, old_deck_simulator_PWM_handler
<1>2. CASE Radio
  BY <1>2 DEF Radio, timers, lines
<1>3. ASSUME NEW s \in 0..6, Command(s)
      PROVE  OneBack' /\ (back' > back => back = 0 /\ astray # {})
  BY <1>3 DEF Command
<1>4. CASE UNCHANGED vars
  BY <1>4 DEF vars, timers, lines
<1> QED BY <1>1, <1>2, <1>3, <1>4 DEF Next

LEMMA InvariantHolds == Spec => []IInv
BY InitIInv, NextIInv, PTL DEF Spec

LEMMA OneBackHolds == Spec => []OneBack
<1>1. Init => OneBack BY DEF Init, OneBack
<1> QED BY <1>1, InvariantHolds, NextOneBack, PTL DEF Spec

(* The timers stay within their trains, for any edges.                     *)
THEOREM TypeCorrect == Spec => []TypeOK
<1>1. IInv => TypeOK BY DEF IInv
<1> QED BY <1>1, InvariantHolds, PTL

(* The NEW deck's line follows the train that was commanded from its first *)
(* edge on, although no timer is ever reset by a command.                  *)
THEOREM LineCorrect == Spec => []LineFollowsTrain
<1>1. IInv => LineFollowsTrain BY DEF IInv
<1> QED BY <1>1, InvariantHolds, PTL

(* The OLD deck's timers never drift apart and its lines follow them.      *)
THEOREM PhaseCorrect == Spec => []LinesInPhase
<1>1. IInv => LinesInPhase BY DEF IInv
<1> QED BY <1>1, InvariantHolds, PTL

(* For any edges, both decks' lines are what was commanded.                *)
THEOREM LinesCorrect == Spec => []LinesRight
<1>1. IInv => LinesRight BY DEF IInv, LinesRight
<1> QED BY <1>1, InvariantHolds, PTL

(* The OLD deck's tape seems to run backwards for one step at most after a *)
(* command.                                                                *)
THEOREM OneStepBackOnly == Spec => OneStepBack
<1>1. IInv /\ OneBack /\ [Next]_vars => [back' > back => back = 0 /\ astray # {}]_vars
  BY NextOneBack
<1> QED BY <1>1, InvariantHolds, OneBackHolds, PTL DEF Spec, OneStepBack

------------------------------------------------------------------------------
USE DEF Messages, Number, Text, Blank, WorkerPoint, request, display, sidVars

(* Every variable keeps its type; no more than Bursts bursts are counted.  *)
LEMMA InitType == SidInit => SidTypeOK
BY TextAssumption DEF SidInit, SidTypeOK

LEMMA NextType == SidTypeOK /\ [SidNext]_sidVars => SidTypeOK'
<1> SUFFICES ASSUME SidTypeOK, [SidNext]_sidVars PROVE SidTypeOK'
  OBVIOUS
<1> USE TextAssumption DEF SidTypeOK
<1>1. CASE send_SID_CAN_song
  BY <1>1 DEF send_SID_CAN_song, Asked
<1>2. CASE AskText
  BY <1>2 DEF AskText, Asked
<1>3. CASE SetSendText
  BY <1>3 DEF SetSendText
<1>4. CASE NothingAsked \/ NothingToSend \/ SendRest \/ EnoughBursts
  BY <1>4 DEF NothingAsked, NothingToSend, SendRest, EnoughBursts
<1>5. CASE BeginBurst
  BY <1>5 DEF BeginBurst, MoreBursts, Counted
<1>6. CASE Choose
  BY <1>6 DEF Choose
<1>7. CASE SendSecond
  BY <1>7 DEF SendSecond, Chosen
<1>8. CASE CopyRest
  BY <1>8 DEF CopyRest
<1>9. CASE ClearSendText \/ ClearSendsCount
  BY <1>9 DEF ClearSendText, ClearSendsCount
<1>10. CASE UNCHANGED sidVars
  BY <1>10
<1> QED
  BY <1>1, <1>2, <1>3, <1>4, <1>5, <1>6, <1>7, <1>8, <1>9, <1>10
     DEF SidNext, Worker, SID_CAN_text_handler

------------------------------------------------------------------------------
(* Where the Worker is, against what it counted.                           *)
CountInv ==
  /\ send_text = 0 => wpc \in {"loop", "asked", "test", "close2"}
  /\ send_text = 0 /\ wpc # "close2" => sends_count = 0
  /\ sends_count = 0 => wpc \in {"loop", "asked", "test"}
  /\ wpc \in {"close1", "close2"} => sends_count = Bursts

(* The burst under way sticks to the message it has chosen.                *)
BurstInv ==
  /\ wpc \in {"second", "copy"} => first = branch
  /\ wpc = "copy" => branch = SONG
  /\ GroupIsOneText

(* The deck stores a number in one piece; the byte copied already is of it *)
(* unless the deck stored one since.                                       *)
NumberInv ==
  /\ s_text_2_song[1] = s_text_2_song[2]
  /\ wpc = "copy" /\ torn = 0 => packet = s_text_2_song[1]
  /\ NumberIsWhole

(* What was asked for is what the next burst will choose.                  *)
AskInv ==
  /\ asked.message = sid_message
  /\ asked.number = IF sid_message = SONG THEN s_text_2_song ELSE Blank

Shown == first = asked.message /\ second = asked

(* In the last burst, from the choice of a message on, a request that is   *)
(* not late was there when it was chosen: it is being sent, or shown.      *)
LastBurstInv ==
  late = 0 /\ TooLate =>
    /\ wpc # "asked"
    /\ wpc = "second" => branch = sid_message
    /\ wpc = "copy" => sid_message = SONG /\ packet = s_text_2_song[1]
    /\ wpc \notin {"second", "copy"} => Shown

SidIInv ==
  /\ SidTypeOK /\ CountInv /\ BurstInv /\ NumberInv /\ AskInv /\ LastBurstInv
  /\ ShowsLastUnlessLate

LEMMA SidInitIInv == SidInit => SidIInv
<1> SUFFICES ASSUME SidInit PROVE SidIInv
  OBVIOUS
<1>1. SidTypeOK
  BY InitType
<1> QED
  BY <1>1, TextAssumption
     DEF SidInit, SidIInv, CountInv, BurstInv, GroupIsOneText, NumberInv,
         NumberIsWhole, AskInv, LastBurstInv,
         TooLate, Shown, ShowsLastUnlessLate

LEMMA SidNextIInv == SidIInv /\ [SidNext]_sidVars => SidIInv'
<1> SUFFICES ASSUME SidIInv, [SidNext]_sidVars PROVE SidIInv'
  OBVIOUS
<1>t. SidTypeOK'
  BY NextType DEF SidIInv
<1> USE <1>t, TextAssumption
    DEF SidIInv, SidTypeOK, CountInv, BurstInv, GroupIsOneText, NumberInv,
        NumberIsWhole, AskInv, LastBurstInv,
        TooLate, Shown, ShowsLastUnlessLate
<1>1. CASE send_SID_CAN_song
  BY <1>1 DEF send_SID_CAN_song, Asked
<1>2. CASE AskText
  BY <1>2 DEF AskText, Asked
<1>3. CASE SetSendText
  BY <1>3 DEF SetSendText
<1>4. CASE NothingAsked \/ NothingToSend \/ SendRest
  BY <1>4 DEF NothingAsked, NothingToSend, SendRest
<1>5. CASE EnoughBursts
  BY <1>5 DEF EnoughBursts, MoreBursts
<1>6. CASE BeginBurst
  BY <1>6 DEF BeginBurst, MoreBursts, Counted
<1>7. CASE Choose
  BY <1>7 DEF Choose
<1>8. CASE SendSecond
  BY <1>8 DEF SendSecond, Chosen
<1>9. CASE CopyRest
  BY <1>9 DEF CopyRest
<1>10. CASE ClearSendText
  BY <1>10 DEF ClearSendText
<1>11. CASE ClearSendsCount
  BY <1>11 DEF ClearSendsCount
<1>12. CASE UNCHANGED sidVars
  BY <1>12
<1> QED
  BY <1>1, <1>2, <1>3, <1>4, <1>5, <1>6, <1>7, <1>8, <1>9, <1>10, <1>11, <1>12
     DEF SidNext, Worker, SID_CAN_text_handler

LEMMA Invariance == SidSpec => []SidIInv
BY SidInitIInv, SidNextIInv, PTL DEF SidSpec

(* Every variable keeps its type, at whatever point the deck asks for its  *)
(* song number.                                                            *)
THEOREM SidTypeCorrect == SidSpec => []SidTypeOK
<1>1. SidIInv => SidTypeOK
  BY DEF SidIInv
<1> QED
  BY <1>1, Invariance, PTL

(* The packets of a row belong to one kind of text.                        *)
THEOREM GroupCorrect == SidSpec => []GroupIsOneText
<1>1. SidIInv => GroupIsOneText
  BY DEF SidIInv, BurstInv
<1> QED
  BY <1>1, Invariance, PTL

(* A request is shown unless it comes after the last choice.               *)
THEOREM ShownCorrect == SidSpec => []ShowsLastUnlessLate
<1>1. SidIInv => ShowsLastUnlessLate
  BY DEF SidIInv
<1> QED
  BY <1>1, Invariance, PTL

(* A number on the SID is one that was asked for, and not half of another, *)
(* unless a song was asked for while the packet was copied.                *)
THEOREM NumberCorrect == SidSpec => []NumberIsWhole
<1>1. SidIInv => NumberIsWhole
  BY DEF SidIInv, NumberInv
<1> QED
  BY <1>1, Invariance, PTL

(* Outside a group the screen shows one kind of text, its number is whole  *)
(* unless a song was asked for in the middle of its copy, and when the     *)
(* sending is over it shows the request that came last, if that was there  *)
(* when the last burst chose: a mixed number does not outlive a request    *)
(* that is not late.                                                       *)
THEOREM ScreenCorrect == SidSpec => []ScreenIsRight
<1>1. SidIInv => ScreenIsRight
  BY DEF SidIInv, BurstInv, NumberInv, ScreenIsRight
<1> QED
  BY <1>1, Invariance, PTL

------------------------------------------------------------------------------
(* The player.                                                             *)

(* The setting that a press has loaded is still the firmware's, and no     *)
(* press is under way or flagged with the player off, but for a slip.      *)
EqFresh ==
  eq_slip = 0 =>
    /\ worker = "eq_store" => was = eq_state
    /\ worker \in EqPoint \/ IR_send_EQ_flag = 1 => enableState = 1
RepeatFresh ==
  repeat_slip = 0 =>
    /\ worker = "rpt_store" => was = repeat_state
    /\ worker \in RptPoint \/ IR_send_RPT_flag = 1 => enableState = 1

(* A pin is set only for a press that is not flagged yet, or asleep on it. *)
PinIsAsked ==
  \A s \in Side : pin_state[s] = 1 /\ worker # Asleep(s) => wanted[s] = 1

PlayerIInv == PlayerTypeOK /\ InStep /\ EqFresh /\ RepeatFresh /\ PinIsAsked

LEMMA PlayerInitIInv == PlayerInit => PlayerIInv
<1> SUFFICES ASSUME PlayerInit PROVE PlayerIInv
  OBVIOUS
<1> USE EqsAssumption DEF PlayerInit, Off, Side
<1>1. SettingTypes BY DEF SettingTypes
<1>2. KeyTypes BY DEF KeyTypes
<1>3. SeekTypes BY DEF SeekTypes
<1>4. ThreadTypes
  BY DEF ThreadTypes, PlayerPoint
<1>5. InStep BY DEF InStep, EqInStep, RepeatInStep
<1>6. EqFresh /\ RepeatFresh BY DEF EqFresh, RepeatFresh, EqPoint, RptPoint
<1>7. PinIsAsked BY DEF PinIsAsked
<1> QED BY <1>1, <1>2, <1>3, <1>4, <1>5, <1>6, <1>7 DEF PlayerIInv, PlayerTypeOK

------------------------------------------------------------------------------
(* Every step keeps the types of the settings. *)
LEMMA SettingsKept ==
  ASSUME SettingTypes, ThreadTypes, PlayerNext
  PROVE  SettingTypes'
<1> USE EqsAssumption DEF SettingTypes, ThreadTypes, NextEq,
      settings, keys, bus, seek
<1>1. ASSUME NEW s \in Side,
             \/ SeekButton(s)
             \/ PressSeek(s) \/ ReleaseSeek(s) \/ NothingToReset(s)
             \/ FlagSeekKey(s) \/ ResetSeek(s) \/ NoSeek(s)
      PROVE  SettingTypes'
  <2>1. CASE SeekButton(s) BY <2>1 DEF SeekButton
  <2>2. CASE PressSeek(s) BY <2>2 DEF PressSeek, Send
  <2>3. CASE ReleaseSeek(s) BY <2>3 DEF ReleaseSeek, Send, stmp_seek2
  <2>4. CASE NothingToReset(s) BY <2>4 DEF NothingToReset
  <2>5. CASE FlagSeekKey(s) BY <2>5 DEF FlagSeekKey, IR_send
  <2>6. CASE ResetSeek(s) BY <2>6 DEF ResetSeek, ResetPin, CAN_reset_seek
  <2>7. CASE NoSeek(s) BY <2>7 DEF NoSeek
  <2> QED BY ONLY <1>1, <2>1, <2>2, <2>3, <2>4, <2>5, <2>6, <2>7
<1>2. CASE NoButton BY <1>2 DEF NoButton
<1>3. CASE SettingButton BY <1>3 DEF SettingButton
<1>4. CASE LoadSetting BY <1>4 DEF LoadSetting
<1>5. CASE StoreEq BY <1>5 DEF StoreEq
<1>6. CASE StoreRepeat BY <1>6 DEF StoreRepeat
<1>7. CASE IR_send_EQ BY <1>7 DEF IR_send_EQ
<1>8. CASE IR_send_RPT BY <1>8 DEF IR_send_RPT
<1>9. CASE Pass BY <1>9 DEF Pass, ir_handler
<1>10. CASE TurnBegins BY <1>10 DEF TurnBegins
<1>11. CASE TurnEnds BY <1>11 DEF TurnEnds, ir_handler
<1>12. CASE music_player_ON BY <1>12 DEF music_player_ON
<1>13. CASE music_player_OFF BY <1>13 DEF music_player_OFF, ForgetSettings
<1> QED
  BY ONLY PlayerNext, <1>1, <1>2, <1>3, <1>4, <1>5, <1>6, <1>7, <1>8, <1>9, <1>10, <1>11, <1>12, <1>13
  DEF PlayerNext, PlayerWorker, DeckSimulatorThread

(* Every step keeps the types of the infrared flags. *)
LEMMA KeysKept ==
  ASSUME KeyTypes, PlayerNext
  PROVE  KeyTypes'
<1> USE EqsAssumption DEF KeyTypes, Off, Side,
      settings, keys, bus, seek
<1>1. ASSUME NEW s \in Side,
             \/ SeekButton(s)
             \/ PressSeek(s) \/ ReleaseSeek(s) \/ NothingToReset(s)
             \/ FlagSeekKey(s) \/ ResetSeek(s) \/ NoSeek(s)
      PROVE  KeyTypes'
  <2>1. CASE SeekButton(s) BY <2>1 DEF SeekButton
  <2>2. CASE PressSeek(s) BY <2>2 DEF PressSeek, Send
  <2>3. CASE ReleaseSeek(s) BY <2>3 DEF ReleaseSeek, Send, stmp_seek2
  <2>4. CASE NothingToReset(s) BY <2>4 DEF NothingToReset
  <2>5. CASE FlagSeekKey(s) BY <2>5 DEF FlagSeekKey, IR_send
  <2>6. CASE ResetSeek(s) BY <2>6 DEF ResetSeek, ResetPin, CAN_reset_seek
  <2>7. CASE NoSeek(s) BY <2>7 DEF NoSeek
  <2> QED BY ONLY <1>1, <2>1, <2>2, <2>3, <2>4, <2>5, <2>6, <2>7
<1>2. CASE NoButton BY <1>2 DEF NoButton
<1>3. CASE SettingButton BY <1>3 DEF SettingButton
<1>4. CASE LoadSetting BY <1>4 DEF LoadSetting
<1>5. CASE StoreEq BY <1>5 DEF StoreEq
<1>6. CASE StoreRepeat BY <1>6 DEF StoreRepeat
<1>7. CASE IR_send_EQ BY <1>7 DEF IR_send_EQ
<1>8. CASE IR_send_RPT BY <1>8 DEF IR_send_RPT
<1>9. CASE Pass BY <1>9 DEF Pass, ir_handler
<1>10. CASE TurnBegins BY <1>10 DEF TurnBegins
<1>11. CASE TurnEnds BY <1>11 DEF TurnEnds, ir_handler
<1>12. CASE music_player_ON BY <1>12 DEF music_player_ON
<1>13. CASE music_player_OFF BY <1>13 DEF music_player_OFF, ForgetSettings
<1> QED
  BY ONLY PlayerNext, <1>1, <1>2, <1>3, <1>4, <1>5, <1>6, <1>7, <1>8, <1>9, <1>10, <1>11, <1>12, <1>13
  DEF PlayerNext, PlayerWorker, DeckSimulatorThread

(* Every step keeps the types of the SEEK button's state. *)
LEMMA SeekKept ==
  ASSUME SeekTypes, PlayerNext
  PROVE  SeekTypes'
<1> USE EqsAssumption DEF SeekTypes, Side,
      settings, keys, bus, seek
<1>1. ASSUME NEW s \in Side,
             \/ SeekButton(s)
             \/ PressSeek(s) \/ ReleaseSeek(s) \/ NothingToReset(s)
             \/ FlagSeekKey(s) \/ ResetSeek(s) \/ NoSeek(s)
      PROVE  SeekTypes'
  <2>1. CASE SeekButton(s) BY <2>1 DEF SeekButton
  <2>2. CASE PressSeek(s) BY <2>2 DEF PressSeek, Send
  <2>3. CASE ReleaseSeek(s) BY <2>3 DEF ReleaseSeek, Send, stmp_seek2
  <2>4. CASE NothingToReset(s) BY <2>4 DEF NothingToReset
  <2>5. CASE FlagSeekKey(s) BY <2>5 DEF FlagSeekKey, IR_send
  <2>6. CASE ResetSeek(s) BY <2>6 DEF ResetSeek, ResetPin, CAN_reset_seek
  <2>7. CASE NoSeek(s) BY <2>7 DEF NoSeek
  <2> QED BY ONLY <1>1, <2>1, <2>2, <2>3, <2>4, <2>5, <2>6, <2>7
<1>2. CASE NoButton BY <1>2 DEF NoButton
<1>3. CASE SettingButton BY <1>3 DEF SettingButton
<1>4. CASE LoadSetting BY <1>4 DEF LoadSetting
<1>5. CASE StoreEq BY <1>5 DEF StoreEq
<1>6. CASE StoreRepeat BY <1>6 DEF StoreRepeat
<1>7. CASE IR_send_EQ BY <1>7 DEF IR_send_EQ
<1>8. CASE IR_send_RPT BY <1>8 DEF IR_send_RPT
<1>9. CASE Pass BY <1>9 DEF Pass, ir_handler
<1>10. CASE TurnBegins BY <1>10 DEF TurnBegins
<1>11. CASE TurnEnds BY <1>11 DEF TurnEnds, ir_handler
<1>12. CASE music_player_ON BY <1>12 DEF music_player_ON
<1>13. CASE music_player_OFF BY <1>13 DEF music_player_OFF, ForgetSettings
<1> QED
  BY ONLY PlayerNext, <1>1, <1>2, <1>3, <1>4, <1>5, <1>6, <1>7, <1>8, <1>9, <1>10, <1>11, <1>12, <1>13
  DEF PlayerNext, PlayerWorker, DeckSimulatorThread

(* Every step keeps the types of the threads' points. *)
LEMMA ThreadsKept ==
  ASSUME SettingTypes, ThreadTypes, PlayerNext
  PROVE  ThreadTypes'
<1> USE EqsAssumption DEF SettingTypes, ThreadTypes,
      PlayerPoint, EqPoint, RptPoint, Side, Handle, Handled, Asleep, After,
      settings, keys, bus, seek
<1>1. ASSUME NEW s \in Side,
             \/ SeekButton(s)
             \/ PressSeek(s) \/ ReleaseSeek(s) \/ NothingToReset(s)
             \/ FlagSeekKey(s) \/ ResetSeek(s) \/ NoSeek(s)
      PROVE  ThreadTypes'
  <2>1. CASE SeekButton(s) BY <2>1 DEF SeekButton
  <2>2. CASE PressSeek(s) BY <2>2 DEF PressSeek, Send
  <2>3. CASE ReleaseSeek(s) BY <2>3 DEF ReleaseSeek, Send, stmp_seek2
  <2>4. CASE NothingToReset(s) BY <2>4 DEF NothingToReset
  <2>5. CASE FlagSeekKey(s) BY <2>5 DEF FlagSeekKey, IR_send
  <2>6. CASE ResetSeek(s) BY <2>6 DEF ResetSeek, ResetPin, CAN_reset_seek
  <2>7. CASE NoSeek(s) BY <2>7 DEF NoSeek
  <2> QED BY ONLY <1>1, <2>1, <2>2, <2>3, <2>4, <2>5, <2>6, <2>7
<1>2. CASE NoButton BY <1>2 DEF NoButton
<1>3. CASE SettingButton BY <1>3 DEF SettingButton
<1>4. CASE LoadSetting BY <1>4 DEF LoadSetting
<1>5. CASE StoreEq BY <1>5 DEF StoreEq
<1>6. CASE StoreRepeat BY <1>6 DEF StoreRepeat
<1>7. CASE IR_send_EQ BY <1>7 DEF IR_send_EQ
<1>8. CASE IR_send_RPT BY <1>8 DEF IR_send_RPT
<1>9. CASE Pass BY <1>9 DEF Pass, ir_handler
<1>10. CASE TurnBegins BY <1>10 DEF TurnBegins
<1>11. CASE TurnEnds BY <1>11 DEF TurnEnds, ir_handler
<1>12. CASE music_player_ON BY <1>12 DEF music_player_ON
<1>13. CASE music_player_OFF BY <1>13 DEF music_player_OFF, ForgetSettings
<1> QED
  BY ONLY PlayerNext, <1>1, <1>2, <1>3, <1>4, <1>5, <1>6, <1>7, <1>8, <1>9, <1>10, <1>11, <1>12, <1>13
  DEF PlayerNext, PlayerWorker, DeckSimulatorThread

(* The equaliser stays in step. *)
LEMMA EqKept ==
  ASSUME PlayerTypeOK, EqInStep, EqFresh, PlayerNext
  PROVE  EqInStep' /\ EqFresh'
<1> USE EqsAssumption DEF PlayerTypeOK, SettingTypes, KeyTypes,
      ThreadTypes, EqPoint, EqInStep, EqFresh, NextEq, Side, Handle, Handled, Asleep, After,
      settings, keys, bus, seek
<1>1. ASSUME NEW s \in Side,
             \/ SeekButton(s)
             \/ PressSeek(s) \/ ReleaseSeek(s) \/ NothingToReset(s)
             \/ FlagSeekKey(s) \/ ResetSeek(s) \/ NoSeek(s)
      PROVE  EqInStep' /\ EqFresh'
  <2>1. CASE SeekButton(s) BY <2>1 DEF SeekButton
  <2>2. CASE PressSeek(s) BY <2>2 DEF PressSeek, Send
  <2>3. CASE ReleaseSeek(s) BY <2>3 DEF ReleaseSeek, Send, stmp_seek2
  <2>4. CASE NothingToReset(s) BY <2>4 DEF NothingToReset
  <2>5. CASE FlagSeekKey(s) BY <2>5 DEF FlagSeekKey, IR_send
  <2>6. CASE ResetSeek(s) BY <2>6 DEF ResetSeek, ResetPin, CAN_reset_seek
  <2>7. CASE NoSeek(s) BY <2>7 DEF NoSeek
  <2> QED BY ONLY <1>1, <2>1, <2>2, <2>3, <2>4, <2>5, <2>6, <2>7
<1>2. CASE NoButton BY <1>2 DEF NoButton
<1>3. CASE SettingButton BY <1>3 DEF SettingButton
<1>4. CASE LoadSetting BY <1>4 DEF LoadSetting
<1>5. CASE StoreEq BY <1>5 DEF StoreEq
<1>6. CASE StoreRepeat BY <1>6 DEF StoreRepeat
<1>7. CASE IR_send_EQ BY <1>7 DEF IR_send_EQ
<1>8. CASE IR_send_RPT BY <1>8 DEF IR_send_RPT
<1>9. CASE Pass BY <1>9 DEF Pass, ir_handler
<1>10. CASE TurnBegins BY <1>10 DEF TurnBegins
<1>11. CASE TurnEnds BY <1>11 DEF TurnEnds, ir_handler
<1>12. CASE music_player_ON BY <1>12 DEF music_player_ON
<1>13. CASE music_player_OFF BY <1>13 DEF music_player_OFF, ForgetSettings
<1> QED
  BY ONLY PlayerNext, <1>1, <1>2, <1>3, <1>4, <1>5, <1>6, <1>7, <1>8, <1>9, <1>10, <1>11, <1>12, <1>13
  DEF PlayerNext, PlayerWorker, DeckSimulatorThread

(* The repeat mode stays in step. *)
LEMMA RepeatKept ==
  ASSUME PlayerTypeOK, RepeatInStep, RepeatFresh, PlayerNext
  PROVE  RepeatInStep' /\ RepeatFresh'
<1> USE EqsAssumption DEF PlayerTypeOK, SettingTypes, KeyTypes,
      ThreadTypes, RptPoint, RepeatInStep, RepeatFresh, Side, Handle, Handled, Asleep, After,
      settings, keys, bus, seek
<1>1. ASSUME NEW s \in Side,
             \/ SeekButton(s)
             \/ PressSeek(s) \/ ReleaseSeek(s) \/ NothingToReset(s)
             \/ FlagSeekKey(s) \/ ResetSeek(s) \/ NoSeek(s)
      PROVE  RepeatInStep' /\ RepeatFresh'
  <2>1. CASE SeekButton(s) BY <2>1 DEF SeekButton
  <2>2. CASE PressSeek(s) BY <2>2 DEF PressSeek, Send
  <2>3. CASE ReleaseSeek(s) BY <2>3 DEF ReleaseSeek, Send, stmp_seek2
  <2>4. CASE NothingToReset(s) BY <2>4 DEF NothingToReset
  <2>5. CASE FlagSeekKey(s) BY <2>5 DEF FlagSeekKey, IR_send
  <2>6. CASE ResetSeek(s) BY <2>6 DEF ResetSeek, ResetPin, CAN_reset_seek
  <2>7. CASE NoSeek(s) BY <2>7 DEF NoSeek
  <2> QED BY ONLY <1>1, <2>1, <2>2, <2>3, <2>4, <2>5, <2>6, <2>7
<1>2. CASE NoButton BY <1>2 DEF NoButton
<1>3. CASE SettingButton BY <1>3 DEF SettingButton
<1>4. CASE LoadSetting BY <1>4 DEF LoadSetting
<1>5. CASE StoreEq BY <1>5 DEF StoreEq
<1>6. CASE StoreRepeat BY <1>6 DEF StoreRepeat
<1>7. CASE IR_send_EQ BY <1>7 DEF IR_send_EQ
<1>8. CASE IR_send_RPT BY <1>8 DEF IR_send_RPT
<1>9. CASE Pass BY <1>9 DEF Pass, ir_handler
<1>10. CASE TurnBegins BY <1>10 DEF TurnBegins
<1>11. CASE TurnEnds BY <1>11 DEF TurnEnds, ir_handler
<1>12. CASE music_player_ON BY <1>12 DEF music_player_ON
<1>13. CASE music_player_OFF BY <1>13 DEF music_player_OFF, ForgetSettings
<1> QED
  BY ONLY PlayerNext, <1>1, <1>2, <1>3, <1>4, <1>5, <1>6, <1>7, <1>8, <1>9, <1>10, <1>11, <1>12, <1>13
  DEF PlayerNext, PlayerWorker, DeckSimulatorThread

(* A pin stays the pin of one press. *)
LEMMA PinsKept ==
  ASSUME PlayerTypeOK, PinIsAsked, PlayerNext
  PROVE  PinIsAsked'
<1> USE EqsAssumption DEF PlayerTypeOK, SeekTypes, PinIsAsked, Side, Handle, Handled, Asleep, After,
      settings, keys, bus, seek
<1>1. ASSUME NEW s \in Side,
             \/ SeekButton(s)
             \/ PressSeek(s) \/ ReleaseSeek(s) \/ NothingToReset(s)
             \/ FlagSeekKey(s) \/ ResetSeek(s) \/ NoSeek(s)
      PROVE  PinIsAsked'
  <2>1. CASE SeekButton(s) BY <2>1 DEF SeekButton
  <2>2. CASE PressSeek(s) BY <2>2 DEF PressSeek, Send
  <2>3. CASE ReleaseSeek(s) BY <2>3 DEF ReleaseSeek, Send, stmp_seek2
  <2>4. CASE NothingToReset(s) BY <2>4 DEF NothingToReset
  <2>5. CASE FlagSeekKey(s) BY <2>5 DEF FlagSeekKey, IR_send
  <2>6. CASE ResetSeek(s) BY <2>6 DEF ResetSeek, ResetPin, CAN_reset_seek
  <2>7. CASE NoSeek(s) BY <2>7 DEF NoSeek
  <2> QED BY ONLY <1>1, <2>1, <2>2, <2>3, <2>4, <2>5, <2>6, <2>7
<1>2. CASE NoButton BY <1>2 DEF NoButton
<1>3. CASE SettingButton BY <1>3 DEF SettingButton
<1>4. CASE LoadSetting BY <1>4 DEF LoadSetting
<1>5. CASE StoreEq BY <1>5 DEF StoreEq
<1>6. CASE StoreRepeat BY <1>6 DEF StoreRepeat
<1>7. CASE IR_send_EQ BY <1>7 DEF IR_send_EQ
<1>8. CASE IR_send_RPT BY <1>8 DEF IR_send_RPT
<1>9. CASE Pass BY <1>9 DEF Pass, ir_handler
<1>10. CASE TurnBegins BY <1>10 DEF TurnBegins
<1>11. CASE TurnEnds BY <1>11 DEF TurnEnds, ir_handler
<1>12. CASE music_player_ON BY <1>12 DEF music_player_ON
<1>13. CASE music_player_OFF BY <1>13 DEF music_player_OFF, ForgetSettings
<1> QED
  BY ONLY PlayerNext, <1>1, <1>2, <1>3, <1>4, <1>5, <1>6, <1>7, <1>8, <1>9, <1>10, <1>11, <1>12, <1>13
  DEF PlayerNext, PlayerWorker, DeckSimulatorThread

------------------------------------------------------------------------------
LEMMA PlayerNextIInv == PlayerIInv /\ [PlayerNext]_playerVars => PlayerIInv'
<1> SUFFICES ASSUME PlayerIInv, [PlayerNext]_playerVars PROVE PlayerIInv'
  OBVIOUS
<1>1. CASE PlayerNext
  BY <1>1, SettingsKept, KeysKept, SeekKept, ThreadsKept,
     EqKept, RepeatKept, PinsKept
     DEF PlayerIInv, PlayerTypeOK, InStep
<1>2. CASE UNCHANGED playerVars
  BY <1>2 DEF playerVars, settings, keys, bus, seek, PlayerIInv, PlayerTypeOK, SettingTypes,
     KeyTypes, SeekTypes, ThreadTypes, InStep, EqInStep, RepeatInStep,
     EqFresh, RepeatFresh, PinIsAsked
<1> QED BY <1>1, <1>2

LEMMA PlayerInvariant == PlayerSpec => []PlayerIInv
BY PlayerInitIInv, PlayerNextIInv, PTL DEF PlayerSpec

(* The firmware's variables keep to their types. *)
THEOREM PlayerTypeCorrect == PlayerSpec => []PlayerTypeOK
<1>1. PlayerIInv => PlayerTypeOK BY DEF PlayerIInv
<1> QED BY <1>1, PlayerInvariant, PTL

(* The settings the firmware believes in are the player's, but for the     *)
(* key and the press under way, if no press slipped: for every             *)
(* interleaving of the two threads and every use of the power.             *)
THEOREM SettingsInStep == PlayerSpec => []InStep
<1>1. PlayerIInv => InStep BY DEF PlayerIInv
<1> QED BY <1>1, PlayerInvariant, PTL

(* No key is ever flagged twice for one press of SEEK. *)
THEOREM OneKeyPerPress == PlayerSpec => NoKeyUnasked
<1>1. PlayerIInv /\ [PlayerNext]_playerVars
        => [\A s \in Side : worker = Handle(s) /\ worker' = Asleep(s) => wanted[s] = 1]_playerVars
  <2> SUFFICES ASSUME PlayerIInv, PlayerNext, NEW s \in Side, worker = Handle(s), worker' = Asleep(s)
               PROVE  wanted[s] = 1
    BY DEF PlayerIInv
  <2>1. pin_state[s] = 1
    <3> USE DEF Handle, Handled, Asleep, After, Side
    <3>1. ASSUME NEW t \in Side,
                 \/ SeekButton(t)
                 \/ PressSeek(t) \/ ReleaseSeek(t) \/ NothingToReset(t)
                 \/ FlagSeekKey(t) \/ ResetSeek(t) \/ NoSeek(t)
          PROVE  pin_state[s] = 1
      BY <3>1 DEF SeekButton, PressSeek, ReleaseSeek, NothingToReset,
         FlagSeekKey, ResetSeek, NoSeek
    <3>2. CASE \/ NoButton \/ SettingButton \/ LoadSetting
               \/ StoreEq \/ StoreRepeat \/ IR_send_EQ \/ IR_send_RPT
      BY <3>2 DEF NoButton, SettingButton, LoadSetting, StoreEq, StoreRepeat,
         IR_send_EQ, IR_send_RPT
    <3>3. CASE DeckSimulatorThread
      BY <3>3 DEF DeckSimulatorThread, Pass, TurnBegins, TurnEnds,
         music_player_ON, music_player_OFF
    <3> QED BY <3>1, <3>2, <3>3 DEF PlayerNext, PlayerWorker
  <2>2. worker # Asleep(s) BY DEF Handle, Asleep, Side
  <2> QED BY <2>1, <2>2 DEF PlayerIInv, PinIsAsked
<1> QED BY <1>1, PlayerInvariant, PTL DEF PlayerSpec, NoKeyUnasked

(* The infrared keys, of the settings and of SEEK, are those pressed.      *)
THEOREM KeysCorrect == PlayerSpec => KeysMatchPresses
BY SettingsInStep, OneKeyPerPress, PTL DEF KeysMatchPresses

------------------------------------------------------------------------------
(* The infrared link.                                                      *)

Receiver ==
  [rcvstate : {"IDLE", "MARK", "SPACE", "STOP"}, timer : UnsignedInt,
   rawlen : 0..RAWBUF, rawbuf : [0..RAWBUF - 1 -> UnsignedInt]]

(* No space that is left of a signal is as long as the gap that ends one.  *)
ShortSpaces ==
  \A i \in DOMAIN out :
    (i % 2 = 0 <=> level = MARK) /\ (code.kind = "SAMSUNG" => i = Len(out))
      => out[i] <= LongestSpace

LinkType ==
  /\ irparams \in Receiver
  /\ out \in Seq(Lengths) /\ level \in {MARK, SPACE} /\ at \in 0..USECPERTICK - 1
  /\ lag \in 0..100 /\ quiet \in Nat /\ app \in {"polls", "uses"} /\ listening \in BOOLEAN
  /\ plan \in Seq(Codes)
  /\ \A i \in DOMAIN plan : WellFormed(Signal(plan[i]), plan[i].kind)

(* Between two marks or spaces the buffer has room, or the handler stopped. *)
NotFull(p) == p.rcvstate \in {"MARK", "SPACE"} => p.rawlen < RAWBUF

Waits == irparams.rcvstate \in {"IDLE", "STOP"}

(* Before a code, at its first mark, within it.                            *)
Between ==
  out = <<>> /\ plan # <<>> =>
    /\ quiet \in {0, GAP_TICKS + 2}
    /\ Waits => irparams.timer \in quiet - 1..quiet + 91
    /\ ~Waits => quiet = 0
    /\ irparams.rcvstate = "SPACE" => irparams.timer <= 91
AtFirstMark ==
  out # <<>> /\ quiet > 0 =>
    level = MARK /\ Waits /\ (~Noticed(quiet) => irparams.timer <= 98)
Within ==
  out # <<>> /\ quiet = 0 =>
    /\ level = SPACE => irparams.rcvstate # "SPACE" /\ (Waits => irparams.timer = 0)
    /\ ~listening /\ code.kind # "SAMSUNG" =>
         Waits /\ (level = MARK => irparams.timer <= 91)

IrInv ==
  /\ LinkType /\ ShortSpaces /\ NotFull(irparams)
  /\ app = "uses" => irparams.rcvstate = "STOP"
  /\ Between /\ AtFirstMark /\ Within

(* What an unsigned int holds is a number.                                 *)
LEMMA UnsignedIs == ASSUME NEW x \in UnsignedInt PROVE x \in Nat
BY DEF UnsignedInt

(* Any sum is cut to one.                                                  *)
LEMMA UnsignedType == ASSUME NEW x \in Nat PROVE Unsigned(x) \in UnsignedInt
BY SMT DEF UnsignedInt, Unsigned

(* A small number is kept.                                                 *)
LEMMA UnsignedSmall ==
  ASSUME NEW x \in Nat, x <= 1000
  PROVE  Unsigned(x) = x /\ x \in UnsignedInt
BY SMT DEF UnsignedInt, Unsigned

(* Cutting a sum twice is cutting it once.                                 *)
LEMMA UnsignedTwice ==
  ASSUME NEW x \in Nat, NEW y \in Nat
  PROVE  Unsigned(Unsigned(x) + y) = Unsigned(x + y)
BY SMT DEF Unsigned

(* A sum that is small in an unsigned int stays so when a little is added. *)
LEMMA UnsignedSum ==
  ASSUME NEW x \in Nat, NEW y \in Nat, NEW b \in {0, 1}, x + y >= b,
         Unsigned(x) >= b, Unsigned(x) + y <= 100
  PROVE  Unsigned(x + y - b) = Unsigned(x) + y - b
BY SMT DEF Unsigned

(* The handler stores within the buffer as long as it is not full.         *)
LEMMA RecordIs ==
  ASSUME NEW q \in Receiver, q.rawlen < RAWBUF
  PROVE  /\ Record(q) \in Receiver
         /\ Record(q).rcvstate = q.rcvstate /\ Record(q).timer = 0
<1> DEFINE b == Stored(q.rawbuf, q.rawlen, q.timer)
<1>1. /\ q.timer \in UnsignedInt /\ q.rawlen \in 0..RAWBUF
      /\ q.rawbuf \in [0..RAWBUF - 1 -> UnsignedInt]
  BY DEF Receiver
<1>2. q.rawlen \in 0..RAWBUF - 1 /\ q.rawlen + 1 \in 0..RAWBUF
  BY <1>1 DEF RAWBUF
<1>3. b \in [0..RAWBUF - 1 -> UnsignedInt]
  BY <1>1, <1>2 DEF Stored
<1>4. 0 \in UnsignedInt
  BY UnsignedSmall
<1> QED
  BY <1>2, <1>3, <1>4 DEF Record, Receiver

(* What one sample makes of the handler's state and of its timer.          *)
Sampled(p, irdata, r) ==
  /\ p.rcvstate = "STOP" => r.rcvstate = "STOP" /\ r.rawbuf = p.rawbuf
  /\ p.rcvstate \in {"IDLE", "STOP"} /\ irdata = SPACE =>
       r.rcvstate \in {"IDLE", "STOP"} /\ r.timer = Unsigned(p.timer + 1)
  /\ irdata = MARK =>
       /\ r.rcvstate # "SPACE"
       /\ r.rcvstate \in {"IDLE", "STOP"} => r.timer = 0
       /\ p.rcvstate \in {"IDLE", "STOP"} /\ p.timer <= 98 => r.rcvstate \in {"IDLE", "STOP"}
       /\ p.rcvstate # "SPACE" => NotFull(r)
  /\ irdata = SPACE => r.rcvstate # "MARK" /\ (p.rcvstate # "MARK" => NotFull(r))
  /\ p.rcvstate = "MARK" /\ irdata = SPACE /\ NotFull(p) =>
       r.rcvstate = "SPACE" /\ r.timer = 0
  /\ p.rcvstate = "SPACE" /\ irdata = SPACE =>
       r.rcvstate \in {"SPACE", "STOP"} /\ r.timer = Unsigned(p.timer + 1)

(* One sample: the store is within the buffer, and where the handler goes. *)
LEMMA IsrIs ==
  ASSUME NEW p \in Receiver, NEW irdata \in {MARK, SPACE}
  PROVE  ISR(p, irdata) \in Receiver /\ Sampled(p, irdata, ISR(p, irdata))
<1> DEFINE r == ISR(p, irdata)
           tm == Unsigned(p.timer + 1)
           st == IF Full(p) THEN "STOP" ELSE p.rcvstate
           q == [p EXCEPT !.timer = Unsigned(@ + 1),
                          !.rcvstate = IF Full(p) THEN "STOP" ELSE @]
<1>1. /\ p.timer \in UnsignedInt /\ p.rawlen \in 0..RAWBUF
      /\ p.rcvstate \in {"IDLE", "MARK", "SPACE", "STOP"}
  BY DEF Receiver
<1>2. /\ q.rcvstate = st /\ q.timer = tm /\ q.rawlen = p.rawlen /\ q.rawbuf = p.rawbuf
      /\ DOMAIN q = {"rcvstate", "timer", "rawlen", "rawbuf"}
  BY DEF Receiver
<1>3. p.timer \in Nat /\ p.timer + 1 \in Nat
  BY <1>1, UnsignedIs
<1>4. tm \in UnsignedInt /\ 0 \in UnsignedInt
  BY <1>3, UnsignedType, UnsignedSmall
<1>5. /\ st \in {"IDLE", "MARK", "SPACE", "STOP"}
      /\ st = "STOP" \/ (st = p.rcvstate /\ p.rawlen < RAWBUF)
      /\ p.rcvstate = "STOP" => st = "STOP"
      /\ p.rawlen < RAWBUF => st = p.rcvstate
  BY <1>1 DEF Full, RAWBUF
<1>6. q \in Receiver
  BY <1>4, <1>5 DEF Receiver
<1>7. p.timer <= 98 => tm < GAP_TICKS
  BY <1>3, UnsignedSmall DEF GAP_TICKS
<1>8. r = CASE q.rcvstate = "IDLE" ->
                 IF irdata = SPACE THEN q
                 ELSE IF NotBigEnough(q.timer) THEN [q EXCEPT !.timer = 0]
                 ELSE [Record([q EXCEPT !.rawlen = 0]) EXCEPT !.rcvstate = "MARK"]
          [] q.rcvstate = "MARK" ->
                 IF irdata = MARK THEN q ELSE [Record(q) EXCEPT !.rcvstate = "SPACE"]
          [] q.rcvstate = "SPACE" ->
                 IF irdata = MARK THEN [Record(q) EXCEPT !.rcvstate = "MARK"]
                 ELSE IF LongSpace(q.timer) THEN [q EXCEPT !.rcvstate = "STOP"] ELSE q
          [] q.rcvstate = "STOP" ->
                 IF irdata = MARK THEN [q EXCEPT !.timer = 0] ELSE q
  BY DEF ISR
<1> SUFFICES r \in Receiver /\ Sampled(p, irdata, r)
  OBVIOUS
<1> HIDE DEF tm, st, q, r
<1>9. CASE st = "IDLE" /\ irdata = SPACE
  <2>1. r = q
    BY <1>2, <1>8, <1>9
  <2> QED
    BY <1>2, <1>5, <1>6, <1>9, <2>1 DEF Sampled, NotFull, MARK, SPACE, tm
<1>10. CASE st = "IDLE" /\ irdata = MARK /\ NotBigEnough(tm)
  <2>1. r = [q EXCEPT !.timer = 0]
    BY <1>2, <1>8, <1>10 DEF MARK, SPACE
  <2>2. r \in Receiver /\ r.rcvstate = "IDLE" /\ r.timer = 0
    BY <1>2, <1>4, <1>6, <1>10, <2>1 DEF Receiver
  <2> QED
    BY <1>5, <1>10, <2>2 DEF Sampled, NotFull, MARK, SPACE
<1>11. CASE st = "IDLE" /\ irdata = MARK /\ ~NotBigEnough(tm)
  <2> DEFINE e == [q EXCEPT !.rawlen = 0]
  <2>1. r = [Record(e) EXCEPT !.rcvstate = "MARK"]
    BY <1>2, <1>8, <1>11 DEF MARK, SPACE
  <2>2. e \in Receiver /\ e.rawlen < RAWBUF
    BY <1>6 DEF Receiver, RAWBUF
  <2>3. Record(e) \in Receiver
    BY <2>2, RecordIs
  <2>6. Record(e).rawlen = 1
    BY DEF Record, Receiver, RAWBUF
  <2> HIDE DEF e
  <2>4. r \in Receiver /\ r.rcvstate = "MARK" /\ r.rawlen = 1
    BY <2>1, <2>3, <2>6 DEF Receiver
  <2>5. ~(p.timer <= 98) /\ p.rcvstate = "IDLE"
    BY <1>5, <1>7, <1>11 DEF NotBigEnough
  <2> QED
    BY <1>11, <2>4, <2>5 DEF Sampled, NotFull, RAWBUF, MARK, SPACE
<1>12. CASE st = "MARK" /\ irdata = MARK
  <2>1. r = q
    BY <1>2, <1>8, <1>12
  <2> QED
    BY <1>2, <1>5, <1>6, <1>12, <2>1 DEF Sampled, NotFull, MARK, SPACE
<1>13. CASE st = "MARK" /\ irdata = SPACE
  <2>1. r = [Record(q) EXCEPT !.rcvstate = "SPACE"]
    BY <1>2, <1>8, <1>13 DEF MARK, SPACE
  <2>2. Record(q) \in Receiver /\ Record(q).timer = 0
    BY <1>2, <1>5, <1>6, <1>13, RecordIs
  <2>3. r \in Receiver /\ r.rcvstate = "SPACE" /\ r.timer = 0
    BY <2>1, <2>2 DEF Receiver
  <2> QED
    BY <1>5, <1>13, <2>3 DEF Sampled, NotFull, MARK, SPACE
<1>14. CASE st = "SPACE" /\ irdata = MARK
  <2>1. r = [Record(q) EXCEPT !.rcvstate = "MARK"]
    BY <1>2, <1>8, <1>14
  <2>2. Record(q) \in Receiver
    BY <1>2, <1>5, <1>6, <1>14, RecordIs
  <2>3. r \in Receiver /\ r.rcvstate = "MARK"
    BY <2>1, <2>2 DEF Receiver
  <2> QED
    BY <1>5, <1>14, <2>3 DEF Sampled, NotFull, MARK, SPACE
<1>15. CASE st = "SPACE" /\ irdata = SPACE
  <2>1. r = IF LongSpace(q.timer) THEN [q EXCEPT !.rcvstate = "STOP"] ELSE q
    BY <1>2, <1>8, <1>15 DEF MARK, SPACE
  <2>2. /\ r \in Receiver /\ r.rcvstate \in {"SPACE", "STOP"} /\ r.timer = tm
        /\ r.rawlen = p.rawlen
    BY <1>2, <1>6, <1>15, <2>1 DEF Receiver
  <2> QED
    BY <1>5, <1>15, <2>2 DEF Sampled, NotFull, MARK, SPACE, tm
<1>16. CASE st = "STOP" /\ irdata = MARK
  <2>1. r = [q EXCEPT !.timer = 0]
    BY <1>2, <1>8, <1>16
  <2>2. r \in Receiver /\ r.rcvstate = "STOP" /\ r.timer = 0 /\ r.rawbuf = p.rawbuf
    BY <1>2, <1>4, <1>6, <1>16, <2>1 DEF Receiver
  <2> QED
    BY <1>5, <1>16, <2>2 DEF Sampled, NotFull, MARK, SPACE
<1>17. CASE st = "STOP" /\ irdata = SPACE
  <2>1. r = q
    BY <1>2, <1>8, <1>17 DEF MARK, SPACE
  <2>2. r \in Receiver /\ r.rcvstate = "STOP" /\ r.timer = tm /\ r.rawbuf = p.rawbuf
    BY <1>2, <1>6, <1>17, <2>1
  <2> QED
    BY <1>5, <1>17, <2>2 DEF Sampled, NotFull, MARK, SPACE, tm
<1> QED
  BY <1>5, <1>9, <1>10, <1>11, <1>12, <1>13, <1>14, <1>15, <1>16, <1>17

(* What the samples of one mark or space make of them: the handler waits   *)
(* on, or it has recorded the end of a mark, or it has seen the gap.       *)
SampledAll(p, irdata, n, r) ==
  /\ p.rcvstate = "STOP" => r.rcvstate = "STOP" /\ r.rawbuf = p.rawbuf
  /\ irdata = MARK =>
       /\ r.rcvstate # "SPACE"
       /\ r.rcvstate \in {"IDLE", "STOP"} => r.timer = 0
       /\ p.rcvstate \in {"IDLE", "STOP"} /\ p.timer <= 98 => r.rcvstate \in {"IDLE", "STOP"}
  /\ irdata = SPACE =>
       /\ r.rcvstate # "MARK"
       /\ p.rcvstate \in {"IDLE", "STOP"} =>
            r.rcvstate \in {"IDLE", "STOP"} /\ r.timer = Unsigned(p.timer + n)
       /\ p.rcvstate = "MARK" => r.timer = Unsigned(n - 1)
       /\ p.rcvstate = "SPACE" => r.timer = Unsigned(p.timer + n)
       /\ n >= GAP_TICKS + 2 /\ (p.rcvstate = "SPACE" => p.timer <= 91) =>
            r.rcvstate \in {"IDLE", "STOP"}

(* Two samples go through the handler, the others only count.              *)
LEMMA SamplesAre ==
  ASSUME NEW p \in Receiver, NotFull(p), NEW irdata \in {MARK, SPACE},
         NEW n \in Nat, n >= 2
  PROVE  /\ Samples(p, irdata, n) \in Receiver /\ NotFull(Samples(p, irdata, n))
         /\ SampledAll(p, irdata, n, Samples(p, irdata, n))
<1> DEFINE r == Samples(p, irdata, n)
           o == ISR(p, irdata)
           q == ISR(o, irdata)
           holds == irdata = MARK /\ q.rcvstate \in {"IDLE", "STOP"}
           ended == q.rcvstate = "SPACE" /\ LongSpace(q.timer + n - 2)
<1>1. o \in Receiver /\ Sampled(p, irdata, o)
  BY IsrIs
<1>2. q \in Receiver /\ Sampled(o, irdata, q)
  BY <1>1, IsrIs
<1>3. r = [q EXCEPT !.timer = IF holds THEN 0 ELSE Unsigned(@ + n - 2),
                    !.rcvstate = IF ended THEN "STOP" ELSE @]
  BY DEF Samples
<1> SUFFICES r \in Receiver /\ NotFull(r) /\ SampledAll(p, irdata, n, r)
  OBVIOUS
<1> HIDE DEF r, q, o, holds, ended
<1>4. /\ q.timer \in Nat /\ o.timer \in Nat /\ p.timer \in Nat
      /\ \A x \in {p, o, q} : x.rcvstate \in {"IDLE", "MARK", "SPACE", "STOP"}
  BY <1>1, <1>2, UnsignedIs DEF Receiver
<1>5. q.timer + n - 2 \in Nat /\ Unsigned(q.timer + n - 2) \in UnsignedInt /\ 0 \in UnsignedInt
  <2>1. q.timer + n - 2 \in Nat
    BY <1>4
  <2> QED
    BY <2>1, UnsignedType, UnsignedSmall
<1>6. /\ r.timer = IF holds THEN 0 ELSE Unsigned(q.timer + n - 2)
      /\ r.rcvstate = IF ended THEN "STOP" ELSE q.rcvstate
      /\ r.rawlen = q.rawlen /\ r.rawbuf = q.rawbuf /\ r \in Receiver
  BY <1>2, <1>3, <1>5 DEF Receiver
<1>7. CASE irdata = MARK
  <2>1. o.rcvstate # "SPACE" /\ q.rcvstate # "SPACE" /\ NotFull(q)
    BY <1>1, <1>2, <1>7 DEF Sampled
  <2>2. ~ended /\ r.rcvstate = q.rcvstate
    BY <1>6, <2>1 DEF ended
  <2>3. NotFull(r)
    BY <1>6, <2>1, <2>2 DEF NotFull
  <2>4. p.rcvstate \in {"IDLE", "STOP"} /\ p.timer <= 98 => r.rcvstate \in {"IDLE", "STOP"}
    BY <1>1, <1>2, <1>7, <2>2 DEF Sampled
  <2>5. p.rcvstate = "STOP" => r.rcvstate = "STOP" /\ r.rawbuf = p.rawbuf
    BY <1>1, <1>2, <1>6, <2>2 DEF Sampled
  <2>6. r.rcvstate \in {"IDLE", "STOP"} => r.timer = 0
    BY <1>6, <1>7, <2>2 DEF holds
  <2> QED
    BY <1>6, <1>7, <2>1, <2>2, <2>3, <2>4, <2>5, <2>6 DEF SampledAll, MARK, SPACE
<1>8. CASE irdata = SPACE
  <2>1. ~holds /\ r.timer = Unsigned(q.timer + n - 2)
    BY <1>6, <1>8 DEF holds, MARK, SPACE
  <2>2. o.rcvstate # "MARK" /\ q.rcvstate # "MARK" /\ NotFull(q)
    BY <1>1, <1>2, <1>8 DEF Sampled
  <2>3. NotFull(r) /\ r.rcvstate # "MARK"
    BY <1>6, <2>2 DEF NotFull
  <2>4. p.rcvstate = "STOP" => r.rcvstate = "STOP" /\ r.rawbuf = p.rawbuf
    BY <1>1, <1>2, <1>6 DEF Sampled
  <2>5. ASSUME NEW t \in Nat, o.timer = Unsigned(t + 1), q.timer = Unsigned(o.timer + 1)
        PROVE  r.timer = Unsigned(t + n)
    <3>1. q.timer = Unsigned(t + 2)
      BY <2>5, UnsignedTwice
    <3>2. Unsigned(Unsigned(t + 2) + (n - 2)) = Unsigned(t + 2 + (n - 2))
      BY UnsignedTwice
    <3>3. q.timer + n - 2 = Unsigned(t + 2) + (n - 2) /\ t + 2 + (n - 2) = t + n
      BY <1>4, <3>1
    <3> QED
      BY <2>1, <3>2, <3>3
  <2>6. CASE p.rcvstate \in {"IDLE", "STOP"}
    <3>1. o.rcvstate \in {"IDLE", "STOP"} /\ o.timer = Unsigned(p.timer + 1)
      BY <1>1, <1>8, <2>6 DEF Sampled
    <3>2. q.rcvstate \in {"IDLE", "STOP"} /\ q.timer = Unsigned(o.timer + 1)
      BY <1>2, <1>8, <3>1 DEF Sampled
    <3>3. r.rcvstate \in {"IDLE", "STOP"} /\ r.timer = Unsigned(p.timer + n)
      BY <1>4, <1>6, <2>5, <3>1, <3>2
    <3> QED
      BY <1>6, <1>8, <2>3, <2>4, <2>6, <3>3 DEF SampledAll, MARK, SPACE
  <2>7. CASE p.rcvstate = "MARK"
    <3>1. o.rcvstate = "SPACE" /\ o.timer = 0
      BY <1>1, <1>8, <2>7 DEF Sampled
    <3>2. q.rcvstate \in {"SPACE", "STOP"} /\ q.timer = Unsigned(0 + 1)
      BY <1>2, <1>8, <3>1 DEF Sampled
    <3>3. q.timer = 1
      BY <3>2, UnsignedSmall
    <3>4. r.timer = Unsigned(n - 1)
      <4>1. q.timer + n - 2 = n - 1
        BY <3>3
      <4> QED
        BY <2>1, <4>1
    <3>5. n >= GAP_TICKS + 2 => r.rcvstate \in {"IDLE", "STOP"}
      BY <1>6, <3>2, <3>3 DEF ended, LongSpace, GAP_TICKS
    <3> QED
      BY <1>6, <1>8, <2>3, <2>4, <2>7, <3>4, <3>5 DEF SampledAll, MARK, SPACE
  <2>8. CASE p.rcvstate = "SPACE"
    <3>1. o.rcvstate \in {"SPACE", "STOP"} /\ o.timer = Unsigned(p.timer + 1)
      BY <1>1, <1>8, <2>8 DEF Sampled
    <3>2. q.rcvstate \in {"SPACE", "STOP"} /\ q.timer = Unsigned(o.timer + 1)
      BY <1>2, <1>8, <3>1 DEF Sampled
    <3>3. r.timer = Unsigned(p.timer + n)
      BY <1>4, <2>5, <3>1, <3>2
    <3>4. n >= GAP_TICKS + 2 /\ p.timer <= 91 => r.rcvstate \in {"IDLE", "STOP"}
      <4>1. p.timer <= 91 => q.timer = p.timer + 2
        BY <1>4, <3>1, <3>2, UnsignedSmall
      <4> QED
        BY <1>4, <1>6, <3>2, <4>1 DEF ended, LongSpace, GAP_TICKS
    <3> QED
      BY <1>6, <1>8, <2>3, <2>4, <2>8, <3>3, <3>4 DEF SampledAll, MARK, SPACE
  <2> QED
    BY <1>4, <2>6, <2>7, <2>8
<1> QED
  BY <1>7, <1>8

(* The receiver waits, nothing is sent yet.                                *)
LEMMA InitIrInv == IrInit => IrInv
<1> SUFFICES ASSUME IrInit PROVE IrInv
  OBVIOUS
<1>1. 0 \in UnsignedInt
  BY UnsignedSmall
<1>2. irparams \in Receiver
  BY <1>1 DEF IrInit, Receiver, RAWBUF
<1>3. /\ plan \in Seq(Codes) /\ \A i \in DOMAIN plan : WellFormed(Signal(plan[i]), plan[i].kind)
      /\ lag \in 0..100 /\ at \in 0..USECPERTICK - 1
  BY PlansAssumption, SensorAssumption DEF IrInit, USECPERTICK
<1>4. LinkType
  <2>1. /\ out \in Seq(Lengths) /\ level \in {MARK, SPACE} /\ quiet \in Nat
        /\ app \in {"polls", "uses"} /\ listening \in BOOLEAN
    <3>1. /\ out = <<>> /\ level = SPACE /\ quiet = 0 /\ app = "polls" /\ listening = FALSE
      BY DEF IrInit
    <3>2. <<>> \in Seq(Lengths)
      OBVIOUS
    <3> QED
      BY <3>1, <3>2
  <2> QED
    BY <1>2, <1>3, <2>1, Zenon DEF LinkType
<1> QED
  BY <1>4 DEF IrInv, IrInit, ShortSpaces, NotFull, Between, AtFirstMark, Within, Waits

(* The next code's signal, and the codes that are left after it.           *)
LEMMA NextCode ==
  ASSUME LinkType, plan # <<>>
  PROVE  /\ Signal(Head(plan)) \in Seq(Lengths) /\ Signal(Head(plan)) # <<>>
         /\ \A i \in DOMAIN Signal(Head(plan)) :
              i % 2 = 0 /\ (Head(plan).kind = "SAMSUNG" => i = Len(Signal(Head(plan))))
                => Signal(Head(plan))[i] <= LongestSpace
         /\ Tail(plan) \in Seq(Codes)
         /\ \A i \in DOMAIN Tail(plan) :
              WellFormed(Signal(Tail(plan)[i]), Tail(plan)[i].kind)
<1>1. plan \in Seq(Codes) /\ \A i \in DOMAIN plan : WellFormed(Signal(plan[i]), plan[i].kind)
  BY DEF LinkType
<1>2. Head(plan) = plan[1] /\ 1 \in DOMAIN plan
  BY <1>1
<1>3. WellFormed(Signal(Head(plan)), Head(plan).kind)
  BY <1>1, <1>2
<1>4. /\ Tail(plan) \in Seq(Codes)
      /\ \A i \in DOMAIN Tail(plan) : i + 1 \in DOMAIN plan /\ Tail(plan)[i] = plan[i + 1]
  BY <1>1
<1> QED
  BY <1>1, <1>3, <1>4 DEF WellFormed

(* The rest of a signal after its head has short spaces too.               *)
LEMMA RestOfSignal ==
  ASSUME LinkType, ShortSpaces, out # <<>>, out' = Tail(out), code' = code,
         level' = IF level = MARK THEN SPACE ELSE MARK
  PROVE  out' \in Seq(Lengths) /\ level' \in {MARK, SPACE} /\ ShortSpaces'
<1>1. out \in Seq(Lengths) /\ level \in {MARK, SPACE}
  BY DEF LinkType
<1>2. /\ out' \in Seq(Lengths) /\ Len(out') = Len(out) - 1 /\ Len(out) \in Nat
      /\ \A i \in DOMAIN out' : /\ i \in Nat /\ i + 1 \in DOMAIN out
                                /\ out'[i] = out[i + 1]
  BY <1>1
<1>3. level' \in {MARK, SPACE} /\ (level' = MARK <=> level # MARK)
  BY <1>1 DEF MARK, SPACE
<1>4. ASSUME NEW i \in DOMAIN out', i % 2 = 0 <=> level' = MARK,
             code.kind = "SAMSUNG" => i = Len(out')
      PROVE  out'[i] <= LongestSpace
  <2>1. i \in Nat /\ i + 1 \in DOMAIN out /\ out'[i] = out[i + 1]
    BY <1>2
  <2>2. (i + 1) % 2 = 0 <=> ~(i % 2 = 0)
    BY <2>1
  <2>3. (i + 1) % 2 = 0 <=> level = MARK
    BY <1>3, <1>4, <2>2
  <2>4. code.kind = "SAMSUNG" => i + 1 = Len(out)
    BY <1>2, <1>4, <2>1
  <2> QED
    BY <2>1, <2>3, <2>4 DEF ShortSpaces
<1> QED
  BY <1>2, <1>3, <1>4 DEF ShortSpaces

(* How many samples a mark or a space has.                                 *)
LEMMA Ticks ==
  ASSUME LinkType, out # <<>>, NEW seen,
         seen = at + Head(out) + (IF level = MARK THEN lag ELSE -lag)
  PROVE  /\ seen \div USECPERTICK \in Nat /\ seen \div USECPERTICK >= 2
         /\ seen % USECPERTICK \in 0..USECPERTICK - 1
         /\ level = SPACE /\ Head(out) <= LongestSpace => seen \div USECPERTICK <= 91
<1>1. /\ Head(out) \in Lengths /\ level \in {MARK, SPACE} /\ at \in 0..49 /\ lag \in 0..100
  BY DEF LinkType, USECPERTICK
<1>2. Head(out) \in Nat /\ 200 <= Head(out)
  BY <1>1 DEF Lengths
<1>3. /\ seen \in Nat /\ seen >= 100
      /\ level = SPACE /\ Head(out) <= LongestSpace => seen <= 4549
  BY <1>1, <1>2, SMTT(40) DEF MARK, SPACE, LongestSpace
<1>4. seen \div 50 \in Nat /\ seen \div 50 >= 2
  BY <1>3, SMT
<1>5. seen % 50 \in Nat /\ seen % 50 <= 49
  BY <1>3, SMT
<1>6. seen <= 4549 => seen \div 50 <= 91
  BY <1>3, SMT
<1>7. \A m \in Nat : m <= 49 => m \in 0..50 - 1
  BY SMT
<1>8. seen % 50 \in 0..50 - 1
  BY <1>5, <1>7, Zenon
<1>9. level = SPACE /\ Head(out) <= LongestSpace => seen \div 50 <= 91
  BY <1>3, <1>6
<1> QED
  BY <1>4, <1>8, <1>9, Zenon DEF USECPERTICK

(* A mark or a space: the handler sees it to its end.                      *)
LEMMA PulseKeeps == ASSUME IrInv, PulseOut PROVE IrInv'
<1> DEFINE seen == at + Head(out) + (IF level = MARK THEN lag ELSE -lag)
           n == seen \div USECPERTICK
<1>1. /\ out # <<>> /\ irparams' = Samples(irparams, level, n) /\ at' = seen % USECPERTICK
      /\ out' = Tail(out) /\ level' = (IF level = MARK THEN SPACE ELSE MARK) /\ quiet' = 0
      /\ FirstMark /\ UNCHANGED <<plan, code, lag, app, results>>
  BY DEF PulseOut
<1>2. /\ n \in Nat /\ n >= 2 /\ seen % USECPERTICK \in 0..USECPERTICK - 1
      /\ level = SPACE /\ Head(out) <= LongestSpace => n <= 91
  BY <1>1, Ticks DEF IrInv
<1> HIDE DEF seen, n
<1>3. /\ irparams \in Receiver /\ NotFull(irparams) /\ level \in {MARK, SPACE}
      /\ out \in Seq(Lengths)
  BY DEF IrInv, LinkType
<1>4. /\ irparams' \in Receiver /\ NotFull(irparams')
      /\ SampledAll(irparams, level, n, irparams')
  BY <1>1, <1>2, <1>3, SamplesAre
<1>5. out' \in Seq(Lengths) /\ level' \in {MARK, SPACE} /\ ShortSpaces'
  BY <1>1, RestOfSignal DEF IrInv
<1>6. listening' \in BOOLEAN
  BY <1>1 DEF FirstMark, IrInv, LinkType
<1>7. LinkType'
  BY <1>1, <1>2, <1>4, <1>5, <1>6 DEF LinkType, IrInv
<1>8. /\ irparams.rcvstate \in {"IDLE", "MARK", "SPACE", "STOP"} /\ irparams.timer \in Nat
      /\ irparams'.rcvstate \in {"IDLE", "MARK", "SPACE", "STOP"} /\ irparams'.timer \in Nat
  BY <1>3, <1>4, UnsignedIs DEF Receiver
<1>9. app' = "uses" => irparams'.rcvstate = "STOP"
  BY <1>1, <1>4 DEF IrInv, SampledAll
<1>10. level' = MARK <=> level = SPACE
  BY <1>1, <1>3 DEF MARK, SPACE
<1>11. quiet \in Nat /\ (quiet > 0 <=> quiet # 0)
  BY DEF IrInv, LinkType
<1>12. CASE level = MARK
  <2>1. irparams'.rcvstate # "SPACE" /\ (Waits' => irparams'.timer = 0)
    BY <1>4, <1>12 DEF SampledAll, Waits
  <2>2. Waits /\ (irparams.timer <= 98 \/ irparams.rcvstate = "STOP") => Waits'
    BY <1>4, <1>12 DEF SampledAll, Waits
  <2>3. ~listening' /\ code.kind # "SAMSUNG" => Waits'
    <3>1. CASE quiet = 0
      BY <1>1, <1>8, <1>12, <2>2, <3>1 DEF IrInv, Within, FirstMark
    <3>2. CASE quiet > 0
      <4>1. Waits /\ (~Noticed(quiet) => irparams.timer <= 98)
        BY <1>1, <3>2 DEF IrInv, AtFirstMark
      <4>2. listening' = (irparams.rcvstate = "IDLE" /\ Noticed(quiet))
        BY <1>1, <1>11, <3>2 DEF FirstMark
      <4> QED
        BY <2>2, <4>1, <4>2 DEF Waits
    <3> QED
      BY <1>11, <3>1, <3>2
  <2>4. level' # MARK
    BY <1>10, <1>12 DEF MARK, SPACE
  <2>5. Within'
    BY <1>1, <2>1, <2>3, <2>4 DEF Within
  <2>6. Between'
    BY <1>1, <2>1 DEF Between, GAP_TICKS
  <2>7. AtFirstMark'
    BY <1>1 DEF AtFirstMark
  <2> QED
    BY <1>4, <1>5, <1>7, <1>9, <2>5, <2>6, <2>7 DEF IrInv
<1>13. CASE level = SPACE
  <2>1. level # MARK /\ level' = MARK /\ quiet = 0 /\ listening' = listening
    BY <1>1, <1>10, <1>11, <1>13 DEF IrInv, AtFirstMark, FirstMark, MARK, SPACE
  <2>2. irparams.rcvstate # "SPACE" /\ (Waits => irparams.timer = 0)
    BY <1>1, <1>13, <2>1 DEF IrInv, Within
  <2>3. (code.kind = "SAMSUNG" => Len(out) = 1) => n <= 91
    <3>1. 1 \in DOMAIN out /\ Head(out) = out[1] /\ ~(1 % 2 = 0)
      BY <1>1, <1>3
    <3>2. (code.kind = "SAMSUNG" => Len(out) = 1) => Head(out) <= LongestSpace
      BY <2>1, <3>1 DEF IrInv, ShortSpaces
    <3> QED
      BY <1>2, <1>13, <3>2
  <2>4. n <= 91 => Unsigned(n) = n /\ Unsigned(n - 1) = n - 1
    BY <1>2, UnsignedSmall
  <2>5. /\ irparams'.rcvstate # "MARK"
        /\ Waits => Waits' /\ irparams'.timer = Unsigned(n)
        /\ ~Waits => irparams'.timer = Unsigned(n - 1)
    <3>1. Waits => irparams.timer + n = n
      BY <1>2, <2>2
    <3>2. ~Waits => irparams.rcvstate = "MARK"
      BY <1>8, <2>2 DEF Waits
    <3> QED
      BY <1>4, <1>13, <3>1, <3>2 DEF SampledAll, Waits
  <2>6. n <= 91 => irparams'.timer <= 91
    BY <1>2, <2>4, <2>5
  <2>7. Within'
    <3>1. level' # SPACE
      BY <2>1 DEF MARK, SPACE
    <3>2. ~listening /\ code.kind # "SAMSUNG" => Waits
      BY <1>1, <2>1 DEF IrInv, Within
    <3> QED
      BY <1>1, <2>1, <2>3, <2>5, <2>6, <3>1, <3>2 DEF Within
  <2>8. Between'
    <3>1. out' = <<>> => Len(out) = 1
      <4>1. Len(Tail(out)) = Len(out) - 1 /\ Len(out) \in Nat
        BY <1>1, <1>3
      <4>2. out' = <<>> => Len(Tail(out)) = 0
        <5>1. out' = Tail(out)
          BY <1>1
        <5>2. Len(<<>>) = 0
          OBVIOUS
        <5> QED
          BY <5>1, <5>2, Zenon
      <4> QED
        BY <4>1, <4>2
    <3>2. out' = <<>> => irparams'.timer <= 91
      BY <2>3, <2>6, <3>1
    <3>3. irparams'.timer <= 91 => irparams'.timer \in 0 - 1..0 + 91
      BY <1>8
    <3> QED
      BY <1>1, <3>2, <3>3, Zenon DEF Between
  <2>9. AtFirstMark'
    BY <1>1 DEF AtFirstMark
  <2> QED
    BY <1>4, <1>5, <1>7, <1>9, <2>7, <2>8, <2>9 DEF IrInv
<1> QED
  BY <1>3, <1>12, <1>13

(* A silence before a code: the handler sees its end, and the timer tells  *)
(* the first mark apart from one in the middle of a code.                  *)
LEMMA SendKeeps == ASSUME IrInv, NEW n \in Pauses, SendCode(n) PROVE IrInv'
<1>1. /\ out = <<>> /\ plan # <<>> /\ irparams' = Samples(irparams, SPACE, n)
      /\ code' = Head(plan) /\ out' = Signal(Head(plan)) /\ plan' = Tail(plan)
      /\ level' = MARK /\ quiet' = quiet + n
      /\ UNCHANGED <<at, lag, app, results, listening, heard>>
  BY DEF SendCode
<1>2. /\ n \in Nat /\ n >= GAP_TICKS + 2 /\ n >= 2
      /\ ClearPause(n) /\ ClearPause(n + GAP_TICKS + 2)
  BY PausesAssumption DEF GAP_TICKS
<1>3. irparams \in Receiver /\ NotFull(irparams) /\ SPACE \in {MARK, SPACE}
  BY DEF IrInv, LinkType
<1>4. /\ irparams' \in Receiver /\ NotFull(irparams')
      /\ SampledAll(irparams, SPACE, n, irparams')
  BY <1>1, <1>2, <1>3, SamplesAre
<1>5. /\ out' \in Seq(Lengths) /\ out' # <<>>
      /\ \A i \in DOMAIN out' :
           i % 2 = 0 /\ (code'.kind = "SAMSUNG" => i = Len(out')) => out'[i] <= LongestSpace
      /\ plan' \in Seq(Codes)
      /\ \A i \in DOMAIN plan' : WellFormed(Signal(plan'[i]), plan'[i].kind)
  BY <1>1, NextCode, Zenon DEF IrInv
<1>6. LinkType'
  <2>1. quiet' \in Nat
    BY <1>1, <1>2 DEF IrInv, LinkType
  <2> QED
    BY <1>1, <1>4, <1>5, <2>1 DEF LinkType, IrInv
<1>7. ShortSpaces'
  BY <1>1, <1>5 DEF ShortSpaces
<1>8. /\ irparams.rcvstate \in {"IDLE", "MARK", "SPACE", "STOP"} /\ irparams.timer \in Nat
      /\ irparams'.rcvstate \in {"IDLE", "MARK", "SPACE", "STOP"} /\ irparams'.timer \in Nat
  BY <1>3, <1>4, UnsignedIs DEF Receiver
<1>9. /\ quiet \in {0, GAP_TICKS + 2} /\ (~Waits => quiet = 0)
      /\ Waits => irparams.timer \in quiet - 1..quiet + 91
      /\ irparams.rcvstate = "SPACE" => irparams.timer <= 91
  BY <1>1 DEF IrInv, Between
<1>10. irparams'.rcvstate \in {"IDLE", "STOP"}
  BY <1>2, <1>4, <1>8, <1>9 DEF SampledAll
<1>11. app' = "uses" => irparams'.rcvstate = "STOP"
  BY <1>1, <1>4 DEF IrInv, SampledAll
<1>12. ClearPause(quiet') /\ quiet' > 0 /\ quiet' \in Nat /\ quiet \in Nat
  <2>1. CASE quiet = 0
    BY <1>1, <1>2, <2>1
  <2>2. CASE quiet = GAP_TICKS + 2
    <3>1. quiet' = n + GAP_TICKS + 2
      BY <1>1, <1>2, <2>2 DEF GAP_TICKS
    <3> QED
      BY <1>2, <2>2, <3>1 DEF GAP_TICKS
  <2> QED
    BY <1>9, <2>1, <2>2
<1>13. \E y \in 0..91, b \in {0, 1} : irparams'.timer = Unsigned(quiet' + y - b)
  <2>1. CASE Waits
    <3>1. irparams'.timer = Unsigned(irparams.timer + n)
      BY <1>4, <2>1 DEF SampledAll, Waits
    <3>2. irparams.timer >= quiet - 1 /\ irparams.timer <= quiet + 91
      BY <1>8, <1>9, <1>12, <2>1
    <3>3. CASE irparams.timer = quiet - 1
      <4>1. irparams.timer + n = quiet' + 0 - 1
        BY <1>1, <1>2, <1>12, <3>3
      <4> QED
        BY <3>1, <4>1
    <3>4. CASE irparams.timer >= quiet
      <4> DEFINE y == irparams.timer - quiet
      <4>0. quiet' = quiet + n /\ n \in Nat /\ irparams.timer \in Nat /\ quiet \in Nat
        BY <1>1, <1>2, <1>8, <1>12
      <4>1. y \in 0..91 /\ irparams.timer + n = quiet' + y - 0
        BY <4>0, <3>2, <3>4
      <4> QED
        BY <3>1, <4>1
    <3> QED
      BY <1>8, <1>12, <3>2, <3>3, <3>4
  <2>2. CASE irparams.rcvstate = "MARK"
    <3>1. irparams'.timer = Unsigned(n - 1)
      BY <1>4, <2>2 DEF SampledAll
    <3>2. n - 1 = quiet' + 0 - 1
      BY <1>1, <1>2, <1>9, <2>2 DEF Waits
    <3> QED
      BY <3>1, <3>2
  <2>3. CASE irparams.rcvstate = "SPACE"
    <3>1. irparams'.timer = Unsigned(irparams.timer + n)
      BY <1>4, <2>3 DEF SampledAll
    <3>2. irparams.timer \in 0..91
      BY <1>8, <1>9, <2>3
    <3>3. irparams.timer + n = quiet' + irparams.timer - 0
      BY <1>1, <1>2, <1>8, <1>9, <2>3 DEF Waits
    <3> QED
      BY <3>1, <3>2, <3>3
  <2> QED
    BY <1>8, <2>1, <2>2, <2>3 DEF Waits
<1>14. ~Noticed(quiet') => irparams'.timer <= 98
  <2>1. PICK y \in 0..91 : \E b \in {0, 1} : irparams'.timer = Unsigned(quiet' + y - b)
    BY <1>13
  <2>2. PICK b \in {0, 1} : irparams'.timer = Unsigned(quiet' + y - b)
    BY <2>1
  <2>3. SUFFICES ASSUME ~Noticed(quiet') PROVE irparams'.timer <= 98
    OBVIOUS
  <2>4. Unsigned(quiet') \in 1..4
    BY <1>12, <2>3 DEF ClearPause
  <2>5. /\ y \in Nat /\ quiet' + y >= b /\ Unsigned(quiet') >= b
        /\ Unsigned(quiet') + y <= 100
    <3>1. /\ Unsigned(quiet') \in Nat /\ Unsigned(quiet') >= 1 /\ Unsigned(quiet') <= 4
          /\ quiet' \in Nat /\ quiet' > 0
      BY <1>12, <2>4
    <3>2. y \in Nat /\ \A u, w \in Nat :
            1 <= u /\ u <= 4 /\ w > 0 => w + y >= b /\ u >= b /\ u + y <= 100
      OBVIOUS
    <3>3. 1 <= Unsigned(quiet')
      BY <3>1
    <3> HIDE DEF Unsigned
    <3> QED
      BY <3>1, <3>2, <3>3, Zenon
  <2>6. irparams'.timer = Unsigned(quiet') + y - b
    BY <1>12, <2>2, <2>5, UnsignedSum
  <2> QED
    BY <2>4, <2>6
<1>15. Between' /\ AtFirstMark' /\ Within'
  BY <1>1, <1>5, <1>10, <1>12, <1>14 DEF Between, AtFirstMark, Within, Waits
<1> QED
  BY <1>4, <1>6, <1>7, <1>11, <1>15 DEF IrInv

(* Nothing of a code that is cut off is left.                              *)
LEMMA CutKeeps == ASSUME IrInv, Cut PROVE IrInv'
<1>1. /\ out' = <<>> /\ plan' = <<>>
      /\ UNCHANGED <<plan, code, level, at, lag, irparams, app, results, quiet, listening>>
  BY DEF Cut
<1>2. out' \in Seq(Lengths)
  BY <1>1
<1>3. LinkType'
  BY <1>1, <1>2 DEF LinkType, IrInv
<1>4. ShortSpaces' /\ Between' /\ AtFirstMark' /\ Within'
  BY <1>1 DEF ShortSpaces, Between, AtFirstMark, Within
<1> QED
  BY <1>1, <1>3, <1>4 DEF IrInv

(* The handler sees the end of a code, with the timer well in step.        *)
LEMMA SilenceKeeps == ASSUME IrInv, Silence PROVE IrInv'
<1> DEFINE n == GAP_TICKS + 2
<1>1. /\ out = <<>> /\ irparams.rcvstate \in {"MARK", "SPACE"}
      /\ irparams' = Samples(irparams, SPACE, n) /\ quiet' = n
      /\ UNCHANGED <<plan, code, out, level, at, lag, app, results, listening, heard>>
  BY DEF Silence
<1>2. n = 102 /\ n \in Nat /\ n >= 2 /\ n >= GAP_TICKS + 2
  BY DEF GAP_TICKS
<1>3. irparams \in Receiver /\ NotFull(irparams) /\ SPACE \in {MARK, SPACE}
  BY DEF IrInv, LinkType
<1> HIDE DEF n
<1>4. /\ irparams' \in Receiver /\ NotFull(irparams')
      /\ SampledAll(irparams, SPACE, n, irparams')
  BY <1>1, <1>2, <1>3, SamplesAre
<1>5. LinkType' /\ ShortSpaces'
  BY <1>1, <1>2, <1>4 DEF LinkType, ShortSpaces, IrInv
<1>6. irparams.timer \in Nat
  BY <1>3, UnsignedIs DEF Receiver
<1>7. app' # "uses"
  BY <1>1 DEF IrInv
<1>8. AtFirstMark' /\ Within'
  BY <1>1 DEF AtFirstMark, Within
<1>9. ASSUME plan # <<>> PROVE Waits' /\ irparams'.timer \in n - 1..n + 91
  <2>1. irparams.rcvstate = "SPACE" => irparams.timer <= 91
    BY <1>1, <1>9 DEF IrInv, Between
  <2>2. irparams'.rcvstate \in {"IDLE", "STOP"}
    BY <1>2, <1>4, <2>1 DEF SampledAll
  <2>3. CASE irparams.rcvstate = "MARK"
    <3>1. irparams'.timer = Unsigned(n - 1) /\ Unsigned(n - 1) = n - 1
      BY <1>2, <1>4, <2>3, UnsignedSmall DEF SampledAll
    <3> QED
      BY <1>2, <2>2, <3>1 DEF Waits
  <2>4. CASE irparams.rcvstate = "SPACE"
    <3>1. irparams.timer <= 91 /\ irparams'.timer = Unsigned(irparams.timer + n)
      BY <1>4, <2>1, <2>4 DEF SampledAll
    <3>2. irparams.timer + n \in Nat /\ irparams.timer + n <= 1000
      BY <1>2, <1>6, <3>1
    <3>3. Unsigned(irparams.timer + n) = irparams.timer + n
      BY <3>2, UnsignedSmall
    <3> QED
      BY <1>2, <1>6, <2>2, <3>1, <3>3 DEF Waits
  <2> QED
    BY <1>1, <2>3, <2>4
<1>10. Between'
  BY <1>1, <1>9 DEF Between, Waits, n
<1> QED
  BY <1>4, <1>5, <1>7, <1>8, <1>10 DEF IrInv

(* resume() keeps the timer and the buffer.                                *)
LEMMA ResumeIs ==
  ASSUME NEW p \in Receiver
  PROVE  /\ resume(p) \in Receiver /\ resume(p).timer = p.timer
         /\ resume(p).rcvstate = "IDLE" /\ resume(p).rawbuf = p.rawbuf
<1>1. 0 \in 0..RAWBUF
  BY DEF RAWBUF
<1> QED
  BY <1>1 DEF resume, Receiver

(* A stopped receiver that starts again waits on as it waited.             *)
LEMMA ResumeKeeps ==
  ASSUME IrInv, irparams.rcvstate = "STOP",
         \/ irparams' = resume(irparams) /\ app' = "polls"
         \/ irparams' = irparams /\ app' \in {"polls", "uses"},
         UNCHANGED <<plan, code, out, level, at, lag, quiet, listening>>
  PROVE  IrInv'
<1>1. irparams \in Receiver
  BY DEF IrInv, LinkType
<1>2. /\ irparams' \in Receiver /\ irparams'.timer = irparams.timer
      /\ irparams'.rcvstate \in {"IDLE", "STOP"} /\ app' \in {"polls", "uses"}
      /\ app' = "uses" => irparams'.rcvstate = "STOP"
  <2>1. ASSUME irparams' = resume(irparams)
        PROVE  /\ irparams' \in Receiver /\ irparams'.timer = irparams.timer
               /\ irparams'.rcvstate = "IDLE"
    BY <1>1, <2>1, ResumeIs
  <2> QED
    BY <1>1, <2>1
<1>3. LinkType' /\ ShortSpaces'
  BY <1>2 DEF LinkType, ShortSpaces, IrInv
<1>4. Between' /\ AtFirstMark' /\ Within'
  BY <1>2 DEF Between, AtFirstMark, Within, Waits, IrInv
<1> QED
  BY <1>2, <1>3, <1>4 DEF IrInv, NotFull

(* Each step of the sender, the receiver and the program keeps it.         *)
LEMMA NextIrInv == IrInv /\ [IrNext]_irVars => IrInv'
<1> SUFFICES ASSUME IrInv, [IrNext]_irVars PROVE IrInv'
  OBVIOUS
<1>1. CASE \E n \in Pauses : SendCode(n)
  BY <1>1, SendKeeps
<1>2. CASE PulseOut
  BY <1>2, PulseKeeps
<1>3. CASE Cut
  BY <1>3, CutKeeps
<1>4. CASE Silence
  BY <1>4, SilenceKeeps
<1>5. CASE decode
  BY <1>5, ResumeKeeps DEF decode, Ready, IrInv, LinkType
<1>6. CASE Resume
  BY <1>6, ResumeKeeps DEF Resume, IrInv
<1>7. CASE UNCHANGED irVars
  <2>1. UNCHANGED <<plan, code, out, level, at, lag, irparams, app, quiet, listening>>
    BY <1>7 DEF irVars
  <2> QED
    BY <2>1 DEF IrInv, LinkType, ShortSpaces, NotFull, Between, AtFirstMark, Within, Waits
<1> QED
  BY <1>1, <1>2, <1>3, <1>4, <1>5, <1>6, <1>7 DEF IrNext

(* So it holds in every state.                                             *)
LEMMA IrInvHolds == IrSpec => []IrInv
BY InitIrInv, NextIrInv, PTL DEF IrSpec

(* The handler never writes past the end of rawbuf, however long the code  *)
(* is, and its state machine stays in its four states (ISR in IRremote.cpp).*)
THEOREM IrTypeCorrect == IrSpec => []IrTypeOK
<1>1. IrInv => IrTypeOK
  BY DEF IrInv, LinkType, Receiver, IrTypeOK
<1> QED
  BY IrInvHolds, <1>1, PTL

(* A receiver that is resumed in the middle of a code records no piece of  *)
(* it: it waits for the next one, whatever the lengths of the pauses.      *)
THEOREM MiddleCorrect == IrSpec => []NeverFromTheMiddle
<1>1. IrInv => NeverFromTheMiddle
  <2> SUFFICES ASSUME IrInv, out # <<>>, quiet = 0, ~listening, ~LateForSamsung
               PROVE  irparams.rcvstate \in {"IDLE", "STOP"}
    BY DEF NeverFromTheMiddle
  <2> QED
    BY DEF IrInv, Within, LateForSamsung, Waits
<1> QED
  BY IrInvHolds, <1>1, PTL

(* What decode() gave to the program is not changed before it resumes.     *)
THEOREM ResultsKept == IrSpec => ResultsStay
<1>1. ASSUME IrInv, [IrNext]_irVars, app = "uses"
      PROVE  irparams'.rawbuf = irparams.rawbuf /\ results' = results
  <2> USE <1>1
  <2>1. /\ irparams.rcvstate = "STOP" /\ irparams \in Receiver /\ NotFull(irparams)
        /\ level \in {MARK, SPACE} /\ SPACE \in {MARK, SPACE}
    BY DEF IrInv, LinkType
  <2>2. CASE \E n \in Pauses : SendCode(n)
    <3>1. PICK n \in Pauses : SendCode(n)
      BY <2>2
    <3>2. n \in Nat /\ n >= 2
      BY PausesAssumption DEF GAP_TICKS
    <3>3. SampledAll(irparams, SPACE, n, irparams')
      BY <2>1, <3>1, <3>2, SamplesAre DEF SendCode
    <3> QED
      BY <2>1, <3>1, <3>3 DEF SendCode, SampledAll
  <2>3. CASE PulseOut
    <3> DEFINE seen == at + Head(out) + (IF level = MARK THEN lag ELSE -lag)
               n == seen \div USECPERTICK
    <3>1. /\ out # <<>> /\ irparams' = Samples(irparams, level, n) /\ results' = results
      BY <2>3 DEF PulseOut
    <3>2. n \in Nat /\ n >= 2
      BY <3>1, Ticks DEF IrInv
    <3> HIDE DEF seen, n
    <3>3. SampledAll(irparams, level, n, irparams')
      BY <2>1, <3>1, <3>2, SamplesAre
    <3> QED
      BY <2>1, <3>1, <3>3 DEF SampledAll
  <2>4. CASE Cut \/ UNCHANGED irVars
    BY <2>4 DEF Cut, irVars
  <2>5. ~Silence /\ ~decode
    BY <2>1 DEF Silence, decode
  <2>6. CASE Resume
    BY <2>1, <2>6, ResumeIs DEF Resume
  <2> QED
    BY <2>2, <2>3, <2>4, <2>5, <2>6 DEF IrNext
<1>2. IrInv /\ [IrNext]_irVars =>
        [app = "uses" => irparams'.rawbuf = irparams.rawbuf /\ results' = results]_irVars
  BY <1>1
<1> QED
  BY IrInvHolds, <1>2, PTL DEF IrSpec, ResultsStay
==============================================================================
