------------------------------ MODULE Encoders -------------------------------
(***************************************************************************)
(* The drive motor's encoder, as timer1Isr imitates it every millisecond:  *)
(* one line with four trains of pulses for the NEW deck, two lines a       *)
(* quarter of a period apart for the OLD one.  The deck thread commands a  *)
(* state at any time; the timers of the trains are not reset, so a train   *)
(* goes on where it was left, with its line where another one left it.     *)
(*                                                                         *)
(* The edges are parameters: of a train of the NEW deck <<rise, fall,      *)
(* rise, period>>, of the OLD deck when each line rises and falls.         *)
(***************************************************************************)
EXTENDS Integers, Sequences

CONSTANTS
  Edge,            \* [Train -> 4 edges] (387, 796, 916, 1046 and so on)
  Rise2, Fall2,    \* OLD deck, O_pwm2: 55, 81
  Rise1, Period    \* OLD deck, O_pwm1: 70, and it falls at the end, 106

Train == {"A", "B", "A_speed", "B_speed"}

ASSUME EdgeAssumption ==
  /\ Edge \in [Train -> [1..4 -> Nat]]
  /\ \A t \in Train :
       /\ 0 < Edge[t][1] /\ Edge[t][1] < Edge[t][2]
       /\ Edge[t][2] < Edge[t][3] /\ Edge[t][3] < Edge[t][4]
  /\ Rise2 \in Nat /\ Rise1 \in Nat /\ Fall2 \in Nat /\ Period \in Nat
  /\ 0 < Rise2 /\ Rise2 < Rise1 /\ Rise1 < Fall2 /\ Fall2 < Period

VARIABLES
  deck_version,       \* 1: NEW, 0: OLD
  pwm_state,          \* N_pwm_state or O_pwm_state
  Signal1,            \* the drive motor line
  timer,              \* [Train -> N_pwm_A_timer, ..]
  pwm1_timer, pwm2_timer,  \* the OLD deck's
  pwm1, pwm2,         \* the encoder lines
  astray,             \* history: lines not led by the train since its command
  back                \* history: steps backwards since the command

lines == <<pwm1, pwm2>>
timers == <<timer, pwm1_timer, pwm2_timer>>
vars == <<deck_version, pwm_state, Signal1, timers, lines, astray, back>>

TrainOf == [s \in 3..6 |->
  CASE s = 3 -> "B_speed" [] s = 4 -> "A_speed" [] s = 5 -> "A" [] s = 6 -> "B"]

Lines == IF deck_version = 1 THEN {1} ELSE {1, 2}

Init ==
  /\ deck_version \in 0..1
  /\ pwm_state = IF deck_version = 1 THEN 0 ELSE 1
  /\ Signal1 \in 0..1
  /\ timer = [t \in Train |-> 0] /\ pwm1_timer = 0 /\ pwm2_timer = 0
  /\ pwm1 = 1 /\ pwm2 = 1
  /\ astray = Lines /\ back = 0

------------------------------------------------------------------------------
(* The deck thread gives a command, at power on with O_pwm1 or N_pwm1 LOW; *)
(* the command that holds already changes nothing.                         *)
Command(s) ==
  /\ s \in IF deck_version = 1 THEN {0, 2, 3, 4, 5, 6} ELSE 0..2
  /\ s # pwm_state
  /\ pwm_state' = s
  /\ pwm1' \in IF s = 2 THEN {0} ELSE {pwm1}
  /\ astray' = Lines /\ back' = 0
  /\ UNCHANGED <<deck_version, Signal1, timers, pwm2>>

Radio ==
  /\ Signal1' = 1 - Signal1
  /\ UNCHANGED <<deck_version, pwm_state, timers, lines, astray, back>>

------------------------------------------------------------------------------
(* new_deck_simulator_PWM_handler *)

(* One call of pwm_A, pwm_B, pwm_A_speed or pwm_B_speed.                   *)
LevelAt(e) == IF e \in {1, 3} THEN 1 ELSE 0
NoWrap(t) == [timer EXCEPT ![t] = @ + 1]     \* fault: the timer is not reset
Count(t) == [timer EXCEPT ![t] = IF @ + 1 = Edge[t][4] THEN 0 ELSE @ + 1]
Pulse(t) ==
  /\ timer' = Count(t)
  /\ \/ \E e \in 1..4 :
          /\ timer[t] + 1 = Edge[t][e]
          /\ pwm1' = LevelAt(e)
          /\ astray' = {}
     \/ /\ \A e \in 1..4 : timer[t] + 1 # Edge[t][e]
        /\ UNCHANGED <<pwm1, astray>>
  /\ UNCHANGED <<pwm_state, pwm1_timer, pwm2_timer, pwm2, back>>

Gated == {3, 4}     \* winding pulses only while the drive motor runs

Winding ==
  /\ pwm_state \in 3..6
  /\ IF pwm_state \in Gated /\ Signal1 = 0
       THEN UNCHANGED <<pwm_state, timers, lines, astray, back>>
       ELSE Pulse(TrainOf[pwm_state])

Rest ==
  /\ pwm_state = 0
  /\ pwm1' = 1 /\ astray' = {}
  /\ UNCHANGED <<pwm_state, timers, pwm2, back>>

StayHeld == 2      \* fault: the line is never let go
LetGo == 0
Hold ==
  /\ pwm_state = 2
  /\ pwm1' = 0
  /\ IF Signal1 = 1 THEN pwm_state' = LetGo /\ astray' = Lines
                    ELSE UNCHANGED pwm_state /\ astray' = {}
  /\ UNCHANGED <<timers, pwm2, back>>

new_deck_simulator_PWM_handler == Winding \/ Rest \/ Hold

------------------------------------------------------------------------------
(* old_deck_simulator_PWM_handler *)

pwm1Isr ==
  /\ pwm1_timer' = IF pwm1_timer + 1 = Period THEN 0 ELSE pwm1_timer + 1
  /\ pwm2' = IF pwm1_timer + 1 = Rise2 THEN 1
             ELSE IF pwm1_timer + 1 = Fall2 THEN 0 ELSE pwm2

SlowPeriod == Period + 1        \* fault: the two timers drift apart
pwm2Period == Period
pwm2Isr ==
  /\ pwm2_timer' = IF pwm2_timer + 1 = pwm2Period THEN 0 ELSE pwm2_timer + 1
  /\ pwm1' = IF pwm2_timer + 1 = Rise1 THEN 1
             ELSE IF pwm2_timer + 1 = pwm2Period THEN 0 ELSE pwm1

(* The four steps of a tape that runs.                                     *)
Forward(a, b) == <<a, b>> \in
  {<<<<0, 0>>, <<0, 1>>>>, <<<<0, 1>>, <<1, 1>>>>,
   <<<<1, 1>>, <<1, 0>>>>, <<<<1, 0>>, <<0, 0>>>>}

Running ==
  /\ pwm_state = 1
  /\ pwm1Isr /\ pwm2Isr
  /\ astray' = astray \ ((IF pwm1_timer + 1 \in {Rise2, Fall2} THEN {2} ELSE {})
                    \cup (IF pwm2_timer + 1 \in {Rise1, Period} THEN {1} ELSE {}))
  /\ back' = IF lines' = lines \/ Forward(lines, lines') THEN back ELSE back + 1
  /\ UNCHANGED <<pwm_state, timer>>

AtRest ==
  /\ pwm_state \in {0, 2}
  /\ LET level == IF pwm_state = 0 THEN 1 ELSE 0
     IN pwm1' = level /\ pwm2' = level
  /\ astray' = {}
  /\ UNCHANGED <<pwm_state, timers, back>>

old_deck_simulator_PWM_handler == Running \/ AtRest

------------------------------------------------------------------------------
timer1Isr ==
  /\ \/ deck_version = 1 /\ new_deck_simulator_PWM_handler
     \/ deck_version = 0 /\ old_deck_simulator_PWM_handler
  /\ UNCHANGED <<deck_version, Signal1>>

Next == timer1Isr \/ Radio \/ \E s \in 0..6 : Command(s)

Spec == Init /\ [][Next]_vars

(* Timer1 is never stopped.                                                *)
FairSpec == Spec /\ WF_vars(timer1Isr)

------------------------------------------------------------------------------
TypeOK ==
  /\ deck_version \in 0..1
  /\ pwm_state \in IF deck_version = 1 THEN {0, 2, 3, 4, 5, 6} ELSE 0..2
  /\ Signal1 \in 0..1
  /\ timer \in [Train -> Nat] /\ \A t \in Train : timer[t] < Edge[t][4]
  /\ pwm1_timer \in 0..(Period - 1) /\ pwm2_timer \in 0..(Period - 1)
  /\ pwm1 \in 0..1 /\ pwm2 \in 0..1
  /\ astray \subseteq {1, 2} /\ back \in Nat

(* The level of a train, or of a line of the OLD deck, at a time.          *)
Level(t, n) == IF n < Edge[t][1] \/ (Edge[t][2] <= n /\ n < Edge[t][3]) THEN 0 ELSE 1

(* The line shows what the train that was commanded shows at this time,    *)
(* from its first edge after the command on, whatever came before and      *)
(* however often the radio stops the motor.                                *)
LineFollowsTrain ==
  deck_version = 1 /\ pwm_state \in 3..6 /\ 1 \notin astray
    => pwm1 = Level(TrainOf[pwm_state], timer[TrainOf[pwm_state]])

(* The OLD deck's lines stay a quarter of a period apart: their timers     *)
(* never drift, and each follows its timer from its first edge on.         *)
LinesInPhase ==
  deck_version = 0 =>
    /\ pwm1_timer = pwm2_timer
    /\ pwm_state = 1 /\ 1 \notin astray
         => pwm1 = IF Rise1 <= pwm1_timer THEN 1 ELSE 0
    /\ pwm_state = 1 /\ 2 \notin astray
         => pwm2 = IF Rise2 <= pwm1_timer /\ pwm1_timer < Fall2 THEN 1 ELSE 0

(* Both decks' lines are what was commanded, but for the first edges after *)
(* a command.                                                              *)
LinesRight == TypeOK /\ LineFollowsTrain /\ LinesInPhase

(* The radio sees the OLD deck's tape run backwards for one step at most   *)
(* after a command, and never once both lines are led by their timers.     *)
OneStepBack == [][back' > back => back = 0 /\ astray # {}]_vars

(* The line does not stay where it is while the tape is commanded to move, *)
(* unless the radio stops the motor of a tape that winds.                  *)
Pulses ==
  \A s \in 1..6 \ {2} : \A level \in 0..1 :
    pwm_state = s /\ pwm1 = level
      ~> pwm1 # level \/ pwm_state # s \/ (s \in Gated /\ Signal1 = 0)

(* An encoder held at power on is let go when the motor runs.              *)
HoldEnds ==
  deck_version = 1 /\ pwm_state = 2 /\ Signal1 = 1 ~> pwm_state # 2 \/ Signal1 = 0

(* The tape never seems to stand while it is commanded to move, nor to run *)
(* backwards for longer than it takes the lines to fall in.                *)
TapeGoesOn == OneStepBack /\ Pulses /\ HoldEnds

==============================================================================
