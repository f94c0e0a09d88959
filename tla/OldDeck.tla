------------------------------- MODULE OldDeck -------------------------------
(***************************************************************************)
(* The OLD cassette deck simulator: old_deck_simulator_handler, run for    *)
(* ever by DeckSimulatorThread.  Its interrupt only reads O_pwm_state.     *)
(*                                                                         *)
(* The same wheel as the NEW deck's, towards another radio: the            *)
(* optocoupler rests HIGH and pulses LOW whether or not a tape is in, the  *)
(* tape switch rests LOW, and the encoder knows no speeds: it runs, or     *)
(* both of its lines are held.  As in NewDeck every sleep and every        *)
(* digitalRead is a program point, and durations are not modelled.         *)
(***************************************************************************)
EXTENDS Integers

HIGH == 1
LOW  == 0
Level == {LOW, HIGH}

\* Values of O_pwm_state: what the two encoder outputs are doing.
ENC_OFF  == 0   \* held HIGH
ENC_RUN  == 1   \* pwm1Isr and pwm2Isr
ENC_HOLD == 2   \* held LOW
Encoder == {ENC_OFF, ENC_RUN, ENC_HOLD}

\* Values of O_state_wheel_position.
OUT    == 0
STOP   == 1
SIDE_A == 2
SIDE_B == 5
Position  == OUT .. SIDE_B
Direction == {"fwd", "back"}

VARIABLES
  enablePin, signal2, signal3,  \* O_EnablePin, O_Signal2, O_Signal3, from the radio
  signal4,                 \* O_Signal4, status motor optocoupler
  tape_inserted_status,    \* O_tape_inserted_status, tape switch
  player_power_pin,        \* LOW switches the MP3 player on
  enableState,             \* last sample of enablePin
  power_on,                \* O_power_on
  power_off,               \* O_power_off
  pwm_state,               \* O_pwm_state
  state_wheel_position,    \* O_state_wheel_position
  pc,                      \* where DeckSimulatorThread is
  dir                      \* which of the two while loops it is in

radio == <<enablePin, signal2, signal3>>
outputs == <<signal4, tape_inserted_status, player_power_pin>>
power == <<enableState, power_on, power_off>>
vars == <<radio, outputs, power, pwm_state, state_wheel_position, pc, dir>>

(***************************************************************************)
(* Program points:                                                         *)
(*   top      after ir_handler and the 3 ms sleep                          *)
(*   fwd?, back?   Signal2, Signal3 is to be read                          *)
(*   loop     test of while(digitalRead(...))                              *)
(*   guard    the read of the opposite motor signal that breaks the loop   *)
(*   lead     sleep before the optocoupler pulse                           *)
(*   pulse    sleep while the optocoupler is interrupted                   *)
(*   trail    sleep after it, the new position is not counted yet          *)
(*   counted  sleep after the position was counted (Stop to A only)        *)
(*   switch   sleep while the tape switch is HIGH (Stop to tape out only)  *)
(***************************************************************************)
Moving == {"lead", "pulse", "trail", "switch"}
Point  == {"top", "fwd?", "back?", "loop", "guard", "counted"} \cup Moving

TypeOK ==
  /\ enablePin \in Level /\ signal2 \in Level /\ signal3 \in Level
  /\ signal4 \in Level
  /\ tape_inserted_status \in Level
  /\ player_power_pin \in Level
  /\ enableState \in Level
  /\ power_on \in 0..1 /\ power_off \in 0..1
  /\ pwm_state \in Encoder
  /\ state_wheel_position \in Position
  /\ pc \in Point
  /\ dir \in Direction

(* Globals and old_deck_simulator_setup, music_player_setup.               *)
Init ==
  /\ enablePin \in Level /\ signal2 \in Level /\ signal3 \in Level
  /\ signal4 = HIGH
  /\ tape_inserted_status = LOW
  /\ player_power_pin = HIGH
  /\ enableState = LOW
  /\ power_on = 0 /\ power_off = 0
  /\ pwm_state = ENC_RUN
  /\ state_wheel_position = STOP
  /\ pc = "top"
  /\ dir = "fwd"

------------------------------------------------------------------------------
(* Power *)

music_player_ON  == player_power_pin' = LOW
music_player_OFF == player_power_pin' = HIGH

HomedAlways(p) == STOP                       \* fault: loads a tape that is out
Homed(p) == IF p # OUT THEN STOP ELSE OUT

EveryPass == TRUE                            \* fault: powers up on every pass
FirstPassOn == power_on = 0

ClearPowerOff == power_off' = 0

(* Enable is HIGH: the first pass also powers the deck up. *)
Enabled ==
  /\ pc = "top"
  /\ enablePin = HIGH
  /\ enableState' = HIGH
  /\ ClearPowerOff
  /\ power_on' = 1
  /\ \/ FirstPassOn /\ music_player_ON /\ pwm_state' = ENC_HOLD
     \/ ~FirstPassOn /\ UNCHANGED <<player_power_pin, pwm_state>>
  /\ pc' = "fwd?"
  /\ UNCHANGED <<radio, signal4, tape_inserted_status, state_wheel_position, dir>>

(* Enable is LOW: the first pass powers the deck down and homes the wheel. *)
Disabled ==
  /\ pc = "top"
  /\ enablePin = LOW
  /\ enableState' = LOW
  /\ power_on' = 0
  /\ power_off' = 1
  /\ pwm_state' = ENC_OFF
  /\ \/ /\ power_off = 0
        /\ signal4' = HIGH
        /\ music_player_OFF
        /\ state_wheel_position' = Homed(state_wheel_position)
     \/ /\ power_off = 1
        /\ UNCHANGED <<signal4, player_power_pin, state_wheel_position>>
  /\ UNCHANGED <<radio, tape_inserted_status, pc, dir>>

------------------------------------------------------------------------------
(* Choosing a direction.  Signal2 has precedence over Signal3. *)

ReadSignal2 ==
  /\ pc = "fwd?"
  /\ \/ signal2 = HIGH /\ dir' = "fwd" /\ pc' = "loop"
     \/ signal2 = LOW  /\ pc' = "back?" /\ UNCHANGED dir
  /\ UNCHANGED <<radio, outputs, power, pwm_state, state_wheel_position>>

ReadSignal3 ==
  /\ pc = "back?"
  /\ \/ signal3 = HIGH /\ dir' = "back" /\ pc' = "loop"
     \/ signal3 = LOW  /\ pc' = "top" /\ UNCHANGED dir
  /\ UNCHANGED <<radio, outputs, power, pwm_state, state_wheel_position>>

------------------------------------------------------------------------------
(* The while loops, one turn of the wheel per iteration. *)

MotorLine(d)    == IF d = "fwd" THEN signal2 ELSE signal3

OpposingLine(d) == IF d = "fwd" THEN signal3 ELSE signal2

(* Fault: the branch from >> to side B is missing.                         *)
AtEndTooEarly(d, p) == p \in IF d = "fwd" THEN {4, SIDE_B} ELSE {OUT}

(* No branch matches at the end of the travel: the loop spins, without a   *)
(* sleep, for as long as the motor line is HIGH.                           *)
AtEnd(d, p) == p = IF d = "fwd" THEN SIDE_B ELSE OUT

(* The two branches that do not look at the opposing motor line. *)
Unguarded(d, p) == p = IF d = "fwd" THEN OUT ELSE SIDE_B

(* The encoder command given before the first sleep of a turn. *)
StartEncoder(d, p) ==
  CASE d = "fwd"  /\ p \in {3, 4}    -> ENC_RUN
    [] d = "back" /\ p \in {3, 4, 5} -> ENC_RUN
    [] d = "back" /\ p = STOP        -> ENC_OFF
    [] OTHER                         -> pwm_state

(* Turns whose optocoupler pulse starts with the turn, without a sleep. *)
PulsesAtOnce(d, p) == p \in IF d = "fwd" THEN {2, 3, 4} ELSE {3, 4, 5}

StartTurn ==
  /\ pwm_state' = StartEncoder(dir, state_wheel_position)
  /\ \/ /\ PulsesAtOnce(dir, state_wheel_position)
        /\ signal4' = LOW
        /\ pc' = "pulse"
     \/ /\ ~PulsesAtOnce(dir, state_wheel_position)
        /\ pc' = "lead"
        /\ UNCHANGED signal4

LeaveLoop ==
  /\ pc = "loop"
  /\ MotorLine(dir) = LOW
  /\ pc' = "top"
  /\ UNCHANGED <<radio, outputs, power, pwm_state, state_wheel_position, dir>>

EnterLoop ==
  /\ pc = "loop"
  /\ MotorLine(dir) = HIGH
  /\ ~AtEnd(dir, state_wheel_position)
  /\ \/ Unguarded(dir, state_wheel_position) /\ StartTurn
     \/ /\ ~Unguarded(dir, state_wheel_position)
        /\ pc' = "guard"
        /\ UNCHANGED <<signal4, pwm_state>>
  /\ UNCHANGED <<radio, tape_inserted_status, player_power_pin, power,
                 state_wheel_position, dir>>

(* Both motor lines HIGH brake the motor and leave the loop; coming to     *)
(* side A forward this starts the encoder.                                 *)
Guard ==
  /\ pc = "guard"
  /\ \/ OpposingLine(dir) = LOW /\ StartTurn
     \/ /\ OpposingLine(dir) = HIGH
        /\ pc' = "top"
        /\ pwm_state' = IF dir = "fwd" /\ state_wheel_position = SIDE_A
                        THEN ENC_RUN ELSE pwm_state
        /\ UNCHANGED signal4
  /\ UNCHANGED <<radio, tape_inserted_status, player_power_pin, power,
                 state_wheel_position, dir>>

------------------------------------------------------------------------------
(* A turn under way *)

EndLead ==
  /\ pc = "lead"
  /\ signal4' = LOW
  /\ pc' = "pulse"
  /\ UNCHANGED <<radio, tape_inserted_status, player_power_pin, power,
                 pwm_state, state_wheel_position, dir>>

CountedTwice(d, p) == IF d = "fwd" THEN p + 2 ELSE p - 1   \* fault
Counted(d, p) == IF d = "fwd" THEN p + 1 ELSE p - 1

(* Stop to A counts the position before its last sleep.                    *)
EndPulse ==
  /\ pc = "pulse"
  /\ signal4' = HIGH
  /\ \/ /\ dir = "fwd" /\ state_wheel_position = STOP
        /\ state_wheel_position' = SIDE_A
        /\ pc' = "counted"
     \/ /\ ~(dir = "fwd" /\ state_wheel_position = STOP)
        /\ pc' = "trail"
        /\ UNCHANGED state_wheel_position
  /\ UNCHANGED <<radio, tape_inserted_status, player_power_pin, power, pwm_state, dir>>

(* Ejecting works the tape switch.  Other turns are counted; the one from  *)
(* A to << starts the encoder, the one to stop ends it, and this one and   *)
(* the one to side B break out of the loop.                                *)
EndTrail ==
  /\ pc = "trail"
  /\ \/ /\ dir = "back" /\ state_wheel_position = STOP
        /\ tape_inserted_status' = HIGH
        /\ pc' = "switch"
        /\ UNCHANGED <<pwm_state, state_wheel_position>>
     \/ /\ ~(dir = "back" /\ state_wheel_position = STOP)
        /\ state_wheel_position' = Counted(dir, state_wheel_position)
        /\ pwm_state' = IF state_wheel_position = SIDE_A
                        THEN IF dir = "fwd" THEN ENC_RUN ELSE ENC_OFF
                        ELSE pwm_state
        /\ pc' = IF <<dir, state_wheel_position>> \in {<<"fwd", 4>>, <<"back", SIDE_A>>}
                 THEN "top" ELSE "loop"
        /\ UNCHANGED tape_inserted_status
  /\ UNCHANGED <<radio, signal4, player_power_pin, power, dir>>

EndCounted ==
  /\ pc = "counted"
  /\ pc' = "loop"
  /\ UNCHANGED <<radio, outputs, power, pwm_state, state_wheel_position, dir>>

EndSwitch ==
  /\ pc = "switch"
  /\ tape_inserted_status' = LOW
  /\ state_wheel_position' = state_wheel_position - 1
  /\ pc' = "top"
  /\ UNCHANGED <<radio, signal4, player_power_pin, power, pwm_state, dir>>

old_deck_simulator_handler ==
  \/ Enabled \/ Disabled
  \/ ReadSignal2 \/ ReadSignal3
  \/ LeaveLoop \/ EnterLoop \/ Guard
  \/ EndLead \/ EndPulse \/ EndTrail \/ EndCounted \/ EndSwitch

------------------------------------------------------------------------------
(* The radio changes any of its lines at any moment. *)
Radio ==
  /\ \/ enablePin' = 1 - enablePin /\ UNCHANGED <<signal2, signal3>>
     \/ signal2' = 1 - signal2 /\ UNCHANGED <<enablePin, signal3>>
     \/ signal3' = 1 - signal3 /\ UNCHANGED <<enablePin, signal2>>
  /\ UNCHANGED <<outputs, power, pwm_state, state_wheel_position, pc, dir>>

Next == old_deck_simulator_handler \/ Radio

Spec == Init /\ [][Next]_vars

(* DeckSimulatorThread has the highest priority and is woken by the system *)
(* tick after every sleep.  Nothing is assumed of the radio.               *)
Fairness == WF_vars(old_deck_simulator_handler)

------------------------------------------------------------------------------
(* Safety *)

AtRest == pc \notin Moving

(* Between turns of a powered deck the encoder runs from << on, and is     *)
(* held while the tape is stopped or out; at side A it depends on how the  *)
(* wheel got there.                                                        *)
EncoderFollowsWheel ==
  AtRest /\ power_on = 1 =>
    /\ state_wheel_position \in {OUT, STOP} => pwm_state \in {ENC_OFF, ENC_HOLD}
    /\ state_wheel_position > SIDE_A => pwm_state = ENC_RUN

(* A deck whose power was taken away is at rest with the tape at stop or   *)
(* out and the player off, and once it has seen Enable LOW its encoder is  *)
(* off; a powered one has its player on.                                   *)
PoweredDownIsHomed ==
  /\ power_on = 0 => /\ pc = "top"
                     /\ state_wheel_position \in {OUT, STOP}
                     /\ power_off = 1 => pwm_state = ENC_OFF
  /\ power_on = 1 <=> player_power_pin = LOW
  /\ power_on = 1 => power_off = 0

(* In the middle of a turn the deck has power and a next position, the     *)
(* encoder obeys the position the wheel turns to, and optocoupler and tape *)
(* switch are in the phase of the sleep.  With the two invariants above it *)
(* is inductive.                                                           *)
MidTurn ==
  /\ pc # "top" => power_on = 1
  /\ pc = "guard" => state_wheel_position \in 1..4
  /\ pc = "counted" => state_wheel_position = SIDE_A
  /\ signal4 = LOW <=> pc = "pulse"
  /\ tape_inserted_status = HIGH <=> pc = "switch"
  /\ pc = "switch" => dir = "back" /\ state_wheel_position = STOP
  /\ pc \in Moving =>
       IF dir = "fwd"
       THEN /\ state_wheel_position \in 0..4
            /\ state_wheel_position < SIDE_A => pwm_state \in {ENC_OFF, ENC_HOLD}
            /\ state_wheel_position > SIDE_A => pwm_state = ENC_RUN
       ELSE /\ state_wheel_position \in 1..5
            /\ state_wheel_position = STOP => pwm_state = ENC_OFF
            /\ state_wheel_position > SIDE_A => pwm_state = ENC_RUN

(* All that the outputs tell of the wheel, between turns and in the middle *)
(* of one: the encoder runs when the tape does, the player's supply shows  *)
(* whether the deck is on, and a deck without power is homed.              *)
DeckTellsWheel == TypeOK /\ EncoderFollowsWheel /\ PoweredDownIsHomed /\ MidTurn

------------------------------------------------------------------------------
(* The deck is a tape wheel *)

TW == INSTANCE TapeWheel
        WITH pos     <- state_wheel_position,
             powered <- power_on = 1,
             drive   <- IF pc \in Moving THEN dir ELSE "idle"

(* The deck turns the wheel by single notches, only with power on, and     *)
(* powering down never loads or ejects a tape.                             *)
IsTapeWheel == TW!Spec

(* And a turn that was begun is completed, whatever the radio does.        *)
IsLiveTapeWheel == TW!FairSpec

------------------------------------------------------------------------------
(* Liveness *)

(* A radio that keeps only the forward motor on gets to side B with the    *)
(* encoder running, from any position and out of any turn.                 *)
HeldForwardReachesB ==
  <>[](enablePin = HIGH /\ signal2 = HIGH /\ signal3 = LOW)
    => <>[](state_wheel_position = SIDE_B /\ pwm_state = ENC_RUN)

(* A radio that keeps only the backward motor on gets the tape ejected.    *)
HeldBackEjects ==
  <>[](enablePin = HIGH /\ signal2 = LOW /\ signal3 = HIGH)
    => <>[](state_wheel_position = OUT /\ tape_inserted_status = LOW)

(* The player is on once Enable stays HIGH, and off once Enable stays LOW  *)
(* and the motors are released.                                            *)
PlayerFollowsEnable ==
  /\ <>[](enablePin = HIGH) => <>[](player_power_pin = LOW)
  /\ <>[](enablePin = LOW /\ signal2 = LOW /\ signal3 = LOW)
       => <>[](player_power_pin = HIGH)

(* A radio that keeps to one wish gets it, whatever it wished before:      *)
(* side B, the tape ejected, the player on or off.                         *)
RadioIsServed == HeldForwardReachesB /\ HeldBackEjects /\ PlayerFollowsEnable

==============================================================================
