------------------------------- MODULE NewDeck -------------------------------
(***************************************************************************)
(* The NEW cassette deck simulator: new_deck_simulator_handler, run for    *)
(* ever by DeckSimulatorThread, and the part of the Timer1 interrupt       *)
(* (new_deck_simulator_PWM_handler) that changes its state.                *)
(*                                                                         *)
(* The thread gives the processor away only in chThdSleepMilliseconds, and *)
(* the radio may change its lines between any two digitalRead calls: every *)
(* sleep and every digitalRead is a program point of its own, everything   *)
(* between two of them is one step.  Durations are not modelled: a sleep   *)
(* is a point where anything else may happen.                              *)
(***************************************************************************)
EXTENDS Integers

HIGH == 1
LOW  == 0
Level == {LOW, HIGH}

\* Values of N_pwm_state: what the encoder output N_pwm1 is doing.
ENC_OFF  == 0   \* held HIGH
ENC_HOLD == 2   \* held LOW after power on, until the drive motor signal
ENC_REW  == 3   \* pwm_B_speed
ENC_FF   == 4   \* pwm_A_speed
ENC_A    == 5   \* pwm_A
ENC_B    == 6   \* pwm_B
Encoder == {ENC_OFF, ENC_HOLD, ENC_REW, ENC_FF, ENC_A, ENC_B}

\* Values of N_state_wheel_position.
OUT    == 0
STOP   == 1
SIDE_A == 2
SIDE_B == 5
Position  == OUT .. SIDE_B
Direction == {"fwd", "back"}

VARIABLES
  \* inputs, driven by the radio
  enablePin,               \* N_EnablePin
  signal1,                 \* N_Signal1, drive motor
  signal2,                 \* N_Signal2, status motor forward
  signal3,                 \* N_Signal3, status motor back
  \* outputs
  signal4,                 \* N_Signal4, status motor optocoupler
  tape_inserted_status,    \* N_tape_inserted_status, tape switch
  player_power_pin,        \* LOW switches the MP3 player on
  \* state of the simulator
  enableState,             \* last sample of enablePin
  power_on,                \* N_power_on
  power_off,               \* N_power_off
  pwm_state,               \* N_pwm_state
  state_wheel_position,    \* N_state_wheel_position
  \* control
  pc,                      \* where DeckSimulatorThread is
  dir                      \* which of the two while loops it is in

radio == <<enablePin, signal1, signal2, signal3>>
outputs == <<signal4, tape_inserted_status, player_power_pin>>
power == <<enableState, power_on, power_off>>
vars == <<radio, outputs, power, pwm_state, state_wheel_position, pc, dir>>

(***************************************************************************)
(* Program points:                                                         *)
(*   top     ir_handler, then entry of the handler                         *)
(*   settle  the 100 ms sleep before the motor signals are looked at       *)
(*   back?   Signal2 was LOW, Signal3 is still to be read                  *)
(*   loop    test of while(digitalRead(...)), after the 30 ms sleep        *)
(*   guard   the read of the opposite motor signal that breaks the loop    *)
(*   lead    sleep before the optocoupler pulse                            *)
(*   pulse   sleep while the optocoupler is interrupted                    *)
(*   trail   sleep after it, the new position is not counted yet           *)
(*   counted sleep after the position was counted (Stop to A only)         *)
(*   switch  sleep while the tape switch is LOW (Stop to tape out only)    *)
(***************************************************************************)
Moving == {"lead", "pulse", "trail", "switch"}
Point  == {"top", "settle", "back?", "loop", "guard", "counted"} \cup Moving

TypeOK ==
  /\ enablePin \in Level /\ signal1 \in Level
  /\ signal2 \in Level /\ signal3 \in Level
  /\ signal4 \in Level
  /\ tape_inserted_status \in Level
  /\ player_power_pin \in Level
  /\ enableState \in Level
  /\ power_on \in 0..1 /\ power_off \in 0..1
  /\ pwm_state \in Encoder
  /\ state_wheel_position \in Position
  /\ pc \in Point
  /\ dir \in Direction

(* Globals and new_deck_simulator_setup, music_player_setup. *)
Init ==
  /\ enablePin \in Level /\ signal1 \in Level
  /\ signal2 \in Level /\ signal3 \in Level
  /\ signal4 = HIGH
  /\ tape_inserted_status = HIGH
  /\ player_power_pin = HIGH
  /\ enableState = LOW
  /\ power_on = 0 /\ power_off = 0
  /\ pwm_state = ENC_OFF
  /\ state_wheel_position = STOP
  /\ pc = "top"
  /\ dir = "fwd"

------------------------------------------------------------------------------
(* Power *)

(* The player's power pin only; the equaliser and repeat counters that     *)
(* music_player_OFF also resets belong to the music player component.      *)
music_player_ON  == player_power_pin' = LOW
music_player_OFF == player_power_pin' = HIGH

(* What a power change does to the wheel and to the optocoupler.           *)
HomedAlways(p) == STOP                       \* fault: loads a tape that is out
Homed(p) == IF p # OUT THEN STOP ELSE OUT

OptoReleased == LOW                          \* fault: never asks for the tape
OptoAtPowerOn == IF state_wheel_position # OUT THEN LOW ELSE signal4

(* The two flags make a power change happen on the first pass only.        *)
FirstPassOn == power_on = 0

ClearPowerOff == power_off' = 0

(* Enable is HIGH: the first pass also powers the deck up. *)
Enabled ==
  /\ pc = "top"
  /\ enablePin = HIGH
  /\ enableState' = HIGH
  /\ ClearPowerOff
  /\ power_on' = 1
  /\ \/ /\ FirstPassOn
        /\ music_player_ON
        /\ signal4' = OptoAtPowerOn
        /\ pwm_state' = ENC_HOLD
     \/ /\ ~FirstPassOn
        /\ UNCHANGED <<player_power_pin, signal4, pwm_state>>
  /\ pc' = "settle"
  /\ UNCHANGED <<radio, tape_inserted_status, state_wheel_position, dir>>

(* Enable is LOW: the first pass powers the deck down and homes the wheel. *)
Disabled ==
  /\ pc = "top"
  /\ enablePin = LOW
  /\ enableState' = LOW
  /\ power_on' = 0
  /\ power_off' = 1
  /\ pwm_state' = ENC_OFF
  /\ \/ /\ power_off = 0
        /\ signal4' = HIGH
        /\ music_player_OFF
        /\ state_wheel_position' = Homed(state_wheel_position)
     \/ /\ power_off = 1
        /\ UNCHANGED <<signal4, player_power_pin, state_wheel_position>>
  /\ UNCHANGED <<radio, tape_inserted_status, pc, dir>>

------------------------------------------------------------------------------
(* Choosing a direction.  Signal2 has precedence over Signal3. *)

ReadSignal2 ==
  /\ pc = "settle"
  /\ \/ signal2 = HIGH /\ dir' = "fwd" /\ pc' = "loop"
     \/ signal2 = LOW  /\ pc' = "back?" /\ UNCHANGED dir
  /\ UNCHANGED <<radio, outputs, power, pwm_state, state_wheel_position>>

ReadSignal3 ==
  /\ pc = "back?"
  /\ \/ signal3 = HIGH /\ dir' = "back" /\ pc' = "loop"
     \/ signal3 = LOW  /\ pc' = "top" /\ UNCHANGED dir
  /\ UNCHANGED <<radio, outputs, power, pwm_state, state_wheel_position>>

------------------------------------------------------------------------------
(* The while loops, one turn of the wheel per iteration. *)

MotorLine(d)    == IF d = "fwd" THEN signal2 ELSE signal3

(* Fault: the guard looks at the line that drives the loop.                *)
OwnLine(d) == MotorLine(d)

OpposingLine(d) == IF d = "fwd" THEN signal3 ELSE signal2

(* Fault: the branch from >> to side B is missing.                         *)
AtEndTooEarly(d, p) == p \in IF d = "fwd" THEN {4, SIDE_B} ELSE {OUT}

(* No branch of the loop matches at the end of the wheel's travel: the     *)
(* loop spins, without a sleep, for as long as the motor line is HIGH.     *)
AtEnd(d, p) == p = IF d = "fwd" THEN SIDE_B ELSE OUT

(* The two branches that do not look at the opposing motor line. *)
Unguarded(d, p) == p = IF d = "fwd" THEN OUT ELSE SIDE_B

EncoderLate(d, p) == pwm_state   \* fault: a turn begins without its command

(* The encoder command given before the first sleep of a turn. *)
StartEncoder(d, p) ==
  IF d = "fwd"
  THEN IF p = OUT THEN pwm_state ELSE <<ENC_A, ENC_REW, ENC_FF, ENC_B>>[p]
  ELSE <<ENC_OFF, pwm_state, ENC_A, ENC_REW, ENC_FF>>[p]

(* Turns whose optocoupler pulse starts with the turn, without a sleep. *)
PulsesAtOnce(d, p) ==
  \/ d = "fwd" /\ p \in {2, 4}
  \/ d = "back" /\ p \in {3, 5}

StartTurn ==
  /\ pwm_state' = StartEncoder(dir, state_wheel_position)
  /\ \/ /\ PulsesAtOnce(dir, state_wheel_position)
        /\ signal4' = HIGH
        /\ pc' = "pulse"
     \/ /\ ~PulsesAtOnce(dir, state_wheel_position)
        /\ pc' = "lead"
        /\ UNCHANGED signal4

LeaveLoop ==
  /\ pc = "loop"
  /\ MotorLine(dir) = LOW
  /\ pc' = "top"
  /\ UNCHANGED <<radio, outputs, power, pwm_state, state_wheel_position, dir>>

EnterLoop ==
  /\ pc = "loop"
  /\ MotorLine(dir) = HIGH
  /\ ~AtEnd(dir, state_wheel_position)
  /\ \/ Unguarded(dir, state_wheel_position) /\ StartTurn
     \/ /\ ~Unguarded(dir, state_wheel_position)
        /\ pc' = "guard"
        /\ UNCHANGED <<signal4, pwm_state>>
  /\ UNCHANGED <<radio, tape_inserted_status, player_power_pin, power,
                 state_wheel_position, dir>>

(* Both motor lines HIGH brake the motor: the loop is left. *)
Guard ==
  /\ pc = "guard"
  /\ \/ OpposingLine(dir) = LOW /\ StartTurn
     \/ /\ OpposingLine(dir) = HIGH
        /\ pc' = "top"
        /\ UNCHANGED <<signal4, pwm_state>>
  /\ UNCHANGED <<radio, tape_inserted_status, player_power_pin, power,
                 state_wheel_position, dir>>

------------------------------------------------------------------------------
(* A turn under way *)

EndLead ==
  /\ pc = "lead"
  /\ \/ /\ dir = "fwd" /\ state_wheel_position = OUT
        /\ signal4' = LOW
        /\ pc' = "trail"
     \/ /\ ~(dir = "fwd" /\ state_wheel_position = OUT)
        /\ signal4' = HIGH
        /\ pc' = "pulse"
  /\ UNCHANGED <<radio, tape_inserted_status, player_power_pin, power,
                 pwm_state, state_wheel_position, dir>>

(* Ejecting leaves the optocoupler interrupted and works the tape switch;  *)
(* Stop to A counts the position before its last sleep.                    *)
EndPulse ==
  /\ pc = "pulse"
  /\ \/ /\ dir = "back" /\ state_wheel_position = STOP
        /\ tape_inserted_status' = LOW
        /\ pc' = "switch"
        /\ UNCHANGED <<signal4, state_wheel_position>>
     \/ /\ dir = "fwd" /\ state_wheel_position = STOP
        /\ signal4' = LOW
        /\ state_wheel_position' = SIDE_A
        /\ pc' = "counted"
        /\ UNCHANGED tape_inserted_status
     \/ /\ state_wheel_position # STOP
        /\ signal4' = LOW
        /\ pc' = "trail"
        /\ UNCHANGED <<tape_inserted_status, state_wheel_position>>
  /\ UNCHANGED <<radio, player_power_pin, power, pwm_state, dir>>

CountedTwice(d, p) == IF d = "fwd" THEN p + 2 ELSE p - 1   \* fault
Counted(d, p) == IF d = "fwd" THEN p + 1 ELSE p - 1

(* Reaching side B, or stop from side A, breaks out of the loop. *)
EndTrail ==
  /\ pc = "trail"
  /\ state_wheel_position' = Counted(dir, state_wheel_position)
  /\ \/ /\ dir = "back" /\ state_wheel_position = SIDE_A
        /\ pwm_state' = ENC_OFF
        /\ pc' = "top"
     \/ /\ dir = "fwd" /\ state_wheel_position = 4
        /\ pc' = "top"
        /\ UNCHANGED pwm_state
     \/ /\ ~(dir = "back" /\ state_wheel_position = SIDE_A)
        /\ ~(dir = "fwd" /\ state_wheel_position = 4)
        /\ pc' = "loop"
        /\ UNCHANGED pwm_state
  /\ UNCHANGED <<radio, outputs, power, dir>>

EndCounted ==
  /\ pc = "counted"
  /\ pc' = "loop"
  /\ UNCHANGED <<radio, outputs, power, pwm_state, state_wheel_position, dir>>

EndSwitch ==
  /\ pc = "switch"
  /\ tape_inserted_status' = HIGH
  /\ state_wheel_position' = state_wheel_position - 1
  /\ pc' = "top"
  /\ UNCHANGED <<radio, signal4, player_power_pin, power, pwm_state, dir>>

new_deck_simulator_handler ==
  \/ Enabled \/ Disabled
  \/ ReadSignal2 \/ ReadSignal3
  \/ LeaveLoop \/ EnterLoop \/ Guard
  \/ EndLead \/ EndPulse \/ EndTrail \/ EndCounted \/ EndSwitch

------------------------------------------------------------------------------
(* Interrupt and environment *)

(* The Timer1 interrupt: the levels it puts on N_pwm1 are the encoder's    *)
(* business, here is the one change it makes to the shared state.          *)
new_deck_simulator_PWM_handler ==
  /\ pwm_state = ENC_HOLD
  /\ signal1 = HIGH
  /\ pwm_state' = ENC_OFF
  /\ UNCHANGED <<radio, outputs, power, state_wheel_position, pc, dir>>

(* The radio changes any of its four lines at any moment. *)
Radio ==
  /\ \/ enablePin' = 1 - enablePin /\ UNCHANGED <<signal1, signal2, signal3>>
     \/ signal1' = 1 - signal1 /\ UNCHANGED <<enablePin, signal2, signal3>>
     \/ signal2' = 1 - signal2 /\ UNCHANGED <<enablePin, signal1, signal3>>
     \/ signal3' = 1 - signal3 /\ UNCHANGED <<enablePin, signal1, signal2>>
  /\ UNCHANGED <<outputs, power, pwm_state, state_wheel_position, pc, dir>>

Next == new_deck_simulator_handler \/ new_deck_simulator_PWM_handler \/ Radio

Spec == Init /\ [][Next]_vars

(* DeckSimulatorThread has the highest priority and is woken by the system *)
(* tick after every sleep; Timer1 interrupts for ever.  Nothing is assumed *)
(* of the radio.                                                           *)
Fairness ==
  /\ WF_vars(new_deck_simulator_handler)
  /\ WF_vars(new_deck_simulator_PWM_handler)

------------------------------------------------------------------------------
(* Safety *)

AtRest == pc \notin Moving

(* Whenever no turn is under way on a powered deck, the encoder shows the  *)
(* speed and direction that belong to the position of the wheel; with the  *)
(* tape stopped or out it is quiet.  The command is given before a turn    *)
(* (or, from A to stop, after it) in nine different branches.              *)
EncoderFollowsWheel ==
  AtRest /\ power_on = 1 =>
    IF state_wheel_position \in {OUT, STOP}
    THEN pwm_state \in {ENC_OFF, ENC_HOLD}
    ELSE pwm_state = <<ENC_OFF, ENC_A, ENC_REW, ENC_FF, ENC_B>>[state_wheel_position]

(* The radio has no other sensor of the wheel: between turns of a powered  *)
(* deck the optocoupler is free (LOW) exactly when a tape is loaded, and a *)
(* deck without power never pulls it LOW.                                  *)
OptoTellsPosition ==
  /\ AtRest /\ power_on = 1 => (signal4 = LOW <=> state_wheel_position # OUT)
  /\ power_on = 0 => signal4 = HIGH

(* A deck whose power was taken away is at rest with the tape at stop or   *)
(* out, the encoder off and the player switched off, however the Enable    *)
(* line bounced; a powered one has its player on.                          *)
PoweredDownIsHomed ==
  /\ power_on = 0 => /\ pc = "top"
                     /\ state_wheel_position \in {OUT, STOP}
                     /\ pwm_state = ENC_OFF
  /\ power_on = 1 <=> player_power_pin = LOW
  /\ power_on = 1 => power_off = 0

(* What holds in the middle of a turn, whatever the radio and the timer    *)
(* interrupt do meanwhile: the thread got there with power on and from a   *)
(* position that has a next one, the encoder already obeys the position    *)
(* the wheel turns to, and the optocoupler is in the phase of the sleep.   *)
(* With the three invariants above it is inductive.                        *)
MidTurn ==
  /\ pc # "top" => power_on = 1
  /\ pc = "guard" => state_wheel_position \in 1..4
  /\ pc = "counted" => state_wheel_position = SIDE_A
  /\ pc = "switch" => dir = "back" /\ state_wheel_position = STOP
  /\ tape_inserted_status = LOW <=> pc = "switch"
  /\ pc \in Moving =>
       IF dir = "fwd"
       THEN /\ state_wheel_position \in 0..4
            /\ IF state_wheel_position = OUT
               THEN pc \in {"lead", "trail"} /\ pwm_state \in {ENC_OFF, ENC_HOLD}
               ELSE pwm_state = <<ENC_A, ENC_REW, ENC_FF, ENC_B>>[state_wheel_position]
            /\ signal4 = LOW <=>
                 (pc = "trail" \/ (pc = "lead" /\ state_wheel_position # OUT))
       ELSE /\ state_wheel_position \in 1..5
            /\ state_wheel_position = STOP => pc # "trail"
            /\ pwm_state = <<ENC_OFF, ENC_A, ENC_A, ENC_REW, ENC_FF>>[state_wheel_position]
            /\ signal4 = LOW <=> pc \in {"lead", "trail"}

(* All that the outputs tell of the wheel, between turns and in the middle *)
(* of one: the encoder shows its speed, the optocoupler whether a tape is  *)
(* loaded, the player's supply whether the deck is on, and a deck without  *)
(* power is homed.                                                         *)
DeckTellsWheel ==
  EncoderFollowsWheel /\ OptoTellsPosition /\ PoweredDownIsHomed /\ MidTurn

------------------------------------------------------------------------------
(* The deck is a tape wheel *)

TW == INSTANCE TapeWheel
        WITH pos     <- state_wheel_position,
             powered <- power_on = 1,
             drive   <- IF pc \in Moving THEN dir ELSE "idle"

(* Through all its sleeps the deck turns the wheel by single notches, only *)
(* with power on, and powering down never loads or ejects a tape.          *)
IsTapeWheel == TW!Spec

(* And a turn that was begun is completed, whatever the radio does.        *)
IsLiveTapeWheel == TW!FairSpec

------------------------------------------------------------------------------
(* Liveness *)

(* A radio that keeps only the forward motor on gets to side B and stays   *)
(* there, from any position and out of any turn.                           *)
HeldForwardReachesB ==
  <>[](enablePin = HIGH /\ signal2 = HIGH /\ signal3 = LOW)
    => <>[](state_wheel_position = SIDE_B)

(* A radio that keeps only the backward motor on gets the tape ejected.    *)
HeldBackEjects ==
  <>[](enablePin = HIGH /\ signal2 = LOW /\ signal3 = HIGH)
    => <>[](state_wheel_position = OUT /\ tape_inserted_status = HIGH)

(* The player is switched on once Enable stays HIGH, and off once Enable   *)
(* stays LOW and the motors are released (a motor line that is held keeps  *)
(* the deck inside a loop that does not look at Enable).                   *)
PlayerFollowsEnable ==
  /\ <>[](enablePin = HIGH) => <>[](player_power_pin = LOW)
  /\ <>[](enablePin = LOW /\ signal2 = LOW /\ signal3 = LOW)
       => <>[](player_power_pin = HIGH)

(* The encoder line that is held LOW after power on is let go when the     *)
(* drive motor starts, and is not held again while Enable stays HIGH.      *)
DriveMotorEndsHold ==
  <>[](enablePin = HIGH /\ signal1 = HIGH) => <>[](pwm_state # ENC_HOLD)

(* A radio that keeps to one wish gets it, whatever it wished before:      *)
(* side B, the tape ejected, the player on or off, the encoder let go.     *)
RadioIsServed ==
  HeldForwardReachesB /\ HeldBackEjects /\ PlayerFollowsEnable /\ DriveMotorEndsHold

==============================================================================
