---------------------------- MODULE NewDeckProofs ----------------------------
(***************************************************************************)
(* Proofs about the NEW deck.  One inductive invariant carries all of      *)
(* them: what holds between turns (EncoderFollowsWheel, OptoTellsPosition, *)
(* PoweredDownIsHomed) is preserved only because of what holds in the      *)
(* middle of a turn (MidTurn), and the other way round.                    *)
(***************************************************************************)
EXTENDS Firmware, TLAPS

IInv ==
  /\ TypeOK
  /\ EncoderFollowsWheel
  /\ OptoTellsPosition
  /\ PoweredDownIsHomed
  /\ MidTurn

USE DEF HIGH, LOW, Level, ENC_OFF, ENC_HOLD, ENC_REW, ENC_FF, ENC_A, ENC_B,
        Encoder, OUT, STOP, SIDE_A, SIDE_B, Position, Direction, Moving,
        Point, AtRest

(* The globals as they are initialised satisfy the invariant.              *)
LEMMA InitIInv == Init => IInv
BY DEF Init, IInv, TypeOK, EncoderFollowsWheel, OptoTellsPosition,
       PoweredDownIsHomed, MidTurn

(* Each step of the thread, of the interrupt and of the radio keeps it.    *)
LEMMA NextIInv == IInv /\ [Next]_vars => IInv'
<1> SUFFICES ASSUME IInv, [Next]_vars PROVE IInv'
  OBVIOUS
<1> USE DEF IInv, TypeOK, EncoderFollowsWheel, OptoTellsPosition,
        PoweredDownIsHomed, MidTurn, radio, outputs, power, vars
<1>1. CASE Enabled
  BY <1>1 DEF Enabled, ClearPowerOff, FirstPassOn, OptoAtPowerOn, music_player_ON
<1>2. CASE Disabled
  BY <1>2 DEF Disabled, Homed, music_player_OFF
<1>3. CASE ReadSignal2
  BY <1>3 DEF ReadSignal2
<1>4. CASE ReadSignal3
  BY <1>4 DEF ReadSignal3
<1>5. CASE LeaveLoop
  BY <1>5 DEF LeaveLoop
<1>6. CASE EnterLoop
  BY <1>6 DEF EnterLoop, AtEnd, Unguarded, StartTurn, StartEncoder, PulsesAtOnce
<1>7. CASE Guard
  BY <1>7 DEF Guard, StartTurn, StartEncoder, PulsesAtOnce
<1>8. CASE EndLead
  BY <1>8 DEF EndLead
<1>9. CASE EndPulse
  BY <1>9 DEF EndPulse
<1>10. CASE EndTrail
  BY <1>10 DEF EndTrail, Counted
<1>11. CASE EndCounted
  BY <1>11 DEF EndCounted
<1>12. CASE EndSwitch
  BY <1>12 DEF EndSwitch
<1>13. CASE new_deck_simulator_PWM_handler
  BY <1>13 DEF new_deck_simulator_PWM_handler
<1>14. CASE Radio
  BY <1>14 DEF Radio
<1>15. CASE UNCHANGED vars
  BY <1>15
<1> QED
  BY <1>1, <1>2, <1>3, <1>4, <1>5, <1>6, <1>7, <1>8, <1>9, <1>10, <1>11,
     <1>12, <1>13, <1>14, <1>15 DEF Next, new_deck_simulator_handler

LEMMA Invariance == Spec => []IInv
<1>1. Init => IInv
  BY InitIInv
<1>2. IInv /\ [Next]_vars => IInv'
  BY NextIInv
<1> QED
  BY <1>1, <1>2, PTL DEF Spec

(* Every variable keeps its type, the wheel never leaves its six positions *)
(* and no branch indexes the encoder commands outside their range.         *)
THEOREM TypeCorrect == Spec => []TypeOK
<1>1. IInv => TypeOK
  BY DEF IInv
<1> QED
  BY <1>1, Invariance, PTL

(* Between turns the encoder shows the speed of the wheel's position.      *)
THEOREM EncoderCorrect == Spec => []EncoderFollowsWheel
<1>1. IInv => EncoderFollowsWheel
  BY DEF IInv
<1> QED
  BY <1>1, Invariance, PTL

(* Between turns the optocoupler tells whether a tape is loaded.           *)
THEOREM OptoCorrect == Spec => []OptoTellsPosition
<1>1. IInv => OptoTellsPosition
  BY DEF IInv
<1> QED
  BY <1>1, Invariance, PTL

(* A deck without power is homed, quiet, and its player is off.            *)
THEOREM PowerCorrect == Spec => []PoweredDownIsHomed
<1>1. IInv => PoweredDownIsHomed
  BY DEF IInv
<1> QED
  BY <1>1, Invariance, PTL

(* In the middle of a turn nothing the radio or the timer interrupt does   *)
(* puts the encoder or the optocoupler out of step with the wheel.         *)
THEOREM MidTurnCorrect == Spec => []MidTurn
<1>1. IInv => MidTurn
  BY DEF IInv
<1> QED
  BY <1>1, Invariance, PTL

(* Whatever the radio does and whenever, the outputs tell where the wheel  *)
(* is, between turns and in the middle of one.                             *)
THEOREM OutputsCorrect == Spec => []DeckTellsWheel
<1>1. IInv => DeckTellsWheel
  BY DEF IInv, DeckTellsWheel
<1> QED
  BY <1>1, Invariance, PTL

------------------------------------------------------------------------------
(* The deck implements the abstract tape wheel. *)

LEMMA InitRefines == Init => TW!Init
BY DEF Init, TW!Init, TW!STOP

(* A step of the deck is a step of the wheel or leaves the wheel alone:    *)
(* the guards and the start of a turn begin it, the last sleep finishes    *)
(* it, a first pass switches the power.                                    *)
LEMMA NextRefines == IInv /\ [Next]_vars => [TW!Next]_(TW!vars)
<1> SUFFICES ASSUME IInv, [Next]_vars PROVE [TW!Next]_(TW!vars)
  OBVIOUS
<1> USE DEF IInv, TypeOK, PoweredDownIsHomed, MidTurn, radio, outputs, power,
        vars, TW!vars, TW!Position, TW!Direction, TW!OUT, TW!STOP, TW!SIDE_B,
        TW!Notch
<1>1. CASE Enabled
  BY <1>1 DEF Enabled, FirstPassOn, TW!Next, TW!SwitchOn
<1>2. CASE Disabled
  <2>1. CASE power_on = 0
    BY <1>2, <2>1 DEF Disabled, Homed
  <2>2. CASE power_on = 1
    <3>1. TW!SwitchOff
      BY <1>2, <2>2 DEF Disabled, Homed, TW!SwitchOff
    <3> QED
      BY <3>1 DEF TW!Next
  <2> QED
    BY <2>1, <2>2
<1>3. CASE ReadSignal2 \/ ReadSignal3 \/ LeaveLoop
  BY <1>3 DEF ReadSignal2, ReadSignal3, LeaveLoop
<1>4. CASE EnterLoop
  BY <1>4 DEF EnterLoop, AtEnd, Unguarded, StartTurn, PulsesAtOnce, TW!Next,
     TW!Begin
<1>5. CASE Guard
  BY <1>5 DEF Guard, StartTurn, PulsesAtOnce, TW!Next, TW!Begin
<1>6. CASE EndLead
  BY <1>6 DEF EndLead
<1>7. CASE EndPulse
  BY <1>7 DEF EndPulse, TW!Next, TW!Finish
<1>8. CASE EndTrail
  BY <1>8 DEF EndTrail, Counted, TW!Next, TW!Finish
<1>9. CASE EndCounted
  BY <1>9 DEF EndCounted
<1>10. CASE EndSwitch
  BY <1>10 DEF EndSwitch, TW!Next, TW!Finish
<1>11. CASE new_deck_simulator_PWM_handler \/ Radio
  BY <1>11 DEF new_deck_simulator_PWM_handler, Radio
<1>12. CASE UNCHANGED vars
  BY <1>12
<1> QED
  BY <1>1, <1>2, <1>3, <1>4, <1>5, <1>6, <1>7, <1>8, <1>9, <1>10, <1>11,
     <1>12 DEF Next, new_deck_simulator_handler

(* With all its sleeps, brakes and early exits the deck behaves like a     *)
(* wheel that is turned by single notches while powered.                   *)
THEOREM DeckIsTapeWheel == Spec => IsTapeWheel
<1>1. Init => TW!Init
  BY InitRefines
<1>2. IInv /\ [Next]_vars => [TW!Next]_(TW!vars)
  BY NextRefines
<1> QED
  BY <1>1, <1>2, Invariance, PTL DEF Spec, IsTapeWheel, TW!Spec

------------------------------------------------------------------------------
(* The radio's count of optocoupler pulses. *)

(* In the middle of a turn the count is ahead of the wheel from the end of *)
(* the pulse on, or from the tape switch on.                               *)
RInv ==
  reckoned =
    IF pc = "trail" THEN state_wheel_position + (IF dir = "fwd" THEN 1 ELSE -1)
    ELSE IF pc = "switch" THEN OUT
    ELSE state_wheel_position

LEMMA NextRInv == IInv /\ IInv' /\ RInv /\ [RNext]_rvars => RInv'
<1> SUFFICES ASSUME IInv, IInv', RInv, [RNext]_rvars PROVE RInv'
  OBVIOUS
<1> USE DEF IInv, TypeOK, OptoTellsPosition, PoweredDownIsHomed, MidTurn, RInv,
        radio, outputs, power, vars, rvars, Reckon, PoweredDown, SwitchWorked,
        PulseEnded, Homed
<1>1. CASE Enabled /\ Reckon
  BY <1>1 DEF Enabled, FirstPassOn, OptoAtPowerOn, music_player_ON
<1>2. CASE Disabled /\ Reckon
  BY <1>2 DEF Disabled, music_player_OFF
<1>3. CASE (ReadSignal2 \/ ReadSignal3 \/ LeaveLoop) /\ Reckon
  BY <1>3 DEF ReadSignal2, ReadSignal3, LeaveLoop
<1>4. CASE EnterLoop /\ Reckon
  BY <1>4 DEF EnterLoop, StartTurn, PulsesAtOnce
<1>5. CASE Guard /\ Reckon
  BY <1>5 DEF Guard, StartTurn, PulsesAtOnce
<1>6. CASE EndLead /\ Reckon
  BY <1>6 DEF EndLead
<1>7. CASE EndPulse /\ Reckon
  <2>1. CASE dir = "back" /\ state_wheel_position = STOP
    BY <1>7, <2>1 DEF EndPulse
  <2>2. CASE dir = "fwd" /\ state_wheel_position = STOP
    BY <1>7, <2>2 DEF EndPulse
  <2>3. CASE state_wheel_position # STOP
    BY <1>7, <2>3 DEF EndPulse
  <2> QED
    BY <2>1, <2>2, <2>3
<1>8. CASE EndTrail /\ Reckon
  BY <1>8 DEF EndTrail, Counted
<1>9. CASE EndCounted /\ Reckon
  BY <1>9 DEF EndCounted
<1>10. CASE EndSwitch /\ Reckon
  BY <1>10 DEF EndSwitch
<1>11. CASE (new_deck_simulator_PWM_handler \/ Radio) /\ Reckon
  BY <1>11 DEF new_deck_simulator_PWM_handler, Radio
<1>12. CASE UNCHANGED rvars
  BY <1>12
<1> QED
  BY <1>1, <1>2, <1>3, <1>4, <1>5, <1>6, <1>7, <1>8, <1>9, <1>10, <1>11,
     <1>12 DEF RNext, Next, new_deck_simulator_handler

(* Counting pulses is enough to know where the wheel is.                   *)
THEOREM RadioIsRight == RSpec => []RadioReckonsRight
<1>1. RInit => IInv /\ RInv
  BY InitIInv DEF RInit, RInv, Init
<1>2. IInv /\ RInv /\ [RNext]_rvars => IInv' /\ RInv'
  <2>1. [RNext]_rvars => [Next]_vars
    BY DEF RNext, rvars
  <2> QED
    BY <2>1, NextIInv, NextRInv
<1>3. RInv => RadioReckonsRight
  BY DEF RInv, RadioReckonsRight
<1> QED
  BY <1>1, <1>2, <1>3, PTL DEF RSpec

------------------------------------------------------------------------------
(* The Worker takes nothing from the deck: what holds of the deck alone    *)
(* holds of the firmware, in which the kernel runs both threads.           *)
THEOREM FirmwareIsRight == FSpec => [](DeckTellsWheel /\ RadioReckonsRight)
<1>1. FInit => RInit
  BY DEF FInit
<1>2. [FNext]_fvars => [RNext]_rvars
  BY DEF FNext, fvars, DeckSimulatorThread, TimerOrRadio, WorkerThread, RNext, Next
<1>3. RSpec => Spec
  <2>1. RInit => Init
    BY DEF RInit
  <2>2. [RNext]_rvars => [Next]_vars
    BY DEF RNext, rvars
  <2> QED
    BY <2>1, <2>2, PTL DEF RSpec, Spec
<1> QED
  BY <1>1, <1>2, <1>3, OutputsCorrect, RadioIsRight, PTL DEF FSpec, RSpec

==============================================================================
