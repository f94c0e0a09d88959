---------------------------- MODULE OldDeckProofs ----------------------------
(***************************************************************************)
(* Proofs about the OLD deck, on one inductive invariant as for the NEW    *)
(* one: what holds between turns needs what holds within one.              *)
(***************************************************************************)
EXTENDS OldReckoning, TLAPS

IInv ==
  /\ TypeOK
  /\ EncoderFollowsWheel
  /\ PoweredDownIsHomed
  /\ MidTurn

USE DEF HIGH, LOW, Level, ENC_OFF, ENC_RUN, ENC_HOLD, Encoder, OUT, STOP, SIDE_A,
        SIDE_B, Position, Direction, Moving, Point, AtRest

(* The globals as they are initialised satisfy the invariant.              *)
LEMMA InitIInv == Init => IInv
BY DEF Init, IInv, TypeOK, EncoderFollowsWheel, PoweredDownIsHomed, MidTurn

(* Each step of the thread and of the radio keeps it.                      *)
LEMMA NextIInv == IInv /\ [Next]_vars => IInv'
<1> SUFFICES ASSUME IInv, [Next]_vars PROVE IInv'
  OBVIOUS
<1> USE DEF IInv, TypeOK, EncoderFollowsWheel, PoweredDownIsHomed, MidTurn,
        radio, outputs, power, vars
<1>1. CASE Enabled
  BY <1>1 DEF Enabled, ClearPowerOff, FirstPassOn, music_player_ON
<1>2. CASE Disabled
  BY <1>2 DEF Disabled, Homed, music_player_OFF
<1>3. CASE ReadSignal2 \/ ReadSignal3 \/ LeaveLoop
  BY <1>3 DEF ReadSignal2, ReadSignal3, LeaveLoop
<1>4. CASE EnterLoop
  BY <1>4 DEF EnterLoop, AtEnd, Unguarded, StartTurn, StartEncoder, PulsesAtOnce
<1>5. CASE Guard
  BY <1>5 DEF Guard, StartTurn, StartEncoder, PulsesAtOnce
<1>6. CASE EndLead
  BY <1>6 DEF EndLead
<1>7. CASE EndPulse
  BY <1>7 DEF EndPulse
<1>8. CASE EndTrail
  <2>1. CASE dir = "fwd"
    BY <1>8, <2>1 DEF EndTrail, Counted
  <2>2. CASE dir = "back"
    BY <1>8, <2>2 DEF EndTrail, Counted
  <2> QED
    BY <2>1, <2>2
<1>9. CASE EndCounted
  BY <1>9 DEF EndCounted
<1>10. CASE EndSwitch
  BY <1>10 DEF EndSwitch
<1>11. CASE Radio
  BY <1>11 DEF Radio
<1>12. CASE UNCHANGED vars
  BY <1>12
<1> QED
  BY <1>1, <1>2, <1>3, <1>4, <1>5, <1>6, <1>7, <1>8, <1>9, <1>10, <1>11, <1>12
     DEF Next, old_deck_simulator_handler

LEMMA Invariance == Spec => []IInv
BY InitIInv, NextIInv, PTL DEF Spec

(* Every variable keeps its type: the wheel never leaves its positions.    *)
THEOREM TypeCorrect == Spec => []TypeOK
<1>1. IInv => TypeOK
  BY DEF IInv
<1> QED
  BY <1>1, Invariance, PTL

(* The encoder runs from << on and is held while the tape is at rest.      *)
THEOREM EncoderCorrect == Spec => []EncoderFollowsWheel
<1>1. IInv => EncoderFollowsWheel
  BY DEF IInv
<1> QED
  BY <1>1, Invariance, PTL

(* A deck without power is homed and its player is off.                    *)
THEOREM PowerCorrect == Spec => []PoweredDownIsHomed
<1>1. IInv => PoweredDownIsHomed
  BY DEF IInv
<1> QED
  BY <1>1, Invariance, PTL

(* Within a turn encoder, optocoupler and tape switch are in phase.        *)
THEOREM MidTurnCorrect == Spec => []MidTurn
<1>1. IInv => MidTurn
  BY DEF IInv
<1> QED
  BY <1>1, Invariance, PTL

(* Whatever the radio does and whenever, the outputs tell where the wheel  *)
(* is, between turns and in the middle of one.                             *)
THEOREM OutputsCorrect == Spec => []DeckTellsWheel
<1>1. IInv => DeckTellsWheel
  BY DEF IInv, DeckTellsWheel
<1> QED
  BY <1>1, Invariance, PTL

------------------------------------------------------------------------------
(* The deck implements the abstract tape wheel. *)

LEMMA InitRefines == Init => TW!Init
BY DEF Init, TW!Init, TW!STOP

(* The guards and the start of a turn begin it, the last sleep finishes    *)
(* it, a first pass switches the power; all other steps leave the wheel.   *)
LEMMA NextRefines == IInv /\ [Next]_vars => [TW!Next]_(TW!vars)
<1> SUFFICES ASSUME IInv, [Next]_vars PROVE [TW!Next]_(TW!vars)
  OBVIOUS
<1> USE DEF IInv, TypeOK, PoweredDownIsHomed, MidTurn, radio, outputs, power,
        vars, TW!vars, TW!Position, TW!Direction, TW!OUT, TW!STOP, TW!SIDE_B,
        TW!Notch
<1>1. CASE Enabled
  BY <1>1 DEF Enabled, FirstPassOn, TW!Next, TW!SwitchOn
<1>2. CASE Disabled
  <2>1. CASE power_on = 0
    BY <1>2, <2>1 DEF Disabled, Homed
  <2>2. CASE power_on = 1
    <3>1. TW!SwitchOff
      BY <1>2, <2>2 DEF Disabled, Homed, TW!SwitchOff
    <3> QED
      BY <3>1 DEF TW!Next
  <2> QED
    BY <2>1, <2>2
<1>3. CASE ReadSignal2 \/ ReadSignal3 \/ LeaveLoop
  BY <1>3 DEF ReadSignal2, ReadSignal3, LeaveLoop
<1>4. CASE EnterLoop
  BY <1>4 DEF EnterLoop, AtEnd, Unguarded, StartTurn, PulsesAtOnce, TW!Next,
     TW!Begin
<1>5. CASE Guard
  BY <1>5 DEF Guard, StartTurn, PulsesAtOnce, TW!Next, TW!Begin
<1>6. CASE EndLead
  BY <1>6 DEF EndLead
<1>7. CASE EndPulse
  BY <1>7 DEF EndPulse, TW!Next, TW!Finish
<1>8. CASE EndTrail
  BY <1>8 DEF EndTrail, Counted, TW!Next, TW!Finish
<1>9. CASE EndCounted
  BY <1>9 DEF EndCounted
<1>10. CASE EndSwitch
  BY <1>10 DEF EndSwitch, TW!Next, TW!Finish
<1>11. CASE Radio
  BY <1>11 DEF Radio
<1>12. CASE UNCHANGED vars
  BY <1>12
<1> QED
  BY <1>1, <1>2, <1>3, <1>4, <1>5, <1>6, <1>7, <1>8, <1>9, <1>10, <1>11, <1>12
     DEF Next, old_deck_simulator_handler

(* The OLD deck behaves like the same wheel as the NEW one.                *)
THEOREM DeckIsTapeWheel == Spec => IsTapeWheel
BY InitRefines, NextRefines, Invariance, PTL DEF Spec, IsTapeWheel, TW!Spec

------------------------------------------------------------------------------
(* The radio's count of optocoupler pulses. *)

(* In the middle of a turn the count is ahead of the wheel from the end of *)
(* the pulse on.                                                           *)
RInv ==
  reckoned = IF pc \in {"trail", "switch"} THEN Counted(dir, state_wheel_position)
             ELSE state_wheel_position

LEMMA NextRInv == IInv /\ IInv' /\ RInv /\ [RNext]_rvars => RInv'
<1> SUFFICES ASSUME IInv, IInv', RInv, [RNext]_rvars PROVE RInv'
  OBVIOUS
<1> USE DEF IInv, TypeOK, PoweredDownIsHomed, MidTurn, RInv, radio, outputs, power,
        vars, rvars, Reckon, PoweredDown, PulseEnded, Homed, Counted
<1>1. CASE Enabled /\ Reckon
  BY <1>1 DEF Enabled, FirstPassOn, music_player_ON
<1>2. CASE Disabled /\ Reckon
  BY <1>2 DEF Disabled, music_player_OFF
<1>3. CASE (ReadSignal2 \/ ReadSignal3 \/ LeaveLoop) /\ Reckon
  BY <1>3 DEF ReadSignal2, ReadSignal3, LeaveLoop
<1>4. CASE EnterLoop /\ Reckon
  BY <1>4 DEF EnterLoop, StartTurn, PulsesAtOnce
<1>5. CASE Guard /\ Reckon
  BY <1>5 DEF Guard, StartTurn, PulsesAtOnce
<1>6. CASE EndLead /\ Reckon
  BY <1>6 DEF EndLead
<1>7. CASE EndPulse /\ Reckon
  <2>1. /\ reckoned' = reckoned + (IF dir = "fwd" THEN 1 ELSE -1)
        /\ reckoned = state_wheel_position
    BY <1>7 DEF EndPulse
  <2>2. CASE dir = "fwd" /\ state_wheel_position = STOP
    BY <1>7, <2>1, <2>2 DEF EndPulse
  <2>3. CASE ~(dir = "fwd" /\ state_wheel_position = STOP)
    BY <1>7, <2>1, <2>3 DEF EndPulse
  <2> QED
    BY <2>2, <2>3
<1>8. CASE EndTrail /\ Reckon
  BY <1>8 DEF EndTrail
<1>9. CASE EndCounted /\ Reckon
  BY <1>9 DEF EndCounted
<1>10. CASE EndSwitch /\ Reckon
  BY <1>10 DEF EndSwitch
<1>11. CASE Radio /\ Reckon
  BY <1>11 DEF Radio
<1>12. CASE UNCHANGED rvars
  BY <1>12
<1> QED
  BY <1>1, <1>2, <1>3, <1>4, <1>5, <1>6, <1>7, <1>8, <1>9, <1>10, <1>11, <1>12
     DEF RNext, Next, old_deck_simulator_handler

(* Counting pulses is enough to know where the wheel is.                   *)
THEOREM RadioIsRight == RSpec => []RadioReckonsRight
<1>1. RInit => IInv /\ RInv
  BY InitIInv DEF RInit, RInv, Init
<1>2. IInv /\ RInv /\ [RNext]_rvars => IInv' /\ RInv'
  <2>1. [RNext]_rvars => [Next]_vars
    BY DEF RNext, rvars
  <2> QED
    BY <2>1, NextIInv, NextRInv
<1>3. IInv /\ RInv => RadioReckonsRight
  BY DEF IInv, TypeOK, MidTurn, RInv, Counted, RadioReckonsRight
<1> QED
  BY <1>1, <1>2, <1>3, PTL DEF RSpec

==============================================================================
