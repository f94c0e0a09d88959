---------------------------- MODULE DeckReckoning ----------------------------
(***************************************************************************)
(* The NEW deck seen from the radio's end of the cable.  The radio cannot  *)
(* see the wheel: it counts the pulses of the status motor optocoupler     *)
(* (N_Signal4) in the direction it drove the motor, and the tape switch    *)
(* tells it that the tape was ejected.  reckoned is that count, a history  *)
(* variable that only watches the deck's outputs.                          *)
(***************************************************************************)
EXTENDS NewDeck

VARIABLE reckoned   \* where the radio believes the wheel to be

rvars == <<vars, reckoned>>

RInit == Init /\ reckoned = STOP

(* When it takes the power away the radio takes a loaded tape for stopped. *)
PoweredDown == player_power_pin = LOW /\ player_power_pin' = HIGH
SwitchWorked == tape_inserted_status = HIGH /\ tape_inserted_status' = LOW

(* The optocoupler is free again after a pulse, or after loading; the edge *)
(* that comes with power on is not one.                                    *)
PulseEnded ==
  /\ signal4 = HIGH /\ signal4' = LOW
  /\ player_power_pin = LOW /\ player_power_pin' = LOW

Reckon ==
  reckoned' =
    IF PoweredDown THEN IF reckoned = OUT THEN OUT ELSE STOP
    ELSE IF SwitchWorked THEN OUT
    ELSE IF PulseEnded THEN reckoned + (IF dir = "fwd" THEN 1 ELSE -1)
    ELSE reckoned

RNext == Next /\ Reckon

RSpec == RInit /\ [][RNext]_rvars

(* The count follows every step and hinders none: the deck is as fair.     *)
RFairSpec == RSpec /\ Fairness

(* Whatever the radio did with its lines, through reversals, brakes, power *)
(* cycles and ejects, its count of pulses agrees with the simulated wheel  *)
(* whenever no turn is under way: the radio never plays the wrong side.    *)
RadioReckonsRight ==
  AtRest => reckoned = state_wheel_position

==============================================================================
