---------------------------- MODULE OldReckoning -----------------------------
(***************************************************************************)
(* The OLD deck seen from the radio's end of the cable.  As in             *)
(* DeckReckoning the radio counts optocoupler pulses in the direction it   *)
(* drove the motor, here the LOW ones; the tape switch that goes with an   *)
(* eject tells it nothing that the last pulse had not told.                *)
(***************************************************************************)
EXTENDS OldDeck

VARIABLE reckoned   \* where the radio believes the wheel to be

rvars == <<vars, reckoned>>

RInit == Init /\ reckoned = STOP

(* When it takes the power away the radio takes a loaded tape for stopped. *)
PoweredDown == player_power_pin = LOW /\ player_power_pin' = HIGH
PulseEnded == signal4 = LOW /\ signal4' = HIGH

Reckon ==
  reckoned' =
    IF PoweredDown THEN IF reckoned = OUT THEN OUT ELSE STOP
    ELSE IF PulseEnded THEN reckoned + (IF dir = "fwd" THEN 1 ELSE -1)
    ELSE reckoned

RNext == Next /\ Reckon

RSpec == RInit /\ [][RNext]_rvars

(* The count follows every step and hinders none: the deck is as fair.     *)
RFairSpec == RSpec /\ Fairness

(* Whatever the radio did with its lines, its count of pulses agrees with  *)
(* the simulated wheel whenever no turn is under way, and whenever the     *)
(* tape switch works the count has come to tape out.                       *)
RadioReckonsRight ==
  /\ AtRest => reckoned = state_wheel_position
  /\ tape_inserted_status = HIGH => reckoned = OUT

==============================================================================
