------------------------------ MODULE TapeWheel ------------------------------
(***************************************************************************)
(* What the car radio is promised by a cassette mechanism, whichever of    *)
(* the two simulators (NEW or OLD deck) stands behind the connector: a     *)
(* system-status wheel with six positions,                                 *)
(*                                                                         *)
(*    0 tape out, 1 stop, 2 side A, 3 <<, 4 >>, 5 side B,                  *)
(*                                                                         *)
(* that is turned one notch at a time, only while the deck is powered.     *)
(* A turn that was begun is always completed before the deck powers down,  *)
(* and powering down brings a loaded tape back to stop, without ever       *)
(* loading or ejecting it.                                                 *)
(***************************************************************************)
EXTENDS Integers

VARIABLES
  pos,      \* position of the wheel
  powered,  \* the deck has recognised the radio's Enable signal
  drive     \* "idle", or the direction of the turn that is under way

vars == <<pos, powered, drive>>

OUT    == 0
STOP   == 1
SIDE_B == 5

Position  == OUT .. SIDE_B
Direction == {"fwd", "back"}

(* The position one notch further in direction d. *)
Notch(d, p) == IF d = "fwd" THEN p + 1 ELSE p - 1

TypeOK ==
  /\ pos \in Position
  /\ powered \in BOOLEAN
  /\ drive \in Direction \cup {"idle"}

Init ==
  /\ pos = STOP
  /\ powered = FALSE
  /\ drive = "idle"

SwitchOn ==
  /\ ~powered
  /\ powered' = TRUE
  /\ UNCHANGED <<pos, drive>>

(* A loaded tape goes back to stop, a tape that is out stays out. *)
SwitchOff ==
  /\ powered
  /\ drive = "idle"
  /\ powered' = FALSE
  /\ pos' = IF pos = OUT THEN OUT ELSE STOP
  /\ UNCHANGED drive

Begin(d) ==
  /\ powered
  /\ drive = "idle"
  /\ Notch(d, pos) \in Position
  /\ drive' = d
  /\ UNCHANGED <<pos, powered>>

Finish ==
  /\ drive # "idle"
  /\ pos' = Notch(drive, pos)
  /\ drive' = "idle"
  /\ UNCHANGED powered

Next ==
  \/ SwitchOn
  \/ SwitchOff
  \/ \E d \in Direction : Begin(d)
  \/ Finish

Spec == Init /\ [][Next]_vars

(* A turn that was begun does not hang half way. *)
FairSpec == Spec /\ WF_vars(Finish)

==============================================================================
