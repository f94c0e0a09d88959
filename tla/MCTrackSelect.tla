---------------------------- MODULE MCTrackSelect ----------------------------
(***************************************************************************)
(* TrackSelect for TLC: binary digits, two songs per press, and times that *)
(* keep the order of the thresholds in the code:                           *)
(*   MinPress < ReStamp, Settle < LongPress < Busy.                        *)
(***************************************************************************)
EXTENDS TrackSelect, FiniteSets

(* The division loop of countDigits in IR_subsystem.ino, as a reference.   *)
DigitLoop[n \in Nat] == IF n = 0 THEN 0 ELSE 1 + DigitLoop[n \div Radix]

ASSUME LengthAgrees ==
  \A n \in 1..(2 * Radix^MaxDigits) :
    countDigits(n) = {DigitLoop[n]} \cap 1..MaxDigits

==============================================================================
