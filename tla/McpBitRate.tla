------------------------------ MODULE McpBitRate ------------------------------
(***************************************************************************)
(* The bit rates of the CAN driver (mcp2515_configRate): the values of the *)
(* controller's CNF1, CNF2 and CNF3 for each rate that the driver knows.   *)
(* What the controller, with its clock of 16 MHz, makes of them is the     *)
(* reference they are checked against.                                     *)
(***************************************************************************)
EXTENDS Integers

Rates ==
  {
    [rate |-> 5000, cfg |-> <<\h3F, \hFF, \h87>>],
    [rate |-> 10000, cfg |-> <<\h1F, \hFF, \h87>>],
    [rate |-> 20000, cfg |-> <<\h0F, \hFF, \h87>>],
    [rate |-> 31250, cfg |-> <<\h0F, \hF1, \h85>>],
    [rate |-> 40000, cfg |-> <<\h06, \hFE, \h87>>],
    [rate |-> 47620, cfg |-> <<\h06, \hBE, \h07>>],
    [rate |-> 50000, cfg |-> <<\h07, \hFA, \h87>>],
    [rate |-> 80000, cfg |-> <<\h03, \hFF, \h87>>],
    [rate |-> 100000, cfg |-> <<\h03, \hFA, \h87>>],
    [rate |-> 125000, cfg |-> <<\h03, \hF0, \h86>>],
    [rate |-> 200000, cfg |-> <<\h01, \hFA, \h87>>],
    [rate |-> 250000, cfg |-> <<\h41, \hF1, \h85>>],
    [rate |-> 500000, cfg |-> <<\h00, \hF0, \h86>>],
    [rate |-> 1000000, cfg |-> <<\h00, \hD0, \h82>>]}

(* It fails for a rate it does not know, and sets nothing.                 *)
configRate(speed) == \E c \in Rates : c.rate = speed

------------------------------------------------------------------------------
(* A bit, in time quanta: one to synchronise, the propagation segment and  *)
(* two phase segments.  A quantum is 2 (BRP + 1) periods of the clock.     *)
BRP(c) == (c.cfg[1] % 64) + 1
SJW(c) == (c.cfg[1] \div 64) + 1
PRSEG(c) == (c.cfg[2] % 8) + 1
PHSEG1(c) == ((c.cfg[2] \div 8) % 8) + 1
PHSEG2(c) == (c.cfg[3] % 8) + 1
Quanta(c) == 1 + PRSEG(c) + PHSEG1(c) + PHSEG2(c)
BitRate(c) == 8000000 \div (BRP(c) * Quanta(c))

(* Every setting is one the controller can work with, with PHSEG2 as set.  *)
ASSUME SettingsAreLegal ==
  \A c \in Rates :
    /\ c.cfg[2] >= 128
    /\ Quanta(c) \in 5..25
    /\ PRSEG(c) + PHSEG1(c) >= PHSEG2(c) /\ PHSEG2(c) > SJW(c)

(* The rate that is asked for is the rate of the bus, but for 40 kBPS: its *)
(* values are those of 47.62 kBPS.                                         *)
ASSUME RatesAreRight ==
  \A c \in Rates : BitRate(c) - c.rate \in {-1, 0} \/ (c.rate = 40000 /\ BitRate(c) = 47619)

==============================================================================
