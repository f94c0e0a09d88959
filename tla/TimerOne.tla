------------------------------- MODULE TimerOne -------------------------------
(***************************************************************************)
(* The TimerOne library (TimerOne.cpp), for a 16 MHz processor: the choice *)
(* of prescaler and period, the starting and stopping of the clock and the *)
(* reading of the time.  The timer counts up to ICR1 and down again, and   *)
(* interrupts at the bottom.  Its PWM outputs are left out.                *)
(*                                                                         *)
(* The clock select bits of a register are a set.                          *)
(***************************************************************************)
EXTENDS Integers

CONSTANT Micros       \* the periods that are asked for, in microseconds

(* 8 cycles to half a microsecond up and down; a long has 32 bits, so 28   *)
(* are left for the microseconds.                                          *)
RESOLUTION == 65536
ASSUME TimerAssumption == Micros \subseteq 1..RESOLUTION * 4096 - 1

VARIABLES
  TCCR1B,             \* the clock select bits: none while the timer stands
  clockSelectBits,    \* those of the period, for resume()
  ICR1,               \* the top, pwmPeriod
  TOIE1,              \* the interrupt is enabled
  period              \* history: the period asked for last, 0 before

timerVars == <<TCCR1B, clockSelectBits, ICR1, TOIE1, period>>

(* From the fastest clock to the slowest: its bits, its prescaler.         *)
Clock ==
  <<[bits |-> {"CS10"}, scale |-> 1],
    [bits |-> {"CS11"}, scale |-> 8],
    [bits |-> {"CS10", "CS11"}, scale |-> 64],
    [bits |-> {"CS12"}, scale |-> 256],
    [bits |-> {"CS10", "CS12"}, scale |-> 1024]>>
ScaleOf(bits) == (CHOOSE c \in {Clock[i] : i \in 1..5} : c.bits = bits).scale

TimerInit ==
  /\ TCCR1B = {} /\ clockSelectBits = {} /\ ICR1 = 0 /\ TOIE1 = 0 /\ period = 0

------------------------------------------------------------------------------
KeepsClock == TCCR1B        \* fault: the bits are not cleared before
ClockCleared == {}

(* The fastest clock on which half the period fits the counter.            *)
setPeriod(us) ==
  /\ LET cycles == 8 * us
         fits == {i \in 1..5 : cycles \div Clock[i].scale < RESOLUTION}
         i == CHOOSE j \in fits : \A l \in fits : j <= l
     IN IF fits = {}
          THEN ICR1' = RESOLUTION - 1 /\ clockSelectBits' = Clock[5].bits
          ELSE /\ ICR1' = cycles \div Clock[i].scale
               /\ clockSelectBits' = Clock[i].bits
  /\ TCCR1B' = ClockCleared \cup clockSelectBits'
  /\ period' = us

(* initialize: the timer is stopped first.                                 *)
initialize(us) == setPeriod(us) /\ UNCHANGED TOIE1

resume ==
  /\ TCCR1B' = TCCR1B \cup clockSelectBits
  /\ UNCHANGED <<clockSelectBits, ICR1, TOIE1, period>>

(* With a period of 0 the old one stays.                                   *)
attachInterrupt(us) ==
  /\ TOIE1' = 1
  /\ IF us > 0 THEN setPeriod(us)
     ELSE TCCR1B' = TCCR1B \cup clockSelectBits /\ UNCHANGED <<clockSelectBits, ICR1, period>>

detachInterrupt == TOIE1' = 0 /\ UNCHANGED <<TCCR1B, clockSelectBits, ICR1, period>>

(* restart, start: the interrupt stays disabled.  On a timer that stands   *)
(* the call does not return.                                               *)
start == TCCR1B # {} /\ detachInterrupt

stop == TCCR1B' = {} /\ UNCHANGED <<clockSelectBits, ICR1, TOIE1, period>>

TimerCalls ==
  \/ \E us \in Micros : initialize(us) \/ (setPeriod(us) /\ UNCHANGED TOIE1)
  \/ \E us \in Micros \cup {0} : attachInterrupt(us)
  \/ detachInterrupt \/ resume \/ start \/ stop

------------------------------------------------------------------------------
(* TCNT1 at the nth tick since the bottom.                                 *)
TCNT1(n) == IF n % (2 * ICR1) <= ICR1 THEN n % (2 * ICR1) ELSE 2 * ICR1 - (n % (2 * ICR1))

(* read(): from two looks at the counter, one tick apart.                  *)
read(n) ==
  LET tmp == TCNT1(n)
      tcnt1 == TCNT1(n + 1)
      ticks == IF tcnt1 > tmp THEN tmp ELSE ICR1 - tcnt1 + ICR1
  IN ((ticks * 1000) \div 16000) * ScaleOf(clockSelectBits)

(* The clock runs with the bits of one prescaler, never with a mixture of  *)
(* two, and in whatever order the calls came its interrupts come with the  *)
(* period asked for last, too early by less than a tick up and one down,   *)
(* or with the longest there is.                                           *)
ClockRight ==
  TCCR1B # {} =>
    /\ \E i \in 1..5 : Clock[i].bits = TCCR1B
    /\ LET tick == ScaleOf(TCCR1B)
       IN \/ ICR1 * tick <= 8 * period /\ 8 * period < (ICR1 + 1) * tick
          \/ ICR1 = RESOLUTION - 1 /\ 8 * period >= RESOLUTION * 1024

(* The time read is that of one of the two looks, but for what is lost by  *)
(* dividing before the prescaler is multiplied in: up to its ticks in      *)
(* microseconds.  It never runs backwards within a period.                 *)
ReadRight ==
  TCCR1B # {} /\ ICR1 > 1 =>
    \A n \in {0, 1, 15, 16, ICR1 - 1, ICR1, ICR1 + 1, 2 * ICR1 - 2} \cap (0..2 * ICR1 - 2) :
      LET tick == ScaleOf(TCCR1B)
      IN /\ \E look \in {n, n + 1} :
              /\ 16 * read(n) <= look * tick
              /\ look * tick < 16 * (read(n) + tick)
         /\ n < 2 * ICR1 - 2 => read(n) <= read(n + 1)

TimerTypeOK == TOIE1 \in 0..1 /\ ICR1 \in 0..RESOLUTION - 1
TimerRight == TimerTypeOK /\ ClockRight /\ ReadRight

==============================================================================
