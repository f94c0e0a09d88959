------------------------------ MODULE Firmware -------------------------------
(***************************************************************************)
(* The two threads of the firmware with the NEW deck, and the kernel's     *)
(* rule between them: DeckSimulatorThread has the higher priority, so      *)
(* WorkerThread (CAN_message_handler, mp3_handler, SID_CAN_text_handler)   *)
(* runs only while the deck thread is asleep.                              *)
(* The radio counts the pulses as in DeckReckoning.                        *)
(*                                                                         *)
(* The two sleeps of ir_handler are left out: they come once at the end of *)
(* a selection, and only the Worker can start another one.                 *)
(***************************************************************************)
EXTENDS DeckReckoning

VARIABLES
  asleep,   \* 1 while the deck thread is in chThdSleepMilliseconds
  pass      \* flips with every pass of the Worker's loop

fvars == <<rvars, asleep, pass>>

FInit == RInit /\ asleep = 0 /\ pass = 0

NoSettle(from, to) == to \in Moving \cup {"counted"}  \* fault: passes do not sleep

(* The steps of the deck thread that end in a sleep.                       *)
FallsAsleep(from, to) ==
  \/ to \in Moving \cup {"settle", "counted"}
  \/ to = "loop" /\ from \in {"settle", "back?"}

(* The sleep ends with the system tick; the thread then runs at once.      *)
DeckSimulatorThread ==
  /\ new_deck_simulator_handler
  /\ asleep' = IF FallsAsleep(pc, pc') THEN 1 ELSE 0
  /\ UNCHANGED pass

TimerOrRadio ==
  /\ new_deck_simulator_PWM_handler \/ Radio
  /\ UNCHANGED <<asleep, pass>>

WorkerThread ==
  /\ asleep = 1
  /\ pass' = 1 - pass
  /\ UNCHANGED <<rvars, asleep>>

FNext ==
  \/ (DeckSimulatorThread \/ TimerOrRadio) /\ Reckon
  \/ WorkerThread

(* The Worker gets on in sleeps of 30 ms and more, so it runs again and    *)
(* again if the deck thread sleeps again and again.                        *)
FSpec ==
  /\ FInit /\ [][FNext]_fvars
  /\ Fairness
  /\ SF_fvars(WorkerThread)

------------------------------------------------------------------------------
(* The Worker's handlers are called regularly, whatever the radio does.    *)
WorkerRuns == []<>(pass = 0) /\ []<>(pass = 1)

(* They are, except while the deck stays without power, or while the       *)
(* status motor is held on although the wheel is at its end.               *)
WorkerRunsUnlessSpinning ==
  \/ WorkerRuns
  \/ <>[](power_on = 0)
  \/ <>[](pc = "loop" /\ AtEnd(dir, state_wheel_position))

==============================================================================
