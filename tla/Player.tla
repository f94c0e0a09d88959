------------------------------- MODULE Player --------------------------------
(***************************************************************************)
(* The buttons of the steering wheel other than NXT: SEEK makes the MP3    *)
(* player skip a song and is then imitated on the bus to stop the radio's  *)
(* own seek, CLR steps the player's equaliser, SET its repeat mode.        *)
(*                                                                         *)
(* The player answers nothing, so the firmware counts along: eq_state and  *)
(* repeat_state are its idea of the player's settings.  WorkerThread       *)
(* (worker) changes them as it reads a frame and raises a flag for the     *)
(* infrared key; DeckSimulatorThread (dpc) may preempt it between any two  *)
(* steps, sends the keys that are flagged, and switches the player on and  *)
(* off.                                                                    *)
(***************************************************************************)
EXTENDS Integers

CONSTANT Eqs    \* settings of the equaliser (4)

ASSUME EqsAssumption == Eqs \in Nat \ {0}

VARIABLES
  enableState,            \* the deck's sample of the radio's Enable line
  eq_state, repeat_state, \* the settings the firmware believes in
  IR_send_EQ_flag, IR_send_RPT_flag,
  send_flag,              \* [Side -> IR_send_NEXT_flag, IR_send_PREVIOUS_flag]
  pin_state,              \* [Side -> next_pin_state, prev_pin_state]
  reset_flag,             \* [Side -> CAN_reset_seek_right_flag, ..left_flag]
  worker,                 \* where the Worker is
  was,                    \* the setting it read, until it stores the next one
  dpc,                    \* "loop", or asleep in a "turn" of the deck
  eq, repeat,             \* the player's settings
  held,                   \* the SEEK button the radio takes for pressed
  wanted,                 \* [Side -> a press was taken and not yet flagged]
  eq_slip, repeat_slip,   \* a press got lost on its way to the player
  dropped                 \* the last frame of an imitated button was not sent

settings == <<eq_state, repeat_state, eq, repeat, eq_slip, repeat_slip>>
seek == <<pin_state, wanted>>
keys == <<IR_send_EQ_flag, IR_send_RPT_flag, send_flag>>
bus == <<reset_flag, held, dropped>>
playerVars == <<enableState, settings, seek, keys, bus, worker, was, dpc>>

Side == {"right", "left"}   \* SEEK_RIGHT: next, SEEK_LEFT: previous
Off == [s \in Side |-> 0]

(***************************************************************************)
(* Worker: "can" reads a frame, the "eq" and "rpt" points follow the test  *)
(* of enableState, the load of the setting and its store; "left" and       *)
(* "right" imitate the button, "mp3_right" and "mp3_left" handle the pins; *)
(* the others are asleep.                                                  *)
(***************************************************************************)
EqPoint  == {"eq", "eq_store", "eq_flag"}
RptPoint == {"rpt", "rpt_store", "rpt_flag"}
PlayerPoint ==
  EqPoint \cup RptPoint
    \cup {"can", "left", "left_held", "right", "right_held",
          "mp3_right", "mp3_right_sleep", "mp3_left", "mp3_left_sleep"}

PlayerInit ==
  /\ enableState = 0
  /\ eq_state = 1 /\ repeat_state = 0 /\ eq = 1 /\ repeat = 0
  /\ eq_slip = 0 /\ repeat_slip = 0
  /\ IR_send_EQ_flag = 0 /\ IR_send_RPT_flag = 0 /\ send_flag = Off
  /\ pin_state = Off /\ wanted = Off
  /\ reset_flag = Off /\ held = "none" /\ dropped = 0
  /\ worker = "can" /\ was = 0 /\ dpc = "loop"

NextEqPast(e) == IF e > Eqs THEN 1 ELSE e + 1   \* fault: one setting too many
NextEq(e) == IF e = Eqs THEN 1 ELSE e + 1

------------------------------------------------------------------------------
(* WorkerThread, CAN_message_handler: the frame *)

(* A frame says one button at most.  No frame, a frame without a button,   *)
(* or one that a switched off player does not care for:                    *)
NoButton ==
  /\ worker = "can"
  /\ worker' = "left"
  /\ UNCHANGED <<enableState, settings, seek, keys, bus, was, dpc>>

SeekButton(s) ==
  /\ worker = "can"
  /\ enableState = 1
  /\ pin_state' = [pin_state EXCEPT ![s] = 1]
  /\ wanted' = [wanted EXCEPT ![s] = 1]
  /\ worker' = "left"
  /\ UNCHANGED <<enableState, settings, keys, bus, was, dpc>>

(* CLR and SET: the beep is sent between the test of enableState and the   *)
(* load of the setting, and the SID text between its store and the flag.   *)
SettingButton ==
  /\ worker = "can"
  /\ enableState = 1
  /\ worker' \in {"eq", "rpt"}
  /\ UNCHANGED <<enableState, settings, seek, keys, bus, was, dpc>>

LoadSetting ==
  /\ \/ worker = "eq" /\ was' = eq_state /\ worker' = "eq_store"
     \/ worker = "rpt" /\ was' = repeat_state /\ worker' = "rpt_store"
  /\ UNCHANGED <<enableState, settings, seek, keys, bus, dpc>>

StoreEq ==
  /\ worker = "eq_store"
  /\ eq_state' = NextEq(was)
  /\ was' = 0
  /\ worker' = "eq_flag"
  /\ UNCHANGED <<enableState, repeat_state, eq, repeat, eq_slip, repeat_slip,
                 seek, keys, bus, dpc>>

StoreRepeat ==
  /\ worker = "rpt_store"
  /\ repeat_state' = 1 - was
  /\ was' = 0
  /\ worker' = "rpt_flag"
  /\ UNCHANGED <<enableState, eq_state, eq, repeat, eq_slip, repeat_slip,
                 seek, keys, bus, dpc>>

(* The flag holds one press: a second one before the key is sent is lost.  *)
IR_send_EQ ==
  /\ worker = "eq_flag"
  /\ IR_send_EQ_flag' = 1
  /\ eq_slip' = IF IR_send_EQ_flag = 1 THEN 1 ELSE eq_slip
  /\ worker' = "left"
  /\ UNCHANGED <<enableState, eq_state, repeat_state, eq, repeat, repeat_slip,
                 seek, IR_send_RPT_flag, send_flag, bus, was, dpc>>

IR_send_RPT ==
  /\ worker = "rpt_flag"
  /\ IR_send_RPT_flag' = 1
  /\ repeat_slip' = IF IR_send_RPT_flag = 1 THEN 1 ELSE repeat_slip
  /\ worker' = "left"
  /\ UNCHANGED <<enableState, eq_state, repeat_state, eq, repeat, eq_slip,
                 seek, IR_send_EQ_flag, send_flag, bus, was, dpc>>

------------------------------------------------------------------------------
(* WorkerThread, CAN_message_handler: the imitated button *)

(* sendMsgBuf gives no result: the frame may not be sent.                  *)
Send(h) ==
  \/ held' = h /\ dropped' = 0
  \/ dropped' = 1 /\ UNCHANGED held

stmp_seek1(s) == s        \* fault: the second frame says pressed as well
stmp_seek2(s) == "none"

After(s) == IF s = "left" THEN "right" ELSE "mp3_right"

PressSeek(s) ==
  /\ worker = s
  /\ reset_flag[s] = 1
  /\ Send(s)
  /\ worker' = IF s = "left" THEN "left_held" ELSE "right_held"
  /\ UNCHANGED <<enableState, settings, seek, keys, reset_flag, was, dpc>>

ReleaseSeek(s) ==
  /\ worker = IF s = "left" THEN "left_held" ELSE "right_held"
  /\ Send(stmp_seek2(s))
  /\ reset_flag' = [reset_flag EXCEPT ![s] = 0]
  /\ worker' = After(s)
  /\ UNCHANGED <<enableState, settings, seek, keys, was, dpc>>

NothingToReset(s) ==
  /\ worker = s
  /\ reset_flag[s] = 0
  /\ worker' = After(s)
  /\ UNCHANGED <<enableState, settings, seek, keys, bus, was, dpc>>

------------------------------------------------------------------------------
(* WorkerThread, mp3_handler *)

Handle(s) == IF s = "right" THEN "mp3_right" ELSE "mp3_left"
Asleep(s) == IF s = "right" THEN "mp3_right_sleep" ELSE "mp3_left_sleep"
Handled(s) == IF s = "right" THEN "mp3_left" ELSE "can"

IR_send(s) == [send_flag EXCEPT ![s] = 1]

FlagSeekKey(s) ==
  /\ worker = Handle(s)
  /\ pin_state[s] = 1
  /\ send_flag' = IR_send(s)
  /\ wanted' = [wanted EXCEPT ![s] = 0]
  /\ worker' = Asleep(s)
  /\ UNCHANGED <<enableState, settings, pin_state, IR_send_EQ_flag,
                 IR_send_RPT_flag, bus, was, dpc>>

KeepPin(s) == pin_state    \* fault: the pin is not reset
ResetPin(s) == [pin_state EXCEPT ![s] = 0]

CAN_reset_seek(s) == [reset_flag EXCEPT ![s] = 1]

(* After the sleep: nothing was read from the bus meanwhile.               *)
ResetSeek(s) ==
  /\ worker = Asleep(s)
  /\ pin_state' = ResetPin(s)
  /\ reset_flag' = CAN_reset_seek(s)
  /\ worker' = Handled(s)
  /\ UNCHANGED <<enableState, settings, wanted, keys, held, dropped, was, dpc>>

NoSeek(s) ==
  /\ worker = Handle(s)
  /\ pin_state[s] = 0
  /\ worker' = Handled(s)
  /\ UNCHANGED <<enableState, settings, seek, keys, bus, was, dpc>>

PlayerWorker ==
  \/ NoButton \/ SettingButton \/ LoadSetting
  \/ StoreEq \/ StoreRepeat \/ IR_send_EQ \/ IR_send_RPT
  \/ \E s \in Side :
       \/ SeekButton(s)
       \/ PressSeek(s) \/ ReleaseSeek(s) \/ NothingToReset(s)
       \/ FlagSeekKey(s) \/ ResetSeek(s) \/ NoSeek(s)

------------------------------------------------------------------------------
(* DeckSimulatorThread *)

(* ir_handler sends the keys that are flagged; only a player that is       *)
(* switched on hears them.                                                 *)
ir_handler ==
  /\ IR_send_EQ_flag' = 0 /\ IR_send_RPT_flag' = 0 /\ send_flag' = Off
  /\ eq' = IF enableState = 1 /\ IR_send_EQ_flag = 1 THEN NextEq(eq) ELSE eq
  /\ repeat' = IF enableState = 1 /\ IR_send_RPT_flag = 1 THEN 1 - repeat ELSE repeat

(* A pass of the deck's loop while Enable stays as it was: ir_handler runs *)
(* at once, or the thread first sleeps inside the turns of the deck.       *)
Pass ==
  /\ dpc = "loop"
  /\ ir_handler
  /\ UNCHANGED <<enableState, eq_state, repeat_state, eq_slip, repeat_slip,
                 seek, bus, worker, was, dpc>>

TurnBegins ==
  /\ dpc = "loop"
  /\ enableState = 1
  /\ dpc' = "turn"
  /\ UNCHANGED <<enableState, settings, seek, keys, bus, worker, was>>

TurnEnds ==
  /\ dpc = "turn"
  /\ ir_handler
  /\ dpc' = "loop"
  /\ UNCHANGED <<enableState, eq_state, repeat_state, eq_slip, repeat_slip,
                 seek, bus, worker, was>>

music_player_ON ==
  /\ dpc = "loop"
  /\ enableState = 0
  /\ enableState' = 1
  /\ UNCHANGED <<settings, seek, keys, bus, worker, was, dpc>>

ForgetSettings == eq_state' = 1 /\ repeat_state' = 0

(* The player forgets its settings and so does the firmware; the keys      *)
(* flagged for it are sent in vain.  The Worker may be half way through a  *)
(* press that began with the player still on.                              *)
music_player_OFF ==
  /\ dpc = "loop"
  /\ enableState = 1
  /\ enableState' = 0
  /\ ForgetSettings
  /\ eq' = 1 /\ repeat' = 0
  /\ eq_slip' = IF worker \in EqPoint THEN 1 ELSE 0
  /\ repeat_slip' = IF worker \in RptPoint THEN 1 ELSE 0
  /\ IR_send_EQ_flag' = 0 /\ IR_send_RPT_flag' = 0 /\ send_flag' = Off
  /\ UNCHANGED <<seek, bus, worker, was, dpc>>

DeckSimulatorThread ==
  Pass \/ TurnBegins \/ TurnEnds \/ music_player_ON \/ music_player_OFF

------------------------------------------------------------------------------
PlayerNext == PlayerWorker \/ DeckSimulatorThread

PlayerSpec == PlayerInit /\ [][PlayerNext]_playerVars

(* While the player is on both threads sleep again and again, so both get  *)
(* on; with the player off the NEW deck leaves the Worker no time at all.  *)
PlayerFairness ==
  /\ WF_playerVars(enableState = 1 /\ PlayerWorker)
  /\ WF_playerVars(Pass \/ TurnEnds)

PlayerFairSpec == PlayerSpec /\ PlayerFairness

------------------------------------------------------------------------------
SettingTypes ==
  /\ eq_state \in 1..Eqs /\ eq \in 1..Eqs /\ repeat_state \in 0..1 /\ repeat \in 0..1
  /\ eq_slip \in 0..1 /\ repeat_slip \in 0..1
KeyTypes ==
  /\ IR_send_EQ_flag \in 0..1 /\ IR_send_RPT_flag \in 0..1
  /\ send_flag \in [Side -> 0..1]
SeekTypes ==
  /\ pin_state \in [Side -> 0..1] /\ wanted \in [Side -> 0..1]
  /\ reset_flag \in [Side -> 0..1]
  /\ held \in Side \cup {"none"} /\ dropped \in 0..1
ThreadTypes ==
  /\ enableState \in 0..1
  /\ worker \in PlayerPoint /\ dpc \in {"loop", "turn"}
  /\ was \in 0..Eqs
  /\ worker = "eq_store" => was \in 1..Eqs
  /\ worker = "rpt_store" => was \in 0..1
PlayerTypeOK == SettingTypes /\ KeyTypes /\ SeekTypes /\ ThreadTypes

(* The equaliser and the repeat mode that the firmware believes in are the *)
(* player's, but for the key that is flagged and the press that is being   *)
(* handled: unless a press came while the one before it was still flagged, *)
(* or was half handled when the player was switched off.  Switching off    *)
(* with no press under way puts them in step again.                        *)
EqInStep ==
  eq_slip = 0 =>
    LET flagged == IF IR_send_EQ_flag = 1 THEN NextEq(eq) ELSE eq
    IN eq_state = IF worker = "eq_flag" THEN NextEq(flagged) ELSE flagged
RepeatInStep ==
  repeat_slip = 0 =>
    LET flagged == IF IR_send_RPT_flag = 1 THEN 1 - repeat ELSE repeat
    IN repeat_state = IF worker = "rpt_flag" THEN 1 - flagged ELSE flagged
InStep == EqInStep /\ RepeatInStep

(* The player never skips a song that nobody asked it to skip: each press  *)
(* is flagged once, although its pin stays set while mp3_handler sleeps.   *)
NoKeyUnasked ==
  [][\A s \in Side : worker = Handle(s) /\ worker' = Asleep(s) => wanted[s] = 1]_playerVars

(* The infrared keys that are flagged are those that were pressed, of the  *)
(* settings as of SEEK.                                                    *)
KeysMatchPresses == []InStep /\ NoKeyUnasked

(* A SEEK press is flagged for the player, unless that is switched off,    *)
(* and a key that is flagged is sent.                                      *)
SeekIsKeyed ==
  \A s \in Side :
    /\ (pin_state[s] = 1 /\ worker # Asleep(s)) ~> send_flag[s] = 1 \/ enableState = 0
    /\ send_flag[s] = 1 ~> send_flag[s] = 0

(* A SEEK press taken for the player is then imitated on the bus, which    *)
(* stops the radio's seek, unless the frame could not be sent.             *)
SeekIsStopped ==
  \A s \in Side : pin_state[s] = 1 ~> held = s \/ dropped = 1 \/ enableState = 0

(* The radio never takes an imitated button for held for ever.             *)
SeekIsReleased ==
  \A s \in Side : held = s ~> held # s \/ dropped = 1 \/ enableState = 0

(* A press of SEEK goes all its way: to the player, to the radio whose own *)
(* seek it stops, and to the release of the imitated button.               *)
SeekCompletes == SeekIsKeyed /\ SeekIsStopped /\ SeekIsReleased

==============================================================================
