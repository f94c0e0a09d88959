----------------------------- MODULE TrackSelect -----------------------------
(***************************************************************************)
(* Selecting a song with the NXT button: from the steering wheel frames    *)
(* that CAN_message_handler reads, through mp3_handler, to the number that *)
(* ir_handler keys into the MP3 player and shows on the SID, and the       *)
(* muting of the player meanwhile.                                         *)
(*                                                                         *)
(* Two threads share it without a lock.  WorkerThread (wpc) may be         *)
(* preempted between any two stores by DeckSimulatorThread (dpc), which    *)
(* has the higher priority and so runs ir_handler in one piece, except for *)
(* the sleeps of IR_send_MUTE.  Stores wider than a byte are torn by the   *)
(* preemption: track_number has two bytes, last_nxt_press_time four.       *)
(*                                                                         *)
(* Times are kept as ages, millis() minus the variable, that Tick lets     *)
(* grow and that stop growing once they exceed every threshold they are    *)
(* compared with.                                                          *)
(***************************************************************************)
EXTENDS Integers, Sequences

CONSTANTS
  Radix,      \* base of the numbers that are keyed in (10)
  Skip,       \* songs per press (10)
  MaxDigits,  \* length of digits_buf (3)
  ByteBase,   \* values of one byte of an int (256)
  MinPress, ReStamp, LongPress,  \* mp3_handler's times (2, 500, 1000 ms)
  Settle, DigitGap, Busy,        \* ir_handler's times (800, 50, 2500 ms)
  MaxTrack,   \* bound: no press is made once tr is larger
  User        \* "any", "patient" or "careful", see MayPress and MayRelease

ASSUME NumberAssumption ==
  /\ Radix \in Nat \ {0, 1} /\ MaxDigits \in Nat \ {0}
  /\ Skip \in Nat \ {0, 1}
  /\ ByteBase \in Nat \ {0, 1}
  /\ MaxTrack \in Nat

ASSUME TimeAssumption ==
  /\ MinPress \in Nat /\ ReStamp \in Nat /\ LongPress \in Nat
  /\ Settle \in Nat /\ DigitGap \in Nat /\ Busy \in Nat
  /\ MinPress <= LongPress /\ ReStamp <= LongPress /\ DigitGap <= Busy

ASSUME UserAssumption == User \in {"any", "patient", "careful"}

VARIABLES
  \* shared
  enableState,          \* the deck's sample of the radio's Enable line
  mute,                 \* a MUTE was sent for the button press under way
  nxt_flag,             \* a selection is pending
  track_number,         \* the song to select
  settle,               \* millis() - last_nxt_press_time
  \* WorkerThread
  wpc,                  \* where the Worker is
  release,              \* the release it handles: "short" or "long"
  src_long, previous,   \* NXT in the last frame, in the last mp3_handler
  hold,                 \* millis() - firstTime
  tr,                   \* the song the next press selects (1 after a long one)
  \* DeckSimulatorThread
  dpc,                  \* where it is
  track_on_ir,          \* the song being keyed in
  track_on_ir_last,     \* the song keyed in last
  ir_flag_first,        \* a song is being keyed in
  ir_digit_flag_first,  \* digits sent
  digits, digits_buf,   \* its digits
  gap,                  \* millis() - last_IR_packet_time
  \* the player, the SID and the user
  sound,                \* "on" or "muted": each MUTE toggles the player; or
                        \* "unknown": the frame of one was broken
  keyed,                \* digits sent in this selection
  shown,                \* digits last given to the SID
  playing,              \* "one" if the player plays song 1, else "other"
  due,                  \* the song last asked for and not yet begun, or 0
  torn,                 \* the song whose number the last selection took half
                        \* stored, or 0
  mixed                 \* 1 once a selection did

worker == <<wpc, release, src_long, previous, hold, tr>>
dial == <<track_on_ir, track_on_ir_last, ir_flag_first, ir_digit_flag_first,
          digits, digits_buf, gap, keyed, shown, playing, torn, mixed>>
vars == <<enableState, mute, nxt_flag, track_number, settle, worker, dpc, dial,
          sound, due>>

(***************************************************************************)
(* Worker: "can" reads a frame, "mute1" and "mute2" are the sleeps around  *)
(* "frame", its MUTE on the infrared link, "mp3" is mp3_handler, "store"   *)
(* and "store2" come before the first and the second byte of track_number  *)
(* is stored, "stamp" before last_nxt_press_time is, and "flag" before the *)
(* last nxt_flag = 1.                                                      *)
(* Deck: "idle" covers all of its loop but the sleeps of IR_send_MUTE.     *)
(***************************************************************************)
WorkerPoint ==
  {"can", "mute1", "frame", "mute2", "mp3", "store", "store2", "stamp", "flag"}
DeckPoint   == {"idle", "mute1", "mute2"}

(* Globals without an initialiser are zero, and so is millis().            *)
Init ==
  /\ enableState = 0
  /\ mute = 0 /\ nxt_flag = 0 /\ track_number = 0 /\ settle = 0
  /\ wpc = "can" /\ release = "long"
  /\ src_long = 0 /\ previous = 0 /\ hold = 0 /\ tr = 1
  /\ dpc = "idle"
  /\ track_on_ir = 0 /\ track_on_ir_last = 0
  /\ ir_flag_first = 0 /\ ir_digit_flag_first = 0
  /\ digits = 0 /\ digits_buf = [i \in 1..MaxDigits |-> 0] /\ gap = 0
  /\ sound = "on" /\ keyed = <<>> /\ shown = <<>>
  /\ playing = "other" /\ due = 0 /\ torn = 0 /\ mixed = 0

------------------------------------------------------------------------------
(* The user and the player *)

(* Nothing is left to be done for the presses made so far.                 *)
Quiet ==
  /\ wpc = "can" /\ dpc = "idle"
  /\ src_long = 0 /\ previous = 0
  /\ nxt_flag = 0 /\ ir_flag_first = 0

(* Any user may press at any time.  A patient one waits until the last     *)
(* selection is complete, presses only with the deck enabled and longer    *)
(* than the contact bounces.  A careful one, moreover, does not ask for    *)
(* song 1 when that was the last song selected.                            *)
MayPress ==
  /\ tr <= MaxTrack
  /\ User # "any" => enableState = 1 /\ (src_long = 1 \/ Quiet)
MayRelease ==
  /\ User # "any" /\ src_long = 1 => hold > MinPress
  /\ User = "careful" /\ src_long = 1 /\ hold > LongPress => track_on_ir_last # 1
MaySwitch == User # "any" => Quiet

(* A MUTE toggles the player; one without power is never muted.            *)
Toggle == [on |-> "muted", muted |-> "on", unknown |-> "unknown"]
Toggled == IF enableState = 1 THEN Toggle[sound] ELSE "on"

(* IR_send_MUTE of the Worker begins with interrupts disabled, but enters  *)
(* its frame with them enabled, by the switch back from its sleep.  What   *)
(* the deck thread does then stretches the frame or falls between its bits,*)
(* and whether the player still takes it for a MUTE nobody knows.          *)
Broken(s) == IF wpc = "frame" THEN "unknown" ELSE s

------------------------------------------------------------------------------
(* WorkerThread, CAN_message_handler *)

EveryFrame == TRUE        \* fault: each frame of a press toggles the mute
FirstFrame == mute = 0

(* A frame that says NXT: the first one of a press mutes the player.       *)
PressFrame ==
  /\ wpc = "can"
  /\ MayPress
  /\ src_long' = IF enableState = 1 THEN 1 ELSE src_long
  /\ \/ FirstFrame /\ mute' = 1 /\ wpc' = "mute1"
     \/ ~FirstFrame /\ wpc' = "mp3" /\ UNCHANGED mute
  /\ UNCHANGED <<enableState, nxt_flag, track_number, settle, release, previous,
                 hold, tr, dpc, dial, sound, due>>

(* Any other frame with the id of the buttons.                             *)
ReleaseFrame ==
  /\ wpc = "can"
  /\ MayRelease
  /\ src_long' = IF enableState = 1 THEN 0 ELSE src_long
  /\ wpc' = "mp3"
  /\ UNCHANGED <<enableState, mute, nxt_flag, track_number, settle, release,
                 previous, hold, tr, dpc, dial, sound, due>>

NoFrame ==
  /\ wpc = "can"
  /\ wpc' = "mp3"
  /\ UNCHANGED <<enableState, mute, nxt_flag, track_number, settle, release,
                 src_long, previous, hold, tr, dpc, dial, sound, due>>

WorkerMute ==
  /\ \/ wpc = "mute1" /\ wpc' = "frame" /\ UNCHANGED sound
     \/ wpc = "frame" /\ wpc' = "mute2" /\ sound' = Toggled
     \/ wpc = "mute2" /\ wpc' = "mp3" /\ UNCHANGED sound
  /\ UNCHANGED <<enableState, mute, nxt_flag, track_number, settle, release,
                 src_long, previous, hold, tr, dpc, dial, due>>

------------------------------------------------------------------------------
(* WorkerThread, mp3_handler *)

(* No release: remember when the press began, unless it comes so soon      *)
(* after the last one that it is taken for the same.                       *)
NoRelease ==
  /\ wpc = "mp3"
  /\ ~(src_long = 0 /\ previous = 1 /\ hold > MinPress)
  /\ hold' = IF src_long = 1 /\ previous = 0 /\ hold > ReStamp THEN 0 ELSE hold
  /\ previous' = src_long
  /\ wpc' = "can"
  /\ UNCHANGED <<enableState, mute, nxt_flag, track_number, settle, release,
                 src_long, tr, dpc, dial, sound, due>>

(* After a long press: back to song 1, and the player counts as not muted. *)
(* Nothing is due when song 1 was selected and is still playing.           *)
ReleaseLong ==
  /\ wpc = "mp3"
  /\ src_long = 0 /\ previous = 1 /\ hold > LongPress
  /\ mute' = 0
  /\ tr' = 1
  /\ due' = IF playing = "one" /\ track_on_ir_last = 1 /\ ir_flag_first = 0 THEN 0 ELSE 1
  /\ release' = "long"
  /\ previous' = src_long
  /\ wpc' = "store"
  /\ UNCHANGED <<enableState, nxt_flag, track_number, settle, src_long, hold,
                 dpc, dial, sound>>

SameSong == tr             \* fault: the first press does not leave song 1
NextSong == IF tr = 1 THEN Skip ELSE tr

(* After a short press.  nxt_flag is set before there is a new number.     *)
ReleaseShort ==
  /\ wpc = "mp3"
  /\ src_long = 0 /\ previous = 1
  /\ hold > MinPress /\ hold <= LongPress
  /\ nxt_flag' = 1
  /\ tr' = NextSong /\ due' = tr'
  /\ release' = "short"
  /\ previous' = src_long
  /\ wpc' = "store"
  /\ UNCHANGED <<enableState, mute, track_number, settle, src_long, hold, dpc,
                 dial, sound>>

(* The value between the two byte stores; their order is the compiler's.   *)
Torn(old, new) ==
  { ((new \div ByteBase) * ByteBase) + (old % ByteBase),
    ((old \div ByteBase) * ByteBase) + (new % ByteBase) }

LaterTrack == tr + Skip     \* fault: stored after tr is moved on
NewTrack == tr

StoreByte ==
  /\ wpc = "store"
  /\ track_number' \in Torn(track_number, NewTrack)
  /\ wpc' = "store2"
  /\ UNCHANGED <<enableState, mute, nxt_flag, settle, release, src_long, previous,
                 hold, tr, dpc, dial, sound, due>>

StoreRest ==
  /\ wpc = "store2"
  /\ track_number' = NewTrack
  /\ tr' = IF release = "short" THEN tr + Skip ELSE tr
  /\ wpc' = IF release = "short" THEN "stamp" ELSE "flag"
  /\ UNCHANGED <<enableState, mute, nxt_flag, settle, release, src_long, previous,
                 hold, dpc, dial, sound, due>>

Stamp ==
  /\ wpc = "stamp"
  /\ settle' = 0
  /\ wpc' = IF release = "short" THEN "flag" ELSE "can"
  /\ UNCHANGED <<enableState, mute, nxt_flag, track_number, release, src_long,
                 previous, hold, tr, dpc, dial, sound, due>>

SetFlag ==
  /\ wpc = "flag"
  /\ nxt_flag' = 1
  /\ wpc' = IF release = "short" THEN "can" ELSE "stamp"
  /\ UNCHANGED <<enableState, mute, track_number, settle, release, src_long,
                 previous, hold, tr, dpc, dial, sound, due>>

mp3_handler ==
  NoRelease \/ ReleaseLong \/ ReleaseShort
  \/ StoreByte \/ StoreRest \/ Stamp \/ SetFlag

------------------------------------------------------------------------------
(* DeckSimulatorThread, ir_handler *)

(* The answers ir_handler may get when it asks whether the last press has  *)
(* settled.  While the Worker stores the time of a press, any.             *)
SettledRead == IF wpc = "stamp" THEN BOOLEAN ELSE {settle > Settle}

DropFlag(settled) == nxt_flag' = 0  \* fault: a press is forgotten while it settles

(* A pending selection is consumed even when it cannot be begun.           *)
ConsumeFlag(settled) == nxt_flag' = IF settled THEN 0 ELSE nxt_flag

MayBegin(settled) ==
  /\ nxt_flag = 1 /\ settled
  /\ ir_flag_first = 0
  /\ track_on_ir_last # track_number
  /\ track_number # 0

Power[i \in 0..MaxDigits] == IF i = 0 THEN 1 ELSE Radix * Power[i - 1]

(* The lengths a positive number has that fit in digits_buf: one or none.  *)
countDigits(n) == {c \in 1..MaxDigits : Power[c - 1] <= n /\ n < Power[c]}

\* fault: the remainder is not taken
SplitUnreduced(n, c) ==
  [i \in 1..MaxDigits |-> IF i <= c THEN n \div Power[c - i] ELSE digits_buf[i]]

\* fault: the least significant digit comes first
SplitReversed(n, c) ==
  [i \in 1..MaxDigits |->
     IF i <= c THEN (n \div Power[i - 1]) % Radix ELSE digits_buf[i]]

(* digits_buf keeps what it held beyond the number's own digits.           *)
Split(n, c) ==
  [i \in 1..MaxDigits |->
     IF i <= c THEN (n \div Power[c - i]) % Radix ELSE digits_buf[i]]

(* A number too long for digits_buf leaves the digits of the last one.     *)
TakeNumber(n) ==
  \/ \E c \in countDigits(n) : digits' = c /\ digits_buf' = Split(n, c)
  \/ countDigits(n) = {} /\ UNCHANGED <<digits, digits_buf>>

(* The key of a digit is sent; there is none for any other number.         *)
send_digit(s, digit) == IF digit \in 0..Radix - 1 THEN Append(s, digit) ELSE s

(* The deck thread may preempt the Worker between the two bytes of the     *)
(* number it takes.                                                        *)
TakenAsStored ==
  /\ torn' = IF wpc = "store2" /\ track_number # NewTrack THEN NewTrack ELSE 0
  /\ mixed' = IF torn' = 0 THEN mixed ELSE 1

BeginDial(settled) ==
  /\ MayBegin(settled)
  /\ digits # 0 \/ countDigits(track_number) # {}
  /\ track_on_ir' = track_number
  /\ ir_flag_first' = 1
  /\ TakeNumber(track_number)
  /\ ir_digit_flag_first' = 1
  /\ keyed' = send_digit(<<>>, digits_buf'[1])
  /\ gap' = 0
  /\ due' = IF track_number = due THEN 0 ELSE due
  /\ TakenAsStored
  /\ UNCHANGED <<track_on_ir_last, shown, playing, dpc>>

(* The very first number is too long: no digit is sent, and unless it is   *)
(* too soon after power on the selection ends in the same call.            *)
BeginNothing(settled) ==
  /\ MayBegin(settled)
  /\ digits = 0 /\ countDigits(track_number) = {}
  /\ \/ /\ gap > Busy
        /\ track_on_ir_last' = track_number
        /\ dpc' = "mute1"
        /\ UNCHANGED <<track_on_ir, ir_flag_first>>
     \/ /\ gap <= Busy
        /\ track_on_ir' = track_number
        /\ ir_flag_first' = 1
        /\ UNCHANGED <<track_on_ir_last, dpc>>
  /\ due' = IF track_number = due THEN 0 ELSE due
  /\ TakenAsStored
  /\ UNCHANGED <<ir_digit_flag_first, digits, digits_buf, gap, keyed, shown, playing>>

NextDigit ==
  /\ ir_flag_first = 1
  /\ ir_digit_flag_first < digits
  /\ gap > DigitGap
  /\ ir_digit_flag_first' = ir_digit_flag_first + 1
  /\ keyed' = send_digit(keyed, digits_buf[ir_digit_flag_first'])
  /\ gap' = 0
  /\ UNCHANGED <<track_on_ir, track_on_ir_last, ir_flag_first, digits, digits_buf,
                 shown, playing, dpc, due, torn, mixed>>

AllSent == ir_digit_flag_first = digits

DigitDone == gap > DigitGap              \* fault: the player is not given its time
SearchDone == gap > Busy

EndDial ==
  /\ ir_flag_first = 1
  /\ AllSent
  /\ SearchDone
  /\ ir_flag_first' = 0 /\ ir_digit_flag_first' = 0
  /\ track_on_ir_last' = track_on_ir
  /\ track_on_ir' = 0
  /\ shown' = SubSeq(digits_buf, 1, digits)
  /\ playing' = IF enableState = 1 /\ keyed = <<1>> THEN "one" ELSE "other"
  /\ dpc' = "mute1"
  /\ UNCHANGED <<digits, digits_buf, gap, keyed, due, torn, mixed>>

NothingToDial(settled) ==
  /\ ~MayBegin(settled)
  /\ ir_flag_first = 1 => IF AllSent THEN ~SearchDone ELSE gap <= DigitGap
  /\ UNCHANGED <<dial, dpc, due>>

ir_handler ==
  /\ dpc = "idle"
  /\ \E settled \in SettledRead :
       /\ ConsumeFlag(settled)
       /\ \/ BeginDial(settled) \/ BeginNothing(settled)
          \/ NextDigit \/ EndDial
          \/ NothingToDial(settled)
  /\ sound' = Broken(sound)
  /\ UNCHANGED <<enableState, mute, track_number, settle, worker>>

DeckMute ==
  /\ \/ dpc = "mute1" /\ dpc' = "mute2" /\ sound' = Broken(Toggled) /\ UNCHANGED mute
     \/ dpc = "mute2" /\ dpc' = "idle" /\ mute' = 0 /\ sound' = Broken(sound)
  /\ UNCHANGED <<enableState, nxt_flag, track_number, settle, worker, dial, due>>

(* The deck handler samples Enable; the player's power follows it.         *)
SampleEnable ==
  /\ dpc = "idle"
  /\ MaySwitch
  /\ enableState' = 1 - enableState
  /\ sound' = Broken("on")
  /\ playing' = "other"
  /\ UNCHANGED <<mute, nxt_flag, track_number, settle, worker, dpc, track_on_ir,
                 track_on_ir_last, ir_flag_first, ir_digit_flag_first, digits,
                 digits_buf, gap, keyed, shown, due, torn, mixed>>

(* The song ends and the player goes on to the next one, or SEEK makes it. *)
PlayOn ==
  /\ ir_flag_first = 0
  /\ playing = "one"
  /\ playing' = "other"
  /\ UNCHANGED <<enableState, mute, nxt_flag, track_number, settle, worker, dpc,
                 track_on_ir, track_on_ir_last, ir_flag_first,
                 ir_digit_flag_first, digits, digits_buf, gap, keyed, shown,
                 sound, due, torn, mixed>>

------------------------------------------------------------------------------
Older(age, threshold) == IF age <= threshold THEN age + 1 ELSE age

(* A careful user does not release so close to the limit of a long press   *)
(* that the Worker's own delay decides which one it was.                   *)
MayTick ==
  User = "careful" => ~(wpc = "mp3" /\ src_long = 0 /\ previous = 1)

Tick ==
  /\ MayTick
  /\ hold' = Older(hold, LongPress)
  /\ settle' = Older(settle, Settle)
  /\ gap' = Older(gap, Busy)
  /\ UNCHANGED <<enableState, mute, nxt_flag, track_number, wpc, release, src_long,
                 previous, tr, dpc, track_on_ir, track_on_ir_last, ir_flag_first,
                 ir_digit_flag_first, digits, digits_buf, keyed, shown, playing,
                 sound, due, torn, mixed>>

Worker == PressFrame \/ ReleaseFrame \/ NoFrame \/ WorkerMute \/ mp3_handler

Next == Worker \/ ir_handler \/ DeckMute \/ SampleEnable \/ PlayOn \/ Tick

Spec == Init /\ [][Next]_vars

(* Both threads keep running (the radio has let go of the status motor, so *)
(* the deck's handler does not spin) and other frames keep arriving: no    *)
(* user holds the button for ever.  Nothing is assumed of presses.         *)
Fairness ==
  /\ WF_vars(WorkerMute \/ mp3_handler)
  /\ WF_vars(ir_handler)
  /\ WF_vars(DeckMute)
  /\ WF_vars(Tick)
  /\ SF_vars(ReleaseFrame)

FairSpec == Spec /\ Fairness

------------------------------------------------------------------------------
FlagTypes ==
  /\ enableState \in 0..1 /\ mute \in 0..1 /\ nxt_flag \in 0..1
  /\ src_long \in 0..1 /\ previous \in 0..1 /\ ir_flag_first \in 0..1
  /\ release \in {"short", "long"}
  /\ sound \in {"on", "muted", "unknown"} /\ playing \in {"one", "other"}
  /\ wpc \in WorkerPoint /\ dpc \in DeckPoint
AgeTypes ==
  settle \in 0..Settle + 1 /\ hold \in 0..LongPress + 1 /\ gap \in 0..Busy + 1
SongTypes ==
  /\ track_number \in Nat /\ tr \in Nat \ {0} /\ due \in Nat
  /\ track_on_ir \in Nat /\ track_on_ir_last \in Nat
  /\ torn \in Nat /\ mixed \in 0..1
DigitTypes ==
  /\ digits \in 0..MaxDigits /\ ir_digit_flag_first \in 0..digits
  /\ digits_buf \in [1..MaxDigits -> 0..Radix - 1]
  /\ keyed \in Seq(0..Radix - 1) /\ shown \in Seq(0..Radix - 1)
TypeOK == FlagTypes /\ AgeTypes /\ SongTypes /\ DigitTypes

(* The number that the player makes of a sequence of digit keys.           *)
Value(s) ==
  LET upTo[i \in 0..Len(s)] == IF i = 0 THEN 0 ELSE (Radix * upTo[i - 1]) + s[i]
  IN upTo[Len(s)]

(* Once all digits of a selection are sent, the player was given exactly   *)
(* the number that ir_handler took, also when NXT is pressed meanwhile; a  *)
(* number of more than MaxDigits digits keys in the last one once more.    *)
KeyedIsTheTrack ==
  ir_flag_first = 1 /\ ir_digit_flag_first = digits =>
    IF track_on_ir < Power[MaxDigits]
    THEN Value(keyed) = track_on_ir
    ELSE keyed = shown

(* The SID shows the number that the player was given, not a newer one.    *)
ShownIsKeyed == ir_flag_first = 0 => shown = keyed

(* The player is left alone to find one song before the digits of the next *)
(* one start, which it would take for digits of the first.                 *)
PlayerGetsTime ==
  [][ir_flag_first = 0 /\ ir_flag_first' = 1
       => gap > Busy \/ keyed = <<>>]_vars

(* One selection is keyed in, waited for and shown before the next begins, *)
(* although presses come and the numbers change meanwhile.                 *)
OneSelectionAtATime == []ShownIsKeyed /\ PlayerGetsTime

(* Whatever is pressed during a selection, the next one begun is the song  *)
(* last asked for (song 1 when nothing is due: it was playing then),       *)
(* unless the deck preempts the Worker's store of it.                      *)
LatestIsDialled ==
  [][ir_flag_first = 0 /\ ir_flag_first' = 1 /\ wpc \notin {"store", "store2"}
       => track_on_ir' = IF due = 0 THEN 1 ELSE due]_vars

(* For a careful user the player's sound is on again when all is done,     *)
(* unless the deck thread broke the Worker's MUTE or took a number half    *)
(* stored: the right song may then be selected too, and its MUTE silences  *)
(* the player that the first one had put on.  Either way the sound comes   *)
(* back with the power at the latest.                                      *)
SoundIsBack ==
  User = "careful" /\ Quiet =>
    /\ mixed = 0 => sound # "muted" /\ mute = 0
    /\ enableState = 0 => sound = "on"

(* Song 1 and the multiples of Skip are what a press may ask for.          *)
IsSong(n) == n % Skip = 0 \/ n = 1

(* Every number that is keyed in is one that a press asked for, or was     *)
(* taken half stored; then one of its bytes is of the song asked for.      *)
OnlyAskedSongs ==
  /\ torn = 0 => IsSong(track_on_ir)
  /\ torn # 0 /\ track_on_ir # 0 =>
       \/ track_on_ir \div ByteBase = torn \div ByteBase
       \/ track_on_ir % ByteBase = torn % ByteBase

(* When the presses stop, the song that a short one asked for is selected, *)
(* unless a selection took its number half stored, then or before: such a  *)
(* press may be lost, and the presses after it may select the song before. *)
EveryPressMoves == <>[](src_long = 0) => <>[](due \in {0, 1} \/ mixed = 1)

(* When the presses stop, song 1 was selected if a long one asked for it   *)
(* while another song was playing.                                         *)
LongPressGoesToOne == <>[](src_long = 0) => <>[](due # 1)

(* No press of a careful user, who does not ask for song 1 when that was   *)
(* selected last, is without effect: when they stop, the song of the last  *)
(* one, short or long, was selected, up to the exception for short ones.   *)
PressesCount == EveryPressMoves /\ LongPressGoesToOne

==============================================================================
