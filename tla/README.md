# Verification of the SAAB 9-5 MP3 player firmware

TLA+ models of the firmware in `src/software/Deck_simulator_v1_1` and of the
libraries beneath it in `src/software/libs`, the TLC runs that check them, and
TLAPS proofs about them.  The firmware takes the place of the cassette mechanism
of a car radio: it imitates the mechanism towards the radio, reads the steering
wheel buttons from the CAN bus, works an MP3 player over infrared and shows texts
on the information display (SID).

Paths without a directory are those of `src/software/Deck_simulator_v1_1/` or of
the library the text is about.

## The system

### Components

| component | state it keeps | operations | correct when |
|---|---|---|---|
| NEW deck simulator (`Deck_simulator_subsystem_NEW.ino`) | wheel position, encoder state and timers, two first-pass power flags, four output pins | `new_deck_simulator_handler` (power, forward turns, backward turns), `new_deck_simulator_PWM_handler` in the Timer1 interrupt | encoder, optocoupler and tape switch tell the radio where the wheel is; turns complete; power down homes the wheel; the encoder line shows the train commanded |
| OLD deck simulator (`Deck_simulator_subsystem_OLD.ino`) | the same with other levels and two encoder lines | the same | the same, and the two lines keep their phase |
| song selection (`CAN_subsystem.ino`, `Music_player_subsystem.ino`, `IR_subsystem.ino`) | press time, pending flag, number to select, number being keyed in, its digits, mute flag | `CAN_message_handler`, `mp3_handler`, `ir_handler`, `IR_send_MUTE` | the number keyed in and shown is the one asked for; selections do not run into each other; a press takes effect in the end, but for the lost and mixed stores named below; the sound comes back |
| SID text (`SID_screen.ino`) | text asked for, sending flag, bursts begun, song packet | `send_SID_CAN_text`, `send_SID_CAN_song`, `SID_CAN_text_handler` | a row is of one text and shows a number somebody asked for; the last request is shown; sending ends |
| music player control (`Music_player_subsystem.ino`) | equaliser and repeat state, seek requests, key flags, power pin | `music_player_ON/OFF/next/previous/eq/repeat`, head of `ir_handler` | the believed settings are the player's; one key per press; a seek is imitated and released |
| CAN subsystem (`CAN_subsystem.ino`) | receive flag, seek imitation flags | `CAN_setup`, `CAN_message_handler`, `CAN_reset_seek_*` | every frame is handled; imitated presses are released |
| threads and start up (`Deck_simulator_v1_1.ino`) | deck version | `setup`, `mainThread`, two threads, `timer1Isr` | both threads keep running |
| CAN controller driver (`libs/CAN_BUS_Shield`) | mode, three transmit and two receive buffers, one message object | `begin`, `init_Mask`, `init_Filt`, `sendMsgBuf`, `readMsgBuf`, `checkReceive` | a message is sent once or refused, as asked for; a frame is read once |
| CAN_UNLOCK (`software/CAN_UNLOCK`) | interrupt flag | a frame a second from `loop()`, a read in the timer interrupt | the same of a driver shared with an interrupt |
| infrared library (`libs/Arduino_IRremote`) | the receiver's state machine and `rawbuf` | `send*`, the 50 µs interrupt, `decode`, `resume` | a code arrives as it was sent or not at all |
| ChibiOS/RT kernel (`libs/ChibiOS_AVR/utility`) | ready list, timers, threads, semaphores, mutexes, messages, events, mailboxes, queues, heaps, pools | the `ch*` calls, the system tick | lists agree with states; the highest priority runs; nobody waits for what has happened; memory is neither lost nor shared |
| TimerOne (`libs/TimerOne`) | prescaler, period, clock, interrupt enable | `setPeriod`, `start`, `stop`, `resume`, `attachInterrupt`, `read` | Timer1 runs with the period asked for last |
| library examples (`libs/ChibiOS_AVR/examples`) | the data their threads share | loops of two or three threads | they do what they demonstrate |

### Interaction

`DeckSimulatorThread` (priority +2) runs the deck handler and `ir_handler` for
ever.  `WorkerThread` (priority +1) runs `CAN_message_handler`, `mp3_handler` and
`SID_CAN_text_handler` for ever.  Timer1 interrupts every millisecond and drives
the encoder lines.  There are no locks; the parts share globals:

- `enableState`: written by the deck handler, read by the music player;
- `nxt_flag`, `track_number`, `last_nxt_press_time`, `mute`: written by the
  Worker, read and cleared by `ir_handler`;
- `sid_message`, `send_text`, `s_text_2_song`: written by both threads;
- `IR_send_*_flag`: set by the Worker, cleared by `ir_handler`;
- `N_pwm_state`: written by the deck thread and by the interrupt.

The higher priority makes everything the deck thread does between two sleeps
atomic for the Worker; the Worker may be preempted between any two machine
stores, and the processor stores 8 bits at a time.  Both threads reach the buses
by calls of the CAN and infrared libraries, and sleep in the kernel.

### What is hard

Radio lines that change between two reads; turns that run for a second on one
sample of a line; flags set before the data they announce; multi-byte stores that
are preempted; a request that arrives while the one before is being worked off; a
MUTE key that toggles; a highest priority thread that does not always sleep;
encoder timers that go on where they were left; a driver that waits on the wrong
register and whose results nobody looks at; an interrupt that shares an object
with the code it interrupts; time outs that race signals; priorities inherited
along chains of owners; decoders that read past the end of a code; references
counted under a lock and looked at after it.  `PROJECT.json` lists each hazard at
its line, with the properties that would catch it.

## Modules

| module | models |
|---|---|
| `TapeWheel` | abstract specification of both decks: six positions, turned by single notches under power, homed at power down |
| `NewDeck`, `OldDeck` | the decks' handlers, one action per stretch of code between two sleeps or pin reads |
| `DeckReckoning`, `OldReckoning` | the same with a history variable: the radio counting pulses |
| `Firmware` | `DeckReckoning` and the Worker under the kernel's priority rule |
| `Encoders`, `MCEncoders` | the encoder lines that `timer1Isr` drives, of both decks |
| `TrackSelect`, `MCTrackSelect` | a press of NXT from the CAN frame to the player and the SID |
| `SidText` | texts on the SID |
| `Player` | SEEK, equaliser, repeat, and the power as the player's settings see it |
| `CanLink` | abstract specification of the CAN driver with its controller |
| `McpCan`, `McpBitRate` | the driver, the MCP2515, and the two sketches that use them; the table of bit rates |
| `IrLink`, `MCIrLink` | the infrared library's sender and receiver, joined by a sensor |
| `ChSchd`, `ChThreads` | scheduler and virtual timers; threads and the tick |
| `ChSem`, `ChMtx`, `ChMsg`, `ChEvt`, `ChMbx`, `ChQueue`, `ChRing` | semaphores; mutexes and condition variables; messages; events; mailboxes; I/O queues; the ring buffer of the last two |
| `Kernel`, `MCKernel` | the kernel under threads and handlers that make any legal calls of one group |
| `ChHeap`, `ChDynamic` | core memory and heap; memory pools, dynamic threads and the registry |
| `Sketches` | six example sketches, written on the kernel modules |
| `TimerOne` | the timer library |
| `Library` | `ChHeap`, `ChDynamic`, `Sketches` and `TimerOne` side by side for one run |
| `NewDeckProofs`, `OldDeckProofs`, `TrackSelectProofs`, `McpCanProofs`, `LibraryProofs` | TLAPS proofs about the module they are named after |
| `SignalProofs` | the same about `Encoders`, `SidText`, `Player` and `IrLink` |
| `KernelListProofs`, `KernelProofs` | the same about `Kernel`: lists, timers, calls of threads and mutexes; semaphores and all that is built on them, and the theorems |

`TapeWheel` is instantiated by both decks and `CanLink` by `McpCan`, each with a
refinement mapping.  `Kernel` and `Library` extend the `Ch*` modules, which are
parts of one state: a kernel record `k` on which each function of the C code is
an operator, and the threads' program points.

### NewDeck, DeckReckoning

The variables are the pins and the `N_` globals; `pc` and `dir` say where the
thread is.  `Enabled`/`Disabled` are the two halves of the handler's first `if`,
`ReadSignal2`, `ReadSignal3`, `LeaveLoop`, `EnterLoop` and `Guard` are its
`digitalRead` calls, and `StartTurn`, `EndLead`, `EndPulse`, `EndTrail`,
`EndCounted` and `EndSwitch` what the nine branches do between their sleeps.  The
branches differ in where they sleep, when they count and what they tell the
encoder; tables (`StartEncoder`, `PulsesAtOnce`, `Unguarded`) hold the
differences.  Durations are left out: the radio may change any line, and the
interrupt may run, at every sleep of whatever length.

`DeckReckoning` adds the radio's own view.  The radio has no position sensor, so
it can only count pulses; `RadioReckonsRight` says that this works.
`DeckTellsWheel` is what the outputs say of the wheel, between turns and within
them; `IsLiveTapeWheel` is the refinement of `TapeWheel` with its liveness, and
`RadioIsServed` that a line held by the radio leads to side B or to an eject,
that the player follows Enable and that a held encoder is let go.

### OldDeck, OldReckoning

The same actions for `old_deck_simulator_handler`, with its own tables: there is
no sleep between the power logic and the first look at the motor lines, the
optocoupler rests HIGH with or without a tape, a brake at side A starts the
encoder, and ejecting sleeps once more after the pulse.  The interrupt only reads
`O_pwm_state`, so it has no action.

### Firmware

`Firmware` extends `DeckReckoning` with the scheduler: `asleep` says whether the
step the deck thread took last ends in `chThdSleepMilliseconds`, and the Worker
runs only then.  Of the Worker only that it runs is kept (`pass`).  The two sleeps
of `IR_send_MUTE` at the end of a selection are left out: a selection that is over
is not followed by another one unless the Worker runs.

### Encoders

`Command` is any store of the deck thread to `N_pwm_state` or `O_pwm_state`,
at any time; `timer1Isr` is one millisecond.  The edges of the trains are
parameters.  `astray` is the set of lines that were not led by their train since
the last command, since the code keeps each train's timer and the line's level
over a change.  `LinesRight`: but for those, the line shows what its train shows,
and the OLD deck's two lines are a quarter of a period apart.  `TapeGoesOn`: the
lines never stand still while the tape is commanded to move, and seem to run
backwards for one step at most.

### TrackSelect

Times are kept as ages that `Tick` lets grow up to one more than the largest
threshold.  The Worker's program points separate each store of `mp3_handler` that
the deck thread can see, `track_number` in two halves (`Torn`); a time stamp that
is half stored may be read as any (`SettledRead`).  `ir_handler` is one step, as
it does not sleep before its `IR_send_MUTE`, whose two sleeps are steps of their
own; `send_digit` is its table of digit keys.  The Worker's MUTE has a step for
its frame: `IR_send_MUTE` sleeps with interrupts disabled, but the switch back from
that sleep enables them, so the deck thread may run within the frame, and whether
the player still takes it for a MUTE is not known (`sound` = "unknown", `Broken`).
The player is external: a MUTE toggles it, power off resets it, and it may go on
to another song by itself (`PlayOn`).  What differs between runs is the `User`:

- `any` presses, holds and switches the radio off at any time;
- `patient` waits until a selection is over and holds longer than the bounce (for
  the theorems; no run uses it);
- `careful` moreover does not ask for song 1 when that was the last one selected,
  and does not release at the very limit between a short and a long press.

`keyed`, `shown`, `due`, `torn` and `mixed` are history variables: the digits sent
(that a digit sent while the deck thread breaks into the Worker's frame reaches the
player is taken for granted), the digits given to the SID, the song last asked for,
the song whose number the last selection took between its two stores, and whether a
selection ever did (`TakenAsStored`).

### SidText

The Worker's program points are the sleeps between packets and the stores the
deck thread can fall between; the request of the deck thread is one step.  Of the
packets only the first two differ between texts; `first` and `second` are what the
SID made of them last.  The copy of the song packet is cut in two, as `setMsg`
copies bytes.  `late` and `torn` are history variables: the request came after the
last burst had chosen its text, and a song was asked for between the two halves of
the copy.  `ScreenIsRight` says that the packets are of one kind of text
(`GroupIsOneText`), that the number is not half of another unless `torn`
(`NumberIsWhole`), and that in the end the request that came last is shown unless
`late` (`ShowsLastUnlessLate`), so that a mixed number is left standing only by the
last burst.

### Player

The firmware gets no answer from the player, so it counts along.  `worker` is where
the Worker is between its test of `enableState`, its store of the setting and its
store of the key's flag; the deck thread may fall in anywhere, send the flagged
keys, or switch the player off.  `eq_slip` and `repeat_slip` remember that a press
came while the one before was still flagged, or was half handled when the power
went: only then may the settings differ (`KeysMatchPresses`).  `SeekCompletes`
follows a press of SEEK to the infrared key, to the imitated button on the bus and
to its release; `dropped` remembers that the last frame of an imitation was not
accepted by the driver, whose result the firmware does not look at.

### CanLink, McpCan, McpBitRate

One step of `McpCan` is one SPI transaction or one pass of a polling loop; between
them the controller arbitrates, sends, receives and may lose its supply
(`Brownout`).  Of a message only the origin of its parts is kept: as asked for,
left by the frame read last, or the bytes of another transaction.  The variable
`sketch` chooses the program: the deck, which polls, or CAN_UNLOCK, whose timer
interrupt reads into the very object that `loop()` is sending from.
`NothingVanishes` lists the exceptions by name (`cut`, `remoted`, `missed`,
`wiped`); `IsCanLink` shows that the polling firmware's driver implements
`CanLink`; `FramesGetThrough` is the liveness of set up, of sending and of reading:
the receive buffer that is read first and the transmit buffer that is sent first
always get on, the others when frames stop coming in or messages are no longer asked
for, and not before: each buffer served first may be filled again and again.  For that
question the deck's traffic does not end at the bounds: `Reuse`, which is in
`FairSpec` and not in `Spec`, gives the last number out again once its message or
frame is gone.

`McpBitRate` holds the table of `mcp2515_configRate` and computes the rate from
the controller's registers.  Every setting is one the controller can work with,
and every rate is the one it is listed under except "40 kBPS", whose registers
give 47.62 kbit/s.

### IrLink

Time is in microseconds.  `Signal` is the train of marks and spaces that each
`send` function makes of a code, `Samples` what the interrupt handler does with all
the samples of one mark or space (`MCIrLink` has TLC compare it with the handler
applied once per sample), and the `decode*` operators are the decoders in the order
in which `decode()` tries them.  The sensor lengthens marks; the sender may be cut
off; the program may `resume()` late.  `OnlyWhatWasSent`: a code the receiver was
waiting for is decoded as itself although ten other protocols are tried, and a NEC
or SAMSUNG code that is reported was sent whole.  `HeardAndKept`: it is reported in
the end, and the results stay until the program resumes.  Three assumptions say
which codes, sensors and silences these are about: every pulse is 200 to 9000 µs long
and every space at most 4500 µs but for the header of SAMSUNG (`PlansAssumption`; TLC
finds it of `Signal` for each code of the run); the sensor lengthens a mark by 100 µs
at most (`SensorAssumption`, `MARK_EXCESS` is the library's mean); a silence is longer
than the receiver's gap and, modulo 2^16 ticks, does not look like one just under that gap
(`PausesAssumption`).

### The kernel

`ChSchd` writes each function of `chschd.c`, `chlists.c` and `chvt.c` as an
operator on the kernel's state.  A call holds the lock, so it is one action up to
the place where its thread sleeps; what follows the sleep is the next step of that
thread.  `Tick` and the calls of interrupt handlers come whenever a thread runs its
own code.  A behaviour of `Kernel` uses the calls of one group (`api`), as the
groups meet only in the scheduler and the timers.  The properties:

- `ListsRight`: the highest priority runs, each other thread is in one place, and
  each timer of the delta list fires at its time;
- `ObjectsAgree`: counters are queue lengths, owners are those that hold, and an
  owner has the priority of those that wait for it, along chains of mutexes;
- `NoWaitInVain`: nobody waits for an exit, a message, an event, a mail or a byte
  that is there;
- `InOrder`: mailboxes and queues are first in first out, and semaphores are
  given in the order of waiting;
- `WaitsEnd`: who is ready runs or somebody of higher priority does, and a wait
  with a time limit ends.

### ChHeap, ChDynamic, Sketches, TimerOne, Library

`ChHeap` keeps the free list by addresses; a walk along it is one step under the
heap's mutex, the call of the core memory comes after.  `ChDynamic` cuts
`chThdRelease` and `chThdWait` where the lock is released, and `REG_REMOVE` between
its two stores; it is checked with the registry and without it.  `MemoryIsWhole`:
bytes and areas are free or given, once, no area is freed while its thread lives or
somebody holds a reference, and the registry's list is whole along both pointers.  `Sketches` models `chMailPool`, `chFifoDataLogger`,
`chDataSharing`, `chIsrSemaphore`, `chMutex` and `chSemaphore` on the kernel
modules, with each one's promise (`SketchesRight`) and progress (`SketchesGoOn`).
`TimerOne` has the calls in any order; `TimerRight` says that the clock runs with
one prescaler and the period asked for last, and that `read()` tells the time.

## Runs

| run | shows |
|---|---|
| `newdeck` (`Firmware`) | for every behaviour of the radio's lines: `DeckTellsWheel`, `RadioReckonsRight`, `IsLiveTapeWheel`, `RadioIsServed`; and `WorkerRunsUnlessSpinning`: the Worker runs again and again, except while the deck has no power or a motor line is held at the end of the travel |
| `olddeck` (`OldReckoning`) | the same questions of the OLD deck, but for the Worker |
| `track_any_user` | the number keyed in is the number taken, also when it does not fit in `digits_buf` (`KeyedIsTheTrack`); selections do not run into each other and the SID shows what was keyed (`OneSelectionAtATime`); the latest press wins unless its store is preempted (`LatestIsDialled`); a number nobody asked for is selected only if the deck thread took it between the two stores of its bytes, and is half of the one asked for (`OnlyAskedSongs`) |
| `track_careful_user` | of this user, who does not ask for song 1 when it was selected last, no press is without effect until a number is taken half stored (`PressesCount`); the sound comes back at the end of a selection unless the deck thread broke the Worker's MUTE or took a number half stored, and then with the power at the latest (`SoundIsBack`) |
| `track_lost_press` (violation) | a press during a selection is forgotten |
| `sid_text` | a row is of one kind of text and its number whole unless a song was asked for within its copy, the last request is shown unless late (`ScreenIsRight`), sending ends |
| `player` | `KeysMatchPresses`, `SeekCompletes` |
| `can_driver` | `NothingVanishes`, `IsCanLink` and `FramesGetThrough`, which for the deck is checked with traffic that never ends |
| `encoders` | `LinesRight`, `TapeGoesOn`, for both decks |
| `kernel` | `ListsRight`, `ObjectsAgree`, `NoWaitInVain`, `InOrder`, `WaitsEnd`, for the eight groups of calls |
| `ir_link` | `OnlyWhatWasSent`, `HeardAndKept`, for eleven protocols |
| `library` | `MemoryIsWhole`, `SketchesRight`, `SketchesGoOn`, `TimerRight` |

### Bounds

- The deck modules and `Firmware` are finite as they are: no bound.
- `TrackSelect` runs with binary digits and three songs per press: numbers of one,
  two and three digits and, with `MaxTrack` 11, four digit ones that do not fit.
  The thresholds keep the order of the code's (2 ms < 500, 800 < 1000 < 2500 ms),
  with `DigitGap` and `MinPress` zero.  `ByteBase` 4 makes numbers cross a byte at
  almost every press, and, as in the code with 10 and 256 up to number 1279, no number
  mixed of two songs' bytes is a song's.  Only `track_lost_press`, which is not about tearing
  (and has two songs per press), puts it out of reach, at 64.
- `SidText` has two texts and two songs, enough for one to replace another of its
  own or of the other kind; the three bursts are the code's.
- `Player` has two equaliser settings (`Eqs`), the fewest that differ; the theorems
  are for any number.
- `Encoders` keeps the order of the edges and makes them small; the theorems are
  for any edges.
- `McpCan`: four messages and three frames, five of both together (`MaxAsked`,
  `MaxArrived`, `MaxTotal`), one more than there are buffers on either side; two
  passes of a polling loop (`Timeout`), since only the last one differs; three
  messages and frames with CAN_UNLOCK (`MaxUnlock`), where a send, the read that
  falls into it and the next one make the case.  `Slow` has one message whose
  identifier makes `sendMsg` wait as its authors meant it to.  CAN_UNLOCK stops when
  nothing is left to send or to receive, so the run allows deadlock; the deck's numbers
  are given out again (`Reuse`), and with them a frame starves in the second receive
  buffer and a message in a lower transmit buffer.
- `Kernel`: two threads beside main and idle, in `MCKernel` of a lower, the same
  and a higher priority than main's; time slices and waits of one tick
  (`Quantum`, `Time`), two semaphores, two mutexes to make a chain, one condition
  variable, two events, rings of two slots (`Size`) and transfers of two bytes
  (`MaxBytes`), so that a ring wraps and a transfer is interrupted in its middle;
  counters up to two (`MaxCnt`).
- `IrLink`: each code of `MCPlans`, in two patterns of bits, before or after a NEC
  code that leaves its trace in `rawbuf`; pauses on either side of the limits of
  the repetitions and one at which the 16 bit timer is near its end; two lags of
  the sensor and two phases of the sampling.  The plan ends, so the run allows
  deadlock.
- `Library`: a core of 11 bytes with headers of 2 and blocks of 1, 2 and 4, enough
  for three blocks to be merged from both sides; two holders, one pool area and
  one heap area; two references (`MaxRefs`); the registry is not used by one holder
  while another takes a thread out of it or is about to (`RegistryAnyTime` false,
  see Findings); records numbered modulo `Count` and
  missed points up to `MaxErrors`; periods at the limits of each prescaler
  (`Micros`).

Deadlock is checked except in the two runs named above.

### Fairness

- Decks: the deck thread has the highest priority and is woken by the system tick
  after each sleep, and Timer1 never stops; both are weakly fair.  The radio is
  not fair: liveness properties say what they expect of it.
- `Firmware`: the Worker is strongly fair: it can run only while the deck thread
  sleeps, but each sleep lasts 30 ms or more, so a Worker that is given sleep after
  sleep gets on.
- `TrackSelect`, `SidText`, `Player`: both threads keep running and time passes.
  That the Worker runs needs the deck thread to sleep, which it does in each pass
  with Enable HIGH and the status motor lines released (`Player` states the first
  in its fairness).  `ReleaseFrame` is strongly fair: a button is let go some time.
  Presses and requests are not fair.  With Enable LOW the NEW deck's handler does
  not sleep and the Worker does not run at all; what these liveness properties
  promise is put off for as long as the deck thread spins.
- `Encoders`: Timer1 is weakly fair.
- `McpCan`: a call of the driver goes on, and the controller changes its mode and
  arbitrates (weak); a set up that is tried again and again succeeds some time, and a
  buffer that is on the bus again and again is sent some time (strong).  The deck's
  `CAN_message_handler` is strongly fair: it can run only between two calls of
  `sendMsgBuf`, but the Worker's loop comes to it in each pass, however much each
  pass sends.  Requests to send, frames, lost arbitration and `Brownout` are not fair.
- `Kernel`, `Library`: the tick is strongly fair, as it is pending in its flag while
  interrupts are off and comes when they are on; a call goes on.  Threads owe
  nothing in `Kernel`: no call is fair.  In `Sketches` a thread's own code goes on
  if it gets the processor again and again (strong).
- `IrLink`: the signal, the silence after it and the program's loop go on.

## Findings

- `track_lost_press`: `IR_subsystem.ino:117` clears `nxt_flag` although the
  selection before is still running, so a press is forgotten; the repository's
  README says "Every press moves 10 songs forward".

What follows is in the models, as a named exception of a property, as a behaviour
of a run, or as a difference from the code's own words met while reading it; no
document or test says otherwise, or it is too small for a run of its own:

- A preempted store of `track_number` selects a song nobody asked for, one byte of it
  the song's before (`torn`).  `ir_handler` consumes the flag for it, so the song asked
  for may be lost; the presses after it may then each select the song of the press
  before; and when the song asked for is selected as well, its second MUTE leaves the
  player silent until the power goes (`mixed`).
- A long press does nothing when song 1 was the last one keyed in, whatever the
  player has gone on to.
- A text asked for during the last burst is never shown (`late`).  If it is a song, and
  comes while the packet of another song is copied, a number that is half the one and
  half the other goes to the SID (`torn`), and stays there.
- The first receive buffer is always read first and the highest transmit buffer always
  sent first, while the driver fills the lowest: a frame or a message in another buffer
  waits for as long as frames keep coming or messages keep being asked for.
- With Enable LOW, or a motor line held at the end of the travel, the Worker is
  starved (`WorkerRunsUnlessSpinning`).
- The watchdog's branch is empty: a controller that was not set up, or lost its
  supply, stays off the bus (`failed`).
- `tr` grows by ten a press and overflows a 16 bit int after 3276 presses.
- `sendMsg` waits on a bit of the identifier instead of the control register, so
  for most messages it does not wait; `read_canMsg` leaves the remote bit in the
  object the next message is sent from; the first of two frames may be read last.
- `mcp2515_configRate` fails for an unknown bit rate, but `mcp2515_init` then returns
  the good result of the call before it; "40 kBPS" is 47.62 kbit/s.
- `chThdSetPriority` of a thread that owns a mutex may put it below a thread that
  waits for the mutex (`chthreads.c:225`, which `chmtx.c:62` does not expect): with
  `SetsPriorityAnyTime` true, `PriorityIsInherited` fails.
- `chMBReset` while a woken thread has not used its slot or message yet counts it
  twice: with `ResetsAnyTime` true, `MailboxInOrder` fails.
- `chThdRelease` of a thread that has not ended forgets its memory for good, unless
  a walk along the registry finds it.  But `chThdRelease` changes the registry and
  frees the memory outside the lock: with `RegistryAnyTime` true, `MemoryIsWhole`
  fails, since `chRegNextThread` takes a reference to a thread that is going
  (`chregistry.c:103` says that the reference makes "sure its status is not lost"),
  or a creation or a second removal falls between the two stores of `REG_REMOVE`.
- `start()` of TimerOne leaves the interrupt disabled and waits for a counter that
  does not move if the timer stands.
- Infrared: `decode` compares gaps counted in ticks with limits in microseconds,
  so a code of 26 entries or more that follows another within 25 to 40 ms is taken
  for a SANYO repetition unless it is NEC.  SAMSUNG's header space is as long as the gap
  that ends a code.  `decodePanasonic` does not look at `rawlen`, and the JVC and LG
  decoders look too little, so a code that was cut off may be completed by what
  an older one left in `rawbuf`.  The gap timer wraps after 3.3 s.

## Proofs

What the `*Proofs` modules prove holds for every value of the constants under the
named assumptions of the modules they are about (`NumberAssumption`,
`TimeAssumption`, `UserAssumption`, `TextAssumption`, `EqsAssumption`,
`EdgeAssumption`, `PlansAssumption`, `SensorAssumption`, `PausesAssumption`,
`CanAssumption`, `TimerAssumption`, `HeapAssumption`,
`DynamicAssumption`, `ThreadAssumption`, `ThreadsAssumption`, `MutexAssumption`,
`MailboxAssumption`, `SizeAssumption`, `KernelAssumption`), which TLC evaluates for
the values of the runs.  Those of the kernel say that threads are finitely many,
main and the idle thread among them, that an object is of one kind, that a buffer
has a slot, that a time slice is not empty, and that a thread is created once, with
a priority between the idle thread's and `HIGHPRIO`.  A theorem that needs more says so
in its own hypotheses, which are named below.

- NEW deck (`TypeCorrect`, `OutputsCorrect`, `DeckIsTapeWheel`, `RadioIsRight`,
  `FirmwareIsRight`).  `IInv` is the conjunction of the type invariant, what holds
  between turns (`EncoderFollowsWheel`, `OptoTellsPosition`, `PoweredDownIsHomed`)
  and what holds within one (`MidTurn`).  Neither half is inductive alone: the
  encoder is right after a turn because the command given before it was right and
  nothing changed it since.  `DeckIsTapeWheel` maps each action to a step of
  `TapeWheel` or a stutter under that invariant.  `RadioIsRight` adds `RInv`: the
  count is ahead of the wheel from the end of the pulse to the end of the turn.
  `FirmwareIsRight` carries both over to the two threads.
- OLD deck (`TypeCorrect`, `OutputsCorrect`, `DeckIsTapeWheel`, `RadioIsRight`).
  The same argument; the optocoupler's and the switch's levels need no invariant of
  their own, they are the phase of the turn.
- Song selection.  `TypeCorrect` needs `Split` to stay within digits
  (`SplitType`).  `OneAtATime` rests on `KeyInv`, the digits sent are a prefix of
  the buffer, also when the buffer was not filled, and on `RestInv`, between
  selections the player's time is over or nothing was ever sent.  `LatestCorrect`
  rests on `DueInv`, which says at each program point of the Worker how `due`,
  `tr` and `track_number` are related.  `KeyedCorrect` is about the digits: `Power`
  and `Value` are recursive functions, and that `Split` and `Value` undo each other
  is proved by induction over the number of digits, also when the buffer is too
  small for the number.  `OnlyAskedCorrect`, for any user and numbers of any
  size, rests on `AskedInv`: but between its two stores `track_number` is song 1 or a
  multiple of `Skip`, and there it has a byte of the new song (`TornShares`), which
  `torn` remembers when it is taken.
  `SoundCorrect` rests on `CarefulInv`: while the button is down nothing else goes on
  and the first frame has muted the player (`HoldInv`), after its release the song
  that is coming is not the one selected last (`CourseInv`) and the flag for it is
  set or will be (`FlagInv`), so each MUTE of a press meets the one that ends its
  selection (`SoundInv`).  It holds until a number is taken half stored (`mixed`), which
  it shows to be the only way out; `PowerInv`, that without power nothing is muted,
  holds beyond.
- SID text.  `ScreenCorrect` rests on `LastBurstInv`: within the last burst a
  request that is not late is the one being sent, or is already shown; and on
  `AskInv`, `CountInv`, which tie the program point to the two flags.  `NumberInv`: the
  half that is copied already is of the number stored now, unless `torn`.
- Player.  `KeysCorrect` proves both halves of `KeysMatchPresses`.  The invariant
  adds that the setting a press has loaded is still the firmware's (`EqFresh`,
  `RepeatFresh`), and that a pin that is set and not asleep was asked for
  (`PinIsAsked`).
- Encoders.  `LinesCorrect` needs that the timers of the OLD deck never drift and
  that a line that is not astray is led by its timer; `PulseKeepsLine` does the arithmetic of one
  train once, for any edges.  `OneStepBackOnly` proves an action property from a
  second invariant, `OneBack`: after a step backwards a line that is not led yet
  already stands where its next edge would put it.
- Infrared link (`IrTypeCorrect`, `MiddleCorrect`, `ResultsKept`), for any plan of
  codes, any silences and any lag that the three assumptions allow.  That nothing is
  stored past the end of `rawbuf` needs only `NotFull`: between two marks or spaces
  the buffer has room or the handler has stopped.  That a receiver which is resumed
  in the middle of a code records nothing needs the timer's place in each part of
  the signal.  `Between` (a silence): a receiver that waits has counted it.
  `AtFirstMark`: a silence so long that the timer wrapped is taken for none, and then
  the timer is too small for a start.  `Within`: every mark resets the timer of a
  receiver that waits, and no space is long enough to reach the gap before the next mark,
  so it never starts there.  `SamplesAre` gives what many samples of one level do from
  what one sample does.
- CAN driver.  `NothingEverVanishes` rests on an invariant that follows each message
  and each frame through the SPI transactions: which of them the object, the buffers
  and the bus hold at each program point, with the exceptions that `NothingVanishes`
  names.  `DeckIsCanLink` maps each transaction of the polling sketch to a step of
  `CanLink` or a stutter under that invariant.
- TimerOne (`TimerCorrect`).  The bits of the five clocks differ, so what is in the
  register tells the prescaler; `TimerInv` adds that it holds the bits of the last
  `setPeriod` or none, and that the period fits on that clock as well as it can.
- Heap (`HeapCorrect`).  `HeapInv` says of the memory what `HeapIsWhole` says of
  bytes in terms of blocks: `Whole`, every place below `nextmem` is covered by one
  block or taken, and no two blocks overlap, whichever of them are free; `Ordered`,
  any two blocks of the list are in order and do not touch.  `JoinWhole` and
  `CutWhole` show that merging and cutting keep the first whatever the list is, and
  `PutTogether`, `PartOf` that the list is still in order.  Order and coverage need
  each other: the place for a freed block exists, and merging it with two neighbours
  is enough, only because no free blocks touch and none overlaps the freed one.
  `CountedIs` proves by induction what the loop of `chHeapStatus` adds up.
- Dynamic threads and registry (`DynamicCorrect`).  `DynInv` counts: the references
  of an area are the holders that have it, and one holder at most is between the
  lock and the end of a release (`EndInv`).  `ListInv` says that the registry is a
  ring: a walk along `p_newer` passes each area once and comes back, and `p_older`
  is its inverse.  `RegistryIsWhole` then follows by induction along the walk.  Its
  hypothesis is `~RegistryAnyTime`, the run's, without which it is false (see
  Findings).  `MemoryCorrect` puts both together, for `MemoryIsWhole`.
- Kernel (`KernelTypeCorrect`, `ListsCorrect`, `ObjectsCorrect`, `NoWaitCorrect`,
  `BytesCorrect`, `InOrderCorrect`).  A call works on the kernel record in several steps, so the
  lemmas are about records: `KernelRight` says that the lists are whole and in the
  order of priorities, each thread is where its state says (`Listed`), the one
  that runs has the highest priority (`HighestCurrent`), counters are lengths of
  queues (`Counted`), and the delta list fires each timer at its time
  (`TimersRight`).  Within a call a thread may be out of every list, and after
  `chSchReadyI` the one that runs need not be the highest: `Loose` and `Lost`
  name these states, and lemmas such as `ResumedStable` close them.  `IInv` adds
  what a thread waits for at each program point (`Placed`) and, for each group, what
  makes waking complete: who ended has nobody waiting (`ExitOK`); a message is in one
  place (`MsgOK`); an event that is pending and waited for has woken (`EvtOK`); the
  units of the mailbox's semaphores, and the threads that were given one and did not
  use it yet, are the slots and messages in the buffer (`MbxOK`), and the same for a
  queue's bytes (`IoqOK`).  Loops (a tick that fires many timers, a reset that wakes
  a whole queue) are proved by induction with a lemma on one round.
  `KInv` adds the mutexes (`MtxOK`).  `Owned`: a mutex is in its owner's stack, once,
  and has nobody in its queue if it is free.  `Inherits`: an owner's priority is
  at least that of each thread that waits for one of its mutexes, and is its own or that
  of one of them.  It is about one link of a chain of owners, and chains of any
  length follow.  While a thread joins a queue it is broken in one place, which moves
  from owner to owner (`Chained`): everybody behind is right, and the next one, whose
  waiting threads have a priority it has not inherited yet, is the only one that
  may be wrong.  Each link raises one thread that was not raised before
  (`HigherIn`), so the chain ends within as many links as there are threads,
  whatever waits for whatever.  A thread that gives mutexes up has, of the rest,
  what `LeftWith` says; who gets them was the first in the queue, so that those left
  behind are no higher (`GivenUpInherits`, for one mutex or for all of them).
  `InOrderCorrect` adds to `BytesCorrect` that nobody overtakes in a semaphore's
  queue (`OvertakingCorrect`).  Within a step, whatever it fires, signals or resets,
  these queues only lose threads (`Shrinks`: what is left is in the same order), and
  at most the running thread joins one, at its end; so who stays gets no
  further from the head (`Closer`).
  Hypotheses of all six: `~ResetsAnyTime` and `~SetsPriorityAnyTime`, the runs',
  without which the order of a mailbox and the inheritance are false (see
  Findings).

Induction over data is done from `NatLessThanWellFounded` and `WFMin`, which take no
operator: a set of numbers has a least one (`NatMin`), so a set that has 0 and the
successors of its members has all (`SetInduction`).

Model-checked only: all liveness, which the prover does not reach, and so
`IsLiveTapeWheel` beyond its safety part; the invariants of `Sketches`, whose
threads share the whole kernel record; and of `IrLink` what `decode()` makes of a
buffer (`DecodedIsSent`, `NothingFromPieces`), since the decoders and `Signal` are
folds over a whole train of marks and spaces.

## Not modelled, and what could follow

Left out for good: wording and levels of texts and frames, serial output, pin
modes, the choice of the deck at start up.

Left out of modelled parts:

- the pulses of a MUTE frame that is broken: `IrLink` has the cut, `TrackSelect` that
  it falls into the Worker's MUTE, no module has both;
- CAN driver: the arithmetic of identifiers and filters, `checkError`, `clearMsg`;
- infrared: `sendDISH` (its header space is longer than the receiver's gap),
  `sendSharp`'s three bursts, the carrier and the timer registers;
- kernel: `chThdTerminate` (a flag), `chEvtGetAndClearFlags` and `chEvtDispatch`,
  pools that grow by a provider, the registry's entries of static threads, debug
  checks.  `CH_USE_HEAP`, `CH_USE_MEMCORE` and `CH_USE_DYNAMIC` are off in `chconf.h`
  (the registry and the pools are on), so `ChHeap` and `ChDynamic` are about the
  library, not about this firmware's build;
- TimerOne: the PWM outputs, which nothing uses;
- examples: those whose threads share nothing, and the demonstrations of the other
  libraries, which call one function in a loop.

What could follow: `IrLink`'s sender beneath `TrackSelect`; `Firmware` with the
Worker's own steps, and frames that wait in the controller while the deck thread
spins; proofs of the sketches.
