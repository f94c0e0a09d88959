------------------------------- MODULE IrLink -------------------------------
(***************************************************************************)
(* An infrared link made of the two halves of the library Arduino_IRremote *)
(* (src/software/libs/Arduino_IRremote/IRremote.cpp): IRsend, which writes *)
(* a code on a pin as marks and spaces, and IRrecv, whose interrupt        *)
(* handler samples a sensor every 50 us into rawbuf and whose decode()     *)
(* matches rawbuf with one protocol after the other.  The firmware keys    *)
(* the music player with sendNEC; the two halves are meant to understand   *)
(* each other (examples/IRtest2).                                          *)
(*                                                                         *)
(* Time is in microseconds.  A code is a kind and its bits, the most       *)
(* significant first.  One step PulseOut stands for all the samples of one *)
(* mark or space.  The sensor lengthens a mark by a lag and shortens the   *)
(* space after it; the samples fall anywhere on the signal.                *)
(***************************************************************************)
EXTENDS Integers, Sequences, FiniteSets, SequencesExt

CONSTANTS Plans,    \* sequences of codes somebody sends
          Pauses,   \* ticks of silence between two codes
          Lags,     \* microseconds by which the sensor lengthens a mark
          Phases    \* microseconds from a sample to the first edge

VARIABLES plan,     \* the codes still to send
          code,     \* the code that is sent or was sent last
          out,      \* what is left of its signal, in microseconds
          level,    \* MARK or SPACE: what the head of out is
          at,       \* microseconds since the last sample
          lag,      \* how much the sensor lengthens marks
          irparams, \* the receiver's record of the same name
          app,      \* the program's loop: "polls" or "uses" its results
          results,  \* the decode_results of the last decode()
          quiet,    \* ticks of silence since the last code, 0 during a code
          listening,\* the receiver was waiting when this code began
          heard     \* the last code it was waiting for: code, pause, whole

irVars == <<plan, code, out, level, at, lag, irparams, app, results, quiet,
          listening, heard>>

MARK == 0
SPACE == 1
USECPERTICK == 50
RAWBUF == 100
GAP_TICKS == 100
MARK_EXCESS == 100
REPEAT == <<"REPEAT">>

-----------------------------------------------------------------------------
(* IRsend: the marks and spaces of a code, a mark first.  A last space has *)
(* no end of its own, it runs into the silence after the code.             *)

\* One mark and one space for every bit.
PulsePairs(bits, one, zero) ==
    FlattenSeq([i \in DOMAIN bits |-> IF bits[i] = 1 THEN one ELSE zero])

sendNEC(bits) ==
    <<9000, 4500>> \o PulsePairs(bits, <<560, 1600>>, <<560, 560>>) \o <<560>>

sendNEC_Repeat == <<9000, 2248, 560>>

sendSony(bits) == Front(<<2400, 600>> \o PulsePairs(bits, <<1200, 600>>, <<600, 600>>))

sendPanasonic(bits) ==
    <<3502, 1750>> \o PulsePairs(bits, <<502, 1244>>, <<502, 400>>) \o <<502>>

sendJVC(bits, repeat) ==
    (IF repeat THEN <<>> ELSE <<8000, 4000>>)
        \o PulsePairs(bits, <<600, 1600>>, <<600, 550>>) \o <<600>>

sendSAMSUNG(bits) ==
    <<5000, 5000>> \o PulsePairs(bits, <<560, 1600>>, <<560, 560>>) \o <<560>>

\* One of the three bursts of a Sharp code.
sendSharpRaw(bits) == PulsePairs(bits, <<245, 1805>>, <<245, 795>>) \o <<245>>

\* The lengths of the runs of equal levels, from a mark to the last mark.
Runs(levels) ==
    LET isEnd(i) == IF i = Len(levels) THEN levels[i] = MARK
                    ELSE levels[i] # levels[i + 1]
        end == SelectSeq([i \in DOMAIN levels |-> i], isEnd)
    IN  [i \in DOMAIN end |-> end[i] - (IF i = 1 THEN 0 ELSE end[i - 1])]

\* Each bit is a change in its middle; 1 is a space and then a mark.
sendRC5(bits) ==
    LET halves == FlattenSeq([i \in DOMAIN bits |->
                      IF bits[i] = 1 THEN <<SPACE, MARK>> ELSE <<MARK, SPACE>>])
        runs == Runs(<<MARK, SPACE, MARK>> \o halves)
    IN  [i \in DOMAIN runs |-> 889 * runs[i]]

\* The other way round, and the fourth bit has twice the length.
sendRC6(bits) ==
    LET half(i, l) == IF i = 4 THEN <<l, l>> ELSE <<l>>
        halves == FlattenSeq([i \in DOMAIN bits |->
                      IF bits[i] = 1 THEN half(i, MARK) \o half(i, SPACE)
                      ELSE half(i, SPACE) \o half(i, MARK)])
        runs == Runs(<<MARK, SPACE>> \o halves)
    IN  <<2666, 889>> \o [i \in DOMAIN runs |-> 444 * runs[i]]

\* sendRaw plays what the remotes send that have no function of their own.
LGRemote(bits) == sendJVC(bits, FALSE)
MitsubishiRemote(bits) == <<250>> \o PulsePairs(bits, <<2150, 250>>, <<950, 250>>)
LongRemote(bits) == <<1200, 1200>> \o PulsePairs(bits, <<560, 1600>>, <<560, 560>>) \o <<560>>

Signal(c) ==
    CASE c.kind = "NEC" -> sendNEC(c.bits)
      [] c.kind = "NEC_REPEAT" -> sendNEC_Repeat
      [] c.kind = "SONY" -> sendSony(c.bits)
      [] c.kind = "PANASONIC" -> sendPanasonic(c.bits)
      [] c.kind = "JVC" -> sendJVC(c.bits, FALSE)
      [] c.kind = "JVC_REPEAT" -> sendJVC(c.bits, TRUE)
      [] c.kind = "SAMSUNG" -> sendSAMSUNG(c.bits)
      [] c.kind = "SHARP" -> sendSharpRaw(c.bits)
      [] c.kind = "RC5" -> sendRC5(c.bits)
      [] c.kind = "RC6" -> sendRC6(c.bits)
      [] c.kind = "LG" -> LGRemote(c.bits)
      [] c.kind = "MITSUBISHI" -> MitsubishiRemote(c.bits)
      [] c.kind = "LONG" -> LongRemote(c.bits)

Kinds == {"NEC", "NEC_REPEAT", "SONY", "PANASONIC", "JVC", "JVC_REPEAT", "SAMSUNG",
          "SHARP", "RC5", "RC6", "LG", "MITSUBISHI", "LONG"}
Codes == [kind : Kinds, bits : Seq({0, 1})]
Lengths == {n \in Nat : 200 <= n /\ n <= 9000}
LongestSpace == 4500

\* The pulses are longer than the sensor's lag and shorter than the header of
\* NEC, the spaces shorter than that header's, but for the header of Samsung.
WellFormed(s, kind) ==
    /\ s \in Seq(Lengths) /\ s # <<>>
    /\ \A i \in DOMAIN s :
          i % 2 = 0 /\ (kind = "SAMSUNG" => i = Len(s)) => s[i] <= LongestSpace

ASSUME PlansAssumption ==
    \A p \in Plans :
        p \in Seq(Codes) /\ \A i \in DOMAIN p : WellFormed(Signal(p[i]), p[i].kind)

ASSUME SensorAssumption == Lags \subseteq 0 .. 100 /\ Phases \subseteq 0 .. 49

-----------------------------------------------------------------------------
(* IRrecv: the interrupt handler, once every 50 us.                        *)

\* An unsigned int of the processor.
UnsignedInt == {n \in Nat : n < 65536}
Unsigned(n) == n % 65536

\* A store past the end of rawbuf would be seen in its domain.
Stored(b, n, ticks) == [i \in DOMAIN b \cup {n} |-> IF i = n THEN ticks ELSE b[i]]
Record(p) == [p EXCEPT !.rawbuf = Stored(@, p.rawlen, p.timer), !.rawlen = @ + 1,
                       !.timer = 0]

FullOneLater(p) == p.rawlen > RAWBUF
Full(p) == p.rawlen >= RAWBUF

NotBigEnough(ticks) == ticks < GAP_TICKS

NeverLongSpace(ticks) == FALSE
LongSpace(ticks) == ticks > GAP_TICKS

ISR(p, irdata) ==
    LET q == [p EXCEPT !.timer = Unsigned(@ + 1),
                       !.rcvstate = IF Full(p) THEN "STOP" ELSE @]
    IN  CASE q.rcvstate = "IDLE" ->
                 IF irdata = SPACE THEN q
                 ELSE IF NotBigEnough(q.timer) THEN [q EXCEPT !.timer = 0]
                 ELSE [Record([q EXCEPT !.rawlen = 0]) EXCEPT !.rcvstate = "MARK"]
          [] q.rcvstate = "MARK" ->
                 IF irdata = MARK THEN q ELSE [Record(q) EXCEPT !.rcvstate = "SPACE"]
          [] q.rcvstate = "SPACE" ->
                 IF irdata = MARK THEN [Record(q) EXCEPT !.rcvstate = "MARK"]
                 ELSE IF LongSpace(q.timer) THEN [q EXCEPT !.rcvstate = "STOP"] ELSE q
          [] q.rcvstate = "STOP" ->
                 IF irdata = MARK THEN [q EXCEPT !.timer = 0] ELSE q

\* n samples of one level, two or more.  After the second one only the timer
\* runs, until a space gets longer than GAP_TICKS.
Samples(p, irdata, n) ==
    LET q == ISR(ISR(p, irdata), irdata)
        holds == irdata = MARK /\ q.rcvstate \in {"IDLE", "STOP"}
        ended == q.rcvstate = "SPACE" /\ LongSpace(q.timer + n - 2)
    IN  [q EXCEPT !.timer = IF holds THEN 0 ELSE Unsigned(@ + n - 2),
                  !.rcvstate = IF ended THEN "STOP" ELSE @]

resume(p) == [p EXCEPT !.rcvstate = "IDLE", !.rawlen = 0]

-----------------------------------------------------------------------------
(* decode: b is rawbuf, n is rawlen.  A decoder answers with a kind and a  *)
(* value, or with ERR.                                                     *)

ERR == [decode_type |-> "ERR", value |-> <<>>]
Decoded(kind, value) == [decode_type |-> kind, value |-> value]

TICKS_LOW(us) == (us * 3) \div 200
TICKS_HIGH(us) == us \div 40 + 1
MATCH(ticks, us) == ticks \in TICKS_LOW(us) .. TICKS_HIGH(us)
MATCH_MARK(ticks, us) == MATCH(ticks, us + MARK_EXCESS)
MATCH_SPACE(ticks, us) == MATCH(ticks, us - MARK_EXCESS)

BadBit == 2
OneOrZero(isOne, isZero) == IF isOne THEN 1 ELSE IF isZero THEN 0 ELSE BadBit

\* The value that count pairs of a mark and a space stand for, from an offset.
PairsValue(b, offset, count, mark, one, zero) ==
    [i \in 1 .. count |->
        LET o == offset + 2 * (i - 1)
        IN  IF MATCH_MARK(b[o], mark)
            THEN OneOrZero(MATCH_SPACE(b[o + 1], one), MATCH_SPACE(b[o + 1], zero))
            ELSE BadBit]

DecodedIfGood(kind, value) ==
    IF BadBit \in ToSet(value) THEN ERR ELSE Decoded(kind, value)

Try(accepts, result) == IF accepts THEN result ELSE ERR

AnyNecLength(n) == n > 4
NecLength(n) == n >= 2 * 32 + 4

decodeNEC(b, n) ==
    IF /\ n = 4
       /\ MATCH_MARK(b[1], 9000)
       /\ MATCH_SPACE(b[2], 2250)
       /\ MATCH_MARK(b[3], 560)
    THEN Decoded("NEC", REPEAT)
    ELSE Try(MATCH_MARK(b[1], 9000) /\ NecLength(n) /\ MATCH_SPACE(b[2], 4500),
             DecodedIfGood("NEC", PairsValue(b, 3, 32, 560, 1600, 560)))

\* Sony and Sanyo codes have any number of bits from 12 on: pairs of a space
\* and a mark, up to the end or to another space.
SpacesValue(b, n, offset, space, one, zero) ==
    LET o(i) == offset + 2 * (i - 1)
        stops == {i \in 1 .. n : o(i) + 1 >= n \/ ~MATCH_SPACE(b[o(i)], space)}
        stop == CHOOSE i \in stops : \A j \in stops : i <= j
    IN  [i \in 1 .. stop - 1 |->
            OneOrZero(MATCH_MARK(b[o(i) + 1], one), MATCH_MARK(b[o(i) + 1], zero))]

\* The gap before the code is in ticks, the limit is called microseconds.
SONY_DOUBLE_SPACE_USECS == 500
SANYO_DOUBLE_SPACE_USECS == 800

decodeSony(b, n) ==
    LET value == SpacesValue(b, n, 2, 600, 1200, 600)
    IN  IF n < 2 * 12 + 2 THEN ERR
        ELSE IF b[0] < SONY_DOUBLE_SPACE_USECS THEN Decoded("SANYO", REPEAT)
        ELSE Try(MATCH_MARK(b[1], 2400) /\ Len(value) >= 12,
                 DecodedIfGood("SONY", value))

decodeSanyo(b, n) ==
    LET value == SpacesValue(b, n, 3, 950, 2400, 700)
    IN  IF n < 2 * 12 + 2 THEN ERR
        ELSE IF b[0] < SANYO_DOUBLE_SPACE_USECS THEN Decoded("SANYO", REPEAT)
        ELSE Try(/\ MATCH_MARK(b[1], 3500)
                 /\ MATCH_MARK(b[2], 3500)
                 /\ Len(value) + 1 >= 12,
                 DecodedIfGood("SANYO", value))

\* Here a bit is a mark before a space; the code calls the first one a space.
decodeMitsubishi(b, n) ==
    LET o(i) == 2 * i
        bit(i) == OneOrZero(MATCH_MARK(b[o(i)], 1950), MATCH_MARK(b[o(i)], 750))
        last == {i \in 1 .. n : o(i) + 3 >= n \/ ~MATCH_SPACE(b[o(i) + 1], 350)}
        count == CHOOSE i \in last : \A j \in last : i <= j
    IN  Try(/\ n >= 2 * 16 + 2
            /\ MATCH_MARK(b[1], 350)
            /\ count >= 16,
            DecodedIfGood("MITSUBISHI", [i \in 1 .. count |-> bit(i)]))

\* The levels that the entries from an offset on last, in units of t1.
BadLevel == 2
Levels(b, n, offset, t1) ==
    FlattenSeq([i \in 1 .. n - offset |->
        LET o == offset + i - 1
            val == IF o % 2 = 1 THEN MARK ELSE SPACE
            width(avail) ==
                MATCH(b[o], avail * t1 + (IF val = MARK THEN MARK_EXCESS ELSE -MARK_EXCESS))
        IN  IF width(1) THEN <<val>>
            ELSE IF width(2) THEN <<val, val>>
            ELSE IF width(3) THEN <<val, val, val>> ELSE <<BadLevel>>])

\* After the end of the buffer everything is a space.
HalfAt(levels, i) == IF i \in DOMAIN levels THEN levels[i] ELSE SPACE

decodeRC5(b, n) ==
    LET levels == Levels(b, n, 1, 889)
        nbits == (Len(levels) - 2) \div 2
        bit(i) == LET halves == <<HalfAt(levels, 2 * i + 2), HalfAt(levels, 2 * i + 3)>>
                  IN  OneOrZero(halves = <<SPACE, MARK>>, halves = <<MARK, SPACE>>)
    IN  Try(n >= 11 + 2 /\ SubSeq(levels, 1, 3) = <<MARK, SPACE, MARK>>,
            DecodedIfGood("RC5", [i \in 1 .. nbits |-> bit(i)]))

\* The fourth bit, the trailer, is twice as long as the others.
decodeRC6(b, n) ==
    LET levels == Levels(b, n, 3, 444)
        start(i) == 2 * i + 1 + (IF i > 4 THEN 2 ELSE 0)
        nbits == Cardinality({i \in 1 .. Len(levels) : start(i) <= Len(levels)})
        half(i, h) == HalfAt(levels, start(i) + h)
        bit(i) ==
            IF i # 4 THEN OneOrZero(<<half(i, 0), half(i, 1)>> = <<MARK, SPACE>>,
                                    <<half(i, 0), half(i, 1)>> = <<SPACE, MARK>>)
            ELSE LET trailer == [h \in 1 .. 4 |-> half(4, h - 1)]
                 IN  OneOrZero(trailer = <<MARK, MARK, SPACE, SPACE>>,
                               trailer = <<SPACE, SPACE, MARK, MARK>>)
    IN  Try(/\ n >= 1
            /\ MATCH_MARK(b[1], 2666)
            /\ MATCH_SPACE(b[2], 889)
            /\ HalfAt(levels, 1) = MARK
            /\ HalfAt(levels, 2) = SPACE,
            DecodedIfGood("RC6", [i \in 1 .. nbits |-> bit(i)]))

\* The only decoder that does not ask how much of the buffer is filled.
decodePanasonic(b) ==
    Try(MATCH_MARK(b[1], 3502) /\ MATCH_MARK(b[2], 1750),
        DecodedIfGood("PANASONIC", PairsValue(b, 3, 48, 502, 1244, 400)))

decodeLG(b, n) ==
    Try(/\ MATCH_MARK(b[1], 8000)
        /\ n >= 2 * 28 + 1
        /\ MATCH_SPACE(b[2], 4000)
        /\ MATCH_MARK(b[59], 600),
        DecodedIfGood("LG", PairsValue(b, 3, 28, 600, 1600, 550)))

decodeJVC(b, n) ==
    IF n - 1 = 33 /\ MATCH_MARK(b[1], 600) /\ MATCH_MARK(b[n - 1], 600)
    THEN Decoded("JVC", REPEAT)
    ELSE Try(/\ MATCH_MARK(b[1], 8000)
             /\ n >= 2 * 16 + 1
             /\ MATCH_SPACE(b[2], 4000)
             /\ MATCH_MARK(b[35], 600),
             DecodedIfGood("JVC", PairsValue(b, 3, 16, 600, 1600, 550)))

decodeSAMSUNG(b, n) ==
    IF /\ n = 4
       /\ MATCH_MARK(b[1], 5000)
       /\ MATCH_SPACE(b[2], 2250)
       /\ MATCH_MARK(b[3], 560)
    THEN Decoded("SAMSUNG", REPEAT)
    ELSE Try(MATCH_MARK(b[1], 5000) /\ n >= 2 * 32 + 4 /\ MATCH_SPACE(b[2], 5000),
             DecodedIfGood("SAMSUNG", PairsValue(b, 3, 32, 560, 1600, 560)))

\* 0 if newval is shorter, 1 if it is equal and 2 if it is longer.
compare(oldval, newval) ==
    IF newval * 10 < oldval * 8 THEN 0 ELSE IF oldval * 10 < newval * 8 THEN 2 ELSE 1

\* The hash of an unknown code, as the sequence that is hashed.
decodeHash(b, n) ==
    Try(n >= 6, Decoded("UNKNOWN", [i \in 1 .. n - 3 |-> compare(b[i], b[i + 2])]))

\* The first decoder that accepts the buffer.
Decode(b, n) ==
    LET answers == <<decodeNEC(b, n), decodeSony(b, n), decodeSanyo(b, n),
                     decodeMitsubishi(b, n), decodeRC5(b, n), decodeRC6(b, n),
                     decodePanasonic(b), decodeLG(b, n), decodeJVC(b, n),
                     decodeSAMSUNG(b, n), decodeHash(b, n)>>
        good == {i \in DOMAIN answers : answers[i] # ERR}
    IN  IF good = {} THEN ERR ELSE answers[CHOOSE i \in good : \A j \in good : i <= j]

-----------------------------------------------------------------------------
NoCode == [kind |-> "none", bits |-> <<>>]

IrInit ==
    /\ plan \in Plans
    /\ code = NoCode
    /\ out = <<>>
    /\ level = SPACE
    /\ at \in Phases
    /\ lag \in Lags
    /\ irparams = [rcvstate |-> "IDLE", timer |-> 0, rawlen |-> 0,
                   rawbuf |-> [i \in 0 .. RAWBUF - 1 |-> 0]]
    /\ app = "polls"
    /\ results = ERR
    /\ quiet = 0
    /\ listening = FALSE
    /\ heard = [code |-> NoCode, pause |-> 0, whole |-> FALSE]

\* A pause that the timer of 16 bits can tell from no pause.
Noticed(ticks) == Unsigned(ticks) > GAP_TICKS

\* A silence is long enough for the receiver to see its end, and the timer
\* tells it well from none or takes it for none.
ClearPause(ticks) == Noticed(ticks) \/ Unsigned(ticks) \in 1 .. 4

ASSUME PausesAssumption ==
    \A n \in Pauses : /\ n \in Nat /\ n >= GAP_TICKS + 2
                      /\ ClearPause(n) /\ ClearPause(n + GAP_TICKS + 2)

\* After a silence somebody sends the next code.
SendCode(n) ==
    /\ out = <<>>
    /\ plan # <<>>
    /\ irparams' = Samples(irparams, SPACE, n)
    /\ code' = Head(plan)
    /\ out' = Signal(Head(plan))
    /\ plan' = Tail(plan)
    /\ level' = MARK
    /\ quiet' = quiet + n
    /\ UNCHANGED <<at, lag, app, results, listening, heard>>

\* The receiver may wait for the code at its first mark or may not.
FirstMark ==
    IF quiet = 0 THEN UNCHANGED <<listening, heard>>
    ELSE /\ listening' = (irparams.rcvstate = "IDLE" /\ Noticed(quiet))
         /\ heard' = IF listening'
                     THEN [code |-> code, pause |-> Unsigned(quiet), whole |-> TRUE]
                     ELSE heard

\* mark() or space() holds the pin, the interrupt handler samples the sensor.
PulseOut ==
    LET seen == at + Head(out) + (IF level = MARK THEN lag ELSE -lag)
    IN  /\ out # <<>>
        /\ irparams' = Samples(irparams, level, seen \div USECPERTICK)
        /\ at' = seen % USECPERTICK
        /\ out' = Tail(out)
        /\ level' = IF level = MARK THEN SPACE ELSE MARK
        /\ quiet' = 0
        /\ FirstMark
        /\ UNCHANGED <<plan, code, lag, app, results>>

\* Somebody steps into the beam of the last code and stays there to its end.
Cut ==
    /\ out # <<>>
    /\ plan = <<>>
    /\ level = SPACE
    /\ out' = <<>>
    /\ heard' = IF listening THEN [heard EXCEPT !.whole = FALSE] ELSE heard
    /\ UNCHANGED <<plan, code, level, at, lag, irparams, app, results, quiet, listening>>

\* The silence after a code is long enough for the receiver to see its end.
Silence ==
    /\ out = <<>>
    /\ irparams.rcvstate \in {"MARK", "SPACE"}
    /\ irparams' = Samples(irparams, SPACE, GAP_TICKS + 2)
    /\ quiet' = GAP_TICKS + 2
    /\ UNCHANGED <<plan, code, out, level, at, lag, app, results, listening, heard>>

\* decode() answers only when the handler has stopped.
Ready(p) == p.rcvstate = "STOP"

\* The loop of every example: if (irrecv.decode(&results)) { ...
decode ==
    /\ app = "polls"
    /\ Ready(irparams)
    /\ results' = Decode(irparams.rawbuf, irparams.rawlen)
    /\ IF results' = ERR
       THEN irparams' = resume(irparams) /\ UNCHANGED app
       ELSE app' = "uses" /\ UNCHANGED irparams
    /\ UNCHANGED <<plan, code, out, level, at, lag, quiet, listening, heard>>

\* ... irrecv.resume(); }
Resume ==
    /\ app = "uses"
    /\ irparams' = resume(irparams)
    /\ app' = "polls"
    /\ UNCHANGED <<plan, code, out, level, at, lag, results, quiet, listening, heard>>

IrNext == (\E n \in Pauses : SendCode(n)) \/ PulseOut \/ Cut \/ Silence \/ decode \/ Resume

IrSpec == IrInit /\ [][IrNext]_irVars

\* The sender's delays and the silence end, the program's loop goes on.
SignalGoesOn == out # <<>> /\ out' = Tail(out)
SilenceGoesOn == out = <<>> /\ irparams.rcvstate \in {"MARK", "SPACE"}
                    /\ quiet' = GAP_TICKS + 2
LoopGoesOn == app = "polls" /\ Ready(irparams) /\ app' = "uses"

IrFairSpec == IrSpec /\ WF_out(SignalGoesOn) /\ WF_quiet(SilenceGoesOn) /\ WF_app(LoopGoesOn)

-----------------------------------------------------------------------------
(* What decode() should make of a code after a pause.                      *)

\* The entries of rawbuf a code fills, by the mean lag of the sensor.
MeanEntries(c) ==
    [i \in 1 .. Len(Signal(c)) |->
        (Signal(c)[i] + (IF i % 2 = 1 THEN MARK_EXCESS ELSE -MARK_EXCESS)) \div USECPERTICK]

Entries(c) == IF Len(Signal(c)) + 1 > RAWBUF THEN RAWBUF ELSE Len(Signal(c)) + 1

\* Any code of 26 entries that follows another one fast is taken for the
\* repetition of a Sony code, or of a Sanyo code; NEC is looked for before.
TakenForRepetition(c, gap) ==
    /\ c.kind # "NEC"
    /\ Entries(c) >= 26
    /\ \/ gap < SONY_DOUBLE_SPACE_USECS
       \/ gap < SANYO_DOUBLE_SPACE_USECS /\ c.kind # "SONY"

Expected(c, gap) ==
    IF TakenForRepetition(c, gap) THEN Decoded("SANYO", REPEAT)
    ELSE CASE c.kind = "NEC_REPEAT" -> Decoded("NEC", REPEAT)
           [] c.kind = "JVC_REPEAT" -> Decoded("JVC", REPEAT)
           [] c.kind \in {"SHARP", "LONG"} ->
                  decodeHash(MeanEntries(c), Entries(c))
           [] OTHER -> Decoded(c.kind, c.bits)

-----------------------------------------------------------------------------
(* Properties *)

IrTypeOK ==
    /\ out \in Seq(Lengths)
    /\ level \in {MARK, SPACE}
    /\ at \in 0 .. USECPERTICK - 1
    /\ irparams.rcvstate \in {"IDLE", "MARK", "SPACE", "STOP"}
    /\ irparams.rawlen \in 0 .. RAWBUF
    /\ irparams.timer \in UnsignedInt
    /\ DOMAIN irparams.rawbuf = 0 .. RAWBUF - 1
    /\ app \in {"polls", "uses"}
    /\ quiet \in Nat
    /\ listening \in BOOLEAN

\* The space in the header of a Samsung code is as long as the gap the receiver
\* waits for, so a receiver that comes late takes its rest for a code.
LateForSamsung == ~listening /\ code.kind = "SAMSUNG"

\* A code the receiver waited for and nobody cut off is decoded as what was
\* sent: the same protocol, though ten others are tried, and the same bits,
\* wherever the samples fall and whatever the buffer held before.
DecodedIsSent ==
    app = "uses" /\ heard.whole /\ ~LateForSamsung => results = Expected(heard.code, heard.pause)

\* What decode() says is a NEC or a SAMSUNG code was sent as that code and came
\* through whole: not a piece of one, nor a piece filled up with the rest of
\* an older one that still stands in rawbuf.
NothingFromPieces ==
    app = "uses" /\ results.decode_type \in {"NEC", "SAMSUNG"} /\ results.value # REPEAT
        => heard.whole /\ heard.code = [kind |-> results.decode_type, bits |-> results.value]

\* resume() may come in the middle of a code; the receiver then waits for the
\* next one and records no piece of this one.
NeverFromTheMiddle ==
    out # <<>> /\ quiet = 0 /\ ~listening /\ ~LateForSamsung
        => irparams.rcvstate \in {"IDLE", "STOP"}

\* The program is told of no code that was not sent so, from the first sample
\* of the interrupt handler to the last of eleven decoders.
OnlyWhatWasSent == DecodedIsSent /\ NothingFromPieces /\ NeverFromTheMiddle

\* While the program looks at its results the buffer they point to stays as it
\* is, whatever the interrupt handler sees meanwhile.
ResultsStay ==
    [][app = "uses" => irparams'.rawbuf = irparams.rawbuf /\ results' = results]_irVars

\* A code whose first mark finds the receiver waiting is decoded in the end,
\* unless it is cut off.
HeardIsDecoded ==
    (listening /\ Len(out) = Len(Signal(code)) - 1) ~> (app = "uses" \/ ~heard.whole)

\* Every code that is heard gets to the program, and stays until it resumes.
HeardAndKept == HeardIsDecoded /\ ResultsStay

=============================================================================
