-------------------------- MODULE TrackSelectProofs --------------------------
(***************************************************************************)
(* Proofs about song selection, for every base, number length, byte size,  *)
(* timing and kind of user.                                                *)
(***************************************************************************)
EXTENDS TrackSelect, WellFoundedInduction, TLAPS

USE NumberAssumption, TimeAssumption

------------------------------------------------------------------------------
(* Arithmetic *)

(* Storing the value that is there already cannot tear.                    *)
LEMMA TornSame == ASSUME NEW x \in Nat PROVE Torn(x, x) = {x}
BY DEF Torn

(* A torn value is a number of the same kind.                              *)
LEMMA TornNat == ASSUME NEW x \in Nat, NEW y \in Nat PROVE Torn(x, y) \subseteq Nat
BY DEF Torn

(* A set of numbers has a least one; induction over the numbers follows.   *)
LEMMA NatMin ==
  ASSUME NEW T \in SUBSET Nat, T # {}
  PROVE  \E x \in T : \A y \in T : x <= y
<1> DEFINE R == {ss \in Nat \X Nat : ss[1] < ss[2]}
<1>1. IsWellFoundedOn(R, Nat)
  BY NatLessThanWellFounded DEF OpToRel
<1> HIDE DEF R
<1>2. PICK x \in T : \A y \in T : ~(<<y, x>> \in R)
  BY <1>1, WFMin
<1>3. ASSUME NEW y \in T PROVE x <= y
  <2>1. <<y, x>> \notin R
    BY <1>2
  <2>2. x \in Nat /\ y \in Nat
    OBVIOUS
  <2>3. ~(y < x)
    BY <2>1, <2>2 DEF R
  <2> QED
    BY <2>2, <2>3
<1> QED
  BY <1>3

LEMMA SetInduction ==
  ASSUME NEW T \in SUBSET Nat, 0 \in T, \A n \in T : n + 1 \in T
  PROVE  T = Nat
<1> SUFFICES ASSUME Nat \ T # {} PROVE FALSE
  OBVIOUS
<1>1. PICK x \in Nat \ T : \A y \in Nat \ T : x <= y
  BY NatMin
<1>2. x # 0 /\ x - 1 \in Nat
  BY <1>1
<1>3. x - 1 \in T
  BY <1>1, <1>2
<1> QED
  BY <1>1, <1>3, x - 1 + 1 = x

(* f is the sequence that begins with x0 and whose i-th step is h[i].      *)
Follows(f, S, x0, h, N) ==
  f \in [0..N -> S] /\ f[0] = x0 /\ \A i \in 1..N : f[i] = h[i][f[i - 1]]

LEMMA RecursiveExists ==
  ASSUME NEW S, NEW x0 \in S, NEW h \in [Nat -> [S -> S]], NEW N \in Nat
  PROVE  \E f : Follows(f, S, x0, h, N)
<1> DEFINE Solves(f, n) == Follows(f, S, x0, h, n)
           T == {n \in Nat : \E f : Solves(f, n)}
<1> USE DEF Follows
<1>1. 0 \in T
  <2>1. Solves([i \in 0..0 |-> x0], 0)
    OBVIOUS
  <2> QED
    BY <2>1
<1>2. ASSUME NEW n \in T PROVE n + 1 \in T
  <2>1. PICK f : Solves(f, n)
    OBVIOUS
  <2> DEFINE g == [i \in 0..(n + 1) |-> IF i = n + 1 THEN h[i][f[n]] ELSE f[i]]
  <2>2. f[n] \in S /\ h[n + 1][f[n]] \in S
    BY <2>1
  <2>3. g \in [0..(n + 1) -> S]
    BY <2>1, <2>2
  <2>4. g[n + 1] = h[n + 1][f[n]] /\ \A i \in 0..n : g[i] = f[i]
    OBVIOUS
  <2> HIDE DEF g
  <2>5. ASSUME NEW i \in 1..(n + 1)
        PROVE  g[i] = h[i][g[i - 1]]
    <3>1. CASE i = n + 1
      BY <2>4, <3>1
    <3>2. CASE i \in 1..n
      BY <2>1, <2>4, <3>2
    <3> QED
      BY <3>1, <3>2
  <2> QED
    BY <2>1, <2>3, <2>4, <2>5
<1> HIDE DEF T
<1>3. T \in SUBSET Nat
  BY DEF T
<1>4. T = Nat
  BY <1>1, <1>2, <1>3, SetInduction
<1> QED
  BY <1>4, Zenon DEF T

(* The powers of the base are what their recursive definition says.        *)
LEMMA PowerDef ==
  /\ Power \in [0..MaxDigits -> Nat \ {0}] /\ Power[0] = 1
  /\ \A i \in 1..MaxDigits : Power[i] = Radix * Power[i - 1]
<1> DEFINE h == [i \in Nat |-> [x \in Nat |-> Radix * x]]
           Rec(f) == f = [i \in 0..MaxDigits |-> IF i = 0 THEN 1 ELSE Radix * f[i - 1]]
<1>1. h \in [Nat -> [Nat -> Nat]] /\ \A i \in Nat, x \in Nat : h[i][x] = Radix * x
  OBVIOUS
<1> HIDE DEF h
<1>2. PICK f : Follows(f, Nat, 1, h, MaxDigits)
  BY <1>1, RecursiveExists, Zenon
<1> USE DEF Follows
<1>3. ASSUME NEW i \in 0..MaxDigits
      PROVE  f[i] = IF i = 0 THEN 1 ELSE Radix * f[i - 1]
  <2>1. CASE i = 0
    BY <1>2, <2>1
  <2>2. CASE i # 0
    <3>1. i \in 1..MaxDigits /\ i \in Nat /\ i - 1 \in 0..MaxDigits
      BY <2>2
    <3>2. f[i - 1] \in Nat
      BY <1>2, <3>1
    <3>3. h[i][f[i - 1]] = Radix * f[i - 1]
      BY <1>1, <3>1, <3>2
    <3> QED
      BY <1>2, <2>2, <3>1, <3>3
  <2> QED
    BY <2>1, <2>2
<1>4. Rec(f)
  BY <1>2, <1>3
<1>5. Power = CHOOSE g : Rec(g)
  BY DEF Power
<1> HIDE DEF Rec
<1>6. Rec(Power)
  BY <1>4, <1>5
<1>7. Power = [i \in 0..MaxDigits |-> IF i = 0 THEN 1 ELSE Radix * Power[i - 1]]
  BY <1>6 DEF Rec
<1>8. ASSUME NEW i \in 0..MaxDigits
      PROVE  Power[i] = IF i = 0 THEN 1 ELSE Radix * Power[i - 1]
  BY <1>7, Zenon
<1>9. Power[0] = 1 /\ \A i \in 1..MaxDigits : Power[i] = Radix * Power[i - 1]
  BY <1>8
<1> DEFINE T == {n \in Nat : n <= MaxDigits => Power[n] \in Nat \ {0}}
<1>10. \A n \in T : n + 1 \in T
  <2> SUFFICES ASSUME NEW n \in Nat, n + 1 <= MaxDigits, Power[n] \in Nat \ {0}
               PROVE  Power[n + 1] \in Nat \ {0}
    OBVIOUS
  <2>1. Power[n + 1] = Radix * Power[n]
    BY <1>9
  <2> QED
    BY <2>1
<1>11. 0 \in T /\ T \in SUBSET Nat
  BY <1>9
<1> HIDE DEF T
<1>12. T = Nat
  BY <1>10, <1>11, SetInduction
<1>13. \A i \in 0..MaxDigits : Power[i] \in Nat \ {0}
  BY <1>12 DEF T
<1> QED
  BY <1>7, <1>9, <1>13

(* So is the number that the player makes, one digit at a time.            *)
LEMMA ValueDef ==
  ASSUME NEW s \in Seq(Nat)
  PROVE  \E v : /\ v[0] = 0 /\ Value(s) = v[Len(s)]
                /\ \A i \in 1..Len(s) : v[i] = (Radix * v[i - 1]) + s[i]
<1> DEFINE d(i) == IF i \in 1..Len(s) THEN s[i] ELSE 0
           h == [i \in Nat |-> [x \in Nat |-> (Radix * x) + d(i)]]
           Rec(f) == f = [i \in 0..Len(s) |-> IF i = 0 THEN 0 ELSE (Radix * f[i - 1]) + s[i]]
           V == CHOOSE f : Rec(f)
<1>1. Len(s) \in Nat /\ \A i \in Nat : d(i) \in Nat
  OBVIOUS
<1>2. h \in [Nat -> [Nat -> Nat]] /\ \A i \in Nat, x \in Nat : h[i][x] = (Radix * x) + d(i)
  BY <1>1
<1> HIDE DEF h
<1>3. PICK f : Follows(f, Nat, 0, h, Len(s))
  BY <1>1, <1>2, RecursiveExists, Zenon
<1> USE DEF Follows
<1>4. ASSUME NEW i \in 0..Len(s)
      PROVE  f[i] = IF i = 0 THEN 0 ELSE (Radix * f[i - 1]) + s[i]
  <2>1. CASE i = 0
    BY <1>3, <2>1
  <2>2. CASE i # 0
    <3>1. i \in 1..Len(s) /\ i \in Nat /\ i - 1 \in 0..Len(s)
      BY <2>2
    <3>2. f[i - 1] \in Nat
      BY <1>3, <3>1
    <3>3. h[i][f[i - 1]] = (Radix * f[i - 1]) + s[i]
      BY <1>2, <3>1, <3>2
    <3> QED
      BY <1>3, <2>2, <3>1, <3>3
  <2> QED
    BY <2>1, <2>2
<1>5. Rec(f)
  BY <1>3, <1>4
<1>6. Value(s) = V[Len(s)]
  BY DEF Value
<1> HIDE DEF Rec
<1>7. Rec(V)
  BY <1>5, Zenon
<1> HIDE DEF V
<1>8. V = [i \in 0..Len(s) |-> IF i = 0 THEN 0 ELSE (Radix * V[i - 1]) + s[i]]
  BY <1>7 DEF Rec
<1>9. ASSUME NEW i \in 0..Len(s)
      PROVE  V[i] = IF i = 0 THEN 0 ELSE (Radix * V[i - 1]) + s[i]
  BY <1>8, Zenon
<1>10. V[0] = 0 /\ \A i \in 1..Len(s) : V[i] = (Radix * V[i - 1]) + s[i]
  BY <1>1, <1>9
<1> QED
  BY <1>6, <1>10

(* Every number below the largest power has a length that fits.            *)
LEMMA NumberHasLength ==
  ASSUME NEW n \in Nat \ {0}, n < Power[MaxDigits]
  PROVE  countDigits(n) # {}
<1> DEFINE T == {c \in 0..MaxDigits : n < Power[c]}
<1>1. MaxDigits \in T /\ T \in SUBSET Nat
  OBVIOUS
<1>2. PICK c \in T : \A d \in T : c <= d
  BY <1>1, NatMin
<1>3. c # 0
  BY <1>2, PowerDef
<1>4. c - 1 \in 0..MaxDigits /\ c - 1 \notin T
  BY <1>2, <1>3
<1>5. Power[c - 1] <= n
  BY <1>4, PowerDef
<1>6. c \in countDigits(n)
  BY <1>2, <1>3, <1>5 DEF countDigits
<1> QED
  BY <1>6

(* They grow with the length.                                              *)
LEMMA PowerGrows == \A i \in 0..MaxDigits : Power[i] <= Power[MaxDigits]
<1> DEFINE T == {k \in Nat : k <= MaxDigits => Power[MaxDigits - k] <= Power[MaxDigits]}
<1>1. 0 \in T /\ T \in SUBSET Nat
  BY PowerDef
<1>2. \A k \in T : k + 1 \in T
  <2> SUFFICES ASSUME NEW k \in Nat, k + 1 <= MaxDigits,
                      Power[MaxDigits - k] <= Power[MaxDigits]
               PROVE  Power[MaxDigits - (k + 1)] <= Power[MaxDigits]
    OBVIOUS
  <2> DEFINE q == Power[MaxDigits - (k + 1)]
  <2>1. MaxDigits - k \in 1..MaxDigits /\ (MaxDigits - k) - 1 = MaxDigits - (k + 1)
    OBVIOUS
  <2>2. q \in Nat /\ Power[MaxDigits - k] = Radix * q
    BY <2>1, PowerDef
  <2> HIDE DEF q
  <2>3. q <= Radix * q
    BY <2>2
  <2>4. Power[MaxDigits] \in Nat
    BY PowerDef
  <2> QED
    BY <2>2, <2>3, <2>4 DEF q
<1> HIDE DEF T
<1>3. T = Nat
  BY <1>1, <1>2, SetInduction
<1>4. ASSUME NEW i \in 0..MaxDigits PROVE Power[i] <= Power[MaxDigits]
  <2>1. MaxDigits - i \in T /\ MaxDigits - i <= MaxDigits /\ MaxDigits - (MaxDigits - i) = i
    BY <1>3
  <2> QED
    BY <2>1 DEF T
<1> QED
  BY <1>4

(* Division with remainder                                                 *)
LEMMA Division ==
  ASSUME NEW n \in Nat, NEW p \in Nat \ {0}
  PROVE  /\ n \div p \in Nat /\ n = (p * (n \div p)) + (n % p)
         /\ n < p => n \div p = 0
         /\ \A r \in Nat \ {0} : n \div (r * p) = (n \div p) \div r
<1>1. n \div p \in Nat /\ n = (p * (n \div p)) + (n % p)
  OBVIOUS
<1>2. n < p => n \div p = 0
  OBVIOUS
<1>3. ASSUME NEW r \in Nat \ {0} PROVE n \div (r * p) = (n \div p) \div r
  OBVIOUS
<1> QED
  BY <1>1, <1>2, <1>3

(* The digits of a number make the number again.                           *)
LEMMA DigitsMakeNumber ==
  ASSUME NEW n \in Nat, NEW c \in countDigits(n), NEW s \in Seq(Nat), Len(s) = c,
         \A i \in 1..c : s[i] = (n \div Power[c - i]) % Radix
  PROVE  Value(s) = n
<1>1. PICK v : /\ v[0] = 0 /\ Value(s) = v[c]
               /\ \A i \in 1..c : v[i] = (Radix * v[i - 1]) + s[i]
  BY ValueDef
<1>2. c \in 1..MaxDigits /\ n < Power[c]
  BY DEF countDigits
<1> DEFINE T == {i \in Nat : i <= c => v[i] = n \div Power[c - i]}
<1>3. 0 \in T /\ T \in SUBSET Nat
  <2>1. n \div Power[c] = 0
    <3>1. Power[c] \in Nat \ {0}
      BY <1>2, PowerDef
    <3> QED
      BY <1>2, <3>1, Division
  <2> QED
    BY <1>1, <1>2, <2>1
<1>4. \A i \in T : i + 1 \in T
  <2> SUFFICES ASSUME NEW i \in Nat, i + 1 <= c, v[i] = n \div Power[c - i]
               PROVE  v[i + 1] = n \div Power[c - (i + 1)]
    BY <1>2
  <2> DEFINE p == Power[c - (i + 1)]
  <2>1. p \in Nat \ {0} /\ Power[c - i] = Radix * p
    <3>1. c - i \in 1..MaxDigits /\ c - (i + 1) \in 0..MaxDigits /\ (c - i) - 1 = c - (i + 1)
      BY <1>2
    <3> QED
      BY <3>1, PowerDef
  <2>2. v[i + 1] = (Radix * v[i]) + s[i + 1] /\ s[i + 1] = (n \div p) % Radix
    <3>1. i + 1 \in 1..c /\ (i + 1) - 1 = i
      BY <1>2
    <3> QED
      BY <1>1, <3>1
  <2> HIDE DEF p
  <2>3. v[i] = (n \div p) \div Radix
    <3>1. Radix \in Nat \ {0}
      OBVIOUS
    <3>2. n \div (Radix * p) = (n \div p) \div Radix
      BY <2>1, <3>1, Division, ZenonT(40)
    <3> QED
      BY <2>1, <3>2
  <2>4. n \div p \in Nat
    BY <2>1, Division
  <2>5. n \div p = (Radix * ((n \div p) \div Radix)) + ((n \div p) % Radix)
    BY <2>4, Division
  <2> QED
    BY <2>2, <2>3, <2>5 DEF p
<1> HIDE DEF T
<1>5. T = Nat
  BY <1>3, <1>4, SetInduction
<1>6. v[c] = n \div Power[0]
  BY <1>2, <1>5 DEF T
<1> QED
  BY <1>1, <1>6, PowerDef

(* digits_buf keeps its shape and holds digits, whatever the number.       *)
LEMMA SplitType ==
  ASSUME DigitTypes, NEW n \in Nat, NEW c \in 1..MaxDigits
  PROVE  Split(n, c) \in [1..MaxDigits -> 0..Radix - 1]
<1>1. ASSUME NEW i \in 1..MaxDigits, i <= c
      PROVE  (n \div Power[c - i]) % Radix \in 0..Radix - 1
  <2>1. Power[c - i] \in Nat \ {0}
    BY <1>1, PowerDef
  <2>2. n \div Power[c - i] \in Nat
    BY <2>1, Division
  <2> QED
    BY <2>2
<1>2. ASSUME NEW i \in 1..MaxDigits
      PROVE  digits_buf[i] \in 0..Radix - 1
  BY <1>2 DEF DigitTypes
<1> QED
  BY <1>1, <1>2 DEF Split

(* What TakeNumber may leave in digits and digits_buf.                     *)
LEMMA TakeNumberType ==
  ASSUME DigitTypes, NEW n \in Nat, TakeNumber(n)
  PROVE  /\ digits' \in 0..MaxDigits
         /\ digits_buf' \in [1..MaxDigits -> 0..Radix - 1]
         /\ digits # 0 \/ countDigits(n) # {} => digits' # 0
<1>1. CASE countDigits(n) = {}
  BY <1>1 DEF TakeNumber, DigitTypes
<1>2. ASSUME NEW c \in countDigits(n), digits' = c, digits_buf' = Split(n, c)
      PROVE  /\ digits' \in 1..MaxDigits
             /\ digits_buf' \in [1..MaxDigits -> 0..Radix - 1]
  <2>1. c \in 1..MaxDigits
    BY DEF countDigits
  <2> QED
    BY <1>2, <2>1, SplitType
<1> QED
  BY <1>1, <1>2 DEF TakeNumber

------------------------------------------------------------------------------
(* Type correctness, one part of TypeOK at a time *)

LEMMA InitType == Init => TypeOK
<1> SUFFICES ASSUME Init PROVE TypeOK
  OBVIOUS
<1>1. FlagTypes
  BY DEF Init, FlagTypes, WorkerPoint, DeckPoint
<1>2. AgeTypes
  BY DEF Init, AgeTypes
<1>3. SongTypes
  BY DEF Init, SongTypes
<1>4. DigitTypes
  <2>1. digits_buf \in [1..MaxDigits -> 0..Radix - 1]
    BY DEF Init
  <2>2. keyed \in Seq(0..Radix - 1) /\ shown \in Seq(0..Radix - 1)
    BY DEF Init
  <2>3. digits \in 0..MaxDigits /\ ir_digit_flag_first \in 0..digits
    BY DEF Init
  <2> QED
    BY <2>1, <2>2, <2>3 DEF DigitTypes
<1> QED
  BY <1>1, <1>2, <1>3, <1>4 DEF TypeOK


LEMMA FlagStep == FlagTypes /\ [Next]_vars => FlagTypes'
<1> SUFFICES ASSUME FlagTypes, [Next]_vars PROVE FlagTypes'
  OBVIOUS
<1> USE DEF FlagTypes, WorkerPoint, DeckPoint, worker, dial
<1>1. CASE PressFrame \/ ReleaseFrame \/ NoFrame \/ WorkerMute
  BY <1>1 DEF PressFrame, ReleaseFrame, NoFrame, WorkerMute, Toggled, Toggle
<1>2. CASE NoRelease \/ ReleaseLong \/ ReleaseShort
  BY <1>2 DEF NoRelease, ReleaseLong, ReleaseShort
<1>3. CASE StoreByte \/ StoreRest \/ Stamp \/ SetFlag
  BY <1>3 DEF StoreByte, StoreRest, Stamp, SetFlag
<1>4. CASE ir_handler
  <2>1. nxt_flag' \in 0..1
    BY <1>4 DEF ir_handler, ConsumeFlag
  <2>2. dpc' \in DeckPoint /\ ir_flag_first' \in 0..1 /\ playing' \in {"one", "other"}
    BY <1>4 DEF ir_handler, BeginDial, BeginNothing, NextDigit, EndDial, NothingToDial
  <2> QED
    BY <1>4, <2>1, <2>2 DEF ir_handler, Broken
<1>5. CASE DeckMute \/ SampleEnable \/ PlayOn \/ Tick \/ UNCHANGED vars
  BY <1>5 DEF DeckMute, Toggled, Toggle, Broken, SampleEnable, PlayOn, Tick, vars
<1> QED
  BY <1>1, <1>2, <1>3, <1>4, <1>5 DEF Next, Worker, mp3_handler

LEMMA AgeStep == AgeTypes /\ [Next]_vars => AgeTypes'
<1> SUFFICES ASSUME AgeTypes, [Next]_vars PROVE AgeTypes'
  OBVIOUS
<1> USE DEF AgeTypes, worker, dial
<1>1. CASE PressFrame \/ ReleaseFrame \/ NoFrame \/ WorkerMute
  BY <1>1 DEF PressFrame, ReleaseFrame, NoFrame, WorkerMute
<1>2. CASE NoRelease \/ ReleaseLong \/ ReleaseShort
  BY <1>2 DEF NoRelease, ReleaseLong, ReleaseShort
<1>3. CASE StoreByte \/ StoreRest \/ Stamp \/ SetFlag
  BY <1>3 DEF StoreByte, StoreRest, Stamp, SetFlag
<1>4. CASE ir_handler
  BY <1>4 DEF ir_handler, BeginDial, BeginNothing, NextDigit, EndDial, NothingToDial
<1>5. CASE DeckMute \/ SampleEnable \/ PlayOn \/ UNCHANGED vars
  BY <1>5 DEF DeckMute, SampleEnable, PlayOn, vars
<1>6. CASE Tick
  BY <1>6 DEF Tick, Older
<1> QED
  BY <1>1, <1>2, <1>3, <1>4, <1>5, <1>6 DEF Next, Worker, mp3_handler

LEMMA SongStep == SongTypes /\ [Next]_vars => SongTypes'
<1> SUFFICES ASSUME SongTypes, [Next]_vars PROVE SongTypes'
  OBVIOUS
<1> USE DEF SongTypes, worker, dial
<1>1. CASE PressFrame \/ ReleaseFrame \/ NoFrame \/ WorkerMute
  BY <1>1 DEF PressFrame, ReleaseFrame, NoFrame, WorkerMute
<1>2. CASE NoRelease \/ ReleaseLong \/ ReleaseShort
  BY <1>2 DEF NoRelease, ReleaseLong, ReleaseShort, NextSong
<1>3. CASE StoreByte
  <2>1. track_number' \in Nat
    BY <1>3, TornNat DEF StoreByte, NewTrack
  <2> QED
    BY <1>3, <2>1 DEF StoreByte
<1>4. CASE StoreRest \/ Stamp \/ SetFlag
  BY <1>4 DEF StoreRest, Stamp, SetFlag, NewTrack
<1>5. CASE ir_handler
  BY <1>5 DEF ir_handler, BeginDial, BeginNothing, TakenAsStored, NewTrack, NextDigit,
     EndDial, NothingToDial
<1>6. CASE DeckMute \/ SampleEnable \/ PlayOn \/ Tick \/ UNCHANGED vars
  BY <1>6 DEF DeckMute, SampleEnable, PlayOn, Tick, vars
<1> QED
  BY <1>1, <1>2, <1>3, <1>4, <1>5, <1>6 DEF Next, Worker, mp3_handler

(* A step either is one of those that key digits in, or leaves them alone. *)
LEMMA DialCases ==
  ASSUME [Next]_vars
  PROVE  \/ \E settled \in SettledRead :
                BeginDial(settled) \/ BeginNothing(settled)
         \/ NextDigit \/ EndDial
         \/ UNCHANGED <<ir_flag_first, ir_digit_flag_first, digits, digits_buf,
                        keyed, shown, track_on_ir, track_on_ir_last>>
<1>1. CASE Worker
  BY <1>1 DEF Worker, mp3_handler, PressFrame, ReleaseFrame, NoFrame, WorkerMute,
     NoRelease, ReleaseLong, ReleaseShort, StoreByte, StoreRest, Stamp, SetFlag, dial
<1>2. CASE ir_handler
  BY <1>2 DEF ir_handler, NothingToDial, dial
<1>3. CASE DeckMute \/ SampleEnable \/ PlayOn \/ Tick \/ UNCHANGED vars
  BY <1>3 DEF DeckMute, SampleEnable, PlayOn, Tick, vars, dial
<1> QED
  BY <1>1, <1>2, <1>3 DEF Next

(* What is in digits_buf has a key.                                        *)
LEMMA DigitHasKey ==
  ASSUME NEW s, NEW digit \in 0..Radix - 1
  PROVE  send_digit(s, digit) = Append(s, digit)
BY DEF send_digit

LEMMA DigitStep == DigitTypes /\ SongTypes /\ [Next]_vars => DigitTypes'
<1> SUFFICES ASSUME DigitTypes, SongTypes, [Next]_vars PROVE DigitTypes'
  OBVIOUS
<1> USE DEF DigitTypes
<1>1. ASSUME NEW settled \in SettledRead, BeginDial(settled)
      PROVE  DigitTypes'
  <2>1. /\ digits' \in 1..MaxDigits
        /\ digits_buf' \in [1..MaxDigits -> 0..Radix - 1]
    BY <1>1, TakeNumberType DEF BeginDial, SongTypes
  <2>2. keyed' \in Seq(0..Radix - 1)
    <3>1. digits_buf'[1] \in 0..Radix - 1
      BY <2>1, NumberAssumption
    <3>2. keyed' = Append(<<>>, digits_buf'[1])
      BY <1>1, <3>1, DigitHasKey DEF BeginDial
    <3> QED
      BY <3>1, <3>2
  <2> QED
    BY <1>1, <2>1, <2>2 DEF BeginDial
<1>2. ASSUME NEW settled \in SettledRead, BeginNothing(settled)
      PROVE  DigitTypes'
  BY <1>2 DEF BeginNothing
<1>3. CASE NextDigit
  <2>1. keyed' \in Seq(0..Radix - 1)
    <3>1. ir_digit_flag_first' \in 1..MaxDigits
      BY <1>3 DEF NextDigit
    <3>2. keyed' = Append(keyed, digits_buf[ir_digit_flag_first'])
      BY <1>3, <3>1, DigitHasKey DEF NextDigit
    <3> QED
      BY <3>1, <3>2
  <2> QED
    BY <1>3, <2>1 DEF NextDigit
<1>4. CASE EndDial
  <2>1. shown' \in Seq(0..Radix - 1)
    BY <1>4 DEF EndDial
  <2> QED
    BY <1>4, <2>1 DEF EndDial
<1>5. CASE UNCHANGED <<ir_digit_flag_first, digits, digits_buf, keyed, shown>>
  BY <1>5
<1> QED
  BY <1>1, <1>2, <1>3, <1>4, <1>5, DialCases

LEMMA NextType == TypeOK /\ [Next]_vars => TypeOK'
BY FlagStep, AgeStep, SongStep, DigitStep DEF TypeOK

(* Every variable keeps its type: digits_buf is never written outside its  *)
(* bounds and never more digits are sent than were taken.                  *)
THEOREM TypeCorrect == Spec => []TypeOK
BY InitType, NextType, PTL DEF Spec

------------------------------------------------------------------------------
(* What is keyed in is what is shown *)

(* While a selection is under way the digits sent are the first ones of    *)
(* digits_buf, which is not written meanwhile; between selections the SID  *)
(* was given all of them.                                                  *)
KeyInv ==
  /\ ir_flag_first = 1 =>
       /\ Len(keyed) = ir_digit_flag_first
       /\ \A i \in 1..ir_digit_flag_first : keyed[i] = digits_buf[i]
  /\ ir_flag_first = 0 => shown = keyed
  /\ digits = 0 => keyed = <<>> /\ ir_digit_flag_first = 0

LEMMA KeyStep == TypeOK /\ TypeOK' /\ KeyInv /\ [Next]_vars => KeyInv'
<1> SUFFICES ASSUME TypeOK, TypeOK', KeyInv, [Next]_vars PROVE KeyInv'
  OBVIOUS
<1>0. DigitTypes /\ DigitTypes' /\ SongTypes
  BY DEF TypeOK
<1> USE DEF KeyInv, DigitTypes
<1>1. ASSUME NEW settled \in SettledRead, BeginDial(settled)
      PROVE  KeyInv'
  <2>1. digits' # 0
    BY <1>0, <1>1, TakeNumberType DEF BeginDial, SongTypes
  <2>2. digits_buf'[1] \in 0..Radix - 1
    BY <1>0, NumberAssumption
  <2>3. keyed' = Append(<<>>, digits_buf'[1])
    BY <1>1, <2>2, DigitHasKey DEF BeginDial
  <2> QED
    BY <1>0, <1>1, <2>1, <2>3 DEF BeginDial
<1>2. ASSUME NEW settled \in SettledRead, BeginNothing(settled)
      PROVE  KeyInv'
  BY <1>0, <1>2 DEF BeginNothing, MayBegin
<1>3. CASE NextDigit
  <2>1. ir_digit_flag_first' \in 1..MaxDigits
    BY <1>0, <1>3 DEF NextDigit
  <2>2. keyed' = Append(keyed, digits_buf[ir_digit_flag_first'])
    BY <1>0, <1>3, <2>1, DigitHasKey DEF NextDigit
  <2> QED
    BY <1>0, <1>3, <2>2 DEF NextDigit
<1>4. CASE EndDial
  <2>1. Len(keyed) = digits /\ \A i \in 1..digits : keyed[i] = digits_buf[i]
    BY <1>4 DEF EndDial, AllSent
  <2>2. keyed = SubSeq(digits_buf, 1, digits)
    BY <1>0, <2>1, SMTT(40)
  <2> QED
    BY <1>0, <1>4, <2>2 DEF EndDial
<1>5. CASE UNCHANGED <<ir_flag_first, ir_digit_flag_first, digits, digits_buf,
                       keyed, shown>>
  BY <1>5
<1> QED
  BY <1>1, <1>2, <1>3, <1>4, <1>5, DialCases

(* The SID never shows another number than the one the player was given,   *)
(* however long the number and whatever is pressed while it is sent.       *)
THEOREM ShownCorrect == Spec => []ShownIsKeyed
<1>1. Init => KeyInv
  BY DEF Init, KeyInv
<1>2. TypeOK /\ TypeOK' /\ KeyInv /\ [Next]_vars => KeyInv'
  BY KeyStep
<1>3. KeyInv => ShownIsKeyed
  BY DEF KeyInv, ShownIsKeyed
<1> QED
  BY <1>1, <1>2, <1>3, TypeCorrect, PTL DEF Spec

------------------------------------------------------------------------------
(* The player is left alone between two selections *)

RestInv == ir_flag_first = 0 => gap > Busy \/ keyed = <<>>

LEMMA RestStep == TypeOK /\ KeyInv /\ RestInv /\ [Next]_vars => RestInv'
<1> SUFFICES ASSUME TypeOK, KeyInv, RestInv, [Next]_vars PROVE RestInv'
  OBVIOUS
<1> USE DEF RestInv
<1>1. CASE Worker
  BY <1>1 DEF Worker, mp3_handler, PressFrame, ReleaseFrame, NoFrame, WorkerMute,
     NoRelease, ReleaseLong, ReleaseShort, StoreByte, StoreRest, Stamp, SetFlag, dial
<1>2. CASE ir_handler
  <2>1. ASSUME NEW settled \in SettledRead,
               BeginDial(settled) \/ BeginNothing(settled) \/ NothingToDial(settled)
        PROVE  RestInv'
    BY <2>1 DEF BeginDial, BeginNothing, NothingToDial, dial
  <2>2. CASE NextDigit \/ EndDial
    BY <2>2 DEF NextDigit, EndDial, SearchDone
  <2> QED
    BY <1>2, <2>1, <2>2 DEF ir_handler
<1>3. CASE DeckMute \/ SampleEnable \/ PlayOn \/ UNCHANGED vars
  BY <1>3 DEF DeckMute, SampleEnable, PlayOn, vars, dial
<1>4. CASE Tick
  BY <1>4 DEF Tick, Older, TypeOK, AgeTypes
<1> QED
  BY <1>1, <1>2, <1>3, <1>4 DEF Next

(* No digit of a song is sent before the player had its time to find the   *)
(* song before, for any values of the two delays.                          *)
THEOREM RestCorrect == Spec => PlayerGetsTime
<1>1. Init => KeyInv /\ RestInv
  BY DEF Init, KeyInv, RestInv
<1>2. TypeOK /\ TypeOK' /\ KeyInv /\ RestInv /\ [Next]_vars => KeyInv' /\ RestInv'
  BY KeyStep, RestStep
<1>3. RestInv /\ [Next]_vars
        => [ir_flag_first = 0 /\ ir_flag_first' = 1 => gap > Busy \/ keyed = <<>>]_vars
  BY DEF RestInv
<1> QED
  BY <1>1, <1>2, <1>3, TypeCorrect, PTL DEF Spec, PlayerGetsTime

(* One selection is keyed in, waited for and shown before the next begins. *)
THEOREM OneAtATime == Spec => OneSelectionAtATime
BY ShownCorrect, RestCorrect, PTL DEF OneSelectionAtATime

------------------------------------------------------------------------------
(* The song last asked for is the next one selected *)

(* The number that track_number has, or is about to have.                  *)
Coming == IF wpc \in {"store", "store2"} THEN tr ELSE track_number

(* What is due is what is coming; when nothing is due, the coming number   *)
(* is song 1 or none, or the one being keyed in or keyed in last, and then *)
(* the store under way, if any, stores what is there already.              *)
DueInv ==
  /\ due # 0 => Coming = due
  /\ due = 0 => \/ Coming \in {0, 1}
                \/ /\ track_number = Coming
                   /\ Coming = IF ir_flag_first = 0 THEN track_on_ir_last ELSE track_on_ir

LEMMA DueStep == TypeOK /\ DueInv /\ [Next]_vars => DueInv'
<1> SUFFICES ASSUME TypeOK, DueInv, [Next]_vars PROVE DueInv'
  OBVIOUS
<1>0. SongTypes /\ FlagTypes
  BY DEF TypeOK
<1> USE DEF DueInv, Coming, SongTypes, dial, worker
<1>1. CASE PressFrame \/ ReleaseFrame \/ NoFrame \/ WorkerMute \/ NoRelease
  BY <1>0, <1>1 DEF PressFrame, ReleaseFrame, NoFrame, WorkerMute, NoRelease
<1>2. CASE ReleaseLong \/ ReleaseShort
  BY <1>0, <1>2 DEF ReleaseLong, ReleaseShort, NextSong
<1>3. CASE StoreByte
  <2>1. track_number = tr => track_number' = tr
    BY <1>0, <1>3, TornSame DEF StoreByte, NewTrack
  <2> QED
    BY <1>0, <1>3, <2>1 DEF StoreByte
<1>4. CASE StoreRest \/ Stamp \/ SetFlag
  BY <1>0, <1>4 DEF StoreRest, Stamp, SetFlag, NewTrack
<1>5. CASE ir_handler
  <2>1. ASSUME NEW settled \in SettledRead,
               BeginDial(settled) \/ BeginNothing(settled)
        PROVE  DueInv'
    BY <1>0, <1>5, <2>1 DEF ir_handler, BeginDial, BeginNothing, MayBegin
  <2>2. CASE NextDigit \/ EndDial
    BY <1>0, <1>5, <2>2 DEF ir_handler, NextDigit, EndDial
  <2>3. ASSUME NEW settled \in SettledRead, NothingToDial(settled)
        PROVE  DueInv'
    BY <1>0, <1>5, <2>3 DEF ir_handler, NothingToDial
  <2> QED
    BY <1>5, <2>1, <2>2, <2>3 DEF ir_handler
<1>6. CASE DeckMute \/ SampleEnable \/ PlayOn \/ Tick \/ UNCHANGED vars
  BY <1>0, <1>6 DEF DeckMute, SampleEnable, PlayOn, Tick, vars
<1> QED
  BY <1>1, <1>2, <1>3, <1>4, <1>5, <1>6 DEF Next, Worker, mp3_handler

(* Outside the store of track_number a selection that begins is always the *)
(* one last asked for: presses during a selection may be lost, but never   *)
(* mixed up.                                                               *)
THEOREM LatestCorrect == Spec => LatestIsDialled
<1>1. Init => DueInv
  BY DEF Init, DueInv, Coming
<1>2. TypeOK /\ DueInv /\ [Next]_vars => DueInv'
  BY DueStep
<1>3. TypeOK /\ DueInv /\ [Next]_vars =>
        [ir_flag_first = 0 /\ ir_flag_first' = 1 /\ wpc \notin {"store", "store2"}
           => track_on_ir' = IF due = 0 THEN 1 ELSE due]_vars
  <2> SUFFICES ASSUME DueInv, [Next]_vars, ir_flag_first = 0, ir_flag_first' = 1,
                      wpc \notin {"store", "store2"}
               PROVE  track_on_ir' = IF due = 0 THEN 1 ELSE due
    OBVIOUS
  <2>1. PICK settled \in SettledRead : BeginDial(settled) \/ BeginNothing(settled)
    BY DialCases DEF NextDigit, EndDial
  <2> QED
    BY <2>1 DEF BeginDial, BeginNothing, MayBegin, DueInv, Coming
<1> QED
  BY <1>1, <1>2, <1>3, TypeCorrect, PTL DEF Spec, LatestIsDialled

------------------------------------------------------------------------------
(* What is keyed in is the number that was taken *)

(* digits_buf holds the digits of the number under way, or, when that is   *)
(* too long, still those that are shown, as it does between selections.    *)
ShownIsBuffer ==
  Len(shown) = digits /\ \A i \in 1..digits : shown[i] = digits_buf[i]
BufferInv ==
  /\ ir_flag_first = 0 => ShownIsBuffer
  /\ ir_flag_first = 1 =>
       IF track_on_ir < Power[MaxDigits]
       THEN /\ digits \in countDigits(track_on_ir)
            /\ \A i \in 1..digits :
                 digits_buf[i] = (track_on_ir \div Power[digits - i]) % Radix
       ELSE ShownIsBuffer

(* A number has a length that fits just if it is below the largest power.  *)
LEMMA LengthFits ==
  ASSUME NEW n \in Nat \ {0}
  PROVE  countDigits(n) # {} <=> n < Power[MaxDigits]
<1>1. ASSUME NEW c \in countDigits(n) PROVE n < Power[MaxDigits]
  <2>1. c \in 0..MaxDigits /\ n < Power[c]
    BY DEF countDigits
  <2>2. Power[c] <= Power[MaxDigits] /\ Power[c] \in Nat /\ Power[MaxDigits] \in Nat
    BY <2>1, PowerGrows, PowerDef
  <2> QED
    BY <2>1, <2>2
<1> QED
  BY <1>1, NumberHasLength

LEMMA BufferStep == TypeOK /\ BufferInv /\ [Next]_vars => BufferInv'
<1> SUFFICES ASSUME TypeOK, BufferInv, [Next]_vars PROVE BufferInv'
  OBVIOUS
<1>0. DigitTypes /\ SongTypes
  BY DEF TypeOK
<1> USE DEF BufferInv, ShownIsBuffer
<1>1. ASSUME NEW settled \in SettledRead, BeginDial(settled)
      PROVE  BufferInv'
  <2>1. /\ track_number \in Nat \ {0} /\ track_on_ir' = track_number
        /\ ir_flag_first = 0 /\ ir_flag_first' = 1 /\ shown' = shown
        /\ TakeNumber(track_number)
    BY <1>0, <1>1 DEF BeginDial, MayBegin, SongTypes
  <2>2. CASE countDigits(track_number) = {}
    <3>1. UNCHANGED <<digits, digits_buf>>
      BY <2>1, <2>2 DEF TakeNumber
    <3>2. ~(track_number < Power[MaxDigits])
      BY <2>1, <2>2, LengthFits
    <3> QED
      BY <2>1, <3>1, <3>2
  <2>3. CASE countDigits(track_number) # {}
    <3>1. PICK c \in countDigits(track_number) :
            digits' = c /\ digits_buf' = Split(track_number, c)
      BY <2>1, <2>3 DEF TakeNumber
    <3>2. track_number < Power[MaxDigits] /\ c \in 1..MaxDigits
      BY <2>1, <2>3, LengthFits DEF countDigits
    <3>3. \A i \in 1..c : digits_buf'[i] = (track_number \div Power[c - i]) % Radix
      BY <3>1, <3>2 DEF Split
    <3> QED
      BY <2>1, <3>1, <3>2, <3>3 DEF countDigits
  <2> QED
    BY <2>2, <2>3
<1>2. ASSUME NEW settled \in SettledRead, BeginNothing(settled)
      PROVE  BufferInv'
  <2>1. /\ track_number \in Nat \ {0} /\ countDigits(track_number) = {}
        /\ ir_flag_first = 0 /\ UNCHANGED <<shown, digits, digits_buf>>
        /\ ir_flag_first' = 0 \/ (ir_flag_first' = 1 /\ track_on_ir' = track_number)
    BY <1>0, <1>2 DEF BeginNothing, MayBegin, SongTypes
  <2>2. ~(track_number < Power[MaxDigits])
    BY <2>1, LengthFits
  <2> QED
    BY <2>1, <2>2
<1>3. CASE NextDigit
  BY <1>3 DEF NextDigit, countDigits
<1>4. CASE EndDial
  <2>1. /\ ir_flag_first' = 0 /\ UNCHANGED <<digits, digits_buf>>
        /\ shown' = SubSeq(digits_buf, 1, digits)
    BY <1>4 DEF EndDial
  <2> QED
    BY <1>0, <2>1 DEF DigitTypes
<1>5. CASE UNCHANGED <<ir_flag_first, digits, digits_buf, shown, track_on_ir>>
  BY <1>5 DEF countDigits
<1> QED
  BY <1>1, <1>2, <1>3, <1>4, <1>5, DialCases

(* For every base and every length of digits_buf the digits that the       *)
(* player was given make up the number that ir_handler took, whatever was  *)
(* pressed meanwhile; a number too long keys in the one shown again.       *)
THEOREM KeyedCorrect == Spec => []KeyedIsTheTrack
<1>1. Init => KeyInv /\ BufferInv
  BY DEF Init, KeyInv, BufferInv, ShownIsBuffer
<1>2. TypeOK /\ TypeOK' /\ KeyInv /\ BufferInv /\ [Next]_vars => KeyInv' /\ BufferInv'
  BY KeyStep, BufferStep
<1>3. TypeOK /\ KeyInv /\ BufferInv => KeyedIsTheTrack
  <2> SUFFICES ASSUME TypeOK, KeyInv, BufferInv, ir_flag_first = 1,
                      ir_digit_flag_first = digits
               PROVE  IF track_on_ir < Power[MaxDigits]
                      THEN Value(keyed) = track_on_ir
                      ELSE keyed = shown
    BY DEF KeyedIsTheTrack
  <2>1. /\ keyed \in Seq(0..Radix - 1) /\ shown \in Seq(0..Radix - 1)
        /\ track_on_ir \in Nat
    BY DEF TypeOK, DigitTypes, SongTypes
  <2>2. Len(keyed) = digits /\ \A i \in 1..digits : keyed[i] = digits_buf[i]
    BY DEF KeyInv
  <2>3. CASE track_on_ir < Power[MaxDigits]
    <3>1. keyed \in Seq(Nat)
      BY <2>1
    <3> QED
      <4>1. /\ digits \in countDigits(track_on_ir)
            /\ \A i \in 1..digits :
                 keyed[i] = (track_on_ir \div Power[digits - i]) % Radix
        BY <2>2, <2>3 DEF BufferInv
      <4>2. Value(keyed) = track_on_ir
        BY <2>1, <2>2, <3>1, <4>1, DigitsMakeNumber
      <4> QED
        BY <2>3, <4>2
  <2>4. CASE ~(track_on_ir < Power[MaxDigits])
    <3>1. Len(shown) = digits /\ \A i \in 1..digits : shown[i] = digits_buf[i]
      BY <2>4 DEF BufferInv, ShownIsBuffer
    <3>2. keyed = shown
      <4>1. /\ keyed = [i \in 1..Len(keyed) |-> keyed[i]]
            /\ shown = [i \in 1..Len(shown) |-> shown[i]]
        BY <2>1, SMTT(40)
      <4>2. \A i \in 1..digits : keyed[i] = shown[i]
        BY <2>2, <3>1
      <4> QED
        BY <2>2, <3>1, <4>1, <4>2
    <3> QED
      BY <2>4, <3>2
  <2> QED
    BY <2>3, <2>4
<1> QED
  BY <1>1, <1>2, <1>3, TypeCorrect, PTL DEF Spec

------------------------------------------------------------------------------
(* Only songs that were asked for are selected *)

LEMMA NextIsSong == ASSUME NEW n \in Nat, n % Skip = 0 PROVE (n + Skip) % Skip = 0
<1> DEFINE q == n \div Skip
<1>1. q \in Nat /\ n = Skip * q
  <2>1. Skip \in Nat \ {0}
    OBVIOUS
  <2>2. q \in Nat /\ n = (Skip * q) + (n % Skip)
    BY <2>1, Division
  <2> QED
    BY <2>2
<1> HIDE DEF q
<1>2. n + Skip = Skip * (q + 1) /\ q + 1 \in Nat
  BY <1>1
<1>3. \A k \in Nat : (Skip * k) % Skip = 0
  OBVIOUS
<1>4. (Skip * (q + 1)) % Skip = 0
  BY <1>2, <1>3
<1> QED
  BY <1>2, <1>4

(* The two bytes of a number determine it.                                 *)
LEMMA Bytes ==
  ASSUME NEW q \in Nat, NEW b \in 0..ByteBase - 1
  PROVE  ((q * ByteBase) + b) \div ByteBase = q /\ ((q * ByteBase) + b) % ByteBase = b
BY SMTT(40)

(* m and n have a byte in common.                                          *)
Shares(m, n) == m \div ByteBase = n \div ByteBase \/ m % ByteBase = n % ByteBase

(* One byte of a half stored number is the new one's.                      *)
LEMMA TornShares ==
  ASSUME NEW x \in Nat, NEW y \in Nat, NEW m \in Torn(x, y)
  PROVE  Shares(m, y)
<1>1. /\ x \div ByteBase \in Nat /\ x % ByteBase \in 0..ByteBase - 1
      /\ y \div ByteBase \in Nat /\ y % ByteBase \in 0..ByteBase - 1
  <2>1. ByteBase \in Nat \ {0}
    OBVIOUS
  <2>2. x \div ByteBase \in Nat /\ y \div ByteBase \in Nat
    BY <2>1, Division
  <2>3. x % ByteBase \in 0..ByteBase - 1 /\ y % ByteBase \in 0..ByteBase - 1
    BY <2>1
  <2> QED
    BY <2>2, <2>3
<1>2. CASE m = ((y \div ByteBase) * ByteBase) + (x % ByteBase)
  <2>1. m \div ByteBase = y \div ByteBase
    BY <1>1, <1>2, Bytes
  <2> QED
    BY <2>1 DEF Shares
<1>3. CASE m = ((x \div ByteBase) * ByteBase) + (y % ByteBase)
  <2>1. m % ByteBase = y % ByteBase
    BY <1>1, <1>3, Bytes
  <2> QED
    BY <2>1 DEF Shares
<1> QED
  BY <1>2, <1>3 DEF Torn

(* track_number holds a song but between its two stores; the number under  *)
(* way was taken from it, and torn says whether between them.  The Worker  *)
(* stores a number only after a release.                                   *)
AskedInv ==
  /\ wpc # "store2" => IsSong(track_number)
  /\ wpc = "store2" => Shares(track_number, tr)
  /\ IsSong(tr)
  /\ wpc \in {"store", "store2"} /\ release = "short" => tr % Skip = 0
  /\ wpc \in {"store", "store2", "stamp", "flag"} => src_long = 0 /\ previous = 0
  /\ ir_flag_first = 0 => track_on_ir = 0
  /\ torn = 0 => IsSong(track_on_ir)
  /\ torn # 0 /\ track_on_ir # 0 => Shares(track_on_ir, torn)

LEMMA AskedInit == Init => AskedInv
<1>1. 0 % Skip = 0
  OBVIOUS
<1> QED
  BY <1>1 DEF Init, AskedInv, IsSong

(* A number that is taken is a song, or torn says of which it has a byte.  *)
LEMMA TakenIsAsked ==
  ASSUME SongTypes, AskedInv, TakenAsStored
  PROVE  /\ torn' = 0 => IsSong(track_number)
         /\ torn' # 0 => Shares(track_number, torn')
<1>1. CASE wpc = "store2" /\ track_number # tr
  <2>1. torn' = tr /\ tr # 0
    BY <1>1 DEF TakenAsStored, NewTrack, SongTypes
  <2> QED
    BY <1>1, <2>1 DEF AskedInv
<1>2. CASE ~(wpc = "store2" /\ track_number # tr)
  <2>1. torn' = 0
    BY <1>2 DEF TakenAsStored, NewTrack
  <2> QED
    BY <1>2, <2>1 DEF AskedInv
<1> QED
  BY <1>1, <1>2

(* ir_handler reads track_number, and nothing else of the Worker's changes.*)
LEMMA AskedDial == ASSUME SongTypes, FlagTypes, AskedInv, ir_handler PROVE AskedInv'
<1>1. UNCHANGED <<track_number, worker>>
  BY DEF ir_handler
<1>2. ASSUME NEW settled \in SettledRead, BeginDial(settled) \/ BeginNothing(settled)
      PROVE  /\ ir_flag_first' = 0 => track_on_ir' = 0
             /\ torn' = 0 => IsSong(track_on_ir')
             /\ torn' # 0 /\ track_on_ir' # 0 => Shares(track_on_ir', torn')
  <2>1. /\ TakenAsStored /\ ir_flag_first = 0 /\ ir_flag_first' \in 0..1
        /\ \/ ir_flag_first' = 1 /\ track_on_ir' = track_number
           \/ track_on_ir' = track_on_ir
    BY <1>2 DEF BeginDial, BeginNothing, MayBegin, FlagTypes
  <2>2. track_on_ir = 0 /\ IsSong(0)
    BY <2>1 DEF AskedInv, IsSong
  <2>3. CASE track_on_ir' = track_number /\ ir_flag_first' = 1
    BY <2>1, <2>3, TakenIsAsked
  <2>4. CASE track_on_ir' = track_on_ir
    BY <2>2, <2>4
  <2> QED
    BY <2>1, <2>3, <2>4
<1>3. CASE NextDigit
  BY <1>1, <1>3 DEF NextDigit, AskedInv, worker, IsSong, Shares
<1>4. CASE EndDial
  <2>1. IsSong(0)
    BY DEF IsSong
  <2> QED
    BY <1>1, <1>4, <2>1 DEF EndDial, AskedInv, worker, IsSong, Shares
<1>5. ASSUME NEW settled \in SettledRead, NothingToDial(settled) PROVE AskedInv'
  BY <1>1, <1>5 DEF NothingToDial, AskedInv, worker, dial, IsSong, Shares
<1>6. ASSUME NEW settled \in SettledRead, BeginDial(settled) \/ BeginNothing(settled)
      PROVE  AskedInv'
  BY <1>1, <1>2, <1>6 DEF AskedInv, worker, IsSong, Shares
<1> QED
  BY <1>3, <1>4, <1>5, <1>6 DEF ir_handler

LEMMA AskedStep == TypeOK /\ AskedInv /\ [Next]_vars => AskedInv'
<1> SUFFICES ASSUME TypeOK, AskedInv, [Next]_vars PROVE AskedInv'
  OBVIOUS
<1>0. SongTypes /\ FlagTypes
  BY DEF TypeOK
<1> USE DEF AskedInv, IsSong, Shares, SongTypes, FlagTypes, dial, worker
<1>1. CASE PressFrame \/ ReleaseFrame \/ NoFrame
  BY <1>0, <1>1 DEF PressFrame, ReleaseFrame, NoFrame
<1>2. CASE WorkerMute \/ NoRelease
  BY <1>0, <1>2 DEF WorkerMute, NoRelease
<1>3. CASE ReleaseLong
  BY <1>0, <1>3 DEF ReleaseLong
<1>4. CASE ReleaseShort
  <2>1. Skip % Skip = 0
    OBVIOUS
  <2> QED
    BY <1>0, <1>4, <2>1 DEF ReleaseShort, NextSong
<1>5. CASE StoreByte
  <2>1. Shares(track_number', tr)
    BY <1>0, <1>5, TornShares DEF StoreByte, NewTrack
  <2> QED
    BY <1>0, <1>5, <2>1 DEF StoreByte
<1>6. CASE StoreRest
  <2>1. /\ track_number' = tr /\ tr \in Nat /\ wpc = "store2"
        /\ tr' = IF release = "short" THEN tr + Skip ELSE tr
        /\ wpc' \in {"stamp", "flag"}
        /\ UNCHANGED <<src_long, previous, dial>>
    BY <1>0, <1>6 DEF StoreRest, NewTrack
  <2>2. IsSong(tr')
    BY <2>1, NextIsSong
  <2> QED
    BY <2>1, <2>2
<1>7. CASE Stamp \/ SetFlag
  BY <1>0, <1>7 DEF Stamp, SetFlag
<1>8. CASE ir_handler
  BY <1>0, <1>8, AskedDial
<1>9. CASE DeckMute \/ SampleEnable \/ PlayOn \/ Tick \/ UNCHANGED vars
  BY <1>0, <1>9 DEF DeckMute, SampleEnable, PlayOn, Tick, vars
<1> QED
  BY <1>1, <1>2, <1>3, <1>4, <1>5, <1>6, <1>7, <1>8, <1>9 DEF Next, Worker, mp3_handler

(* However many bytes the numbers of the songs take, a number is keyed in  *)
(* that no press asked for only when the deck preempted the Worker between *)
(* the two stores of it, and then half of it is the song asked for.        *)
THEOREM OnlyAskedCorrect == Spec => []OnlyAskedSongs
<1>1. AskedInv => OnlyAskedSongs
  BY DEF AskedInv, Shares, OnlyAskedSongs
<1> QED
  BY <1>1, AskedInit, AskedStep, TypeCorrect, PTL DEF Spec

------------------------------------------------------------------------------
(* A careful user hears the player again *)

(* The button is down, or its release is not handled yet.                  *)
Holding == src_long = 1 \/ previous = 1

(* The song that is coming was selected, or none is.                       *)
Settled == ir_flag_first = 0 /\ Coming = track_on_ir_last

(* Nothing else goes on while the button is down, and the player was muted *)
(* by its first frame; a long press is not made while song 1 is selected.  *)
HoldInv ==
  /\ Holding => /\ enableState = 1 /\ mute = 1 /\ nxt_flag = 0
                /\ Settled /\ dpc = "idle"
                /\ wpc \in {"can", "mute1", "frame", "mute2", "mp3"}
  /\ wpc = "can" => previous = src_long
  /\ wpc \in {"mute1", "frame", "mute2"} => src_long = 1 /\ previous = 0
  /\ wpc = "mp3" /\ src_long = 0 /\ previous = 1 =>
       hold > MinPress /\ (hold > LongPress => track_on_ir_last # 1)

(* The song under way is the one that is coming, the number stored is that *)
(* one or the one before but between its two stores, where no selection    *)
(* began, and the next press selects another.                              *)
CourseInv ==
  /\ ir_flag_first = 1 =>
       dpc = "idle" /\ track_on_ir = track_number /\ Coming = track_number
  /\ dpc # "idle" => Settled /\ Coming = track_number
  /\ wpc # "store2" => track_number \in {track_on_ir_last, Coming}
  /\ wpc = "store" => ir_flag_first = 0 /\ dpc = "idle" /\ ~Settled
                        /\ track_number = track_on_ir_last
  /\ Coming = 0 => track_on_ir_last = 0
  /\ IF wpc \in {"store", "store2"}
       THEN IF release = "long" THEN tr = 1 ELSE tr > 1
       ELSE \/ tr = 1 /\ track_number \in {0, 1}
            \/ tr = track_number + Skip /\ track_number > 1

(* A song that is not begun yet is going to be: the flag is set, or will   *)
(* be once the number is stored.                                           *)
FlagInv ==
  ir_flag_first = 0 /\ ~Settled =>
    \/ nxt_flag = 1 \/ wpc \in {"store", "store2", "flag"}
    \/ wpc = "stamp" /\ release = "short"

(* The player is muted from the Worker's MUTE to the deck's, or nobody     *)
(* knows.                                                                  *)
SilentNow ==
  IF Holding THEN wpc \notin {"mute1", "frame"}
             ELSE dpc = "mute1" \/ (dpc = "idle" /\ ~Settled)
SoundInv ==
  /\ SilentNow => sound # "on" /\ enableState = 1
  /\ ~SilentNow => sound # "muted"
  /\ ~Holding /\ Settled /\ dpc = "idle" => mute = 0
  /\ enableState = 0 => /\ sound = "on" /\ nxt_flag = 0 /\ dpc = "idle"
                        /\ wpc \in {"can", "mp3"}

CarefulInv == HoldInv /\ CourseInv /\ FlagInv /\ SoundInv

(* Without power the player is not muted, and nothing is under way.        *)
PowerInv ==
  enableState = 0 => /\ sound = "on" /\ wpc \in {"can", "mp3"}
                     /\ src_long = 0 /\ previous = 0

LEMMA CarefulInit == Init => CarefulInv
BY NumberAssumption DEF Init, CarefulInv, HoldInv, CourseInv, FlagInv, SoundInv,
   SilentNow, Holding, Settled, Coming

(* The frames of the steering wheel: a press begins only when all is quiet.*)
LEMMA CarefulFrame ==
  ASSUME User = "careful", FlagTypes, SongTypes, AgeTypes, AskedInv, CarefulInv,
         PressFrame \/ ReleaseFrame \/ NoFrame
  PROVE  CarefulInv'
<1> USE DEF CarefulInv, HoldInv, CourseInv, FlagInv, SoundInv, SilentNow, Holding,
            Settled, Coming, FlagTypes, SongTypes, dial
<1>1. CASE PressFrame /\ FirstFrame
  BY <1>1 DEF PressFrame, FirstFrame, MayPress, Quiet
<1>2. CASE PressFrame /\ ~FirstFrame
  BY <1>2 DEF PressFrame, FirstFrame, MayPress, Quiet
<1>3. CASE ReleaseFrame
  BY <1>3 DEF ReleaseFrame, MayRelease
<1>4. CASE NoFrame
  BY <1>4 DEF NoFrame
<1> QED
  BY <1>1, <1>2, <1>3, <1>4

(* The Worker's MUTE silences a player that was on, or breaks.             *)
LEMMA CarefulMute ==
  ASSUME FlagTypes, CarefulInv, WorkerMute
  PROVE  CarefulInv'
BY DEF CarefulInv, HoldInv, CourseInv, FlagInv, SoundInv, SilentNow, Holding, Settled,
   Coming, FlagTypes, dial, WorkerMute, Toggled, Toggle

(* mp3_handler: a release selects another song than the one keyed in last. *)
LEMMA CarefulRelease ==
  ASSUME FlagTypes, SongTypes, AgeTypes, AskedInv, CarefulInv,
         NoRelease \/ ReleaseLong \/ ReleaseShort
  PROVE  CarefulInv'
<1> USE DEF CarefulInv, HoldInv, CourseInv, FlagInv, SoundInv, SilentNow, Holding,
            Settled, Coming, FlagTypes, SongTypes, AgeTypes, dial
<1>1. CASE NoRelease
  BY <1>1 DEF NoRelease
<1>2. CASE ReleaseLong
  BY <1>2 DEF ReleaseLong
<1>3. CASE ReleaseShort
  BY <1>3 DEF ReleaseShort, NextSong
<1> QED
  BY <1>1, <1>2, <1>3

LEMMA CarefulStore ==
  ASSUME FlagTypes, SongTypes, AskedInv, CarefulInv,
         StoreByte \/ StoreRest \/ Stamp \/ SetFlag
  PROVE  CarefulInv'
<1> USE DEF CarefulInv, HoldInv, CourseInv, FlagInv, SoundInv, SilentNow, Holding,
            Settled, Coming, FlagTypes, SongTypes, dial
<1>1. CASE StoreByte
  BY <1>1 DEF StoreByte
<1>2. CASE StoreRest
  BY <1>2 DEF StoreRest, NewTrack
<1>3. CASE Stamp
  BY <1>3 DEF Stamp, AskedInv
<1>4. CASE SetFlag
  BY <1>4 DEF SetFlag, AskedInv
<1> QED
  BY <1>1, <1>2, <1>3, <1>4

(* ir_handler: the flag is never consumed in vain, as long as no number is *)
(* taken half stored.                                                      *)
LEMMA CarefulDial ==
  ASSUME FlagTypes, SongTypes, AskedInv, CarefulInv, ir_handler, mixed' = 0
  PROVE  CarefulInv'
<1> USE DEF CarefulInv, HoldInv, CourseInv, FlagInv, SoundInv, SilentNow, Holding,
            Settled, Coming, FlagTypes, SongTypes, dial, worker
<1>1. PICK settled \in SettledRead :
        /\ ConsumeFlag(settled)
        /\ \/ BeginDial(settled) \/ BeginNothing(settled)
           \/ NextDigit \/ EndDial \/ NothingToDial(settled)
  BY DEF ir_handler
<1>2. /\ dpc = "idle" /\ sound' = Broken(sound)
      /\ UNCHANGED <<enableState, mute, track_number, settle, worker>>
  BY DEF ir_handler
<1>a. TakenAsStored => ~(wpc = "store2" /\ track_number # tr)
  BY DEF TakenAsStored, NewTrack
<1>3. CASE BeginDial(settled)
  BY <1>1, <1>2, <1>a, <1>3 DEF BeginDial, MayBegin, ConsumeFlag, Broken
<1>4. CASE BeginNothing(settled)
  BY <1>1, <1>2, <1>a, <1>4 DEF BeginNothing, MayBegin, ConsumeFlag, Broken
<1>5. CASE NextDigit
  BY <1>1, <1>2, <1>5 DEF NextDigit, ConsumeFlag, Broken
<1>6. CASE EndDial
  BY <1>1, <1>2, <1>6 DEF EndDial, ConsumeFlag, Broken
<1>7. CASE NothingToDial(settled)
  BY <1>1, <1>2, <1>7 DEF NothingToDial, MayBegin, ConsumeFlag, Broken
<1> QED
  BY <1>1, <1>3, <1>4, <1>5, <1>6, <1>7

(* The deck's MUTE makes the player heard again; Enable changes only when  *)
(* all is quiet.                                                           *)
LEMMA CarefulDeck ==
  ASSUME User = "careful", FlagTypes, SongTypes, AgeTypes, CarefulInv,
         DeckMute \/ SampleEnable \/ PlayOn \/ Tick
  PROVE  CarefulInv'
<1> USE DEF CarefulInv, HoldInv, CourseInv, FlagInv, SoundInv, SilentNow, Holding,
            Settled, Coming, FlagTypes, SongTypes, AgeTypes, dial, worker
<1>1. CASE DeckMute
  BY <1>1 DEF DeckMute, Broken, Toggled, Toggle
<1>2. CASE SampleEnable
  BY <1>2 DEF SampleEnable, MaySwitch, Quiet, Broken
<1>3. CASE PlayOn
  BY <1>3 DEF PlayOn
<1>4. CASE Tick
  BY <1>4, TimeAssumption DEF Tick, MayTick, Older
<1> QED
  BY <1>1, <1>2, <1>3, <1>4

(* mixed is never taken back.                                              *)
LEMMA MixedStays == FlagTypes /\ SongTypes /\ [Next]_vars /\ mixed' = 0 => mixed = 0
<1> SUFFICES ASSUME FlagTypes, SongTypes, [Next]_vars, mixed' = 0 PROVE mixed = 0
  OBVIOUS
<1>1. CASE Worker
  BY <1>1 DEF Worker, mp3_handler, PressFrame, ReleaseFrame, NoFrame, WorkerMute,
     NoRelease, ReleaseLong, ReleaseShort, StoreByte, StoreRest, Stamp, SetFlag, dial
<1>2. CASE ir_handler
  BY <1>2 DEF ir_handler, BeginDial, BeginNothing, TakenAsStored, NextDigit, EndDial,
     NothingToDial, dial
<1>3. CASE DeckMute \/ SampleEnable \/ PlayOn \/ Tick \/ UNCHANGED vars
  BY <1>3 DEF DeckMute, SampleEnable, PlayOn, Tick, vars, dial
<1> QED
  BY <1>1, <1>2, <1>3 DEF Next

LEMMA CarefulStep ==
  ASSUME User = "careful"
  PROVE  TypeOK /\ AskedInv /\ (mixed = 0 => CarefulInv) /\ [Next]_vars
           => (mixed = 0 => CarefulInv)'
<1> SUFFICES ASSUME TypeOK, AskedInv, mixed = 0 => CarefulInv, [Next]_vars, mixed' = 0
             PROVE  CarefulInv'
  OBVIOUS
<1>0. SongTypes /\ FlagTypes /\ AgeTypes
  BY DEF TypeOK
<1>a. CarefulInv
  BY <1>0, MixedStays
<1>1. CASE UNCHANGED vars
  BY <1>a, <1>1 DEF vars, dial, worker, CarefulInv, HoldInv, CourseInv, FlagInv,
     SoundInv, SilentNow, Holding, Settled, Coming
<1> QED
  BY <1>0, <1>a, <1>1, CarefulFrame, CarefulMute, CarefulRelease, CarefulStore,
     CarefulDial, CarefulDeck DEF Next, Worker, mp3_handler

(* A careful user switches off only when all is quiet.                     *)
LEMMA PowerStep ==
  ASSUME User = "careful"
  PROVE  TypeOK /\ PowerInv /\ [Next]_vars => PowerInv'
<1> SUFFICES ASSUME FlagTypes, PowerInv, [Next]_vars PROVE PowerInv'
  BY DEF TypeOK
<1> USE DEF PowerInv, FlagTypes, worker
<1>1. CASE PressFrame \/ ReleaseFrame \/ NoFrame \/ WorkerMute
  BY <1>1 DEF PressFrame, ReleaseFrame, NoFrame, WorkerMute, MayPress
<1>2. CASE mp3_handler
  BY <1>2 DEF mp3_handler, NoRelease, ReleaseLong, ReleaseShort, StoreByte, StoreRest,
     Stamp, SetFlag
<1>3. CASE ir_handler \/ DeckMute
  BY <1>3 DEF ir_handler, DeckMute, Toggled, Broken
<1>4. CASE SampleEnable
  BY <1>4 DEF SampleEnable, MaySwitch, Quiet, Broken
<1>5. CASE PlayOn \/ Tick \/ UNCHANGED vars
  BY <1>5 DEF PlayOn, Tick, vars
<1> QED
  BY <1>1, <1>2, <1>3, <1>4, <1>5 DEF Next, Worker

(* Whenever all is done for the presses of a careful user, the player is   *)
(* not left muted: every MUTE of a press meets the one that ends its       *)
(* selection, until a selection takes a number half stored; and without    *)
(* power it is never muted.                                                *)
THEOREM SoundCorrect == Spec => []SoundIsBack
<1>1. CASE User # "careful"
  <2>1. SoundIsBack
    BY <1>1 DEF SoundIsBack
  <2> QED
    BY <2>1, PTL
<1>2. CASE User = "careful"
  <2> DEFINE Careful == mixed = 0 => CarefulInv
  <2>1. Init => Careful /\ PowerInv
    BY CarefulInit DEF Init, PowerInv
  <2>2. TypeOK /\ AskedInv /\ Careful /\ [Next]_vars => Careful'
    BY <1>2, CarefulStep
  <2>3. TypeOK /\ PowerInv /\ [Next]_vars => PowerInv'
    BY <1>2, PowerStep
  <2>4. TypeOK /\ Careful /\ PowerInv => SoundIsBack
    BY DEF CarefulInv, HoldInv, FlagInv, SoundInv, SilentNow, Holding, Settled,
       SoundIsBack, Quiet, TypeOK, FlagTypes, PowerInv
  <2> HIDE DEF Careful
  <2> QED
    BY <2>1, <2>2, <2>3, <2>4, AskedInit, AskedStep, TypeCorrect, PTL DEF Spec
<1> QED
  BY <1>1, <1>2

==============================================================================
