------------------------------ MODULE MCIrLink ------------------------------
(***************************************************************************)
(* The codes of IrLink for TLC: two patterns of bits, the lengths that the *)
(* examples of the library send, each before or after a code that leaves   *)
(* its trace in the buffer.                                                *)
(***************************************************************************)
EXTENDS IrLink

Pattern(name, n) ==
    [i \in 1 .. n |->
        IF name = "ones" THEN 1
        ELSE <<0, 0, 0, 1, 0, 0, 1, 0, 0, 0, 1, 1>>[((i - 1) % 12) + 1]]

Code(kind, name, n) == [kind |-> kind, bits |-> Pattern(name, n)]

KindsAndLengths ==
    {<<"NEC", 32>>, <<"NEC_REPEAT", 0>>, <<"SONY", 12>>, <<"SONY", 20>>,
     <<"RC5", 12>>, <<"RC5", 32>>, <<"RC6", 20>>, <<"RC6", 32>>,
     <<"PANASONIC", 48>>, <<"JVC", 16>>, <<"JVC_REPEAT", 16>>,
     <<"SAMSUNG", 32>>, <<"SHARP", 15>>, <<"LG", 28>>, <<"MITSUBISHI", 16>>,
     <<"LONG", 60>>}

AllCodes == {Code(k[1], name, k[2]) : k \in KindsAndLengths, name \in {"ones", "mixed"}}

\* The code that comes before or after each of them.
Other == Code("NEC", "mixed", 32)

MCPlans == {<<c, Other>> : c \in AllCodes} \cup {<<Other, c>> : c \in AllCodes}

-----------------------------------------------------------------------------
(* Samples takes many samples at once; it does what ISR does one by one.   *)

Receivers ==
    {[rcvstate |-> s, timer |-> t, rawlen |-> l, rawbuf |-> [i \in 0 .. RAWBUF - 1 |-> 0]] :
        s \in {"IDLE", "MARK", "SPACE", "STOP"}, t \in {0, 60, 98, 99, 100, 65535},
        l \in {1, RAWBUF - 1, RAWBUF}}

ASSUME SamplesAreISR ==
    \A p \in Receivers, irdata \in {MARK, SPACE} :
        /\ Samples(p, irdata, 2) = ISR(ISR(p, irdata), irdata)
        /\ \A n \in 2 .. 190 :
              Samples(p, irdata, n + 1) = ISR(Samples(p, irdata, n), irdata)
=============================================================================
