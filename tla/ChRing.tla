-------------------------------- MODULE ChRing --------------------------------
(***************************************************************************)
(* The ring buffer that mailboxes and I/O queues of ChibiOS/RT keep: a     *)
(* write and a read pointer that return to the start of the buffer at its  *)
(* end.                                                                    *)
(***************************************************************************)
EXTENDS Integers, Sequences

CONSTANTS Size, Item

ASSUME SizeAssumption == Size \in Nat \ {0}

EmptyRing(x) == [buf |-> [i \in 0..Size - 1 |-> x], wr |-> 0, rd |-> 0]

OneLater(p) == IF p >= Size THEN 0 ELSE p + 1   \* fault: wraps one item late
After(p) == IF p + 1 >= Size THEN 0 ELSE p + 1
Before(p) == IF p - 1 < 0 THEN Size - 1 ELSE p - 1

Put(r, x) == [r EXCEPT !.buf[r.wr] = x, !.wr = After(@)]
PutAhead(r, x) == [r EXCEPT !.buf[Before(r.rd)] = x, !.rd = Before(@)]
Take(r) == [r EXCEPT !.rd = After(@)]
Rewound(r) == [r EXCEPT !.rd = 0, !.wr = 0]

(* The n items from the read pointer on are those of s, oldest first.      *)
Holds(r, s) ==
  /\ Len(s) <= Size
  /\ \A i \in DOMAIN s : r.buf[(r.rd + i - 1) % Size] = s[i]
  /\ r.wr = (r.rd + Len(s)) % Size

==============================================================================
