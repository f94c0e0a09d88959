--------------------------- MODULE KernelListProofs ---------------------------
(***************************************************************************)
(* The ChibiOS/RT kernel, for any threads, objects, priorities and times:  *)
(* what the scheduler's and the timers' operators do to its lists, the     *)
(* kernel's invariant, that ticks and the calls for threads keep it, and   *)
(* what the calls for mutexes make of owners, queues and priorities.       *)
(***************************************************************************)
EXTENDS Kernel, FiniteSetTheorems, WellFoundedInduction, TLAPS

------------------------------------------------------------------------------
(* A set of numbers has a least one; induction over the numbers follows.   *)
LEMMA NatMin ==
  ASSUME NEW T \in SUBSET Nat, T # {}
  PROVE  \E x \in T : \A y \in T : x <= y
<1> DEFINE R == {ss \in Nat \X Nat : ss[1] < ss[2]}
<1>1. IsWellFoundedOn(R, Nat)
  BY NatLessThanWellFounded DEF OpToRel
<1> HIDE DEF R
<1>2. PICK x \in T : \A y \in T : ~(<<y, x>> \in R)
  BY <1>1, WFMin
<1>3. ASSUME NEW y \in T PROVE x <= y
  <2>1. <<y, x>> \notin R
    BY <1>2
  <2>2. x \in Nat /\ y \in Nat
    OBVIOUS
  <2>3. ~(y < x)
    BY <2>1, <2>2 DEF R
  <2> QED
    BY <2>2, <2>3
<1> QED
  BY <1>3

(* Induction over the numbers, for a set instead of a predicate.            *)
LEMMA SetInduction ==
  ASSUME NEW T \in SUBSET Nat, 0 \in T, \A n \in T : n + 1 \in T
  PROVE  T = Nat
<1> SUFFICES ASSUME Nat \ T # {} PROVE FALSE
  OBVIOUS
<1>1. PICK x \in Nat \ T : \A y \in Nat \ T : x <= y
  BY NatMin
<1>2. x # 0 /\ x - 1 \in Nat
  BY <1>1
<1>3. x - 1 \in T
  BY <1>1, <1>2
<1> QED
  BY <1>1, <1>3, x - 1 + 1 = x

------------------------------------------------------------------------------
(* Lists.                                                                  *)

(* The count of the first numbers that are all in a set is the last one of *)
(* them.                                                                   *)
CountFirst(n, B) == Cardinality({i \in 1..n : \A j \in 1..i : j \in B})

(* The count of the first numbers that are all in a set is the length of    *)
(* that run.                                                                *)
LEMMA FirstOnes ==
  ASSUME NEW n \in Nat, NEW B \in SUBSET (1..n), NEW c, c = CountFirst(n, B)
  PROVE  c \in 0..n /\ (\A i \in 1..c : i \in B) /\ (c < n => c + 1 \notin B)
<1> DEFINE F == {i \in 1..n : \A j \in 1..i : j \in B}
<1>1. ASSUME NEW e \in 0..n, F = 1..e PROVE c = e
  <2>1. Cardinality(1..e) = IF 1 > e THEN 0 ELSE e - 1 + 1
    BY FS_Interval
  <2>2. c = Cardinality(1..e)
    BY <1>1 DEF CountFirst
  <2> HIDE DEF F
  <2> QED
    BY <2>1, <2>2
<1>2. CASE \A i \in 1..n : i \in B
  <2>1. F = 1..n
    BY <1>2
  <2>2. n \in 0..n
    OBVIOUS
  <2> QED
    BY <1>1, <1>2, <2>1, <2>2
<1>3. CASE ~ \A i \in 1..n : i \in B
  <2> DEFINE T == (1..n) \ B
  <2>1. T \in SUBSET Nat /\ T # {}
    BY <1>3
  <2> HIDE DEF T
  <2>2. PICK x \in T : \A y \in T : x <= y
    BY <2>1, NatMin
  <2>3. x \in 1..n /\ x \notin B /\ \A y \in 1..n : y < x => y \in B
    BY <2>2 DEF T
  <2>4. F = 1..x - 1
    BY <2>3
  <2>5. c = x - 1
    BY <1>1, <2>3, <2>4
  <2> QED
    BY <2>3, <2>5
<1> QED
  BY <1>2, <1>3

(* What an insertion after the first n makes of a list.                    *)
Inserted(r, s, n, x) ==
  /\ Len(r) = Len(s) + 1
  /\ \A i \in 1..Len(s) + 1 :
       r[i] = IF i <= n THEN s[i] ELSE IF i = n + 1 THEN x ELSE s[i - 1]

(* What InsertAfter returns, place by place.                                *)
LEMMA InsertIs ==
  ASSUME NEW T, NEW s \in Seq(T), NEW n \in 0..Len(s), NEW x \in T
  PROVE  /\ InsertAfter(s, n, x) \in Seq(T)
         /\ Inserted(InsertAfter(s, n, x), s, n, x)
<1> DEFINE r == InsertAfter(s, n, x)
           u == SubSeq(s, 1, n)
           v == SubSeq(s, n + 1, Len(s))
<1>1. u \in Seq(T) /\ Len(u) = n /\ \A i \in 1..n : u[i] = s[i]
  OBVIOUS
<1>2. v \in Seq(T) /\ Len(v) = Len(s) - n /\ \A i \in 1..Len(s) - n : v[i] = s[n + i]
  OBVIOUS
<1>3. r = u \o <<x>> \o v
  BY DEF InsertAfter
<1> HIDE DEF r, u, v
<1>4. <<x>> \in Seq(T) /\ Len(<<x>>) = 1 /\ <<x>>[1] = x
  OBVIOUS
<1> DEFINE w == u \o <<x>>
<1>5. w \in Seq(T) /\ Len(w) = n + 1 /\ \A i \in 1..n + 1 : w[i] = IF i <= n THEN s[i] ELSE x
  BY <1>1, <1>4
<1>6. r = w \o v
  BY <1>3
<1> HIDE DEF w
<1>7. r \in Seq(T) /\ Len(r) = Len(s) + 1
  BY <1>2, <1>5, <1>6
<1>8. ASSUME NEW i \in 1..Len(s) + 1
      PROVE  r[i] = IF i <= n THEN s[i] ELSE IF i = n + 1 THEN x ELSE s[i - 1]
  <2>1. r[i] = IF i <= n + 1 THEN w[i] ELSE v[i - (n + 1)]
    BY <1>2, <1>5, <1>6
  <2>2. CASE i <= n + 1
    BY <1>5, <2>1, <2>2
  <2>3. CASE i > n + 1
    <3>1. v[i - (n + 1)] = s[n + (i - (n + 1))] /\ n + (i - (n + 1)) = i - 1
      BY <1>2, <2>3
    <3> QED
      BY <2>1, <2>3, <3>1
  <2> QED
    BY <2>2, <2>3
<1>9. Inserted(r, s, n, x)
  BY <1>7, <1>8 DEF Inserted
<1> QED
  BY <1>7, <1>9 DEF r

(* What Unlinked returns, place by place.                                   *)
LEMMA UnlinkedIs ==
  ASSUME NEW T, NEW s \in Seq(T), NEW n \in 1..Len(s), NEW r, r = Unlinked(s, n)
  PROVE  /\ r \in Seq(T) /\ Len(r) = Len(s) - 1
         /\ \A i \in 1..Len(s) - 1 : r[i] = IF i < n THEN s[i] ELSE s[i + 1]
<1> DEFINE u == SubSeq(s, 1, n - 1)
           v == SubSeq(s, n + 1, Len(s))
<1>1. u \in Seq(T) /\ Len(u) = n - 1 /\ \A i \in 1..n - 1 : u[i] = s[i]
  OBVIOUS
<1>2. v \in Seq(T) /\ Len(v) = Len(s) - n /\ \A i \in 1..Len(s) - n : v[i] = s[n + i]
  OBVIOUS
<1>3. r = u \o v
  BY DEF Unlinked
<1> HIDE DEF u, v
<1>4. r \in Seq(T) /\ Len(r) = Len(s) - 1
  BY <1>1, <1>2, <1>3, SMTT(40)
<1>5. ASSUME NEW i \in 1..Len(s) - 1 PROVE r[i] = IF i < n THEN s[i] ELSE s[i + 1]
  <2>1. r[i] = IF i < n THEN u[i] ELSE v[i - (n - 1)]
    BY <1>1, <1>2, <1>3
  <2>2. CASE i < n
    BY <1>1, <2>1, <2>2
  <2>3. CASE i >= n
    <3>1. v[i - (n - 1)] = s[n + (i - (n - 1))] /\ n + (i - (n - 1)) = i + 1
      BY <1>2, <2>3
    <3> QED
      BY <2>1, <2>3, <3>1
  <2> QED
    BY <2>2, <2>3
<1> QED
  BY <1>4, <1>5
(* No thread is in a list twice; a list is in the order of priorities.     *)
Once(s) == \A i, j \in DOMAIN s : s[i] = s[j] => i = j
Ranked(pr, s) == \A i, j \in DOMAIN s : i < j => pr[s[i]] >= pr[s[j]]
Prios == 1..HIGHPRIO

(* The members of a sequence, by its numbers.                               *)
LEMMA MembersAre ==
  ASSUME NEW T, NEW s \in Seq(T)
  PROVE  /\ Members(s) \subseteq T
         /\ \A x : x \in Members(s) <=> \E i \in 1..Len(s) : s[i] = x
         /\ Members(s) = {} <=> s = <<>>
<1>1. DOMAIN s = 1..Len(s) /\ Len(s) \in Nat /\ \A i \in 1..Len(s) : s[i] \in T
  OBVIOUS
<1>2. s # <<>> => 1 \in 1..Len(s)
  OBVIOUS
<1>3. s = <<>> => Len(s) = 0
  OBVIOUS
<1>4. \A x : x \in Members(s) <=> \E i \in 1..Len(s) : s[i] = x
  BY <1>1 DEF Members
<1>5. Members(s) \subseteq T
  BY <1>1, <1>4
<1>6. s # <<>> => s[1] \in Members(s)
  BY <1>2, <1>4
<1>7. s = <<>> => Members(s) = {}
  BY <1>3, <1>4
<1> QED
  BY <1>4, <1>5, <1>6, <1>7

(* An insertion adds a member, and keeps the others once.                   *)
LEMMA InsertPlaces ==
  ASSUME NEW T, NEW s \in Seq(T), NEW n \in 0..Len(s), NEW x \in T, NEW r,
         r = InsertAfter(s, n, x)
  PROVE  /\ Members(r) = Members(s) \cup {x}
         /\ Once(s) /\ x \notin Members(s) => Once(r)
<1> DEFINE old == [i \in 1..Len(s) + 1 |-> IF i <= n THEN i ELSE i - 1]
           new == [i \in 1..Len(s) |-> IF i <= n THEN i ELSE i + 1]
<1>0. r \in Seq(T) /\ Inserted(r, s, n, x)
  BY InsertIs, Zenon
<1>1. /\ r \in Seq(T) /\ Len(r) = Len(s) + 1 /\ Len(s) \in Nat
      /\ \A i \in 1..Len(s) + 1 :
           r[i] = IF i <= n THEN s[i] ELSE IF i = n + 1 THEN x ELSE s[i - 1]
  BY <1>0 DEF Inserted
<1>2. ASSUME NEW i \in 1..Len(s) + 1, i # n + 1
      PROVE  old[i] \in 1..Len(s) /\ r[i] = s[old[i]]
  BY <1>1, <1>2
<1>3. ASSUME NEW i \in 1..Len(s)
      PROVE  new[i] \in 1..Len(s) + 1 /\ r[new[i]] = s[i]
  BY <1>1, <1>3
<1>4. n + 1 \in 1..Len(s) + 1 /\ r[n + 1] = x
  BY <1>1
<1>5. \A i, j \in 1..Len(s) + 1 : i # n + 1 /\ j # n + 1 /\ old[i] = old[j] => i = j
  BY <1>1
<1> HIDE DEF old, new
<1>6. DOMAIN r = 1..Len(s) + 1 /\ DOMAIN s = 1..Len(s)
  BY <1>1
<1>7. Members(r) = Members(s) \cup {x}
  <2>1. \A y \in Members(r) : y \in Members(s) \cup {x}
    BY <1>2, <1>4, <1>6 DEF Members
  <2>2. \A y \in Members(s) : y \in Members(r)
    BY <1>3, <1>6 DEF Members
  <2>3. x \in Members(r)
    BY <1>4, <1>6 DEF Members
  <2> QED
    BY <2>1, <2>2, <2>3
<1>8. ASSUME Once(s), x \notin Members(s) PROVE Once(r)
  <2>1. ASSUME NEW i \in 1..Len(s) + 1, i # n + 1 PROVE r[i] # x
    BY <1>2, <1>6, <1>8, <2>1 DEF Members
  <2> SUFFICES ASSUME NEW i \in 1..Len(s) + 1, NEW j \in 1..Len(s) + 1, r[i] = r[j]
               PROVE  i = j
    BY <1>6 DEF Once
  <2>2. CASE i = n + 1 \/ j = n + 1
    BY <1>4, <2>1, <2>2
  <2>3. CASE i # n + 1 /\ j # n + 1
    <3>1. old[i] = old[j]
      BY <1>2, <1>6, <1>8, <2>3 DEF Once
    <3> QED
      BY <1>5, <2>3, <3>1
  <2> QED
    BY <2>2, <2>3
<1> QED
  BY <1>7, <1>8

(* An unlinked member is gone, the others are there once.                   *)
LEMMA UnlinkedPlaces ==
  ASSUME NEW T, NEW s \in Seq(T), NEW n \in 1..Len(s), NEW r, r = Unlinked(s, n),
         Once(s)
  PROVE  Members(r) = Members(s) \ {s[n]} /\ Once(r)
<1> DEFINE old == [i \in 1..Len(s) - 1 |-> IF i < n THEN i ELSE i + 1]
           new == [i \in 1..Len(s) |-> IF i < n THEN i ELSE i - 1]
<1>1. /\ r \in Seq(T) /\ Len(r) = Len(s) - 1 /\ Len(s) \in Nat
      /\ \A i \in 1..Len(s) - 1 : r[i] = IF i < n THEN s[i] ELSE s[i + 1]
  BY UnlinkedIs, SMTT(40)
<1>2. ASSUME NEW i \in 1..Len(s) - 1
      PROVE  old[i] \in 1..Len(s) /\ old[i] # n /\ r[i] = s[old[i]]
  BY <1>1, <1>2
<1>3. ASSUME NEW i \in 1..Len(s), i # n
      PROVE  new[i] \in 1..Len(s) - 1 /\ r[new[i]] = s[i]
  BY <1>1, <1>3
<1>4. \A i, j \in 1..Len(s) - 1 : old[i] = old[j] => i = j
  BY <1>1
<1> HIDE DEF old, new
<1>5. DOMAIN r = 1..Len(s) - 1 /\ DOMAIN s = 1..Len(s)
  BY <1>1
<1>6. Once(r)
  <2> SUFFICES ASSUME NEW i \in 1..Len(s) - 1, NEW j \in 1..Len(s) - 1, r[i] = r[j]
               PROVE  i = j
    BY <1>5 DEF Once
  <2>1. old[i] = old[j]
    BY <1>2, <1>5 DEF Once
  <2> QED
    BY <1>4, <2>1
<1>7. Members(r) = Members(s) \ {s[n]}
  <2>1. ASSUME NEW y \in Members(r) PROVE y \in Members(s) /\ y # s[n]
    <3>1. PICK i \in 1..Len(s) - 1 : y = r[i]
      BY <1>5 DEF Members
    <3> QED
      BY <1>2, <1>5, <3>1 DEF Members, Once
  <2>2. ASSUME NEW y \in Members(s), y # s[n] PROVE y \in Members(r)
    BY <1>3, <1>5, <2>2 DEF Members
  <2> QED
    BY <2>1, <2>2
<1> QED
  BY <1>6, <1>7

(* Who is taken out of a list, is in it no more.                           *)
LEMMA WithoutPlaces ==
  ASSUME NEW T, NEW s \in Seq(T), NEW x, Once(s)
  PROVE  /\ Without(s, x) \in Seq(T) /\ Once(Without(s, x))
         /\ Members(Without(s, x)) = Members(s) \ {x}
         /\ Len(Without(s, x)) = IF x \in Members(s) THEN Len(s) - 1 ELSE Len(s)
         /\ \A pr : Ranked(pr, s) => Ranked(pr, Without(s, x))
<1>1. DOMAIN s = 1..Len(s) /\ Len(s) \in Nat
  OBVIOUS
<1>2. CASE x \notin Members(s)
  <2>1. Without(s, x) = s
    BY <1>2 DEF Without, Members
  <2> QED
    BY <1>2, <2>1
<1>3. CASE x \in Members(s)
  <2> DEFINE n == CHOOSE i \in DOMAIN s : s[i] = x
             r == Unlinked(s, n)
  <2>1. n \in 1..Len(s) /\ s[n] = x
    BY <1>1, <1>3 DEF Members
  <2>2. Without(s, x) = r
    BY <1>3 DEF Without, Members
  <2> HIDE DEF n
  <2>3. r \in Seq(T) /\ Len(r) = Len(s) - 1
        /\ \A i \in 1..Len(s) - 1 : r[i] = IF i < n THEN s[i] ELSE s[i + 1]
    BY <2>1, UnlinkedIs
  <2>4. Members(r) = Members(s) \ {s[n]} /\ Once(r)
    BY <2>1, UnlinkedPlaces
  <2> HIDE DEF r
  <2>5. DOMAIN r = 1..Len(s) - 1
    BY <2>3
  <2>6. ASSUME NEW pr, Ranked(pr, s) PROVE Ranked(pr, r)
    <3> SUFFICES ASSUME NEW i \in 1..Len(s) - 1, NEW j \in 1..Len(s) - 1, i < j
                 PROVE  pr[r[i]] >= pr[r[j]]
      BY <2>5 DEF Ranked
    <3> DEFINE ii == IF i < n THEN i ELSE i + 1
               jj == IF j < n THEN j ELSE j + 1
    <3>1. ii \in 1..Len(s) /\ jj \in 1..Len(s) /\ ii < jj
      BY <2>1
    <3>2. r[i] = s[ii] /\ r[j] = s[jj]
      BY <2>3
    <3> HIDE DEF ii, jj
    <3> QED
      BY <1>1, <2>6, <3>1, <3>2 DEF Ranked
  <2> QED
    BY <1>3, <2>1, <2>2, <2>3, <2>4, <2>6
<1> QED
  BY <1>2, <1>3

(* The first of a list leaves it.                                          *)
LEMMA TailPlaces ==
  ASSUME NEW T, NEW s \in Seq(T), s # <<>>
  PROVE  /\ Tail(s) \in Seq(T) /\ Len(Tail(s)) = Len(s) - 1
         /\ Head(s) \in Members(s) /\ Head(s) \in T /\ Head(s) = s[1]
         /\ \A i \in 1..Len(s) - 1 : Tail(s)[i] = s[i + 1]
         /\ Once(s) => Once(Tail(s)) /\ Members(Tail(s)) = Members(s) \ {Head(s)}
         /\ \A pr : Ranked(pr, s) => Ranked(pr, Tail(s))
<1> DEFINE r == Tail(s)
<1>1. /\ Len(s) \in Nat /\ Len(s) >= 1 /\ DOMAIN s = 1..Len(s)
      /\ r \in Seq(T) /\ Len(r) = Len(s) - 1
      /\ Head(s) \in T /\ Head(s) = s[1]
      /\ \A i \in 1..Len(s) - 1 : r[i] = s[i + 1]
  OBVIOUS
<1>2. DOMAIN r = 1..Len(s) - 1
  BY <1>1
<1> HIDE DEF r
<1>3. Head(s) \in Members(s)
  BY <1>1 DEF Members
<1>4. ASSUME Once(s) PROVE Once(r) /\ Members(r) = Members(s) \ {Head(s)}
  <2>1. Once(r)
    <3>1. \A i \in 1..Len(s) - 1 : i + 1 \in 1..Len(s) /\ r[i] = s[i + 1]
      BY <1>1
    <3>2. \A i, j \in 1..Len(s) : s[i] = s[j] => i = j
      BY <1>1, <1>4 DEF Once
    <3> SUFFICES ASSUME NEW i \in 1..Len(s) - 1, NEW j \in 1..Len(s) - 1, r[i] = r[j]
                 PROVE  i = j
      BY <1>2 DEF Once
    <3>3. i + 1 = j + 1
      BY <3>1, <3>2
    <3> QED
      BY <1>1, <3>3
  <2>2. ASSUME NEW y \in Members(r) PROVE y \in Members(s) /\ y # Head(s)
    <3>1. PICK i \in 1..Len(s) - 1 : y = r[i]
      BY <1>2 DEF Members
    <3>2. i + 1 \in 1..Len(s) /\ i + 1 # 1 /\ 1 \in 1..Len(s) /\ y = s[i + 1]
      BY <1>1, <3>1
    <3> QED
      BY <1>1, <1>4, <3>2 DEF Members, Once
  <2>3. ASSUME NEW y \in Members(s), y # Head(s) PROVE y \in Members(r)
    <3>1. PICK i \in 1..Len(s) : y = s[i]
      BY <1>1 DEF Members
    <3>2. i - 1 \in 1..Len(s) - 1 /\ (i - 1) + 1 = i
      BY <1>1, <2>3, <3>1
    <3>3. r[i - 1] = y
      BY <1>1, <3>1, <3>2
    <3> QED
      BY <1>2, <3>2, <3>3 DEF Members
  <2> QED
    BY <2>1, <2>2, <2>3
<1>5. ASSUME NEW pr, Ranked(pr, s) PROVE Ranked(pr, r)
  <2>1. \A i, j \in 1..Len(s) - 1 : i < j => pr[s[i + 1]] >= pr[s[j + 1]]
    <3>1. \A i, j \in 1..Len(s) - 1 :
            i < j => i + 1 \in 1..Len(s) /\ j + 1 \in 1..Len(s) /\ i + 1 < j + 1
      BY <1>1
    <3> QED
      BY <1>1, <1>5, <3>1 DEF Ranked
  <2> QED
    BY <1>1, <1>2, <2>1, ZenonT(40) DEF Ranked
<1> QED
  BY <1>1, <1>3, <1>4, <1>5 DEF r

(* r is the list s with t where its priority puts it.                      *)
PlacedIn(r, pr, s, t) ==
  /\ r \in Seq(Thread) /\ Len(r) = Len(s) + 1
  /\ Members(r) = Members(s) \cup {t}
  /\ Once(s) /\ t \notin Members(s) => Once(r)
  /\ Ranked(pr, s) => Ranked(pr, r)

(* A thread comes behind those of at least its priority, or of a higher    *)
(* one.                                                                    *)
LEMMA PrioInserted ==
  ASSUME NEW kk, kk.prio \in [Thread -> Prios], NEW s \in Seq(Thread), NEW t \in Thread,
         NEW r, r \in {prio_insert(kk, s, t), prio_insert_ahead(kk, s, t)}
  PROVE  PlacedIn(r, kk.prio, s, t)
<1>1. DOMAIN s = 1..Len(s) /\ Len(s) \in Nat /\ \A i \in 1..Len(s) : s[i] \in Thread
  OBVIOUS
<1>2. \A u \in Thread : kk.prio[u] \in Nat
  <2>1. Prios \subseteq Nat
    BY DEF Prios, HIGHPRIO
  <2> QED
    BY <2>1
<1>3. \E n \in 0..Len(s) :
        /\ r = InsertAfter(s, n, t)
        /\ \A i \in 1..n : kk.prio[s[i]] >= kk.prio[t]
        /\ n < Len(s) => kk.prio[s[n + 1]] <= kk.prio[t]
  <2>1. CASE r = prio_insert(kk, s, t)
    <3> DEFINE b == {j \in 1..Len(s) : kk.prio[s[j]] >= kk.prio[t]}
               n == CountFirst(Len(s), b)
    <3>1. n \in 0..Len(s) /\ (\A i \in 1..n : i \in b) /\ (n < Len(s) => n + 1 \notin b)
      <4>1. b \in SUBSET (1..Len(s))
        OBVIOUS
      <4> HIDE DEF b
      <4> QED
        BY <1>1, <4>1, FirstOnes
    <3>2. r = InsertAfter(s, n, t)
      <4>1. {i \in DOMAIN s : \A j \in 1..i : kk.prio[s[j]] >= kk.prio[t]}
              = {i \in 1..Len(s) : \A j \in 1..i : j \in b}
        BY <1>1
      <4> QED
        BY <2>1, <4>1 DEF prio_insert, Leading, CountFirst
    <3> HIDE DEF n
    <3>3. n < Len(s) => n + 1 \in 1..Len(s)
      BY <1>1, <3>1
    <3>4. n < Len(s) => kk.prio[s[n + 1]] <= kk.prio[t]
      BY <1>1, <1>2, <3>1, <3>3
    <3> QED
      BY <3>1, <3>2, <3>4
  <2>2. CASE r = prio_insert_ahead(kk, s, t)
    <3> DEFINE b == {j \in 1..Len(s) : kk.prio[s[j]] > kk.prio[t]}
               n == CountFirst(Len(s), b)
    <3>1. n \in 0..Len(s) /\ (\A i \in 1..n : i \in b) /\ (n < Len(s) => n + 1 \notin b)
      <4>1. b \in SUBSET (1..Len(s))
        OBVIOUS
      <4> HIDE DEF b
      <4> QED
        BY <1>1, <4>1, FirstOnes
    <3>2. r = InsertAfter(s, n, t)
      <4>1. {i \in DOMAIN s : \A j \in 1..i : kk.prio[s[j]] > kk.prio[t]}
              = {i \in 1..Len(s) : \A j \in 1..i : j \in b}
        BY <1>1
      <4> QED
        BY <2>2, <4>1 DEF prio_insert_ahead, Leading, CountFirst
    <3> HIDE DEF n
    <3>3. n < Len(s) => n + 1 \in 1..Len(s)
      BY <1>1, <3>1
    <3>4. n < Len(s) => kk.prio[s[n + 1]] <= kk.prio[t]
      BY <1>1, <1>2, <3>1, <3>3
    <3>5. \A i \in 1..n : kk.prio[s[i]] >= kk.prio[t]
      BY <1>1, <1>2, <3>1
    <3> QED
      BY <3>1, <3>2, <3>4, <3>5
  <2> QED
    BY <2>1, <2>2
<1>4. PICK n \in 0..Len(s) :
        /\ r = InsertAfter(s, n, t)
        /\ \A i \in 1..n : kk.prio[s[i]] >= kk.prio[t]
        /\ n < Len(s) => kk.prio[s[n + 1]] <= kk.prio[t]
  BY <1>3
<1>5. /\ r \in Seq(Thread) /\ Len(r) = Len(s) + 1
      /\ \A i \in 1..Len(s) + 1 :
           r[i] = IF i <= n THEN s[i] ELSE IF i = n + 1 THEN t ELSE s[i - 1]
  <2>1. r \in Seq(Thread) /\ Inserted(r, s, n, t)
    BY <1>4, InsertIs, Zenon
  <2> QED
    BY <2>1 DEF Inserted
<1>6. Members(r) = Members(s) \cup {t} /\ (Once(s) /\ t \notin Members(s) => Once(r))
  BY <1>4, InsertPlaces
<1>7. ASSUME Ranked(kk.prio, s) PROVE Ranked(kk.prio, r)
  <2>1. DOMAIN r = 1..Len(s) + 1
    BY <1>5
  <2> SUFFICES ASSUME NEW i \in 1..Len(s) + 1, NEW j \in 1..Len(s) + 1, i < j
               PROVE  kk.prio[r[i]] >= kk.prio[r[j]]
    BY <2>1 DEF Ranked
  <2>2. \A e \in 1..Len(s) : e > n => kk.prio[s[e]] <= kk.prio[t]
    <3> SUFFICES ASSUME NEW e \in 1..Len(s), e > n PROVE kk.prio[s[e]] <= kk.prio[t]
      OBVIOUS
    <3>1. n < Len(s) /\ n + 1 \in 1..Len(s) /\ (n + 1 = e \/ n + 1 < e)
      BY <1>1
    <3>2. kk.prio[s[n + 1]] >= kk.prio[s[e]]
      <4>1. CASE n + 1 = e
        BY <1>1, <1>2, <4>1
      <4>2. CASE n + 1 < e
        BY <1>1, <1>7, <3>1, <4>2 DEF Ranked
      <4> QED
        BY <3>1, <4>1, <4>2
    <3> QED
      BY <1>1, <1>2, <1>4, <3>1, <3>2
  <2>3. CASE i = n + 1
    <3>1. j - 1 \in 1..Len(s) /\ j - 1 > n /\ r[i] = t /\ r[j] = s[j - 1]
      BY <1>1, <1>5, <2>3
    <3> QED
      BY <2>2, <3>1
  <2>4. CASE j = n + 1
    <3>1. i \in 1..n /\ r[j] = t /\ r[i] = s[i]
      BY <1>1, <1>5, <2>4
    <3> QED
      BY <1>4, <3>1
  <2>5. CASE i # n + 1 /\ j # n + 1
    <3> DEFINE ii == IF i <= n THEN i ELSE i - 1
               jj == IF j <= n THEN j ELSE j - 1
    <3>1. ii \in 1..Len(s) /\ jj \in 1..Len(s) /\ ii < jj
      BY <1>1, <2>5
    <3>2. r[i] = s[ii] /\ r[j] = s[jj]
      BY <1>5, <2>5
    <3> HIDE DEF ii, jj
    <3> QED
      BY <1>1, <1>7, <3>1, <3>2 DEF Ranked
  <2> QED
    BY <2>3, <2>4, <2>5
<1> QED
  BY <1>5, <1>6, <1>7 DEF PlacedIn

(* prio_insert and the insertion ahead keep a list by priority.             *)
LEMMA PrioInsertIs ==
  ASSUME NEW kk, kk.prio \in [Thread -> Prios], NEW s \in Seq(Thread), NEW t \in Thread
  PROVE  /\ PlacedIn(prio_insert(kk, s, t), kk.prio, s, t)
         /\ PlacedIn(prio_insert_ahead(kk, s, t), kk.prio, s, t)
  BY PrioInserted, Zenon

------------------------------------------------------------------------------
(* What is done step by step, for every number of steps.                   *)
Stepped(f, x, n, F) == f[0] = x /\ \A i \in 1..n : f[i] = F[i][f[i - 1]]

(* A loop of n steps has a sequence of its results.                         *)
LEMMA StepsExist ==
  ASSUME NEW S, NEW x \in S, NEW n \in Nat, NEW F \in [1..n -> [S -> S]]
  PROVE  \E f \in [0..n -> S] : Stepped(f, x, n, F)
<1> DEFINE T == {m \in Nat : m <= n => \E f \in [0..m -> S] : Stepped(f, x, m, F)}
<1>1. 0 \in T
  <2> DEFINE f == [i \in 0..0 |-> x]
  <2>1. f \in [0..0 -> S] /\ Stepped(f, x, 0, F)
    BY DEF Stepped
  <2> QED
    BY <2>1
<1>2. ASSUME NEW m \in T PROVE m + 1 \in T
  <2> SUFFICES ASSUME m + 1 <= n
               PROVE  \E f \in [0..m + 1 -> S] : Stepped(f, x, m + 1, F)
    OBVIOUS
  <2>1. m \in Nat /\ m <= n /\ m + 1 \in 1..n
    OBVIOUS
  <2>2. PICK f \in [0..m -> S] : Stepped(f, x, m, F)
    BY <2>1
  <2> DEFINE g == [i \in 0..m + 1 |-> IF i = m + 1 THEN F[m + 1][f[m]] ELSE f[i]]
  <2>3. F[m + 1] \in [S -> S] /\ f[m] \in S
    BY <2>1
  <2>4. g \in [0..m + 1 -> S]
    <3>1. F[m + 1][f[m]] \in S
      BY <2>3
    <3>2. \A i \in 0..m + 1 : i # m + 1 => i \in 0..m
      BY <2>1
    <3> HIDE DEF T
    <3> QED
      BY <3>1, <3>2
  <2>5. g[0] = x
    BY <2>1, <2>2 DEF Stepped
  <2>6. ASSUME NEW i \in 1..m + 1 PROVE g[i] = F[i][g[i - 1]]
    <3>1. i - 1 \in 0..m /\ i - 1 # m + 1 /\ i \in 0..m + 1 /\ i - 1 \in 0..m + 1
      BY <2>1
    <3>2. g[i - 1] = f[i - 1]
      BY <3>1
    <3>3. CASE i = m + 1
      <4>1. i - 1 = m
        BY <2>1, <3>3
      <4> QED
        BY <3>1, <3>2, <3>3, <4>1
    <3>4. CASE i # m + 1
      <4>1. i \in 1..m
        BY <2>1, <3>4
      <4>2. f[i] = F[i][f[i - 1]]
        BY <2>2, <4>1 DEF Stepped
      <4> QED
        BY <3>1, <3>2, <3>4, <4>2
    <3> QED
      BY <3>3, <3>4
  <2> HIDE DEF g
  <2>7. Stepped(g, x, m + 1, F)
    BY <2>5, <2>6 DEF Stepped
  <2> QED
    BY <2>4, <2>7
<1>3. T \in SUBSET Nat
  OBVIOUS
<1> HIDE DEF T
<1>4. n \in T
  BY <1>1, <1>2, <1>3, SetInduction
<1> QED
  BY <1>4 DEF T

------------------------------------------------------------------------------
(* The kernel's state.                                                     *)
Messages == {"OK", "TIMEOUT", "RESET"}
VTimer == [thd : Thread, time : Nat]
KernelState ==
  [state : [Thread -> States], prio : [Thread -> Prios], realprio : [Thread -> Prios],
   preempt : [Thread -> 0..Quantum], msg : [Thread -> Messages],
   ready : Seq(Thread), current : Thread, vt : Seq(VTimer),
   q : [Object -> Seq(Thread)], cnt : [Sem -> Int], due : [Thread -> Nat]]

------------------------------------------------------------------------------
(* Timers.                                                                 *)

(* g is the time to each timer of the delta list.                          *)
Sums(g, vt) ==
  /\ g \in [0..Len(vt) -> Nat] /\ g[0] = 0
  /\ \A i \in 1..Len(vt) : g[i] = g[i - 1] + vt[i].time
SumOf(f, vt, n) == f = [i \in 0..n |-> IF i = 0 THEN 0 ELSE f[i - 1] + vt[i].time]

(* The timers of the list, by their numbers.                                *)
LEMMA TimerIs ==
  ASSUME NEW vt \in Seq(VTimer)
  PROVE  /\ Len(vt) \in Nat /\ DOMAIN vt = 1..Len(vt)
         /\ \A i \in 1..Len(vt) : vt[i] \in VTimer /\ vt[i].thd \in Thread /\ vt[i].time \in Nat
<1>1. /\ Len(vt) \in Nat /\ DOMAIN vt = 1..Len(vt)
      /\ \A i \in 1..Len(vt) : vt[i] \in VTimer
  OBVIOUS
<1>2. \A v \in VTimer : v.thd \in Thread /\ v.time \in Nat
  BY DEF VTimer
<1> QED
  BY <1>1, <1>2

(* The sums of the deltas exist, for every list of timers.                  *)
LEMMA SumsExist ==
  ASSUME NEW vt \in Seq(VTimer)
  PROVE  \E g : Sums(g, vt)
<1> DEFINE n == Len(vt)
           F == [i \in 1..n |-> [x \in Nat |-> x + vt[i].time]]
<1>1. n \in Nat /\ \A i \in 1..n : vt[i].time \in Nat
  BY TimerIs
<1>2. F \in [1..n -> [Nat -> Nat]]
  BY <1>1
<1> HIDE DEF F
<1>3. PICK f \in [0..n -> Nat] : Stepped(f, 0, n, F)
  BY <1>1, <1>2, StepsExist
<1>4. ASSUME NEW i \in 1..n PROVE f[i] = f[i - 1] + vt[i].time
  <2>1. i - 1 \in 0..n
    BY <1>1
  <2>2. f[i] = F[i][f[i - 1]] /\ f[i - 1] \in Nat
    BY <1>3, <2>1 DEF Stepped
  <2> QED
    BY <2>2 DEF F
<1>5. f[0] = 0
  BY <1>3 DEF Stepped
<1>6. Sums(f, vt)
  BY <1>3, <1>4, <1>5 DEF Sums
<1> QED
  BY <1>6

(* The sums are what Elapsed returns.                                       *)
LEMMA ElapsedIs ==
  ASSUME NEW vt \in Seq(VTimer), NEW g, Sums(g, vt), NEW n \in 0..Len(vt)
  PROVE  Elapsed(vt, n) = g[n]
<1>1. Len(vt) \in Nat /\ n \in Nat
  BY TimerIs
<1> DEFINE h == [i \in 0..n |-> g[i]]
<1>2. SumOf(h, vt, n)
  <2>1. ASSUME NEW i \in 0..n
        PROVE  h[i] = IF i = 0 THEN 0 ELSE h[i - 1] + vt[i].time
    <3>1. CASE i = 0
      BY <3>1 DEF Sums
    <3>2. CASE i # 0
      <4>1. i \in 1..Len(vt) /\ i - 1 \in 0..n
        BY <1>1, <3>2
      <4>2. g[i] = g[i - 1] + vt[i].time
        BY <4>1 DEF Sums
      <4> QED
        BY <3>2, <4>1, <4>2
    <3> QED
      BY <3>1, <3>2
  <2>2. h = [i \in 0..n |-> h[i]]
    OBVIOUS
  <2> HIDE DEF h
  <2> QED
    BY <2>1, <2>2 DEF SumOf
<1> DEFINE f == CHOOSE f : SumOf(f, vt, n)
<1>3. Elapsed(vt, n) = f[n]
  BY DEF Elapsed, SumOf
<1>4. SumOf(f, vt, n)
  BY <1>2
<1> HIDE DEF f
<1>5. \A i \in 0..n : f[i] = IF i = 0 THEN 0 ELSE f[i - 1] + vt[i].time
  BY <1>4, Zenon DEF SumOf
<1> DEFINE T == {i \in Nat : i <= n => f[i] = g[i]}
<1>6. 0 \in T
  BY <1>1, <1>5 DEF Sums
<1>7. ASSUME NEW i \in T PROVE i + 1 \in T
  <2> SUFFICES ASSUME i + 1 <= n PROVE f[i + 1] = g[i + 1]
    OBVIOUS
  <2>1. i + 1 \in 0..n /\ i + 1 # 0 /\ (i + 1) - 1 = i /\ i + 1 \in 1..Len(vt) /\ i <= n
    BY <1>1
  <2>2. f[i + 1] = f[i] + vt[i + 1].time
    BY <1>5, <2>1
  <2>3. g[i + 1] = g[i] + vt[i + 1].time
    BY <2>1 DEF Sums
  <2> QED
    BY <2>1, <2>2, <2>3
<1>8. T \in SUBSET Nat
  OBVIOUS
<1> HIDE DEF T
<1>9. n \in T
  BY <1>1, <1>6, <1>7, <1>8, SetInduction
<1> QED
  BY <1>1, <1>3, <1>9 DEF T

(* A later timer fires no earlier.                                          *)
LEMMA SumsGrow ==
  ASSUME NEW vt \in Seq(VTimer), NEW g, Sums(g, vt),
         NEW i \in 0..Len(vt), NEW j \in 0..Len(vt), i <= j
  PROVE  g[i] <= g[j]
<1> DEFINE T == {e \in Nat : i + e <= Len(vt) => g[i] <= g[i + e]}
<1>1. Len(vt) \in Nat /\ g \in [0..Len(vt) -> Nat] /\ i \in Nat
  BY TimerIs DEF Sums
<1>2. 0 \in T
  BY <1>1
<1>3. ASSUME NEW e \in T PROVE e + 1 \in T
  <2> SUFFICES ASSUME i + (e + 1) <= Len(vt) PROVE g[i] <= g[i + (e + 1)]
    OBVIOUS
  <2>1. /\ i + (e + 1) \in 1..Len(vt) /\ (i + (e + 1)) - 1 = i + e
        /\ i + e <= Len(vt) /\ i + e \in 0..Len(vt)
    BY <1>1
  <2>2. g[i + (e + 1)] = g[i + e] + vt[i + (e + 1)].time /\ vt[i + (e + 1)].time \in Nat
    BY <2>1, TimerIs DEF Sums
  <2>3. g[i] <= g[i + e] /\ g[i] \in Nat /\ g[i + e] \in Nat
    BY <1>1, <2>1
  <2> QED
    BY <2>2, <2>3
<1>4. T \in SUBSET Nat
  OBVIOUS
<1> HIDE DEF T
<1>5. j - i \in T
  <2>1. T = Nat
    BY <1>2, <1>3, <1>4, SetInduction
  <2> QED
    BY <1>1, <2>1
<1>6. i + (j - i) = j
  BY <1>1
<1> QED
  BY <1>1, <1>5, <1>6 DEF T
(* Each timer fires at its time, due; one for each thread at most.         *)
TimersAre(vt, due) ==
  /\ vt \in Seq(VTimer) /\ due \in [Thread -> Nat]
  /\ \A i \in 1..Len(vt) : Elapsed(vt, i) = due[vt[i].thd] /\ due[vt[i].thd] > 0
  /\ \A i, j \in 1..Len(vt) : vt[i].thd = vt[j].thd => i = j
  /\ \A t \in Thread : due[t] > 0 => \E i \in 1..Len(vt) : vt[i].thd = t

(* The same of the sums.                                                   *)
LEMMA TimersBySums ==
  ASSUME NEW vt \in Seq(VTimer), NEW due \in [Thread -> Nat], NEW g, Sums(g, vt)
  PROVE  TimersAre(vt, due) <=>
           /\ \A i \in 1..Len(vt) : g[i] = due[vt[i].thd] /\ g[i] > 0
           /\ \A i, j \in 1..Len(vt) : vt[i].thd = vt[j].thd => i = j
           /\ \A t \in Thread : due[t] > 0 => \E i \in 1..Len(vt) : vt[i].thd = t
<1>1. \A i \in 1..Len(vt) : Elapsed(vt, i) = g[i]
  <2>1. \A i \in 1..Len(vt) : i \in 0..Len(vt)
    BY TimerIs
  <2> QED
    BY <2>1, ElapsedIs
<1> QED
  BY <1>1 DEF TimersAre

(* chVTSetI puts the timer where its time is the one asked for, and leaves  *)
(* the times of the others alone.                                           *)
LEMMA SetTimer ==
  ASSUME NEW kk \in KernelState, TimersAre(kk.vt, kk.due), NEW t \in Thread,
         kk.due[t] = 0, NEW time \in Nat \ {0}
  PROVE  LET r == chVTSetI(kk, t, time) IN
         /\ r = [kk EXCEPT !.vt = r.vt, !.due = r.due]
         /\ r.due = [kk.due EXCEPT ![t] = time]
         /\ TimersAre(r.vt, r.due)
<1> DEFINE vt == kk.vt
           m == Len(vt)
           n == Cardinality({i \in DOMAIN vt : Elapsed(vt, i) < time})
           rest == time - Elapsed(vt, n)
           short == ShorterDelta(vt, n + 1, rest)
           x == [thd |-> t, time |-> rest]
           new == InsertAfter(short, n, x)
           due == [kk.due EXCEPT ![t] = time]
           r == chVTSetI(kk, t, time)
<1>1. vt \in Seq(VTimer) /\ kk.due \in [Thread -> Nat]
  BY DEF KernelState
<1>2. r = [kk EXCEPT !.vt = new, !.due[t] = time]
  BY DEF chVTSetI
<1>3. r.vt = new /\ r.due = due /\ r = [kk EXCEPT !.vt = new, !.due = due]
  BY <1>2 DEF KernelState
<1>4. m \in Nat /\ DOMAIN vt = 1..m
      /\ \A i \in 1..m : vt[i] \in VTimer /\ vt[i].thd \in Thread /\ vt[i].time \in Nat
  BY <1>1, TimerIs
<1> HIDE DEF r, new
<1>5. PICK g : Sums(g, vt)
  BY <1>1, SumsExist
<1>6. \A i \in 0..m : Elapsed(vt, i) = g[i]
  BY <1>1, <1>5, ElapsedIs
<1>7. g \in [0..m -> Nat] /\ g[0] = 0 /\ \A i \in 1..m : g[i] = g[i - 1] + vt[i].time
  BY <1>5 DEF Sums
<1>8. \A i, j \in 0..m : i <= j => g[i] <= g[j]
  BY <1>1, <1>5, SumsGrow
<1>9. n \in 0..m /\ (\A i \in 1..n : g[i] < time) /\ (n < m => g[n + 1] >= time)
  <2> DEFINE B == {i \in 1..m : g[i] < time}
             c == Cardinality({i \in 1..m : \A j \in 1..i : j \in B})
  <2>1. {i \in DOMAIN vt : Elapsed(vt, i) < time} = B
    <3>1. \A i \in 1..m : i \in 0..m
      BY <1>4
    <3> QED
      BY <1>4, <1>6, <3>1
  <2>2. B = {i \in 1..m : \A j \in 1..i : j \in B}
    <3>1. ASSUME NEW i \in B, NEW j \in 1..i PROVE j \in B
      <4>1. i \in 0..m /\ j \in 0..m /\ j <= i /\ j \in 1..m
        BY <1>4
      <4>2. g[j] <= g[i] /\ g[i] \in Nat /\ g[j] \in Nat
        BY <1>7, <1>8, <4>1
      <4> QED
        BY <4>1, <4>2
    <3>2. \A i \in 1..m : i \in 1..i
      BY <1>4
    <3> QED
      BY <3>1, <3>2
  <2>3. n = c
    BY <2>1, <2>2
  <2>4. B \in SUBSET (1..m)
    OBVIOUS
  <2> HIDE DEF n, B
  <2>5. n \in 0..m /\ (\A i \in 1..n : i \in B) /\ (n < m => n + 1 \notin B)
    <3>1. c = CountFirst(m, B)
      BY DEF CountFirst
    <3> HIDE DEF c
    <3>2. m \in Nat
      BY <1>4
    <3> HIDE DEF m
    <3>3. c \in 0..m /\ (\A i \in 1..c : i \in B) /\ (c < m => c + 1 \notin B)
      BY <2>4, <3>1, <3>2, FirstOnes
    <3> QED
      BY <2>3, <3>3
  <2>6. n < m => n + 1 \in 1..m /\ n + 1 \in 0..m
    BY <1>4, <2>5
  <2>7. n < m => g[n + 1] \in Nat
    BY <1>7, <2>6
  <2> QED
    BY <2>5, <2>6, <2>7 DEF B
<1>10. rest = time - g[n] /\ rest \in Nat /\ rest > 0 /\ g[n] \in Nat
  <2>1. rest = time - g[n]
    BY <1>6, <1>9
  <2>2. g[n] \in Nat /\ g[n] < time
    <3>1. n = 0 \/ n \in 1..n
      BY <1>4, <1>9
    <3> QED
      BY <1>7, <1>9, <3>1
  <2> HIDE DEF rest
  <2> QED
    BY <2>1, <2>2
<1> HIDE DEF n, rest
<1>11. /\ short \in Seq(VTimer) /\ Len(short) = m
       /\ \A i \in 1..m : /\ short[i].thd = vt[i].thd
                          /\ short[i].time = IF i = n + 1 THEN vt[i].time - rest ELSE vt[i].time
  <2>1. CASE n + 1 > m
    <3>1. short = vt
      BY <2>1 DEF ShorterDelta
    <3>2. \A i \in 1..m : i # n + 1
      BY <1>4, <1>9, <2>1
    <3> QED
      BY <1>1, <3>1, <3>2
  <2>2. CASE ~(n + 1 > m)
    <3>1. short = [vt EXCEPT ![n + 1].time = @ - rest]
      BY <2>2 DEF ShorterDelta
    <3>2. n + 1 \in 1..m /\ n < m
      BY <1>4, <1>9, <2>2
    <3>3. vt[n + 1].time - rest \in Nat
      <4>1. g[n + 1] = g[(n + 1) - 1] + vt[n + 1].time /\ (n + 1) - 1 = n
        BY <1>7, <1>9, <3>2
      <4>2. g[n + 1] \in Nat /\ g[n + 1] >= time /\ vt[n + 1].time \in Nat
        BY <1>4, <1>7, <1>9, <3>2
      <4> QED
        BY <1>10, <4>1, <4>2
    <3> DEFINE y == [vt[n + 1] EXCEPT !.time = vt[n + 1].time - rest]
    <3>4. short = [vt EXCEPT ![n + 1] = y]
      BY <3>1
    <3>5. y \in VTimer /\ y.thd = vt[n + 1].thd /\ y.time = vt[n + 1].time - rest
      BY <1>4, <3>2, <3>3 DEF VTimer
    <3> HIDE DEF y
    <3>6. short \in Seq(VTimer) /\ Len(short) = m
      BY <1>1, <3>2, <3>4, <3>5
    <3>7. \A i \in 1..m : short[i] = IF i = n + 1 THEN y ELSE vt[i]
      BY <1>4, <3>2, <3>4
    <3> QED
      BY <3>5, <3>6, <3>7
  <2> QED
    BY <2>1, <2>2
<1>12. x \in VTimer /\ x.thd = t /\ x.time = rest
  BY <1>10 DEF VTimer
<1> HIDE DEF short, x
<1>13. new \in Seq(VTimer) /\ Len(new) = m + 1
       /\ \A i \in 1..m + 1 :
            new[i] = IF i <= n THEN short[i] ELSE IF i = n + 1 THEN x ELSE short[i - 1]
  <2>1. new \in Seq(VTimer) /\ Inserted(new, short, n, x)
    BY <1>9, <1>11, <1>12, InsertIs, Zenon DEF new
  <2> QED
    BY <1>11, <2>1 DEF Inserted
<1> DEFINE h == [i \in 0..m + 1 |-> IF i <= n THEN g[i] ELSE IF i = n + 1 THEN time ELSE g[i - 1]]
<1>14. Sums(h, new)
  <2>1. ASSUME NEW i \in 0..m + 1
        PROVE  h[i] \in Nat
    <3>1. i <= n => i \in 0..m
      BY <1>4, <1>9
    <3>2. i > n + 1 => i - 1 \in 0..m
      BY <1>4, <1>9
    <3>3. i <= n \/ i = n + 1 \/ i > n + 1
      BY <1>9
    <3> QED
      BY <1>7, <1>9, <3>1, <3>2, <3>3
  <2>2. h[0] = 0
    <3>1. 0 \in 0..m + 1 /\ 0 <= n
      BY <1>4, <1>9
    <3> QED
      BY <1>7, <3>1
  <2>3. ASSUME NEW i \in 1..m + 1 PROVE h[i] = h[i - 1] + new[i].time
    <3>1. i \in 0..m + 1 /\ i - 1 \in 0..m + 1
      BY <1>4
    <3>2. CASE i <= n
      <4>1. i - 1 <= n /\ i \in 1..m /\ i # n + 1
        BY <1>4, <1>9, <3>2
      <4>2. g[i] = g[i - 1] + vt[i].time
        BY <1>7, <4>1
      <4>3. h[i] = g[i] /\ h[i - 1] = g[i - 1]
        BY <3>1, <3>2, <4>1
      <4> QED
        BY <1>11, <1>13, <3>2, <4>1, <4>2, <4>3
    <3>3. CASE i = n + 1
      <4>1. h[i] = time /\ h[i - 1] = g[n]
        BY <1>9, <3>1, <3>3
      <4>2. ~(i <= n) /\ new[i] = x
        BY <1>9, <1>13, <3>3
      <4> QED
        BY <1>10, <1>12, <4>1, <4>2
    <3>4. CASE i = n + 2
      <4>1. h[i] = g[n + 1] /\ h[i - 1] = time
        BY <1>9, <3>1, <3>4
      <4>2. n + 1 \in 1..m /\ (n + 1) - 1 = n /\ i - 1 = n + 1 /\ ~(i <= n) /\ i # n + 1
        BY <1>4, <1>9, <3>4
      <4>3. new[i] = short[n + 1]
        BY <1>13, <4>2
      <4>4. g[n + 1] = g[n] + vt[n + 1].time /\ vt[n + 1].time \in Nat
        BY <1>4, <1>7, <4>2
      <4>5. new[i].time = vt[n + 1].time - rest
        BY <1>11, <4>2, <4>3
      <4>6. g[n] + vt[n + 1].time = time + (vt[n + 1].time - rest)
        <5> HIDE DEF h
        <5> QED
          BY <1>10, <4>4
      <4> QED
        BY <4>1, <4>4, <4>5, <4>6
    <3>5. CASE i > n + 2
      <4>1. /\ ~(i <= n) /\ i # n + 1 /\ ~(i - 1 <= n) /\ i - 1 # n + 1
            /\ i - 1 \in 1..m
        BY <1>4, <1>9, <3>5
      <4>2. h[i] = g[i - 1] /\ h[i - 1] = g[(i - 1) - 1]
        BY <3>1, <4>1
      <4>3. new[i] = short[i - 1]
        BY <1>13, <4>1
      <4>4. g[i - 1] = g[(i - 1) - 1] + vt[i - 1].time
        BY <1>7, <4>1
      <4> QED
        BY <1>11, <4>1, <4>2, <4>3, <4>4
    <3> QED
      BY <1>9, <3>2, <3>3, <3>4, <3>5
  <2> HIDE DEF h
  <2>4. h \in [0..m + 1 -> Nat]
    <3>1. h = [i \in 0..m + 1 |-> h[i]]
      BY DEF h
    <3> QED
      BY <2>1, <3>1
  <2> QED
    BY <1>13, <2>2, <2>3, <2>4 DEF Sums
<1>15. due \in [Thread -> Nat] /\ \A u \in Thread : due[u] = IF u = t THEN time ELSE kk.due[u]
  BY <1>1
<1>16. /\ \A i \in 1..m : g[i] = kk.due[vt[i].thd] /\ g[i] > 0
       /\ \A i, j \in 1..m : vt[i].thd = vt[j].thd => i = j
       /\ \A u \in Thread : kk.due[u] > 0 => \E i \in 1..m : vt[i].thd = u
  BY <1>1, <1>5, TimersBySums, SMTT(40)
<1> HIDE DEF due
<1>17. ASSUME NEW i \in 1..m + 1, i # n + 1
       PROVE  LET e == IF i <= n THEN i ELSE i - 1 IN
              e \in 1..m /\ new[i].thd = vt[e].thd /\ h[i] = g[e]
  <2>1. CASE i <= n
    <3>1. i \in 1..m /\ i \in 0..m + 1
      BY <1>4, <1>9, <2>1
    <3> QED
      BY <1>11, <1>13, <2>1, <3>1
  <2>2. CASE i > n + 1
    <3>1. i - 1 \in 1..m /\ i \in 0..m + 1 /\ ~(i <= n)
      BY <1>4, <1>9, <2>2
    <3> QED
      BY <1>11, <1>13, <1>17, <3>1
  <2> QED
    BY <1>9, <1>17, <2>1, <2>2
<1>18. n + 1 \in 1..m + 1 /\ new[n + 1].thd = t /\ h[n + 1] = time
  <2>1. n + 1 \in 1..m + 1 /\ n + 1 \in 0..m + 1 /\ ~(n + 1 <= n)
    BY <1>4, <1>9
  <2> QED
    BY <1>12, <1>13, <2>1
<1> HIDE DEF h
<1>19. ASSUME NEW i \in 1..m + 1
       PROVE  h[i] = due[new[i].thd] /\ h[i] > 0
  <2>1. CASE i = n + 1
    BY <1>15, <1>18, <2>1
  <2>2. CASE i # n + 1
    <3> DEFINE e == IF i <= n THEN i ELSE i - 1
    <3>1. e \in 1..m /\ new[i].thd = vt[e].thd /\ h[i] = g[e]
      BY <1>17, <2>2
    <3> HIDE DEF e
    <3>2. g[e] = kk.due[vt[e].thd] /\ g[e] > 0 /\ vt[e].thd \in Thread
      BY <1>4, <1>16, <3>1
    <3>3. vt[e].thd # t
      BY <3>2
    <3> QED
      BY <1>15, <3>1, <3>2, <3>3
  <2> QED
    BY <2>1, <2>2
<1>20. ASSUME NEW i \in 1..m + 1, NEW j \in 1..m + 1, new[i].thd = new[j].thd PROVE i = j
  <2>1. ASSUME NEW e \in 1..m + 1, e # n + 1 PROVE new[e].thd # t
    <3> DEFINE f == IF e <= n THEN e ELSE e - 1
    <3>1. f \in 1..m /\ new[e].thd = vt[f].thd
      BY <1>17, <2>1
    <3> HIDE DEF f
    <3> QED
      BY <1>16, <3>1
  <2>2. CASE i = n + 1 \/ j = n + 1
    BY <1>18, <1>20, <2>1, <2>2
  <2>3. CASE i # n + 1 /\ j # n + 1
    <3> DEFINE e == IF i <= n THEN i ELSE i - 1
               f == IF j <= n THEN j ELSE j - 1
    <3>1. e \in 1..m /\ new[i].thd = vt[e].thd /\ f \in 1..m /\ new[j].thd = vt[f].thd
      BY <1>17, <2>3
    <3>2. e = f => i = j
      BY <1>9, <2>3
    <3> HIDE DEF e, f
    <3> QED
      BY <1>16, <1>20, <3>1, <3>2
  <2> QED
    BY <2>2, <2>3
<1>21. ASSUME NEW u \in Thread, due[u] > 0 PROVE \E i \in 1..m + 1 : new[i].thd = u
  <2>1. CASE u = t
    BY <1>18, <2>1
  <2>2. CASE u # t
    <3>1. PICK e \in 1..m : vt[e].thd = u
      BY <1>15, <1>16, <1>21, <2>2
    <3> DEFINE i == IF e <= n THEN e ELSE e + 1
    <3>2. i \in 1..m + 1 /\ i # n + 1 /\ e = IF i <= n THEN i ELSE i - 1
      BY <1>4, <1>9
    <3>3. new[i].thd = vt[e].thd
      BY <1>17, <3>2
    <3> QED
      BY <3>1, <3>2, <3>3
  <2> QED
    BY <2>1, <2>2
<1>22. TimersAre(new, due)
  <2>1. Len(new) = m + 1
    BY <1>13
  <2>2. /\ \A i \in 1..Len(new) : h[i] = due[new[i].thd] /\ h[i] > 0
        /\ \A i, j \in 1..Len(new) : new[i].thd = new[j].thd => i = j
        /\ \A u \in Thread : due[u] > 0 => \E i \in 1..Len(new) : new[i].thd = u
    BY <1>19, <1>20, <1>21, <2>1
  <2>3. new \in Seq(VTimer) /\ due \in [Thread -> Nat]
    BY <1>13, <1>15
  <2> QED
    BY <1>14, <2>2, <2>3, TimersBySums
<1> QED
  BY <1>3, <1>22 DEF r, due
(* A timer is armed if it is due at some time.                              *)
LEMMA ArmedIs ==
  ASSUME NEW kk \in KernelState, TimersAre(kk.vt, kk.due), NEW t \in Thread
  PROVE  chVTIsArmedI(kk, t) <=> kk.due[t] > 0
<1>1. kk.vt \in Seq(VTimer)
  BY DEF KernelState
<1>2. DOMAIN kk.vt = 1..Len(kk.vt)
  BY <1>1, TimerIs
<1> QED
  BY <1>2 DEF TimersAre, chVTIsArmedI

(* chVTResetI takes the timer off, and the ones behind it keep their times. *)
LEMMA ResetTimer ==
  ASSUME NEW kk \in KernelState, TimersAre(kk.vt, kk.due), NEW t \in Thread,
         kk.due[t] > 0
  PROVE  LET r == chVTResetI(kk, t) IN
         /\ r = [kk EXCEPT !.vt = r.vt, !.due = r.due]
         /\ r.due = [kk.due EXCEPT ![t] = 0]
         /\ TimersAre(r.vt, r.due)
<1> DEFINE vt == kk.vt
           m == Len(vt)
           n == CHOOSE i \in DOMAIN vt : vt[i].thd = t
           long == IF n = Len(vt) THEN vt ELSE [vt EXCEPT ![n + 1].time = @ + vt[n].time]
           new == Unlinked(long, n)
           due == [kk.due EXCEPT ![t] = 0]
           r == chVTResetI(kk, t)
<1>1. vt \in Seq(VTimer) /\ kk.due \in [Thread -> Nat]
  BY DEF KernelState
<1>2. r = [kk EXCEPT !.vt = new, !.due[t] = 0]
  BY DEF chVTResetI
<1>3. r.vt = new /\ r.due = due /\ r = [kk EXCEPT !.vt = new, !.due = due]
  BY <1>2 DEF KernelState
<1>4. m \in Nat /\ DOMAIN vt = 1..m
      /\ \A i \in 1..m : vt[i] \in VTimer /\ vt[i].thd \in Thread /\ vt[i].time \in Nat
  BY <1>1, TimerIs
<1> HIDE DEF r, new
<1>5. PICK g : Sums(g, vt)
  BY <1>1, SumsExist
<1>6. g \in [0..m -> Nat] /\ g[0] = 0 /\ \A i \in 1..m : g[i] = g[i - 1] + vt[i].time
  BY <1>5 DEF Sums
<1>7. /\ \A i \in 1..m : g[i] = kk.due[vt[i].thd] /\ g[i] > 0
      /\ \A i, j \in 1..m : vt[i].thd = vt[j].thd => i = j
      /\ \A u \in Thread : kk.due[u] > 0 => \E i \in 1..m : vt[i].thd = u
  BY <1>1, <1>5, TimersBySums
<1>8. n \in 1..m /\ vt[n].thd = t
  BY <1>4, <1>7
<1> HIDE DEF n
<1>9. /\ long \in Seq(VTimer) /\ Len(long) = m
      /\ \A i \in 1..m : /\ long[i].thd = vt[i].thd
                         /\ long[i].time = IF i = n + 1 THEN vt[i].time + vt[n].time
                                           ELSE vt[i].time
  <2>1. CASE n = m
    <3>1. \A i \in 1..m : i # n + 1
      BY <1>4, <1>8, <2>1
    <3> QED
      BY <1>1, <2>1, <3>1
  <2>2. CASE n # m
    <3> DEFINE y == [vt[n + 1] EXCEPT !.time = vt[n + 1].time + vt[n].time]
    <3>1. n + 1 \in 1..m
      BY <1>4, <1>8, <2>2
    <3>2. long = [vt EXCEPT ![n + 1] = y]
      BY <2>2
    <3>3. y \in VTimer /\ y.thd = vt[n + 1].thd /\ y.time = vt[n + 1].time + vt[n].time
      BY <1>4, <1>8, <3>1 DEF VTimer
    <3> HIDE DEF y
    <3>4. long \in Seq(VTimer) /\ Len(long) = m
      BY <1>1, <3>1, <3>2, <3>3, SMTT(40)
    <3>5. \A i \in 1..m : long[i] = IF i = n + 1 THEN y ELSE vt[i]
      BY <1>4, <3>1, <3>2
    <3> QED
      BY <3>3, <3>4, <3>5
  <2> QED
    BY <2>1, <2>2
<1> HIDE DEF long
<1>10. /\ new \in Seq(VTimer) /\ Len(new) = m - 1
       /\ \A i \in 1..m - 1 : new[i] = IF i < n THEN long[i] ELSE long[i + 1]
  <2>1. n \in 1..Len(long)
    BY <1>8, <1>9
  <2> QED
    BY <1>9, <2>1, UnlinkedIs DEF new
<1>11. m - 1 \in Nat
  BY <1>4, <1>8
<1> DEFINE h == [i \in 0..m - 1 |-> IF i < n THEN g[i] ELSE g[i + 1]]
<1>12. Sums(h, new)
  <2>1. ASSUME NEW i \in 0..m - 1 PROVE h[i] \in Nat
    <3>1. i \in 0..m /\ i + 1 \in 0..m
      BY <1>4
    <3> QED
      BY <1>6, <3>1
  <2>2. h[0] = 0
    <3>1. 0 \in 0..m - 1 /\ 0 < n
      BY <1>8, <1>11
    <3> QED
      BY <1>6, <3>1
  <2>3. ASSUME NEW i \in 1..m - 1 PROVE h[i] = h[i - 1] + new[i].time
    <3>1. i \in 0..m - 1 /\ i - 1 \in 0..m - 1 /\ i \in 1..m /\ i + 1 \in 1..m
          /\ i \in Nat /\ (i + 1) - 1 = i
      BY <1>4
    <3>2. CASE i < n
      <4>1. i - 1 < n /\ i # n + 1
        BY <1>8, <3>1, <3>2
      <4>2. h[i] = g[i] /\ h[i - 1] = g[i - 1] /\ new[i] = long[i]
        BY <1>10, <3>1, <3>2, <4>1
      <4> QED
        BY <1>6, <1>9, <3>1, <4>1, <4>2
    <3>3. CASE i = n
      <4>1. i - 1 < n /\ ~(i < n)
        BY <1>8, <3>3
      <4>2. h[i] = g[n + 1] /\ h[i - 1] = g[n - 1] /\ new[i] = long[n + 1]
        BY <1>10, <3>1, <3>3, <4>1
      <4>3. new[i].time = vt[n + 1].time + vt[n].time
        BY <1>9, <3>1, <3>3, <4>2
      <4>4. g[n + 1] = g[n] + vt[n + 1].time /\ g[n] = g[n - 1] + vt[n].time
        BY <1>6, <3>1, <3>3
      <4>5. g[n - 1] \in Nat /\ vt[n].time \in Nat /\ vt[n + 1].time \in Nat
        <5>1. n - 1 \in 0..m
          BY <1>4, <1>8
        <5> QED
          BY <1>4, <1>6, <3>1, <3>3, <5>1
      <4>6. (g[n - 1] + vt[n].time) + vt[n + 1].time
              = g[n - 1] + (vt[n + 1].time + vt[n].time)
        <5> HIDE DEF h
        <5> QED
          BY <4>5
      <4> QED
        BY <4>2, <4>3, <4>4, <4>6
    <3>4. CASE i > n
      <4>1. ~(i < n) /\ ~(i - 1 < n) /\ i + 1 # n + 1 /\ (i - 1) + 1 = i
        BY <1>8, <3>1, <3>4
      <4>2. h[i] = g[i + 1] /\ h[i - 1] = g[i] /\ new[i] = long[i + 1]
        BY <1>10, <3>1, <4>1
      <4>3. g[i + 1] = g[i] + vt[i + 1].time
        BY <1>6, <3>1
      <4> QED
        BY <1>9, <3>1, <4>1, <4>2, <4>3
    <3> QED
      BY <1>8, <3>1, <3>2, <3>3, <3>4
  <2> HIDE DEF h
  <2>4. h \in [0..m - 1 -> Nat]
    <3>1. h = [i \in 0..m - 1 |-> h[i]]
      BY DEF h
    <3> QED
      BY <2>1, <3>1
  <2> QED
    BY <1>10, <2>2, <2>3, <2>4 DEF Sums
<1>13. due \in [Thread -> Nat] /\ \A u \in Thread : due[u] = IF u = t THEN 0 ELSE kk.due[u]
  BY <1>1
<1> HIDE DEF due
<1> DEFINE old(i) == IF i < n THEN i ELSE i + 1
<1>14. ASSUME NEW i \in 1..m - 1
       PROVE  old(i) \in 1..m /\ old(i) # n /\ new[i].thd = vt[old(i)].thd /\ h[i] = g[old(i)]
  <2>1. i \in 1..m /\ i + 1 \in 1..m /\ i \in 0..m - 1
    BY <1>4
  <2> QED
    BY <1>8, <1>9, <1>10, <2>1
<1>15. \A i, j \in 1..m - 1 : old(i) = old(j) => i = j
  BY <1>8
<1>16. \A e \in 1..m : e # n => \E i \in 1..m - 1 : old(i) = e
  <2> SUFFICES ASSUME NEW e \in 1..m, e # n PROVE \E i \in 1..m - 1 : old(i) = e
    OBVIOUS
  <2>1. CASE e < n
    BY <1>4, <1>8, <2>1
  <2>2. CASE e > n
    <3>1. e - 1 \in 1..m - 1 /\ ~(e - 1 < n) /\ (e - 1) + 1 = e
      BY <1>4, <1>8, <2>2
    <3> QED
      BY <3>1
  <2> QED
    BY <1>8, <2>1, <2>2
<1> HIDE DEF h, old
<1>17. ASSUME NEW i \in 1..m - 1 PROVE h[i] = due[new[i].thd] /\ h[i] > 0
  <2>1. g[old(i)] = kk.due[vt[old(i)].thd] /\ g[old(i)] > 0 /\ vt[old(i)].thd \in Thread
    BY <1>4, <1>7, <1>14
  <2>2. vt[old(i)].thd # t
    BY <1>7, <1>8, <1>14
  <2> QED
    BY <1>13, <1>14, <2>1, <2>2
<1>18. ASSUME NEW i \in 1..m - 1, NEW j \in 1..m - 1, new[i].thd = new[j].thd
       PROVE  i = j
  <2>1. old(i) \in 1..m /\ new[i].thd = vt[old(i)].thd
    BY <1>14
  <2>2. old(j) \in 1..m /\ new[j].thd = vt[old(j)].thd
    BY <1>14
  <2> HIDE DEF old
  <2>3. old(i) = old(j)
    BY <1>7, <1>18, <2>1, <2>2
  <2> QED
    BY <1>15, <2>3
<1>19. ASSUME NEW u \in Thread, due[u] > 0 PROVE \E i \in 1..m - 1 : new[i].thd = u
  <2>1. u # t
    BY <1>13, <1>19
  <2>2. PICK e \in 1..m : vt[e].thd = u
    BY <1>7, <1>13, <1>19, <2>1
  <2> QED
    BY <1>8, <1>14, <1>16, <2>1, <2>2, ZenonT(40)
<1>20. TimersAre(new, due)
  <2>1. /\ \A i \in 1..Len(new) : h[i] = due[new[i].thd] /\ h[i] > 0
        /\ \A i, j \in 1..Len(new) : new[i].thd = new[j].thd => i = j
        /\ \A u \in Thread : due[u] > 0 => \E i \in 1..Len(new) : new[i].thd = u
    BY <1>10, <1>17, <1>18, <1>19
  <2>2. new \in Seq(VTimer) /\ due \in [Thread -> Nat]
    BY <1>10, <1>13
  <2> QED
    BY <1>12, <2>1, <2>2, TimersBySums
<1> QED
  BY <1>3, <1>20 DEF r, due

(* What a list is after its first n elements.                              *)
LEMMA RestIs ==
  ASSUME NEW T, NEW s \in Seq(T), NEW n \in 0..Len(s)
  PROVE  LET r == SubSeq(s, n + 1, Len(s)) IN
         /\ r \in Seq(T) /\ Len(r) = Len(s) - n
         /\ \A i \in 1..Len(s) - n : r[i] = s[i + n]
<1> DEFINE r == SubSeq(s, n + 1, Len(s))
<1>1. r \in Seq(T) /\ Len(r) = Len(s) - n
  OBVIOUS
<1>2. ASSUME NEW i \in 1..Len(s) - n PROVE r[i] = s[i + n]
  <2>1. r[i] = s[(n + 1) + i - 1]
    OBVIOUS
  <2>2. (n + 1) + i - 1 = i + n
    OBVIOUS
  <2> QED
    BY <2>1, <2>2
<1> QED
  BY <1>1, <1>2

(* A tick brings every timer nearer, and takes out those that it ends.     *)
Ticked(kk) == [kk.vt EXCEPT ![1].time = @ - 1]
Fired(kk) == Leading(Ticked(kk), LAMBDA v : v.time = 0)
Ahead(kk) == SubSeq(Ticked(kk), Fired(kk) + 1, Len(Ticked(kk)))
Nearer(kk) == [t \in Thread |-> IF kk.due[t] > 0 THEN kk.due[t] - 1 ELSE 0]

(* A tick brings every timer one step nearer; those at its head that have   *)
(* no time left have fired.                                                 *)
LEMMA TickTimers ==
  ASSUME NEW kk \in KernelState, TimersAre(kk.vt, kk.due), kk.vt # <<>>
  PROVE  /\ Fired(kk) \in 0..Len(kk.vt)
         /\ Len(Ticked(kk)) = Len(kk.vt)
         /\ TimersAre(Ahead(kk), Nearer(kk))
         /\ \A i \in 1..Fired(kk) : /\ Ticked(kk)[i].thd \in Thread
                                    /\ kk.due[Ticked(kk)[i].thd] > 0
                                    /\ Nearer(kk)[Ticked(kk)[i].thd] = 0
         /\ \A i, j \in 1..Fired(kk) : Ticked(kk)[i].thd = Ticked(kk)[j].thd => i = j
<1> DEFINE vt == kk.vt
           m == Len(vt)
           tk == Ticked(kk)
           n == Fired(kk)
           due == Nearer(kk)
           new == Ahead(kk)
<1>1. vt \in Seq(VTimer) /\ kk.due \in [Thread -> Nat]
  BY DEF KernelState
<1>2. m \in Nat /\ DOMAIN vt = 1..m
      /\ \A i \in 1..m : vt[i] \in VTimer /\ vt[i].thd \in Thread /\ vt[i].time \in Nat
  BY <1>1, TimerIs
<1>3. 1 \in 1..m
  BY <1>1, <1>2
<1>4. PICK g : Sums(g, vt)
  BY <1>1, SumsExist
<1>5. g \in [0..m -> Nat] /\ g[0] = 0 /\ \A i \in 1..m : g[i] = g[i - 1] + vt[i].time
  BY <1>4 DEF Sums
<1>6. /\ \A i \in 1..m : g[i] = kk.due[vt[i].thd] /\ g[i] > 0
      /\ \A i, j \in 1..m : vt[i].thd = vt[j].thd => i = j
      /\ \A u \in Thread : kk.due[u] > 0 => \E i \in 1..m : vt[i].thd = u
  BY <1>1, <1>4, TimersBySums
<1>7. vt[1].time > 0 /\ vt[1].time - 1 \in Nat
  <2>1. g[1] = g[1 - 1] + vt[1].time /\ g[1] > 0 /\ vt[1].time \in Nat
    BY <1>2, <1>3, <1>5, <1>6
  <2> QED
    BY <1>5, <2>1
<1>8. /\ tk \in Seq(VTimer) /\ Len(tk) = m /\ DOMAIN tk = 1..m
      /\ \A i \in 1..m : /\ tk[i].thd = vt[i].thd
                         /\ tk[i].time = IF i = 1 THEN vt[i].time - 1 ELSE vt[i].time
  <2> DEFINE y == [vt[1] EXCEPT !.time = vt[1].time - 1]
  <2>1. tk = [vt EXCEPT ![1] = y]
    BY DEF Ticked
  <2>2. y \in VTimer /\ y.thd = vt[1].thd /\ y.time = vt[1].time - 1
    BY <1>2, <1>3, <1>7 DEF VTimer
  <2> HIDE DEF y, tk
  <2>3. tk \in Seq(VTimer) /\ Len(tk) = m /\ DOMAIN tk = 1..m
    BY <1>1, <1>2, <1>3, <2>1, <2>2
  <2>4. \A i \in 1..m : tk[i] = IF i = 1 THEN y ELSE vt[i]
    BY <1>2, <1>3, <2>1
  <2> QED
    BY <2>2, <2>3, <2>4
<1> DEFINE b == {i \in 1..m : tk[i].time = 0}
<1>9. n = CountFirst(m, b)
  <2>1. {i \in DOMAIN tk : \A j \in 1..i : tk[j].time = 0}
          = {i \in 1..m : \A j \in 1..i : j \in b}
    BY <1>2, <1>8
  <2> QED
    BY <2>1 DEF Fired, Leading, CountFirst
<1> HIDE DEF tk, n
<1>10. n \in 0..m /\ (\A i \in 1..n : i \in b) /\ (n < m => n + 1 \notin b)
  <2>1. b \in SUBSET (1..m)
    OBVIOUS
  <2>2. m \in Nat
    BY <1>2
  <2> HIDE DEF b, m
  <2> QED
    BY <1>9, <2>1, <2>2, FirstOnes
<1>11. /\ \A i \in 1..n : i \in 1..m /\ tk[i].time = 0
       /\ n < m => n + 1 \in 1..m /\ tk[n + 1].time # 0
  BY <1>2, <1>10
<1> HIDE DEF b
<1> DEFINE f == [i \in 0..m |-> IF i = 0 THEN 0 ELSE g[i] - 1]
<1>12. Sums(f, tk)
  <2>1. ASSUME NEW i \in 0..m PROVE f[i] \in Nat
    <3>1. i # 0 => i \in 1..m /\ g[i] \in Nat
      BY <1>2, <1>5
    <3> QED
      BY <1>6, <3>1
  <2>2. f[0] = 0
    BY <1>2
  <2>3. ASSUME NEW i \in 1..m PROVE f[i] = f[i - 1] + tk[i].time
    <3>1. i \in 0..m /\ i - 1 \in 0..m /\ i # 0 /\ f[i] = g[i] - 1
      BY <1>2
    <3>2. g[i] = g[i - 1] + vt[i].time /\ g[i - 1] \in Nat /\ vt[i].time \in Nat
      BY <1>2, <1>5, <3>1
    <3>3. CASE i = 1
      BY <1>5, <1>8, <3>1, <3>2, <3>3
    <3>4. CASE i # 1
      <4>1. f[i - 1] = g[i - 1] - 1 /\ tk[i].time = vt[i].time
        BY <1>8, <3>1, <3>4
      <4> QED
        BY <3>1, <3>2, <4>1
    <3> QED
      BY <3>3, <3>4
  <2> HIDE DEF f
  <2>4. f \in [0..m -> Nat]
    <3>1. f = [i \in 0..m |-> f[i]]
      BY DEF f
    <3> QED
      BY <2>1, <3>1
  <2> QED
    BY <1>8, <2>2, <2>3, <2>4 DEF Sums
<1>13. \A i \in 1..m : f[i] = g[i] - 1
  BY <1>2
<1> HIDE DEF f
<1>14. f \in [0..m -> Nat] /\ f[0] = 0 /\ \A i \in 1..m : f[i] = f[i - 1] + tk[i].time
  BY <1>8, <1>12 DEF Sums
<1>15. \A i \in 0..n : f[i] = 0
  <2> DEFINE T == {i \in Nat : i <= n => f[i] = 0}
  <2>1. 0 \in T
    BY <1>14
  <2>2. ASSUME NEW i \in T PROVE i + 1 \in T
    <3> SUFFICES ASSUME i + 1 <= n PROVE f[i + 1] = 0
      OBVIOUS
    <3>1. i + 1 \in 1..n /\ (i + 1) - 1 = i /\ i <= n
      BY <1>10
    <3>2. i + 1 \in 1..m /\ tk[i + 1].time = 0
      BY <1>11, <3>1
    <3> QED
      BY <1>14, <3>1, <3>2
  <2>3. T \in SUBSET Nat
    OBVIOUS
  <2> HIDE DEF T
  <2>4. T = Nat
    BY <2>1, <2>2, <2>3, SetInduction
  <2> QED
    BY <1>10, <2>4 DEF T
<1>16. \A i \in 1..m : i > n => f[i] > 0
  <2> SUFFICES ASSUME NEW i \in 1..m, i > n PROVE f[i] > 0
    OBVIOUS
  <2>1. n < m /\ n + 1 \in 1..m /\ n + 1 <= i /\ (n + 1) - 1 = n /\ n \in 0..n
        /\ n + 1 \in 0..m /\ i \in 0..m
    BY <1>2, <1>10
  <2>2. f[n + 1] = f[n] + tk[n + 1].time /\ f[n] = 0 /\ tk[n + 1].time # 0
    BY <1>11, <1>14, <1>15, <2>1
  <2>3. tk[n + 1].time \in Nat
    BY <1>8, <2>1, TimerIs
  <2>4. f[n + 1] <= f[i]
    BY <1>8, <1>12, <2>1, SumsGrow
  <2>5. f[n + 1] \in Nat /\ f[i] \in Nat
    BY <1>14, <2>1
  <2> QED
    BY <2>2, <2>3, <2>4, <2>5
<1>17. due \in [Thread -> Nat]
       /\ \A t \in Thread : due[t] = IF kk.due[t] > 0 THEN kk.due[t] - 1 ELSE 0
  BY <1>1 DEF Nearer
<1> HIDE DEF due
<1>18. \A i \in 1..m : f[i] = due[tk[i].thd]
  <2> SUFFICES ASSUME NEW i \in 1..m PROVE f[i] = due[tk[i].thd]
    OBVIOUS
  <2>1. g[i] = kk.due[vt[i].thd] /\ g[i] > 0 /\ vt[i].thd \in Thread
    BY <1>2, <1>6
  <2> QED
    BY <1>8, <1>13, <1>17, <2>1
<1>19. /\ new \in Seq(VTimer) /\ Len(new) = m - n
       /\ \A i \in 1..m - n : new[i] = tk[i + n]
  <2>1. new = SubSeq(tk, n + 1, m)
    BY <1>8 DEF Ahead, tk, n
  <2>2. n + 1 \in Nat /\ m \in Nat /\ n + 1 >= 1 /\ m <= Len(tk) /\ n + 1 <= m + 1
    BY <1>2, <1>8, <1>10
  <2> HIDE DEF new, m
  <2>3. tk \in Seq(VTimer) /\ m = Len(tk) /\ n \in 0..m /\ m \in Nat
    BY <1>8, <1>10, <2>2
  <2> QED
    BY <2>1, <2>3, RestIs
<1> HIDE DEF new
<1>20. m - n \in Nat
  BY <1>2, <1>10
<1> DEFINE h == [i \in 0..m - n |-> f[i + n]]
<1>21. Sums(h, new)
  <2>1. ASSUME NEW i \in 0..m - n PROVE h[i] \in Nat
    <3>1. i + n \in 0..m
      BY <1>2, <1>10
    <3> QED
      BY <1>14, <3>1
  <2>2. h[0] = 0
    <3>1. 0 \in 0..m - n /\ 0 + n = n /\ n \in 0..n
      BY <1>10, <1>20
    <3> QED
      BY <1>15, <3>1
  <2>3. ASSUME NEW i \in 1..m - n PROVE h[i] = h[i - 1] + new[i].time
    <3>1. i \in 0..m - n /\ i - 1 \in 0..m - n /\ i + n \in 1..m /\ (i - 1) + n = (i + n) - 1
      BY <1>2, <1>10
    <3>2. f[i + n] = f[(i + n) - 1] + tk[i + n].time
      BY <1>14, <3>1
    <3> QED
      BY <1>19, <3>1, <3>2
  <2> HIDE DEF h
  <2>4. h \in [0..m - n -> Nat]
    <3>1. h = [i \in 0..m - n |-> h[i]]
      BY DEF h
    <3> QED
      BY <2>1, <3>1
  <2> QED
    BY <1>19, <2>2, <2>3, <2>4 DEF Sums
<1>22. \A i \in 1..m - n : h[i] = f[i + n] /\ i + n \in 1..m /\ i + n > n
  BY <1>2, <1>10
<1> HIDE DEF h
<1>23. TimersAre(new, due)
  <2>1. \A i \in 1..m - n : h[i] = due[new[i].thd] /\ h[i] > 0
    BY <1>16, <1>18, <1>19, <1>22
  <2>2. ASSUME NEW i \in 1..m - n, NEW j \in 1..m - n, new[i].thd = new[j].thd PROVE i = j
    <3>1. i + n \in 1..m /\ j + n \in 1..m
      BY <1>22
    <3>2. vt[i + n].thd = vt[j + n].thd
      BY <1>8, <1>19, <2>2, <3>1
    <3>3. i + n = j + n
      BY <1>6, <3>1, <3>2
    <3> QED
      BY <1>10, <3>3
  <2>3. ASSUME NEW t \in Thread, due[t] > 0 PROVE \E i \in 1..m - n : new[i].thd = t
    <3>1. kk.due[t] > 0
      BY <1>17, <2>3
    <3>2. PICK e \in 1..m : vt[e].thd = t
      BY <1>6, <3>1
    <3>3. f[e] > 0
      BY <1>8, <1>18, <2>3, <3>2
    <3>4. ~(e \in 0..n)
      BY <1>15, <3>3
    <3>5. e - n \in 1..m - n /\ (e - n) + n = e
      BY <1>2, <1>10, <3>4
    <3>6. new[e - n].thd = t
      BY <1>8, <1>19, <3>2, <3>5
    <3> QED
      BY <3>5, <3>6
  <2>4. /\ \A i \in 1..Len(new) : h[i] = due[new[i].thd] /\ h[i] > 0
        /\ \A i, j \in 1..Len(new) : new[i].thd = new[j].thd => i = j
        /\ \A u \in Thread : due[u] > 0 => \E i \in 1..Len(new) : new[i].thd = u
    BY <1>19, <2>1, <2>2, <2>3
  <2>5. new \in Seq(VTimer) /\ due \in [Thread -> Nat]
    BY <1>17, <1>19
  <2> QED
    BY <1>21, <2>4, <2>5, TimersBySums
<1>24. ASSUME NEW i \in 1..n
       PROVE  tk[i].thd \in Thread /\ kk.due[tk[i].thd] > 0 /\ due[tk[i].thd] = 0
  <2>1. i \in 1..m /\ i \in 0..n
    BY <1>10, <1>11
  <2>2. tk[i].thd = vt[i].thd /\ vt[i].thd \in Thread
        /\ kk.due[vt[i].thd] = g[i] /\ g[i] > 0
    BY <1>2, <1>6, <1>8, <2>1
  <2>3. f[i] = 0 /\ f[i] = due[tk[i].thd]
    BY <1>15, <1>18, <2>1
  <2> QED
    BY <2>2, <2>3
<1>25. \A i, j \in 1..n : tk[i].thd = tk[j].thd => i = j
  BY <1>6, <1>8, <1>11
<1> QED
  BY <1>8, <1>10, <1>23, <1>24, <1>25 DEF tk, n, due, new
------------------------------------------------------------------------------
(* The lists.                                                              *)
Runs == {"READY", "CURRENT"}
Waits == {"WTSEM", "WTMTX", "WTCOND", "WTQUEUE"}
Kind(o) ==
  IF o \in Sem THEN "WTSEM" ELSE IF o \in Mutex THEN "WTMTX"
  ELSE IF o \in CondVar THEN "WTCOND" ELSE "WTQUEUE"

(* Who is in the queue of an object, waits for such an object, and is in   *)
(* no other queue; the threads in L are in no list, whatever their state.  *)
QueuesRight(kk, L) ==
  /\ \A o \in Object : Once(kk.q[o])
  /\ \A o \in Object : \A t \in Members(kk.q[o]) : t \notin L /\ kk.state[t] = Kind(o)
  /\ \A o, p \in Object : \A t \in Thread :
       t \in Members(kk.q[o]) /\ t \in Members(kk.q[p]) => o = p
  /\ \A t \in Thread \ L : kk.state[t] \in Waits => \E o \in Object : t \in Members(kk.q[o])
  /\ \A m \in Mutex : Ranked(kk.prio, kk.q[m])

ReadyRight(kk, L) ==
  /\ Once(kk.ready) /\ Ranked(kk.prio, kk.ready)
  /\ Members(kk.ready) = {t \in Thread \ L : kk.state[t] = "READY"}
  /\ kk.current \notin L
  /\ \A t \in Thread \ L : kk.state[t] = "CURRENT" <=> t = kk.current
  /\ kk.state[Idle] \in Runs

Listed(kk, L) ==
  kk \in KernelState /\ L \subseteq Thread /\ QueuesRight(kk, L) /\ ReadyRight(kk, L)

(* What a thread waits for; a ready thread runs as the current one does.   *)
View(kk) ==
  [t \in Thread |-> IF kk.state[t] \in Runs THEN "RUNS" ELSE kk.state[t]]
HighestCurrent(kk) ==
  \A t \in Thread : kk.state[t] = "READY" => kk.prio[t] <= kk.prio[kk.current]

SameThreads(kk, r) ==
  r.state = kk.state /\ r.prio = kk.prio /\ r.ready = kk.ready /\ r.current = kk.current
SameRest(kk, r) ==
  /\ r.prio = kk.prio /\ r.realprio = kk.realprio
  /\ r.vt = kk.vt /\ r.due = kk.due /\ r.q = kk.q /\ r.cnt = kk.cnt
Same(kk, r) == SameRest(kk, r) /\ r.msg = kk.msg /\ View(r) = View(kk)

(* The fields of the kernel's state.                                        *)
LEMMA KernelIs ==
  ASSUME NEW kk \in KernelState
  PROVE  /\ kk.state \in [Thread -> States] /\ kk.prio \in [Thread -> Prios]
         /\ kk.realprio \in [Thread -> Prios] /\ kk.preempt \in [Thread -> 0..Quantum]
         /\ kk.msg \in [Thread -> Messages] /\ kk.ready \in Seq(Thread)
         /\ kk.current \in Thread /\ kk.vt \in Seq(VTimer)
         /\ kk.q \in [Object -> Seq(Thread)] /\ kk.cnt \in [Sem -> Int]
         /\ kk.due \in [Thread -> Nat]
         /\ \A t \in Thread : kk.prio[t] \in Nat /\ kk.prio[t] > 0
<1>1. \A p \in Prios : p \in Nat /\ p > 0
  BY DEF Prios, HIGHPRIO
<1>2. kk.prio \in [Thread -> Prios]
  BY DEF KernelState
<1>3. \A t \in Thread : kk.prio[t] \in Nat /\ kk.prio[t] > 0
  BY <1>1, <1>2
<1> QED
  BY <1>2, <1>3 DEF KernelState

(* What chSchReadyI changes.                                                *)
LEMMA ReadyIs ==
  ASSUME NEW kk \in KernelState, NEW t \in Thread
  PROVE  LET r == chSchReadyI(kk, t) IN
         /\ r \in KernelState /\ r.state = [kk.state EXCEPT ![t] = "READY"]
         /\ r.ready = prio_insert(kk, kk.ready, t)
         /\ r.current = kk.current /\ r.preempt = kk.preempt
         /\ SameRest(kk, r) /\ r.msg = kk.msg
<1> DEFINE new == prio_insert(kk, kk.ready, t)
           st == [kk.state EXCEPT ![t] = "READY"]
           r == chSchReadyI(kk, t)
<1>1. new \in Seq(Thread)
  BY KernelIs, PrioInsertIs DEF PlacedIn
<1>2. "READY" \in States
  BY DEF States
<1>3. st \in [Thread -> States]
  BY <1>2, KernelIs
<1>4. r = [kk EXCEPT !.state = st, !.ready = new]
  BY DEF chSchReadyI, KernelState
<1> HIDE DEF new, st, r
<1> QED
  <2>1. r \in KernelState
    BY <1>1, <1>3, <1>4 DEF KernelState
  <2>2. r.state = st /\ r.ready = new /\ r.current = kk.current /\ r.preempt = kk.preempt
        /\ SameRest(kk, r) /\ r.msg = kk.msg
    BY <1>4 DEF KernelState, SameRest
  <2> QED
    BY <2>1, <2>2 DEF new, st, r

(* What a switch to the first ready thread changes.                         *)
LEMMA SwitchIs ==
  ASSUME NEW kk \in KernelState, kk.ready # <<>>, NEW s \in States
  PROVE  LET r == Switch(kk, s) IN
         /\ r \in KernelState
         /\ r.state = [kk.state EXCEPT ![kk.current] = s, ![Head(kk.ready)] = "CURRENT"]
         /\ r.current = Head(kk.ready) /\ r.ready = Tail(kk.ready)
         /\ r.preempt = kk.preempt /\ SameRest(kk, r) /\ r.msg = kk.msg
<1> DEFINE st == [kk.state EXCEPT ![kk.current] = s, ![Head(kk.ready)] = "CURRENT"]
           r == Switch(kk, s)
<1>1. Head(kk.ready) \in Thread /\ Tail(kk.ready) \in Seq(Thread)
  BY KernelIs, TailPlaces
<1>2. "CURRENT" \in States
  BY DEF States
<1>3. st \in [Thread -> States]
  BY <1>2, KernelIs
<1>4. r = [kk EXCEPT !.state = st, !.current = Head(kk.ready), !.ready = Tail(kk.ready)]
  BY DEF Switch, KernelState
<1> HIDE DEF st, r
<1> QED
  <2>1. r \in KernelState
    BY <1>1, <1>3, <1>4 DEF KernelState
  <2>2. /\ r.state = st /\ r.current = Head(kk.ready) /\ r.ready = Tail(kk.ready)
        /\ r.preempt = kk.preempt /\ SameRest(kk, r) /\ r.msg = kk.msg
    BY <1>4 DEF KernelState, SameRest
  <2> QED
    BY <2>1, <2>2 DEF st, r

(* The lists do not depend on the rest of the kernel's state.              *)
LEMMA SameListed ==
  ASSUME NEW kk, NEW L, Listed(kk, L), NEW r \in KernelState,
         SameThreads(kk, r), r.q = kk.q
  PROVE  Listed(r, L) /\ View(r) = View(kk)
BY DEF Listed, QueuesRight, ReadyRight, View, SameThreads

(* A thread that was in no list becomes ready.                             *)
LEMMA ReadyListed ==
  ASSUME NEW kk, NEW L, Listed(kk, L), NEW t \in L, NEW r \in KernelState,
         r.state = [kk.state EXCEPT ![t] = "READY"], r.current = kk.current,
         r.ready \in {prio_insert(kk, kk.ready, t), prio_insert_ahead(kk, kk.ready, t)},
         r.prio = kk.prio, r.q = kk.q
  PROVE  Listed(r, L \ {t}) /\ View(r) = [View(kk) EXCEPT ![t] = "RUNS"]
<1>1. kk \in KernelState /\ L \subseteq Thread /\ t \in Thread
  BY DEF Listed
<1>2. kk.state \in [Thread -> States] /\ kk.ready \in Seq(Thread)
      /\ kk.prio \in [Thread -> Prios] /\ kk.q \in [Object -> Seq(Thread)]
      /\ kk.current \in Thread
  BY <1>1, KernelIs
<1>3. \A u \in Thread : r.state[u] = IF u = t THEN "READY" ELSE kk.state[u]
  BY <1>2
<1>4. t \notin Members(kk.ready) /\ t # kk.current
  BY DEF Listed, ReadyRight
<1>5. /\ Members(r.ready) = Members(kk.ready) \cup {t}
      /\ Once(r.ready) /\ Ranked(kk.prio, r.ready)
  <2>1. Once(kk.ready) /\ Ranked(kk.prio, kk.ready)
    BY DEF Listed, ReadyRight
  <2>2. PlacedIn(r.ready, kk.prio, kk.ready, t)
    BY <1>1, <1>2, PrioInsertIs
  <2> QED
    BY <1>4, <2>1, <2>2 DEF PlacedIn
<1>6. ReadyRight(r, L \ {t})
  <2>1. Members(r.ready) = {u \in Thread \ (L \ {t}) : r.state[u] = "READY"}
    BY <1>1, <1>3, <1>5 DEF Listed, ReadyRight
  <2>2. \A u \in Thread \ (L \ {t}) : r.state[u] = "CURRENT" <=> u = r.current
    BY <1>3, <1>4 DEF Listed, ReadyRight
  <2>3. r.state[Idle] \in Runs
    BY <1>3, ThreadAssumption DEF Listed, ReadyRight, Runs
  <2>4. r.current \notin L \ {t}
    BY DEF Listed, ReadyRight
  <2> QED
    BY <1>5, <2>1, <2>2, <2>3, <2>4 DEF ReadyRight
<1>7. QueuesRight(r, L \ {t})
  <2>0. QueuesRight(kk, L)
    BY DEF Listed
  <2>1. \A o \in Object : \A u \in Members(kk.q[o]) : u \in Thread
    <3>1. \A o \in Object : kk.q[o] \in Seq(Thread)
      BY <1>2
    <3> QED
      BY <3>1, MembersAre
  <2>2. \A o \in Object : \A u \in Members(r.q[o]) :
          u \notin L \ {t} /\ r.state[u] = Kind(o)
    BY <1>3, <2>0, <2>1 DEF QueuesRight
  <2>3. "READY" \notin Waits
    BY DEF Waits
  <2>4. \A u \in Thread \ (L \ {t}) :
          r.state[u] \in Waits => \E o \in Object : u \in Members(r.q[o])
    BY <1>3, <2>0, <2>3 DEF QueuesRight
  <2> QED
    BY <2>0, <2>2, <2>4 DEF QueuesRight
<1>8. View(r) = [View(kk) EXCEPT ![t] = "RUNS"]
  BY <1>1, <1>3 DEF View, Runs
<1> QED
  BY <1>1, <1>6, <1>7, <1>8 DEF Listed
(* A thread leaves the processor to the first ready one.                   *)
LEMMA SwitchListed ==
  ASSUME NEW kk, Listed(kk, {}), kk.ready # <<>>, NEW s \in States,
         kk.current # Idle \/ s \in Runs
  PROVE  LET r == Switch(kk, s) IN
         /\ Listed(r, {kk.current})
         /\ \A t \in Thread \ {kk.current} :
              r.state[t] = "READY" => r.prio[t] <= r.prio[r.current]
         /\ View(r) = [View(kk) EXCEPT ![kk.current] = IF s \in Runs THEN "RUNS" ELSE s]
         /\ r.state[kk.current] = s
         /\ r.current = Head(kk.ready) /\ Head(kk.ready) \in Members(kk.ready)
<1> DEFINE r == Switch(kk, s)
           old == kk.current
           new == Head(kk.ready)
<1>1. kk \in KernelState
  BY DEF Listed
<1>2. kk.state \in [Thread -> States] /\ kk.ready \in Seq(Thread) /\ old \in Thread
      /\ kk.prio \in [Thread -> Prios] /\ kk.q \in [Object -> Seq(Thread)]
  BY <1>1, KernelIs
<1>3. /\ r \in KernelState
      /\ r.state = [kk.state EXCEPT ![old] = s, ![new] = "CURRENT"]
      /\ r.current = new /\ r.ready = Tail(kk.ready)
      /\ r.prio = kk.prio /\ r.q = kk.q
  BY <1>1, SwitchIs DEF SameRest
<1> HIDE DEF r
<1>4. ReadyRight(kk, {}) /\ QueuesRight(kk, {})
  BY DEF Listed
<1>5. /\ new \in Members(kk.ready) /\ new = kk.ready[1] /\ new \in Thread
      /\ r.ready \in Seq(Thread) /\ Once(r.ready)
      /\ Members(r.ready) = Members(kk.ready) \ {new} /\ Ranked(kk.prio, r.ready)
      /\ \A i \in 1..Len(kk.ready) - 1 : r.ready[i] = kk.ready[i + 1]
      /\ Len(r.ready) = Len(kk.ready) - 1
  BY <1>2, <1>3, <1>4, TailPlaces DEF ReadyRight
<1>6. new # old
  <2>1. kk.state[new] = "READY" /\ kk.state[old] = "CURRENT"
    BY <1>2, <1>4, <1>5 DEF ReadyRight
  <2> QED
    BY <2>1
<1>7. \A u \in Thread : r.state[u] = IF u = new THEN "CURRENT" ELSE IF u = old THEN s
                                     ELSE kk.state[u]
  BY <1>2, <1>3, <1>5
<1> HIDE DEF new
<1>8. ReadyRight(r, {old})
  <2>1. Members(r.ready) = {u \in Thread \ {old} : r.state[u] = "READY"}
    BY <1>2, <1>4, <1>5, <1>6, <1>7 DEF ReadyRight
  <2>2. \A u \in Thread \ {old} : r.state[u] = "CURRENT" <=> u = r.current
    BY <1>3, <1>4, <1>6, <1>7 DEF ReadyRight
  <2>3. r.state[Idle] \in Runs
    BY <1>4, <1>7, ThreadAssumption DEF ReadyRight, Runs
  <2> QED
    BY <1>3, <1>5, <1>6, <2>1, <2>2, <2>3 DEF ReadyRight
<1>9. QueuesRight(r, {old})
  <2>1. \A o \in Object : \A u \in Members(kk.q[o]) : u \in Thread
    <3>1. \A o \in Object : kk.q[o] \in Seq(Thread)
      BY <1>2
    <3> QED
      BY <3>1, MembersAre
  <2>2. \A o \in Object : Kind(o) \in Waits
    BY DEF Kind, Waits
  <2>3. kk.state[old] \notin Waits /\ kk.state[new] \notin Waits /\ "CURRENT" \notin Waits
    BY <1>2, <1>4, <1>5 DEF ReadyRight, Waits
  <2>4. \A o \in Object : \A u \in Members(kk.q[o]) : u # old /\ u # new
    BY <1>4, <2>2, <2>3 DEF QueuesRight
  <2>5. \A o \in Object : \A u \in Members(r.q[o]) :
          u \notin {old} /\ r.state[u] = Kind(o)
    BY <1>3, <1>4, <1>7, <2>1, <2>4 DEF QueuesRight
  <2>6. \A u \in Thread \ {old} :
          r.state[u] \in Waits => \E o \in Object : u \in Members(r.q[o])
    BY <1>3, <1>4, <1>7, <2>3 DEF QueuesRight
  <2> QED
    BY <1>3, <1>4, <2>5, <2>6 DEF QueuesRight
<1>10. \A t \in Thread \ {old} : r.state[t] = "READY" => r.prio[t] <= r.prio[r.current]
  <2> SUFFICES ASSUME NEW t \in Thread \ {old}, r.state[t] = "READY"
               PROVE  kk.prio[t] <= kk.prio[new]
    BY <1>3
  <2>1. t \in Members(kk.ready)
    BY <1>4, <1>7 DEF ReadyRight
  <2>2. PICK i \in 1..Len(kk.ready) : kk.ready[i] = t
    BY <1>2, <2>1, MembersAre
  <2>3. DOMAIN kk.ready = 1..Len(kk.ready) /\ 1 \in 1..Len(kk.ready) /\ (i = 1 \/ 1 < i)
    BY <1>2
  <2>4. kk.prio[t] \in Nat
    BY <1>1, KernelIs
  <2>5. Ranked(kk.prio, kk.ready)
    BY <1>4 DEF ReadyRight
  <2>6. CASE i = 1
    BY <1>5, <2>2, <2>4, <2>6
  <2>7. CASE 1 < i
    <3>1. kk.prio[kk.ready[1]] >= kk.prio[kk.ready[i]]
      BY <2>3, <2>5, <2>7 DEF Ranked
    <3>2. kk.prio[new] \in Nat
      BY <1>1, <1>5, KernelIs
    <3> QED
      BY <1>5, <2>2, <2>4, <3>1, <3>2
  <2> QED
    BY <2>3, <2>6, <2>7
<1>11. View(r) = [View(kk) EXCEPT ![old] = IF s \in Runs THEN "RUNS" ELSE s]
  <2>1. kk.state[new] \in Runs /\ "CURRENT" \in Runs
    BY <1>4, <1>5 DEF ReadyRight, Runs
  <2> QED
    BY <1>2, <1>6, <1>7, <2>1 DEF View
<1>12. r.state[old] = s
  BY <1>2, <1>6, <1>7
<1> QED
  BY <1>2, <1>3, <1>5, <1>8, <1>9, <1>10, <1>11, <1>12 DEF Listed, r, new

(* A thread in no list waits for no object.                                *)
LEMMA PutListed ==
  ASSUME NEW r, NEW t \in Thread, Listed(r, {t}), r.state[t] \notin Runs \cup Waits
  PROVE  Listed(r, {})
BY DEF Listed, QueuesRight, ReadyRight, Runs

(* A thread in no list comes into the queue of what it waits for.          *)
LEMMA QueuedListed ==
  ASSUME NEW kk, NEW t \in Thread, Listed(kk, {t}), NEW o \in Object, kk.state[t] = Kind(o),
         NEW r \in KernelState, SameThreads(kk, r), NEW x, r.q = [kk.q EXCEPT ![o] = x],
         Once(x), Members(x) = Members(kk.q[o]) \cup {t},
         o \in Mutex => Ranked(kk.prio, x)
  PROVE  Listed(r, {}) /\ View(r) = View(kk)
<1>1. kk \in KernelState /\ kk.q \in [Object -> Seq(Thread)]
  BY KernelIs DEF Listed
<1>2. \A p \in Object : r.q[p] = IF p = o THEN x ELSE kk.q[p]
  BY <1>1
<1>3. QueuesRight(kk, {t}) /\ ReadyRight(kk, {t})
  BY DEF Listed
<1>4. r.state = kk.state /\ r.prio = kk.prio /\ r.ready = kk.ready /\ r.current = kk.current
  BY DEF SameThreads
<1>5. Kind(o) \in Waits /\ Kind(o) \notin Runs
  BY DEF Kind, Waits, Runs
<1>6. \A p \in Object : \A u : u \in Members(r.q[p]) <=>
                                 u \in Members(kk.q[p]) \/ (p = o /\ u = t)
  BY <1>2
<1>7. \A p \in Object : t \notin Members(kk.q[p])
  BY <1>3 DEF QueuesRight
<1>8. ReadyRight(r, {})
  <2>1. kk.state[t] # "READY" /\ kk.state[t] # "CURRENT"
    BY <1>5 DEF Runs
  <2> QED
    BY <1>3, <1>4, <2>1 DEF ReadyRight
<1>9. QueuesRight(r, {})
  <2>1. \A p \in Object : Once(r.q[p])
    BY <1>2, <1>3 DEF QueuesRight
  <2>2. \A p \in Object : \A u \in Members(r.q[p]) : r.state[u] = Kind(p)
    BY <1>3, <1>4, <1>6 DEF QueuesRight
  <2>3. \A p1, p2 \in Object : \A u \in Thread :
          u \in Members(r.q[p1]) /\ u \in Members(r.q[p2]) => p1 = p2
    BY <1>3, <1>6, <1>7 DEF QueuesRight
  <2>4. \A u \in Thread : r.state[u] \in Waits => \E p \in Object : u \in Members(r.q[p])
    BY <1>3, <1>4, <1>6 DEF QueuesRight
  <2>5. \A m \in Mutex : Ranked(r.prio, r.q[m])
    BY <1>2, <1>3, <1>4, MutexAssumption DEF QueuesRight
  <2> QED
    BY <2>1, <2>2, <2>3, <2>4, <2>5 DEF QueuesRight
<1>10. View(r) = View(kk)
  BY <1>4 DEF View
<1> QED
  BY <1>8, <1>9, <1>10 DEF Listed

(* A thread is taken from its queue, and is in no list then.               *)
Leaves(kk, r, L, o, t) ==
  /\ Listed(r, L \cup {t}) /\ View(r) = View(kk) /\ t \notin L
  /\ t \in Thread /\ t # Idle /\ t # kk.current /\ kk.state[t] = Kind(o)

(* A thread that is taken off its queue is in no list.                      *)
LEMMA LostListed ==
  ASSUME NEW kk, NEW L, Listed(kk, L), NEW o \in Object, NEW t \in Members(kk.q[o]),
         NEW r \in KernelState, SameThreads(kk, r), NEW x, r.q = [kk.q EXCEPT ![o] = x],
         Once(x), Members(x) = Members(kk.q[o]) \ {t},
         o \in Mutex => Ranked(kk.prio, x)
  PROVE  Leaves(kk, r, L, o, t)
<1>1. kk \in KernelState /\ kk.q \in [Object -> Seq(Thread)] /\ L \subseteq Thread
  BY KernelIs DEF Listed
<1>2. \A p \in Object : r.q[p] = IF p = o THEN x ELSE kk.q[p]
  BY <1>1
<1>3. QueuesRight(kk, L) /\ ReadyRight(kk, L)
  BY DEF Listed
<1>4. r.state = kk.state /\ r.prio = kk.prio /\ r.ready = kk.ready /\ r.current = kk.current
  BY DEF SameThreads
<1>5. Kind(o) \in Waits /\ Kind(o) \notin Runs
  BY DEF Kind, Waits, Runs
<1>6. t \notin L /\ kk.state[t] = Kind(o) /\ t \in Thread
  <2>1. kk.q[o] \in Seq(Thread)
    BY <1>1
  <2> QED
    BY <1>3, <2>1, MembersAre DEF QueuesRight
<1>7. \A p \in Object : \A u \in Thread : u \in Members(r.q[p]) <=>
                                            u \in Members(kk.q[p]) /\ u # t
  BY <1>2, <1>3, <1>6 DEF QueuesRight
<1>8. ReadyRight(r, L \cup {t})
  <2>1. kk.state[t] # "READY" /\ kk.state[t] # "CURRENT"
    BY <1>5, <1>6 DEF Runs
  <2>2. t # kk.current
    BY <1>3, <1>6, <2>1 DEF ReadyRight
  <2> QED
    BY <1>3, <1>4, <2>1, <2>2 DEF ReadyRight
<1>9. QueuesRight(r, L \cup {t})
  <2>0. \A p \in Object : \A u \in Members(r.q[p]) : u \in Thread
    <3>1. \A p \in Object : r.q[p] \in Seq(Thread)
      BY KernelIs
    <3> QED
      BY <3>1, MembersAre
  <2>1. \A p \in Object : Once(r.q[p])
    BY <1>2, <1>3 DEF QueuesRight
  <2>2. \A p \in Object : \A u \in Members(r.q[p]) :
          u \notin L \cup {t} /\ r.state[u] = Kind(p)
    BY <1>3, <1>4, <1>7, <2>0 DEF QueuesRight
  <2>3. \A p1, p2 \in Object : \A u \in Thread :
          u \in Members(r.q[p1]) /\ u \in Members(r.q[p2]) => p1 = p2
    BY <1>3, <1>7 DEF QueuesRight
  <2>4. \A u \in Thread \ (L \cup {t}) :
          r.state[u] \in Waits => \E p \in Object : u \in Members(r.q[p])
    BY <1>3, <1>4, <1>7 DEF QueuesRight
  <2>5. \A m \in Mutex : Ranked(r.prio, r.q[m])
    BY <1>2, <1>3, <1>4, MutexAssumption DEF QueuesRight
  <2> QED
    BY <2>1, <2>2, <2>3, <2>4, <2>5 DEF QueuesRight
<1>10. View(r) = View(kk)
  BY <1>4 DEF View
<1>11. t # Idle /\ t # kk.current
  BY <1>3, <1>5, <1>6 DEF ReadyRight, Runs
<1> QED
  BY <1>1, <1>6, <1>8, <1>9, <1>10, <1>11 DEF Listed, Leaves

(* A thread that sleeps and waits for no object is in no list.             *)
LEMMA LooseListed ==
  ASSUME NEW kk, NEW L, Listed(kk, L), NEW t \in Thread \ L,
         kk.state[t] \notin Runs \cup Waits
  PROVE  Listed(kk, L \cup {t})
<1>1. \A o \in Object : Kind(o) \in Waits
  BY DEF Kind, Waits
<1>2. \A o \in Object : t \notin Members(kk.q[o])
  BY <1>1 DEF Listed, QueuesRight
<1>3. t # kk.current
  BY DEF Listed, ReadyRight, Runs
<1>4. QueuesRight(kk, L \cup {t})
  BY <1>2 DEF Listed, QueuesRight
<1>5. ReadyRight(kk, L \cup {t})
  BY <1>3 DEF Listed, ReadyRight, Runs
<1> QED
  BY <1>4, <1>5 DEF Listed
------------------------------------------------------------------------------
(* The scheduler's functions.                                              *)
LEMMA IdleIsReady ==
  ASSUME NEW kk, NEW L, Listed(kk, L), kk.current # Idle, Idle \notin L
  PROVE  kk.ready # <<>>
<1>1. kk.state[Idle] = "READY"
  BY ThreadAssumption DEF Listed, ReadyRight, Runs
<1>2. Idle \in Members(kk.ready)
  BY <1>1, ThreadAssumption DEF Listed, ReadyRight
<1>3. kk.ready \in Seq(Thread)
  BY KernelIs DEF Listed
<1> QED
  BY <1>2, <1>3, MembersAre

(* What chSchGoSleepS leaves as it was.                                    *)
LEMMA GoSleepIs ==
  ASSUME NEW kk \in KernelState, kk.ready # <<>>, NEW s \in States
  PROVE  LET r == chSchGoSleepS(kk, s)  w == Switch(kk, s) IN
         /\ r \in KernelState /\ w \in KernelState
         /\ SameThreads(w, r) /\ r.q = w.q
         /\ SameRest(kk, r) /\ r.msg = kk.msg
<1> DEFINE r == chSchGoSleepS(kk, s)
           w == Switch(kk, s)
<1>1. w \in KernelState /\ SameRest(kk, w) /\ w.msg = kk.msg
  BY SwitchIs
<1> HIDE DEF w
<1>2. r = [w EXCEPT !.preempt[kk.current] = Quantum]
  BY DEF chSchGoSleepS, w
<1>3. Quantum \in 0..Quantum
  BY ThreadAssumption
<1>4. [w.preempt EXCEPT ![kk.current] = Quantum] \in [Thread -> 0..Quantum]
  BY <1>1, <1>3, KernelIs
<1>5. r = [w EXCEPT !.preempt = [w.preempt EXCEPT ![kk.current] = Quantum]]
  BY <1>2
<1> HIDE DEF r
<1>6. r \in KernelState /\ SameThreads(w, r) /\ r.q = w.q /\ SameRest(w, r) /\ r.msg = w.msg
  BY <1>1, <1>4, <1>5 DEF KernelState, SameThreads, SameRest
<1> QED
  BY <1>1, <1>6 DEF SameRest, w, r

(* A thread goes to sleep, not for an object.                              *)
LEMMA GoSleepListed ==
  ASSUME NEW kk, Listed(kk, {}), kk.current # Idle, NEW s \in States \ (Runs \cup Waits)
  PROVE  LET r == chSchGoSleepS(kk, s) IN
         /\ Listed(r, {}) /\ HighestCurrent(r)
         /\ View(r) = [View(kk) EXCEPT ![kk.current] = s]
         /\ SameRest(kk, r) /\ r.msg = kk.msg
<1> DEFINE r == chSchGoSleepS(kk, s)
           w == Switch(kk, s)
           old == kk.current
<1>1. kk \in KernelState /\ kk.ready # <<>> /\ old \in Thread
  BY IdleIsReady, KernelIs DEF Listed
<1>2. r \in KernelState /\ SameThreads(w, r) /\ r.q = w.q /\ SameRest(kk, r) /\ r.msg = kk.msg
  BY <1>1, GoSleepIs
<1>3. /\ Listed(w, {old}) /\ w.state[old] = s
      /\ \A t \in Thread \ {old} : w.state[t] = "READY" => w.prio[t] <= w.prio[w.current]
      /\ View(w) = [View(kk) EXCEPT ![old] = s]
  BY <1>1, SwitchListed
<1> HIDE DEF w, r
<1>4. Listed(w, {})
  BY <1>1, <1>3, PutListed
<1>5. Listed(r, {}) /\ View(r) = View(w)
  BY <1>2, <1>4, SameListed
<1>6. HighestCurrent(r)
  BY <1>2, <1>3 DEF HighestCurrent, SameThreads, Runs
<1> QED
  BY <1>2, <1>3, <1>5, <1>6 DEF r

(* A thread goes to sleep in the queue of an object.                       *)
LEMMA GoSleepQueued ==
  ASSUME NEW kk, Listed(kk, {}), kk.current # Idle, NEW o \in Object,
         NEW a \in KernelState, SameThreads(kk, a), NEW x, a.q = [kk.q EXCEPT ![o] = x],
         Once(x), Members(x) = Members(kk.q[o]) \cup {kk.current},
         o \in Mutex => Ranked(kk.prio, x)
  PROVE  LET r == chSchGoSleepS(a, Kind(o)) IN
         /\ Listed(r, {}) /\ HighestCurrent(r)
         /\ View(r) = [View(kk) EXCEPT ![kk.current] = Kind(o)]
         /\ SameRest(a, r) /\ r.msg = a.msg
<1> DEFINE s == Kind(o)
           r == chSchGoSleepS(a, s)
           w == Switch(kk, s)
           aw == Switch(a, s)
           old == kk.current
<1>1. kk \in KernelState /\ kk.ready # <<>> /\ old \in Thread
  BY IdleIsReady, KernelIs DEF Listed
<1>2. s \in States /\ s \notin Runs
  BY DEF Kind, States, Runs
<1>3. a.ready # <<>> /\ a.current = old /\ a.state = kk.state /\ a.prio = kk.prio
      /\ a.ready = kk.ready
  BY <1>1 DEF SameThreads
<1>4. /\ r \in KernelState /\ SameThreads(aw, r) /\ r.q = aw.q
      /\ SameRest(a, r) /\ r.msg = a.msg
  BY <1>2, <1>3, GoSleepIs
<1>5. /\ w.state = [kk.state EXCEPT ![old] = s, ![Head(kk.ready)] = "CURRENT"]
      /\ w.current = Head(kk.ready) /\ w.ready = Tail(kk.ready)
      /\ SameRest(kk, w)
  BY <1>1, <1>2, SwitchIs
<1>6. /\ aw.state = [a.state EXCEPT ![a.current] = s, ![Head(a.ready)] = "CURRENT"]
      /\ aw.current = Head(a.ready) /\ aw.ready = Tail(a.ready)
      /\ SameRest(a, aw)
  BY <1>2, <1>3, SwitchIs
<1>7. /\ Listed(w, {old}) /\ w.state[old] = s
      /\ \A t \in Thread \ {old} : w.state[t] = "READY" => w.prio[t] <= w.prio[w.current]
      /\ View(w) = [View(kk) EXCEPT ![old] = s]
  BY <1>1, <1>2, SwitchListed
<1> HIDE DEF w, r, aw, s
<1>8. SameThreads(w, r) /\ w.q = kk.q /\ r.q = [w.q EXCEPT ![o] = x] /\ w.prio = kk.prio
  BY <1>3, <1>4, <1>5, <1>6 DEF SameThreads, SameRest
<1>9. w.state[old] = Kind(o)
  BY <1>7 DEF s
<1>10. Listed(r, {}) /\ View(r) = View(w)
  <2>1. Members(x) = Members(w.q[o]) \cup {old} /\ (o \in Mutex => Ranked(w.prio, x))
    BY <1>8
  <2>2. Listed(w, {old}) /\ r \in KernelState /\ SameThreads(w, r)
        /\ r.q = [w.q EXCEPT ![o] = x]
    BY <1>4, <1>7, <1>8
  <2> HIDE DEF old
  <2> QED
    BY <1>1, <1>9, <2>1, <2>2, QueuedListed
<1>11. HighestCurrent(r)
  BY <1>2, <1>7, <1>8 DEF HighestCurrent, SameThreads, Runs
<1> QED
  BY <1>4, <1>7, <1>10, <1>11 DEF r, s

(* A thread in no list is made ready by chSchReadyI.                       *)
LEMMA ReadyIListed ==
  ASSUME NEW kk, NEW L, Listed(kk, L), NEW t \in L
  PROVE  LET r == chSchReadyI(kk, t) IN
         /\ Listed(r, L \ {t}) /\ View(r) = [View(kk) EXCEPT ![t] = "RUNS"]
         /\ SameRest(kk, r) /\ r.msg = kk.msg /\ r.current = kk.current
<1> DEFINE r == chSchReadyI(kk, t)
<1>1. kk \in KernelState /\ t \in Thread
  BY DEF Listed
<1>2. /\ r \in KernelState /\ r.state = [kk.state EXCEPT ![t] = "READY"]
      /\ r.ready = prio_insert(kk, kk.ready, t)
      /\ r.current = kk.current /\ SameRest(kk, r) /\ r.msg = kk.msg
  BY <1>1, ReadyIs
<1> HIDE DEF r
<1>3. r.prio = kk.prio /\ r.q = kk.q
  BY <1>2 DEF SameRest
<1>4. r.ready \in {prio_insert(kk, kk.ready, t), prio_insert_ahead(kk, kk.ready, t)}
  BY <1>2
<1>5. r \in KernelState /\ r.state = [kk.state EXCEPT ![t] = "READY"]
      /\ r.current = kk.current
  BY <1>2
<1>6. Listed(r, L \ {t}) /\ View(r) = [View(kk) EXCEPT ![t] = "RUNS"]
  BY <1>3, <1>4, <1>5, ReadyListed, SMTT(40)
<1> QED
  BY <1>2, <1>6 DEF r

(* The processor is given to the first ready thread, and the one that had  *)
(* it is ready.                                                            *)
LEMMA RescheduleListed ==
  ASSUME NEW kk, Listed(kk, {}), firstprio(kk) >= kk.prio[kk.current],
         NEW r, r \in {chSchDoRescheduleBehind(kk), chSchDoRescheduleAhead(kk)}
  PROVE  Listed(r, {}) /\ HighestCurrent(r) /\ Same(kk, r)
<1> DEFINE old == kk.current
           w == Switch(kk, "READY")
<1>1. kk \in KernelState /\ old \in Thread /\ kk.ready \in Seq(Thread)
      /\ kk.prio[old] \in Nat /\ kk.prio[old] > 0
  BY KernelIs DEF Listed
<1>2. kk.ready # <<>> /\ kk.prio[Head(kk.ready)] >= kk.prio[old]
  BY <1>1 DEF firstprio
<1>3. "READY" \in States /\ "READY" \in Runs
  BY DEF States, Runs
<1>4. /\ w \in KernelState /\ SameRest(kk, w) /\ w.msg = kk.msg
  BY <1>1, <1>2, <1>3, SwitchIs
<1>5. /\ Listed(w, {old}) /\ w.state[old] = "READY"
      /\ \A t \in Thread \ {old} : w.state[t] = "READY" => w.prio[t] <= w.prio[w.current]
      /\ View(w) = [View(kk) EXCEPT ![old] = "RUNS"]
      /\ w.current = Head(kk.ready)
  BY <1>2, <1>3, SwitchListed
<1> HIDE DEF w
<1>6. View(w) = View(kk)
  <2>1. View(kk)[old] = "RUNS" /\ View(kk) \in [Thread -> {View(kk)[t] : t \in Thread}]
    BY <1>1 DEF View, Listed, ReadyRight, Runs
  <2> HIDE DEF old
  <2> QED
    BY <1>1, <1>5, <2>1
<1>7. w.state \in [Thread -> States] /\ w.preempt \in [Thread -> 0..Quantum]
  BY <1>4, KernelIs
<1>8. w.state = [w.state EXCEPT ![old] = "READY"]
  BY <1>5, <1>7
<1> DEFINE G(e) == /\ e \in KernelState
                   /\ e.state = w.state /\ e.current = w.current /\ SameRest(w, e)
                   /\ e.msg = w.msg
                   /\ e.ready \in {prio_insert(w, w.ready, old),
                                   prio_insert_ahead(w, w.ready, old)}
<1>9. G(r)
  <2>1. CASE r = chSchDoRescheduleBehind(kk)
    <3> DEFINE p == [w.preempt EXCEPT ![old] = Quantum]
               a == [w EXCEPT !.preempt = p]
    <3>1. r = chSchReadyI(a, old)
      BY <2>1 DEF chSchDoRescheduleBehind, w
    <3>2. Quantum \in 0..Quantum
      BY ThreadAssumption
    <3>3. p \in [Thread -> 0..Quantum]
      BY <1>7, <3>2
    <3> HIDE DEF p
    <3>4. a \in KernelState /\ SameThreads(w, a) /\ SameRest(w, a) /\ a.msg = w.msg
      BY <1>4, <3>3 DEF KernelState, SameThreads, SameRest
    <3> HIDE DEF a
    <3>5. /\ r \in KernelState /\ r.state = [a.state EXCEPT ![old] = "READY"]
          /\ r.ready = prio_insert(a, a.ready, old)
          /\ r.current = a.current /\ SameRest(a, r) /\ r.msg = a.msg
      BY <1>1, <3>1, <3>4, ReadyIs
    <3>6. r.ready = prio_insert(w, w.ready, old)
      BY <3>4, <3>5 DEF SameThreads, prio_insert
    <3> QED
      BY <1>8, <3>4, <3>5, <3>6 DEF SameThreads, SameRest
  <2>2. CASE r = chSchDoRescheduleAhead(kk)
    <3> DEFINE s == prio_insert_ahead(w, w.ready, old)
    <3>0. prio_insert_ahead(kk, w.ready, old) = s
      BY <1>4 DEF SameRest, prio_insert_ahead
    <3>1. r = [w EXCEPT !.ready = s]
      BY <2>2, <3>0 DEF chSchDoRescheduleAhead, w
    <3>2. s \in Seq(Thread)
      BY <1>1, <1>4, KernelIs, PrioInsertIs DEF PlacedIn
    <3> HIDE DEF s
    <3>3. r \in KernelState /\ r.state = w.state /\ r.current = w.current
          /\ SameRest(w, r) /\ r.msg = w.msg /\ r.ready = s
      BY <1>4, <3>1, <3>2 DEF KernelState, SameRest
    <3> QED
      BY <3>3 DEF s
  <2> QED
    BY <2>1, <2>2
<1>10. Listed(r, {old} \ {old}) /\ View(r) = [View(w) EXCEPT ![old] = "RUNS"]
  <2>1. r.prio = w.prio /\ r.q = w.q
    BY <1>9 DEF SameRest
  <2>2. old \in {old} /\ r.state = [w.state EXCEPT ![old] = "READY"]
    BY <1>8, <1>9
  <2> HIDE DEF old
  <2> QED
    BY <1>5, <1>9, <2>1, <2>2, ReadyListed
<1>11. Listed(r, {})
  <2>1. {old} \ {old} = {}
    OBVIOUS
  <2> HIDE DEF old
  <2> QED
    BY <1>10, <2>1
<1>12. View(r) = View(kk)
  <2>1. [View(w) EXCEPT ![old] = "RUNS"] = View(w)
    BY <1>5, <1>6
  <2> QED
    BY <1>6, <1>10, <2>1
<1>13. HighestCurrent(r)
  <2>1. r.prio = kk.prio /\ w.prio = kk.prio /\ r.state = w.state /\ r.current = w.current
    BY <1>4, <1>9 DEF SameRest
  <2> QED
    BY <1>2, <1>5, <2>1 DEF HighestCurrent
<1>14. Same(kk, r)
  BY <1>4, <1>9, <1>12 DEF Same, SameRest
<1> QED
  BY <1>11, <1>13, <1>14

(* Nothing has changed in the same state.                                   *)
LEMMA SameItself ==
  ASSUME NEW kk
  PROVE  Same(kk, kk)
  BY DEF Same, SameRest

(* The first of the ready ones has the highest priority of them.           *)
LEMMA FirstIsHighest ==
  ASSUME NEW kk, Listed(kk, {}), NEW t \in Thread, kk.state[t] = "READY"
  PROVE  kk.prio[t] <= firstprio(kk) /\ firstprio(kk) \in Nat
<1>1. kk \in KernelState
  BY DEF Listed
<1>2. kk.ready \in Seq(Thread) /\ \A u \in Thread : kk.prio[u] \in Nat
  BY <1>1, KernelIs
<1>3. t \in Members(kk.ready)
  BY DEF Listed, ReadyRight
<1>4. PICK i \in 1..Len(kk.ready) : kk.ready[i] = t
  BY <1>2, <1>3, MembersAre
<1>5. /\ DOMAIN kk.ready = 1..Len(kk.ready) /\ 1 \in 1..Len(kk.ready) /\ (i = 1 \/ 1 < i)
      /\ kk.ready # <<>> /\ Head(kk.ready) = kk.ready[1] /\ Head(kk.ready) \in Thread
  BY <1>2
<1>6. firstprio(kk) = kk.prio[kk.ready[1]]
  BY <1>5 DEF firstprio
<1>7. Ranked(kk.prio, kk.ready)
  BY DEF Listed, ReadyRight
<1>8. 1 < i => kk.prio[kk.ready[1]] >= kk.prio[kk.ready[i]]
  BY <1>5, <1>7 DEF Ranked
<1> QED
  BY <1>2, <1>4, <1>5, <1>6, <1>8

(* After chSchRescheduleS the thread of highest priority runs.              *)
LEMMA RescheduleS ==
  ASSUME NEW kk, Listed(kk, {})
  PROVE  LET r == chSchRescheduleS(kk) IN
         Listed(r, {}) /\ HighestCurrent(r) /\ Same(kk, r)
<1> DEFINE r == chSchRescheduleS(kk)
<1>1. \A t \in Thread : kk.prio[t] \in Nat
  BY KernelIs DEF Listed
<1>2. kk.current \in Thread
  BY KernelIs DEF Listed
<1>3. CASE firstprio(kk) > kk.prio[kk.current]
  <2>1. r = chSchDoRescheduleAhead(kk)
    BY <1>3 DEF chSchRescheduleS
  <2>2. firstprio(kk) >= kk.prio[kk.current]
    <3>1. firstprio(kk) \in Nat
      <4>1. kk.ready = <<>> \/ Head(kk.ready) \in Thread
        BY KernelIs DEF Listed
      <4> QED
        BY <1>1, <4>1 DEF firstprio
    <3> QED
      BY <1>1, <1>2, <1>3, <3>1
  <2> QED
    BY <2>1, <2>2, RescheduleListed
<1>4. CASE ~(firstprio(kk) > kk.prio[kk.current])
  <2>1. r = kk
    BY <1>4 DEF chSchRescheduleS
  <2>2. HighestCurrent(kk)
    <3> SUFFICES ASSUME NEW t \in Thread, kk.state[t] = "READY"
                 PROVE  kk.prio[t] <= kk.prio[kk.current]
      BY DEF HighestCurrent
    <3>1. kk.prio[t] <= firstprio(kk) /\ firstprio(kk) \in Nat
      BY FirstIsHighest
    <3> QED
      BY <1>1, <1>2, <1>4, <3>1
  <2> QED
    BY <2>1, <2>2, SameItself
<1> QED
  BY <1>3, <1>4

(* At the end of an interrupt the thread of highest priority runs.          *)
LEMMA Epilogue ==
  ASSUME NEW kk, Listed(kk, {})
  PROVE  LET r == CH_IRQ_EPILOGUE(kk) IN
         Listed(r, {}) /\ HighestCurrent(r) /\ Same(kk, r)
<1> DEFINE r == CH_IRQ_EPILOGUE(kk)
<1>1. \A t \in Thread : kk.prio[t] \in Nat
  BY KernelIs DEF Listed
<1>2. kk.current \in Thread
  BY KernelIs DEF Listed
<1>3. firstprio(kk) \in Nat
  <2>1. kk.ready = <<>> \/ Head(kk.ready) \in Thread
    BY KernelIs DEF Listed
  <2> QED
    BY <1>1, <2>1 DEF firstprio
<1>4. PreemptFrom(kk) \in Nat /\ PreemptFrom(kk) >= kk.prio[kk.current]
      /\ PreemptFrom(kk) <= kk.prio[kk.current] + 1
  BY <1>1, <1>2 DEF PreemptFrom
<1>5. CASE chSchIsPreemptionRequired(kk)
  <2>1. r \in {chSchDoRescheduleBehind(kk), chSchDoRescheduleAhead(kk)}
    BY <1>5 DEF CH_IRQ_EPILOGUE, chSchDoReschedule
  <2>2. firstprio(kk) >= kk.prio[kk.current]
    BY <1>1, <1>2, <1>3, <1>4, <1>5 DEF chSchIsPreemptionRequired
  <2> QED
    BY <2>1, <2>2, RescheduleListed
<1>6. CASE ~chSchIsPreemptionRequired(kk)
  <2>1. r = kk
    BY <1>6 DEF CH_IRQ_EPILOGUE
  <2>2. HighestCurrent(kk)
    <3> SUFFICES ASSUME NEW t \in Thread, kk.state[t] = "READY"
                 PROVE  kk.prio[t] <= kk.prio[kk.current]
      BY DEF HighestCurrent
    <3>1. kk.prio[t] <= firstprio(kk)
      BY FirstIsHighest
    <3> QED
      BY <1>1, <1>2, <1>3, <1>4, <1>6, <3>1 DEF chSchIsPreemptionRequired
  <2> QED
    BY <2>1, <2>2, SameItself
<1> QED
  BY <1>5, <1>6


(* No ready thread is higher than both.                                    *)
HighestOf(kk, t) ==
  \A u \in Thread \ {t} : kk.state[u] = "READY" =>
    kk.prio[u] <= kk.prio[kk.current] \/ kk.prio[u] <= kk.prio[t]

(* chSchWakeupS: a thread in no list is ready, or takes the processor.     *)
LEMMA WakeupSListed ==
  ASSUME NEW kk, NEW t \in Thread, Listed(kk, {t}), HighestOf(kk, t), NEW m \in Messages
  PROVE  LET r == chSchWakeupS(kk, t, m) IN
         /\ Listed(r, {}) /\ HighestCurrent(r)
         /\ View(r) = [View(kk) EXCEPT ![t] = "RUNS"]
         /\ SameRest(kk, r) /\ r.msg = [kk.msg EXCEPT ![t] = m]
<1> DEFINE r == chSchWakeupS(kk, t, m)
           ms == [kk.msg EXCEPT ![t] = m]
           w == [kk EXCEPT !.msg = ms]
           old == kk.current
<1>1. kk \in KernelState
  BY DEF Listed
<1>2. /\ kk.state \in [Thread -> States] /\ kk.ready \in Seq(Thread) /\ old \in Thread
      /\ kk.q \in [Object -> Seq(Thread)]
      /\ \A u \in Thread : kk.prio[u] \in Nat
  BY <1>1, KernelIs
<1>3. ms \in [Thread -> Messages]
  BY <1>1, KernelIs
<1>4. [kk EXCEPT !.msg[t] = m] = w
  OBVIOUS
<1> HIDE DEF ms
<1>5. w \in KernelState /\ SameThreads(kk, w) /\ w.q = kk.q /\ SameRest(kk, w) /\ w.msg = ms
  BY <1>1, <1>3 DEF KernelState, SameThreads, SameRest
<1>6. r = IF kk.prio[t] <= kk.prio[old] THEN chSchReadyI(w, t)
          ELSE [chSchReadyI(w, old) EXCEPT !.state[t] = "CURRENT", !.current = t]
  BY <1>4 DEF chSchWakeupS
<1> HIDE DEF w, r
<1>7. Listed(w, {t}) /\ View(w) = View(kk)
  BY <1>5, SameListed
<1>8. w.state = kk.state /\ w.prio = kk.prio /\ w.current = old /\ w.ready = kk.ready
  BY <1>5 DEF SameThreads
<1>9. old # t /\ QueuesRight(kk, {t}) /\ ReadyRight(kk, {t})
  BY DEF Listed, ReadyRight
<1>10. CASE kk.prio[t] <= kk.prio[old]
  <2>1. r = chSchReadyI(w, t)
    BY <1>6, <1>10
  <2>2. /\ Listed(r, {t} \ {t}) /\ View(r) = [View(w) EXCEPT ![t] = "RUNS"]
        /\ SameRest(w, r) /\ r.msg = w.msg /\ r.current = w.current
    BY <1>7, <2>1, ReadyIListed
  <2>3. r.state = [w.state EXCEPT ![t] = "READY"]
    BY <1>5, <2>1, ReadyIs
  <2>4. {t} \ {t} = {}
    OBVIOUS
  <2>5. Listed(r, {})
    BY <2>2, <2>4
  <2>6. HighestCurrent(r)
    <3>1. r.prio = kk.prio /\ r.current = old
      BY <1>8, <2>2 DEF SameRest
    <3>2. \A u \in Thread \ {t} : r.state[u] = "READY" => kk.state[u] = "READY"
      BY <1>2, <1>8, <2>3
    <3> QED
      BY <1>2, <1>10, <3>1, <3>2 DEF HighestCurrent, HighestOf
  <2> QED
    BY <1>5, <1>7, <2>2, <2>5, <2>6 DEF SameRest, ms, r
<1>11. CASE ~(kk.prio[t] <= kk.prio[old])
  <2> DEFINE st == [kk.state EXCEPT ![t] = "CURRENT"]
             x == [w EXCEPT !.state = st, !.current = t]
             y == chSchReadyI(w, old)
  <2>1. "CURRENT" \in States /\ "READY" \in States
    BY DEF States
  <2>2. st \in [Thread -> States]
    BY <1>2, <2>1
  <2>3. \A u \in Thread : st[u] = IF u = t THEN "CURRENT" ELSE kk.state[u]
    BY <1>2
  <2> HIDE DEF st
  <2>4. /\ x \in KernelState /\ x.state = st /\ x.current = t /\ x.ready = kk.ready
        /\ SameRest(w, x) /\ x.msg = ms
    BY <1>5, <1>8, <2>2 DEF KernelState, SameRest
  <2>5. /\ y \in KernelState /\ y.state = [kk.state EXCEPT ![old] = "READY"]
        /\ y.ready = prio_insert(w, kk.ready, old)
        /\ SameRest(w, y) /\ y.msg = ms
    BY <1>2, <1>5, <1>8, ReadyIs
  <2> HIDE DEF x, y
  <2>6. r = [y EXCEPT !.state[t] = "CURRENT", !.current = t]
    BY <1>6, <1>11 DEF y
  <2> DEFINE sr == [y.state EXCEPT ![t] = "CURRENT"]
  <2>7. sr \in [Thread -> States] /\ sr = [st EXCEPT ![old] = "READY"]
    BY <1>2, <1>9, <2>1, <2>5 DEF st
  <2>8. r = [y EXCEPT !.state = sr, !.current = t]
    BY <2>6
  <2> HIDE DEF sr
  <2>9. /\ r \in KernelState /\ r.state = sr /\ r.current = t /\ r.ready = y.ready
        /\ SameRest(y, r) /\ r.msg = ms
    BY <2>5, <2>7, <2>8 DEF KernelState, SameRest
  <2>10. /\ x.prio = kk.prio /\ x.q = kk.q /\ r.prio = kk.prio /\ r.q = kk.q
    BY <1>5, <1>8, <2>4, <2>5, <2>9 DEF SameRest
  <2>11. prio_insert(x, x.ready, old) = r.ready
    BY <1>8, <2>4, <2>5, <2>9, <2>10 DEF prio_insert
  <2>12. Listed(x, {old})
    <3>1. \A o \in Object : Kind(o) # "CURRENT"
      BY DEF Kind
    <3>2. kk.state[old] = "CURRENT"
      BY <1>2, <1>9 DEF ReadyRight
    <3>3. \A o \in Object : \A u \in Members(kk.q[o]) : u \in Thread
      BY <1>2, MembersAre
    <3>4. QueuesRight(x, {old})
      <4>1. \A o \in Object : \A u \in Members(x.q[o]) :
              u \notin {old} /\ x.state[u] = Kind(o)
        BY <1>9, <2>3, <2>4, <2>10, <3>1, <3>2, <3>3 DEF QueuesRight
      <4>2. \A u \in Thread \ {old} :
              x.state[u] \in Waits => \E o \in Object : u \in Members(x.q[o])
        <5>1. "CURRENT" \notin Waits
          BY DEF Waits
        <5> QED
          BY <1>9, <2>3, <2>4, <2>10, <5>1 DEF QueuesRight
      <4> QED
        BY <1>9, <2>10, <4>1, <4>2 DEF QueuesRight
    <3>5. ReadyRight(x, {old})
      <4>1. Members(x.ready) = {u \in Thread \ {old} : x.state[u] = "READY"}
        BY <1>9, <2>3, <2>4, <3>2 DEF ReadyRight
      <4>2. \A u \in Thread \ {old} : x.state[u] = "CURRENT" <=> u = x.current
        BY <1>9, <2>3, <2>4 DEF ReadyRight
      <4>3. x.state[Idle] \in Runs
        BY <1>9, <2>3, <2>4, ThreadAssumption DEF ReadyRight, Runs
      <4> QED
        BY <1>9, <2>4, <2>10, <4>1, <4>2, <4>3 DEF ReadyRight
    <3> QED
      BY <1>2, <2>4, <3>4, <3>5 DEF Listed
  <2>13. r.state = [x.state EXCEPT ![old] = "READY"] /\ r.current = x.current
    BY <2>4, <2>7, <2>9
  <2>14. r.ready \in {prio_insert(x, x.ready, old), prio_insert_ahead(x, x.ready, old)}
    BY <2>11
  <2>15. r.prio = x.prio /\ r.q = x.q /\ r \in KernelState /\ old \in {old}
    BY <2>9, <2>10
  <2>16. Listed(r, {old} \ {old}) /\ View(r) = [View(x) EXCEPT ![old] = "RUNS"]
    <3> HIDE DEF old
    <3> QED
      BY <2>12, <2>13, <2>14, <2>15, ReadyListed
  <2>17. {old} \ {old} = {}
    OBVIOUS
  <2>18. Listed(r, {})
    BY <2>16, <2>17
  <2>19. View(r) = [View(kk) EXCEPT ![t] = "RUNS"]
    <3>1. kk.state[old] = "CURRENT"
      BY <1>2, <1>9 DEF ReadyRight
    <3> QED
      BY <1>2, <1>9, <2>3, <2>4, <2>16, <3>1, ZenonT(40) DEF View, Runs
  <2>20. HighestCurrent(r)
    <3>1. \A u \in Thread \ {t, old} : r.state[u] = "READY" => kk.state[u] = "READY"
      BY <1>2, <2>3, <2>4, <2>13
    <3>2. r.state[t] # "READY"
      BY <1>2, <1>9, <2>3, <2>4, <2>13
    <3> QED
      BY <1>2, <1>11, <2>9, <2>10, <3>1, <3>2 DEF HighestCurrent, HighestOf
  <2>21. SameRest(kk, r)
    BY <1>5, <2>5, <2>9 DEF SameRest
  <2> QED
    BY <2>9, <2>18, <2>19, <2>20, <2>21 DEF ms, r
<1> QED
  BY <1>10, <1>11

(* The first thread in the queue of an object leaves it.                   *)
LEMMA FirstLeaves ==
  ASSUME NEW kk, NEW L, Listed(kk, L), NEW o \in Object, kk.q[o] # <<>>,
         NEW r \in KernelState, SameThreads(kk, r),
         r.q = [kk.q EXCEPT ![o] = Tail(kk.q[o])]
  PROVE  Leaves(kk, r, L, o, Head(kk.q[o])) /\ Head(kk.q[o]) \in Members(kk.q[o])
<1> DEFINE h == Head(kk.q[o])
           y == Tail(kk.q[o])
<1>1. kk \in KernelState /\ kk.q \in [Object -> Seq(Thread)]
  BY KernelIs DEF Listed
<1>2. kk.q[o] \in Seq(Thread) /\ Once(kk.q[o])
  BY <1>1 DEF Listed, QueuesRight
<1>3. /\ h \in Members(kk.q[o]) /\ Once(y) /\ Members(y) = Members(kk.q[o]) \ {h}
      /\ \A pr : Ranked(pr, kk.q[o]) => Ranked(pr, y)
  BY <1>2, TailPlaces
<1>4. o \in Mutex => Ranked(kk.prio, y)
  BY <1>3 DEF Listed, QueuesRight
<1> HIDE DEF h, y
<1>5. r.q = [kk.q EXCEPT ![o] = y]
  BY DEF y
<1>6. h \in Members(kk.q[o]) /\ Once(y) /\ Members(y) = Members(kk.q[o]) \ {h}
  BY <1>3
<1>7. Leaves(kk, r, L, o, h)
  BY <1>4, <1>5, <1>6, LostListed
<1> QED
  BY <1>6, <1>7 DEF h

(* It is made ready.                                                       *)
MadeReady(kk, e, r, L, t) ==
  /\ Listed(r, L) /\ View(r) = [View(kk) EXCEPT ![t] = "RUNS"]
  /\ SameRest(e, r) /\ r.msg = e.msg /\ r.current = kk.current

(* The first thread of a queue is taken off it and made ready.              *)
LEMMA FirstReady ==
  ASSUME NEW kk, NEW L, Listed(kk, L), NEW o \in Object, kk.q[o] # <<>>,
         NEW e \in KernelState, SameThreads(kk, e),
         e.q = [kk.q EXCEPT ![o] = Tail(kk.q[o])]
  PROVE  /\ Leaves(kk, e, L, o, Head(kk.q[o])) /\ Head(kk.q[o]) \in Members(kk.q[o])
         /\ MadeReady(kk, e, chSchReadyI(e, Head(kk.q[o])), L, Head(kk.q[o]))
<1> DEFINE h == Head(kk.q[o])
           z == chSchReadyI(e, h)
<1>1. Leaves(kk, e, L, o, h) /\ h \in Members(kk.q[o])
  BY FirstLeaves
<1> HIDE DEF h
<1>2. Listed(e, L \cup {h}) /\ View(e) = View(kk) /\ h \notin L
  BY <1>1 DEF Leaves
<1>3. /\ Listed(z, (L \cup {h}) \ {h}) /\ View(z) = [View(e) EXCEPT ![h] = "RUNS"]
      /\ SameRest(e, z) /\ z.msg = e.msg /\ z.current = e.current
  <2>1. h \in L \cup {h}
    OBVIOUS
  <2> QED
    BY <1>2, <2>1, ReadyIListed
<1>4. (L \cup {h}) \ {h} = L
  BY <1>2
<1> HIDE DEF z
<1>5. Listed(z, L)
  BY <1>3, <1>4
<1>6. MadeReady(kk, e, z, L, h)
  BY <1>2, <1>3, <1>5 DEF SameThreads, MadeReady
<1> QED
  BY <1>1, <1>6 DEF h, z

(* It is woken by chSchWakeupS.                                            *)
Awoken(kk, e, r, t, m) ==
  /\ Listed(r, {}) /\ HighestCurrent(r)
  /\ View(r) = [View(kk) EXCEPT ![t] = "RUNS"]
  /\ SameRest(e, r) /\ r.msg = [e.msg EXCEPT ![t] = m]

(* The first thread of a queue is taken off it and woken at once.           *)
LEMMA FirstWoken ==
  ASSUME NEW kk, Listed(kk, {}), NEW o \in Object, kk.q[o] # <<>>,
         HighestOf(kk, Head(kk.q[o])),
         NEW e \in KernelState, SameThreads(kk, e),
         e.q = [kk.q EXCEPT ![o] = Tail(kk.q[o])], NEW m \in Messages
  PROVE  /\ Leaves(kk, e, {}, o, Head(kk.q[o])) /\ Head(kk.q[o]) \in Members(kk.q[o])
         /\ Awoken(kk, e, chSchWakeupS(e, Head(kk.q[o]), m), Head(kk.q[o]), m)
<1> DEFINE h == Head(kk.q[o])
           z == chSchWakeupS(e, h, m)
<1>1. Leaves(kk, e, {}, o, h) /\ h \in Members(kk.q[o])
  BY FirstLeaves
<1>2. HighestOf(e, h)
  BY DEF SameThreads, HighestOf
<1> HIDE DEF h
<1>3. {} \cup {h} = {h}
  OBVIOUS
<1>4. Listed(e, {h}) /\ View(e) = View(kk) /\ h \in Thread
  BY <1>1, <1>3 DEF Leaves
<1>5. /\ Listed(z, {}) /\ HighestCurrent(z)
      /\ View(z) = [View(e) EXCEPT ![h] = "RUNS"]
      /\ SameRest(e, z) /\ z.msg = [e.msg EXCEPT ![h] = m]
  BY <1>2, <1>4, WakeupSListed
<1> HIDE DEF z
<1>6. Awoken(kk, e, z, h, m)
  BY <1>4, <1>5 DEF Awoken
<1> QED
  BY <1>1, <1>6 DEF h, z

(* The running thread gets another priority: it is in no list.             *)
LEMMA RunningPrio ==
  ASSUME NEW kk, NEW L, Listed(kk, L), NEW r \in KernelState, NEW p,
         r.state = kk.state, r.ready = kk.ready, r.current = kk.current, r.q = kk.q,
         r.prio = [kk.prio EXCEPT ![kk.current] = p]
  PROVE  Listed(r, L) /\ View(r) = View(kk)
<1>1. kk \in KernelState
  BY DEF Listed
<1>2. kk.prio \in [Thread -> Prios] /\ kk.current \in Thread
      /\ kk.q \in [Object -> Seq(Thread)] /\ kk.ready \in Seq(Thread)
  BY <1>1, KernelIs
<1>3. \A u \in Thread : u # kk.current => r.prio[u] = kk.prio[u]
  BY <1>2
<1>4. QueuesRight(kk, L) /\ ReadyRight(kk, L)
  BY DEF Listed
<1>5. kk.state[kk.current] = "CURRENT"
  BY <1>2, <1>4 DEF ReadyRight
<1>6. \A s \in Seq(Thread) : kk.current \notin Members(s) /\ Ranked(kk.prio, s)
                               => Ranked(r.prio, s)
  <2> SUFFICES ASSUME NEW s \in Seq(Thread), kk.current \notin Members(s),
                      Ranked(kk.prio, s)
               PROVE  Ranked(r.prio, s)
    OBVIOUS
  <2>1. \A i \in 1..Len(s) : s[i] \in Thread /\ s[i] # kk.current
    BY MembersAre
  <2> QED
    BY <1>3, <2>1 DEF Ranked
<1>7. kk.current \notin Members(kk.ready)
  BY <1>4, <1>5 DEF ReadyRight
<1>8. \A m \in Mutex : m \in Object /\ kk.q[m] \in Seq(Thread) /\ kk.current \notin Members(kk.q[m])
  BY <1>2, <1>4, <1>5, MutexAssumption DEF QueuesRight, Kind
<1>9. QueuesRight(r, L)
  BY <1>4, <1>6, <1>8 DEF QueuesRight
<1>10. ReadyRight(r, L)
  BY <1>2, <1>4, <1>6, <1>7 DEF ReadyRight
<1> QED
  BY <1>9, <1>10 DEF Listed, View

(* The timers alone have changed.                                          *)
OnlyTimers(kk, r) ==
  /\ r \in KernelState /\ SameThreads(kk, r) /\ r.q = kk.q /\ r.cnt = kk.cnt
  /\ r.msg = kk.msg /\ r.realprio = kk.realprio /\ TimersAre(r.vt, r.due)

(* Setting a timer changes the timers alone.                                *)
LEMMA OnlySetTimer ==
  ASSUME NEW kk \in KernelState, TimersAre(kk.vt, kk.due), NEW t \in Thread,
         kk.due[t] = 0, NEW n \in Nat \ {0}, NEW r, r = chVTSetI(kk, t, n)
  PROVE  OnlyTimers(kk, r) /\ r.due = [kk.due EXCEPT ![t] = n]
<1>1. /\ r = [kk EXCEPT !.vt = r.vt, !.due = r.due]
      /\ r.due = [kk.due EXCEPT ![t] = n] /\ TimersAre(r.vt, r.due)
  <2> DEFINE w == chVTSetI(kk, t, n)
  <2>1. /\ w = [kk EXCEPT !.vt = w.vt, !.due = w.due]
        /\ w.due = [kk.due EXCEPT ![t] = n] /\ TimersAre(w.vt, w.due)
    BY SetTimer
  <2>2. r = w
    OBVIOUS
  <2> HIDE DEF w
  <2> QED
    BY <2>1, <2>2
<1> DEFINE vt == r.vt
           due == r.due
<1>2. vt \in Seq(VTimer) /\ due \in [Thread -> Nat]
  BY <1>1 DEF TimersAre
<1>3. r = [kk EXCEPT !.vt = vt, !.due = due]
  BY <1>1
<1> HIDE DEF vt, due
<1>4. r \in KernelState /\ SameThreads(kk, r) /\ r.q = kk.q /\ r.cnt = kk.cnt
      /\ r.msg = kk.msg /\ r.realprio = kk.realprio
  BY <1>2, <1>3 DEF KernelState, SameThreads
<1> QED
  BY <1>1, <1>4 DEF OnlyTimers

(* Resetting a timer changes the timers alone.                              *)
LEMMA OnlyResetTimer ==
  ASSUME NEW kk \in KernelState, TimersAre(kk.vt, kk.due), NEW t \in Thread,
         kk.due[t] > 0, NEW r, r = chVTResetI(kk, t)
  PROVE  OnlyTimers(kk, r) /\ r.due = [kk.due EXCEPT ![t] = 0]
<1>1. /\ r = [kk EXCEPT !.vt = r.vt, !.due = r.due]
      /\ r.due = [kk.due EXCEPT ![t] = 0] /\ TimersAre(r.vt, r.due)
  BY ResetTimer
<1> DEFINE vt == r.vt
           due == r.due
<1>2. vt \in Seq(VTimer) /\ due \in [Thread -> Nat]
  BY <1>1 DEF TimersAre
<1>3. r = [kk EXCEPT !.vt = vt, !.due = due]
  BY <1>1
<1> HIDE DEF vt, due
<1>4. r \in KernelState /\ SameThreads(kk, r) /\ r.q = kk.q /\ r.cnt = kk.cnt
      /\ r.msg = kk.msg /\ r.realprio = kk.realprio
  BY <1>2, <1>3 DEF KernelState, SameThreads
<1> QED
  BY <1>1, <1>4 DEF OnlyTimers

(* The running thread sleeps as s, for a time or for ever.                 *)
SetFor(kk, n) == IF n = Infinite THEN kk ELSE chVTSetI(kk, kk.current, n)
Sleep(kk, e, r, s) ==
  /\ Listed(r, {}) /\ HighestCurrent(r)
  /\ View(r) = [View(kk) EXCEPT ![kk.current] = s]
  /\ r.q = e.q /\ r.cnt = e.cnt /\ r.msg = e.msg
  /\ r.prio = kk.prio /\ r.realprio = e.realprio
  /\ TimersAre(r.vt, r.due)
  /\ \A t \in Thread \ {kk.current} : r.due[t] = e.due[t]

(* The timer of a wait is the running thread's alone.                       *)
LEMMA SetForIs ==
  ASSUME NEW kk \in KernelState, TimersAre(kk.vt, kk.due), kk.due[kk.current] = 0,
         NEW n \in Time \cup {Infinite}, NEW r, r = SetFor(kk, n)
  PROVE  /\ OnlyTimers(kk, r)
         /\ \A t \in Thread \ {kk.current} : r.due[t] = kk.due[t]
<1>1. kk.due \in [Thread -> Nat] /\ kk.current \in Thread
  BY KernelIs
<1>2. CASE n = Infinite
  BY <1>2 DEF SetFor, OnlyTimers, SameThreads
<1>3. CASE n # Infinite
  <2>1. n \in Nat \ {0}
    BY <1>3, ThreadsAssumption
  <2>2. r = chVTSetI(kk, kk.current, n)
    BY <1>3 DEF SetFor
  <2>3. OnlyTimers(kk, r) /\ r.due = [kk.due EXCEPT ![kk.current] = n]
    BY <1>1, <2>1, <2>2, OnlySetTimer
  <2> QED
    BY <1>1, <2>3
<1> QED
  BY <1>2, <1>3

(* A thread that sleeps in no queue.                                        *)
LEMMA SleepPlain ==
  ASSUME NEW kk, Listed(kk, {}), kk.current # Idle, TimersAre(kk.vt, kk.due),
         kk.due[kk.current] = 0, NEW s \in States \ (Runs \cup Waits),
         NEW n \in Time \cup {Infinite}
  PROVE  Sleep(kk, kk, chSchGoSleepTimeoutS(kk, s, n), s)
<1> DEFINE e == SetFor(kk, n)
           r == chSchGoSleepS(e, s)
<1>1. kk \in KernelState
  BY DEF Listed
<1>2. OnlyTimers(kk, e) /\ \A t \in Thread \ {kk.current} : e.due[t] = kk.due[t]
  BY <1>1, SetForIs
<1>3. chSchGoSleepTimeoutS(kk, s, n) = r
  BY DEF SetFor, chSchGoSleepTimeoutS
<1> HIDE DEF e
<1>4. Listed(e, {}) /\ View(e) = View(kk) /\ e.current = kk.current
  BY <1>2, SameListed DEF OnlyTimers, SameThreads
<1>5. /\ Listed(r, {}) /\ HighestCurrent(r)
      /\ View(r) = [View(e) EXCEPT ![e.current] = s]
      /\ SameRest(e, r) /\ r.msg = e.msg
  BY <1>4, GoSleepListed
<1> HIDE DEF r
<1>6. Sleep(kk, kk, r, s)
  BY <1>2, <1>4, <1>5 DEF Sleep, SameRest, OnlyTimers, SameThreads
<1> QED
  BY <1>3, <1>6

(* It comes into the queue of the object it waits for.                     *)
LEMMA SleepQueued ==
  ASSUME NEW kk, Listed(kk, {}), kk.current # Idle, TimersAre(kk.vt, kk.due),
         kk.due[kk.current] = 0, NEW o \in Object,
         NEW e \in KernelState, SameThreads(kk, e), NEW x, e.q = [kk.q EXCEPT ![o] = x],
         e.vt = kk.vt, e.due = kk.due,
         Once(x), Members(x) = Members(kk.q[o]) \cup {kk.current},
         o \in Mutex => Ranked(kk.prio, x),
         NEW n \in Time \cup {Infinite}
  PROVE  Sleep(kk, e, chSchGoSleepTimeoutS(e, Kind(o), n), Kind(o))
<1> DEFINE f == SetFor(e, n)
           s == Kind(o)
           r == chSchGoSleepS(f, s)
<1>1. e.current = kk.current
  BY DEF SameThreads
<1>2. TimersAre(e.vt, e.due) /\ e.due[e.current] = 0
  BY <1>1
<1>3. OnlyTimers(e, f) /\ \A t \in Thread \ {e.current} : f.due[t] = e.due[t]
  BY <1>2, SetForIs
<1>4. chSchGoSleepTimeoutS(e, s, n) = r
  BY DEF SetFor, chSchGoSleepTimeoutS
<1> HIDE DEF f
<1>5. f \in KernelState /\ SameThreads(kk, f) /\ f.q = [kk.q EXCEPT ![o] = x]
  BY <1>3 DEF OnlyTimers, SameThreads
<1>6. /\ Listed(r, {}) /\ HighestCurrent(r)
      /\ View(r) = [View(kk) EXCEPT ![kk.current] = Kind(o)]
      /\ SameRest(f, r) /\ r.msg = f.msg
  BY <1>5, GoSleepQueued
<1> HIDE DEF r, s
<1>7. Sleep(kk, e, r, Kind(o))
  BY <1>1, <1>3, <1>5, <1>6 DEF Sleep, SameRest, OnlyTimers, SameThreads
<1> QED
  BY <1>4, <1>7 DEF s

(* chSchGoSleepS, without a time limit.                                    *)
LEMMA SleepForEver ==
  ASSUME NEW e, NEW s
  PROVE  chSchGoSleepS(e, s) = chSchGoSleepTimeoutS(e, s, Infinite)
BY DEF chSchGoSleepTimeoutS

(* A thread that slept runs again: its timer is off.                       *)
AwakeOf(kk) == [TimerOff(kk) EXCEPT !.msg[kk.current] = "OK"]
Resumed(kk, r) ==
  /\ r \in KernelState /\ SameThreads(kk, r) /\ r.q = kk.q /\ r.cnt = kk.cnt
  /\ r.realprio = kk.realprio /\ r.msg = [kk.msg EXCEPT ![kk.current] = "OK"]
  /\ TimersAre(r.vt, r.due) /\ r.due = [kk.due EXCEPT ![kk.current] = 0]

(* A thread that goes on after its wait takes its timer off.                *)
LEMMA AwakeIs ==
  ASSUME NEW kk \in KernelState, TimersAre(kk.vt, kk.due)
  PROVE  Resumed(kk, AwakeOf(kk))
<1> DEFINE f == TimerOff(kk)
           m == [f.msg EXCEPT ![kk.current] = "OK"]
           r == AwakeOf(kk)
<1>1. kk.due \in [Thread -> Nat] /\ kk.current \in Thread /\ kk.msg \in [Thread -> Messages]
  BY KernelIs
<1>2. OnlyTimers(kk, f) /\ f.due = [kk.due EXCEPT ![kk.current] = 0]
  <2>1. CASE chVTIsArmedI(kk, kk.current)
    <3>1. kk.due[kk.current] > 0
      BY <1>1, <2>1, ArmedIs
    <3>2. f = chVTResetI(kk, kk.current)
      BY <2>1 DEF TimerOff
    <3> HIDE DEF f
    <3> QED
      BY <1>1, <3>1, <3>2, OnlyResetTimer
  <2>2. CASE ~chVTIsArmedI(kk, kk.current)
    <3>1. ~(kk.due[kk.current] > 0)
      BY <1>1, <2>2, ArmedIs
    <3>2. kk.due[kk.current] = 0
      BY <1>1, <3>1
    <3>3. f = kk
      BY <2>2 DEF TimerOff
    <3>4. kk.due = [kk.due EXCEPT ![kk.current] = 0]
      BY <1>1, <3>2
    <3> QED
      BY <3>3, <3>4 DEF OnlyTimers, SameThreads
  <2> QED
    BY <2>1, <2>2
<1>3. r = [f EXCEPT !.msg = m]
  BY DEF AwakeOf
<1> HIDE DEF f
<1>4. f.msg = kk.msg /\ f \in KernelState
  BY <1>2 DEF OnlyTimers
<1>5. m \in [Thread -> Messages] /\ m = [kk.msg EXCEPT ![kk.current] = "OK"]
  BY <1>1, <1>4 DEF Messages
<1> HIDE DEF m, r
<1>6. /\ r \in KernelState /\ SameThreads(f, r) /\ r.q = f.q /\ r.cnt = f.cnt /\ r.msg = m
      /\ r.realprio = f.realprio /\ r.vt = f.vt /\ r.due = f.due
  BY <1>3, <1>4, <1>5 DEF KernelState, SameThreads
<1>7. Resumed(kk, r)
  BY <1>2, <1>5, <1>6 DEF Resumed, OnlyTimers, SameThreads
<1> QED
  BY <1>7 DEF r

(* A timer that is taken off moves no thread.                               *)
LEMMA ResumedListed ==
  ASSUME NEW kk, NEW r, Listed(kk, {}), Resumed(kk, r)
  PROVE  Listed(r, {}) /\ View(r) = View(kk) /\ (HighestCurrent(kk) => HighestCurrent(r))
<1>1. Listed(r, {}) /\ View(r) = View(kk)
  BY SameListed DEF Resumed
<1> QED
  BY <1>1 DEF Resumed, SameThreads, HighestCurrent

(* A semaphore's counter below zero is the length of its queue; above, it  *)
(* is the units that are there.                                            *)
Counted(kk) ==
  \A s \in Sem : Len(kk.q[s]) = IF kk.cnt[s] < 0 THEN -kk.cnt[s] ELSE 0
Units(kk, s) == IF kk.cnt[s] > 0 THEN kk.cnt[s] ELSE 0

(* Taking out who is not there changes nothing.                             *)
LEMMA NotThere ==
  ASSUME NEW s \in Seq(Thread), NEW t, t \notin Members(s)
  PROVE  Without(s, t) = s
BY MembersAre DEF Without

(* A member has a number.                                                   *)
LEMMA IsThere ==
  ASSUME NEW s \in Seq(Thread), NEW t
  PROVE  (\E i \in DOMAIN s : s[i] = t) <=> t \in Members(s)
BY DEF Members

(* Who is in the list r was in s before, and is no further from its head;  *)
(* so it is with all queues.                                               *)
Forward(s, r) == \A i \in DOMAIN r : \E j \in DOMAIN s : i <= j /\ s[j] = r[i]
Shrinks(kk, r) == \A o \in Object : Forward(kk.q[o], r.q[o])

(* A list that stays as it is, or one after another.                        *)
LEMMA ForwardIs ==
  ASSUME NEW T
  PROVE  /\ \A s \in Seq(T) : Forward(s, s)
         /\ \A s, r, x \in Seq(T) : Forward(s, r) /\ Forward(r, x) => Forward(s, x)
<1>1. \A s \in Seq(T) : DOMAIN s \subseteq Nat
  OBVIOUS
<1>2. \A s \in Seq(T) : Forward(s, s)
  BY <1>1 DEF Forward
<1>3. ASSUME NEW s \in Seq(T), NEW r \in Seq(T), NEW x \in Seq(T),
             Forward(s, r), Forward(r, x)
      PROVE  Forward(s, x)
  <2> SUFFICES ASSUME NEW i \in DOMAIN x
               PROVE  \E j \in DOMAIN s : i <= j /\ s[j] = x[i]
    BY DEF Forward
  <2>1. PICK l \in DOMAIN r : i <= l /\ r[l] = x[i]
    BY <1>3 DEF Forward
  <2>2. PICK j \in DOMAIN s : l <= j /\ s[j] = r[l]
    BY <1>3 DEF Forward
  <2>3. i \in Nat /\ l \in Nat /\ j \in Nat
    BY <1>1
  <2> QED
    BY <2>1, <2>2, <2>3
<1> QED
  BY <1>2, <1>3

(* Who is taken out lets those behind it come nearer.                       *)
LEMMA WithoutForward ==
  ASSUME NEW T, NEW s \in Seq(T), NEW x
  PROVE  Forward(s, Without(s, x))
<1>1. DOMAIN s = 1..Len(s) /\ Len(s) \in Nat
  OBVIOUS
<1>2. CASE ~\E i \in DOMAIN s : s[i] = x
  <2>1. Without(s, x) = s
    BY <1>2 DEF Without
  <2> QED
    BY <2>1, ForwardIs
<1>3. CASE \E i \in DOMAIN s : s[i] = x
  <2> DEFINE n == CHOOSE i \in DOMAIN s : s[i] = x
             r == Unlinked(s, n)
  <2>1. n \in 1..Len(s)
    BY <1>1, <1>3
  <2>2. Without(s, x) = r
    BY <1>3 DEF Without
  <2> HIDE DEF n
  <2>3. r \in Seq(T) /\ Len(r) = Len(s) - 1
        /\ \A i \in 1..Len(s) - 1 : r[i] = IF i < n THEN s[i] ELSE s[i + 1]
    BY <2>1, UnlinkedIs
  <2> HIDE DEF r
  <2>4. DOMAIN r = 1..Len(s) - 1
    BY <2>3
  <2>5. ASSUME NEW i \in DOMAIN r
        PROVE  \E j \in DOMAIN s : i <= j /\ s[j] = r[i]
    <3> DEFINE j == IF i < n THEN i ELSE i + 1
    <3>1. j \in 1..Len(s) /\ i <= j /\ s[j] = r[i]
      BY <1>1, <2>1, <2>3, <2>4
    <3> QED
      BY <1>1, <3>1
  <2> QED
    BY <2>2, <2>5 DEF Forward
<1> QED
  BY <1>2, <1>3

(* Queues that stay as they are, or one step after another.                 *)
LEMMA ShrinksIs ==
  ASSUME NEW kk, kk.q \in [Object -> Seq(Thread)]
  PROVE  /\ \A r : r.q = kk.q => Shrinks(kk, r)
         /\ \A r, x : /\ r.q \in [Object -> Seq(Thread)] /\ x.q \in [Object -> Seq(Thread)]
                      /\ Shrinks(kk, r) /\ Shrinks(r, x)
                      => Shrinks(kk, x)
<1>1. ASSUME NEW r, r.q = kk.q
      PROVE  Shrinks(kk, r)
  BY <1>1, ForwardIs DEF Shrinks
<1>2. ASSUME NEW r, NEW x,
             r.q \in [Object -> Seq(Thread)], x.q \in [Object -> Seq(Thread)],
             Shrinks(kk, r), Shrinks(r, x)
      PROVE  Shrinks(kk, x)
  <2> SUFFICES ASSUME NEW o \in Object
               PROVE  Forward(kk.q[o], x.q[o])
    BY DEF Shrinks
  <2>1. kk.q[o] \in Seq(Thread) /\ r.q[o] \in Seq(Thread) /\ x.q[o] \in Seq(Thread)
    BY <1>2
  <2>2. Forward(kk.q[o], r.q[o]) /\ Forward(r.q[o], x.q[o])
    BY <1>2 DEF Shrinks
  <2> QED
    BY <2>1, <2>2, ForwardIs
<1> QED
  BY <1>1, <1>2

(* The callback of a timer: a thread whose wait has timed out.             *)
Timed == {"RUNS", "WTSEM", "WTQUEUE", "WTCOND", "SLEEPING", "WTOREVT", "WTANDEVT"}
TimesOut(y, z, t) ==
  /\ Listed(z, {}) /\ Counted(z) /\ z.current = y.current
  /\ View(z) = [View(y) EXCEPT ![t] = "RUNS"]
  /\ z.msg = IF View(y)[t] = "RUNS" THEN y.msg ELSE [y.msg EXCEPT ![t] = "TIMEOUT"]
  /\ z.prio = y.prio /\ z.realprio = y.realprio /\ z.vt = y.vt /\ z.due = y.due
  /\ \A o \in Object : Members(z.q[o]) = Members(y.q[o]) \ {t}
  /\ \A m \in Mutex : z.q[m] = y.q[m]
  /\ Shrinks(y, z) /\ \A s \in Sem : Units(z, s) = Units(y, s)

(* A wait that times out takes the thread out of its queue, and a semaphore *)
(* gets back what the thread had taken from its counter.                    *)
LEMMA OutOfQueue ==
  ASSUME NEW y, Listed(y, {}), Counted(y), NEW t \in Thread,
         y.state[t] \in {"WTSEM", "WTQUEUE", "WTCOND"},
         NEW e \in KernelState, SameThreads(y, e),
         e.q = [o \in Object |-> Without(y.q[o], t)],
         e.cnt = chSemFastSignalI(y, t)
  PROVE  /\ Listed(e, {t}) /\ View(e) = View(y) /\ Counted(e)
         /\ \A o \in Object : Members(e.q[o]) = Members(y.q[o]) \ {t}
         /\ \A m \in Mutex : e.q[m] = y.q[m]
         /\ Shrinks(y, e) /\ \A s \in Sem : Units(e, s) = Units(y, s)
<1>1. y \in KernelState /\ QueuesRight(y, {})
  BY DEF Listed
<1>2. y.q \in [Object -> Seq(Thread)] /\ y.cnt \in [Sem -> Int]
  BY <1>1, KernelIs
<1>3. \A o \in Object : y.q[o] \in Seq(Thread) /\ Once(y.q[o])
  BY <1>1, <1>2 DEF QueuesRight
<1>4. PICK o \in Object : t \in Members(y.q[o])
  BY <1>1 DEF QueuesRight, Waits
<1>5. \A p \in Object : p # o => t \notin Members(y.q[p])
  BY <1>1, <1>4 DEF QueuesRight
<1> DEFINE x == Without(y.q[o], t)
<1>6. /\ Once(x) /\ Members(x) = Members(y.q[o]) \ {t}
      /\ Len(x) = Len(y.q[o]) - 1
      /\ \A pr : Ranked(pr, y.q[o]) => Ranked(pr, x)
  BY <1>3, <1>4, WithoutPlaces
<1>7. e.q = [y.q EXCEPT ![o] = x]
  BY <1>2, <1>3, <1>5, NotThere
<1> HIDE DEF x
<1>8. \A p \in Object : e.q[p] = IF p = o THEN x ELSE y.q[p]
  BY <1>2, <1>7
<1>9. o \in Mutex => Ranked(y.prio, x)
  BY <1>1, <1>6 DEF QueuesRight
<1>10. Once(x) /\ Members(x) = Members(y.q[o]) \ {t}
  BY <1>6
<1>11. Leaves(y, e, {}, o, t)
  BY <1>4, <1>7, <1>9, <1>10, LostListed
<1>12. {} \cup {t} = {t}
  OBVIOUS
<1>13. Listed(e, {t}) /\ View(e) = View(y)
  BY <1>11, <1>12 DEF Leaves
<1>14. \A p \in Object : Members(e.q[p]) = Members(y.q[p]) \ {t}
  BY <1>5, <1>8, <1>10
<1>15. o \notin Mutex
  BY <1>1, <1>4, MutexAssumption DEF QueuesRight, Kind
<1>16. \A s \in Sem : e.cnt[s] = IF s = o THEN y.cnt[s] + 1 ELSE y.cnt[s]
  <2> SUFFICES ASSUME NEW s \in Sem
               PROVE  e.cnt[s] = IF s = o THEN y.cnt[s] + 1 ELSE y.cnt[s]
    OBVIOUS
  <2>1. s \in Object
    BY ThreadAssumption
  <2>2. (\E i \in DOMAIN y.q[s] : y.q[s][i] = t) <=> s = o
    BY <1>3, <1>4, <1>5, <2>1, IsThere
  <2> QED
    BY <2>2 DEF chSemFastSignalI
<1>17. o \in Sem => y.cnt[o] < 0 /\ Len(x) = -(y.cnt[o] + 1)
  <2> SUFFICES ASSUME o \in Sem
               PROVE  y.cnt[o] < 0 /\ Len(x) = -(y.cnt[o] + 1)
    OBVIOUS
  <2>1. y.q[o] # <<>>
    BY <1>3, <1>4, MembersAre
  <2>2. Len(y.q[o]) \in Nat /\ Len(y.q[o]) # 0
    BY <1>3, <2>1
  <2>3. y.cnt[o] \in Int /\ Len(y.q[o]) = IF y.cnt[o] < 0 THEN -y.cnt[o] ELSE 0
    BY <1>2 DEF Counted
  <2>4. Len(x) = Len(y.q[o]) - 1
    BY <1>6
  <2> QED
    BY <2>2, <2>3, <2>4
<1>18. Counted(e)
  <2> SUFFICES ASSUME NEW s \in Sem
               PROVE  Len(e.q[s]) = IF e.cnt[s] < 0 THEN -e.cnt[s] ELSE 0
    BY DEF Counted
  <2>1. s \in Object /\ y.cnt[s] \in Int
    BY <1>2, ThreadAssumption
  <2>2. Len(y.q[s]) = IF y.cnt[s] < 0 THEN -y.cnt[s] ELSE 0
    BY DEF Counted
  <2> QED
    BY <1>8, <1>16, <1>17, <2>1, <2>2
<1>19. \A s \in Sem : Units(e, s) = Units(y, s)
  BY <1>2, <1>16, <1>17 DEF Units
<1>20. \A m \in Mutex : e.q[m] = y.q[m]
  BY <1>8, <1>15, MutexAssumption
<1>21. Shrinks(y, e)
  BY <1>3, WithoutForward DEF Shrinks
<1> QED
  BY <1>13, <1>14, <1>18, <1>19, <1>20, <1>21

(* The timer's callback wakes the thread, wherever it waits.                *)
LEMMA WakeupIs ==
  ASSUME NEW y, Listed(y, {}), Counted(y), NEW t \in Thread, t # y.current,
         View(y)[t] \in Timed
  PROVE  TimesOut(y, wakeup(y, t), t)
<1> DEFINE z == wakeup(y, t)
<1>1. y \in KernelState /\ QueuesRight(y, {}) /\ ReadyRight(y, {})
  BY DEF Listed
<1>2. /\ y.q \in [Object -> Seq(Thread)] /\ y.cnt \in [Sem -> Int]
      /\ y.msg \in [Thread -> Messages] /\ y.state \in [Thread -> States]
  BY <1>1, KernelIs
<1>3. y.state[t] # "CURRENT"
  BY <1>1 DEF ReadyRight
<1>4. CASE y.state[t] = "READY"
  <2>1. z = y /\ View(y)[t] = "RUNS"
    BY <1>4 DEF wakeup, View, Runs
  <2>2. \A o \in Object : t \notin Members(y.q[o])
    BY <1>1, <1>4 DEF QueuesRight, Kind
  <2>3. View(y) = [View(y) EXCEPT ![t] = "RUNS"]
    BY <2>1 DEF View
  <2>4. \A o \in Object : Members(y.q[o]) = Members(y.q[o]) \ {t}
    BY <2>2
  <2>5. Shrinks(y, y)
    BY <1>2, ShrinksIs
  <2> QED
    BY <2>1, <2>3, <2>4, <2>5 DEF TimesOut
<1>5. CASE y.state[t] # "READY"
  <2>1. View(y)[t] = y.state[t] /\ View(y)[t] # "RUNS"
    BY <1>2, <1>3, <1>5 DEF View, Runs, States
  <2> DEFINE out == IF y.state[t] \in {"WTSEM", "WTQUEUE", "WTCOND"}
                      THEN dequeue([y EXCEPT !.cnt = chSemFastSignalI(y, t)], t)
                      ELSE y
             mm == [y.msg EXCEPT ![t] = "TIMEOUT"]
             e == [out EXCEPT !.msg = mm]
  <2>2. mm \in [Thread -> Messages]
    BY <1>2 DEF Messages
  <2>3. out.msg = y.msg
    BY DEF dequeue
  <2>4. z = chSchReadyI(e, t)
    BY <1>5, <2>3 DEF wakeup
  <2> HIDE DEF mm
  <2>5. /\ e \in KernelState /\ Listed(e, {t}) /\ View(e) = View(y) /\ Counted(e)
        /\ \A o \in Object : Members(e.q[o]) = Members(y.q[o]) \ {t}
        /\ \A m \in Mutex : e.q[m] = y.q[m]
        /\ Shrinks(y, e) /\ \A s \in Sem : Units(e, s) = Units(y, s)
        /\ e.msg = mm /\ e.current = y.current
        /\ e.prio = y.prio /\ e.realprio = y.realprio /\ e.vt = y.vt /\ e.due = y.due
    <3>1. CASE y.state[t] \in {"WTSEM", "WTQUEUE", "WTCOND"}
      <4> DEFINE c == chSemFastSignalI(y, t)
                 qq == [o \in Object |-> Without(y.q[o], t)]
      <4>1. e = [y EXCEPT !.cnt = c, !.q = qq, !.msg = mm]
        BY <1>1, <3>1 DEF dequeue, KernelState
      <4>2. c \in [Sem -> Int]
        BY <1>2 DEF chSemFastSignalI
      <4>3. qq \in [Object -> Seq(Thread)]
        BY <1>1, <1>2, WithoutPlaces DEF QueuesRight
      <4> HIDE DEF c, qq, e, out
      <4>4. /\ e \in KernelState /\ SameThreads(y, e) /\ e.q = qq /\ e.cnt = c /\ e.msg = mm
            /\ e.realprio = y.realprio /\ e.vt = y.vt /\ e.due = y.due
        BY <1>1, <2>2, <4>1, <4>2, <4>3 DEF KernelState, SameThreads
      <4>5. /\ Listed(e, {t}) /\ View(e) = View(y) /\ Counted(e)
            /\ \A o \in Object : Members(e.q[o]) = Members(y.q[o]) \ {t}
            /\ \A m \in Mutex : e.q[m] = y.q[m]
            /\ Shrinks(y, e) /\ \A s \in Sem : Units(e, s) = Units(y, s)
        BY <3>1, <4>4, OutOfQueue, ZenonT(40) DEF c, qq
      <4> QED
        BY <4>4, <4>5 DEF SameThreads
    <3>2. CASE y.state[t] \notin {"WTSEM", "WTQUEUE", "WTCOND"}
      <4>1. e = [y EXCEPT !.msg = mm]
        BY <3>2
      <4> HIDE DEF e, out
      <4>2. /\ e \in KernelState /\ SameThreads(y, e) /\ e.q = y.q /\ e.cnt = y.cnt
            /\ e.msg = mm /\ e.realprio = y.realprio /\ e.vt = y.vt /\ e.due = y.due
        BY <1>1, <2>2, <4>1 DEF KernelState, SameThreads
      <4>3. y.state[t] \notin Runs \cup Waits
        BY <2>1, <3>2 DEF Timed, Runs, Waits
      <4>4. Listed(y, {} \cup {t})
        BY <4>3, LooseListed
      <4>5. {} \cup {t} = {t}
        OBVIOUS
      <4>6. Listed(y, {t})
        BY <4>4, <4>5
      <4>7. Listed(e, {t}) /\ View(e) = View(y)
        BY <4>2, <4>6, SameListed
      <4>8. \A o \in Object : t \notin Members(y.q[o])
        BY <4>6 DEF Listed, QueuesRight
      <4>9. Counted(e) /\ \A s \in Sem : Units(e, s) = Units(y, s)
        BY <4>2 DEF Counted, Units
      <4>10. Shrinks(y, e)
        BY <1>2, <4>2, ShrinksIs
      <4> QED
        BY <4>2, <4>7, <4>8, <4>9, <4>10, MutexAssumption DEF SameThreads
    <3> QED
      BY <3>1, <3>2
  <2> HIDE DEF e, z, out
  <2>6. /\ Listed(z, {t} \ {t}) /\ View(z) = [View(e) EXCEPT ![t] = "RUNS"]
        /\ SameRest(e, z) /\ z.msg = e.msg /\ z.current = e.current
    <3>1. t \in {t}
      OBVIOUS
    <3> QED
      BY <2>4, <2>5, <3>1, ReadyIListed
  <2>7. {t} \ {t} = {}
    OBVIOUS
  <2>8. Listed(z, {})
    BY <2>6, <2>7
  <2>9. Counted(z) /\ \A s \in Sem : Units(z, s) = Units(y, s)
    BY <2>5, <2>6 DEF SameRest, Counted, Units
  <2>10. Shrinks(y, z)
    BY <2>5, <2>6 DEF SameRest, Shrinks
  <2>11. TimesOut(y, z, t)
    BY <2>1, <2>5, <2>6, <2>8, <2>9, <2>10 DEF SameRest, TimesOut, mm
  <2> QED
    BY <2>11 DEF z
<1> QED
  BY <1>4, <1>5

(* What holds of one step after the other, holds of all of them.           *)
LEMMA LoopStays ==
  ASSUME NEW n \in Nat, NEW H, NEW f, f[0] \in H[0],
         \A i \in 1..n : f[i - 1] \in H[i - 1] => f[i] \in H[i]
  PROVE  \A i \in 0..n : f[i] \in H[i]
<1> DEFINE T == {m \in Nat : m <= n => f[m] \in H[m]}
<1>1. 0 \in T
  OBVIOUS
<1>2. \A m \in T : m + 1 \in T
  <2> SUFFICES ASSUME NEW m \in T
               PROVE  m + 1 \in T
    OBVIOUS
  <2>1. CASE m + 1 <= n
    <3>1. m + 1 \in 1..n /\ (m + 1) - 1 = m /\ m <= n /\ m \in Nat
      BY <2>1
    <3> QED
      BY <3>1
  <2>2. CASE ~(m + 1 <= n)
    BY <2>2
  <2> QED
    BY <2>1, <2>2
<1>3. T \subseteq Nat
  OBVIOUS
<1> HIDE DEF T
<1>4. \A m \in Nat : m \in T
  BY <1>1, <1>2, <1>3, SetInduction
<1> QED
  BY <1>4 DEF T

(* And then all of the steps can be taken.                                 *)
Looped(f, n, x, H, F) ==
  /\ DOMAIN f = 0..n /\ f = [i \in 0..n |-> f[i]] /\ f[0] = x
  /\ \A i \in 1..n : f[i - 1] \in H[i - 1] /\ f[i] = F[i][f[i - 1]]

(* A loop whose steps stay in given sets has a sequence of results.         *)
LEMMA LoopExists ==
  ASSUME NEW S, NEW n \in Nat, NEW H, \A i \in 0..n : H[i] \subseteq S, NEW x \in H[0],
         NEW F \in [1..n -> [S -> S]],
         \A i \in 1..n : \A y \in H[i - 1] : F[i][y] \in H[i]
  PROVE  \E f : Looped(f, n, x, H, F)
<1>1. x \in S
  OBVIOUS
<1>2. PICK f \in [0..n -> S] : Stepped(f, x, n, F)
  BY <1>1, StepsExist
<1>3. f[0] = x /\ \A i \in 1..n : f[i] = F[i][f[i - 1]]
  BY <1>2 DEF Stepped
<1>4. \A i \in 1..n : f[i - 1] \in H[i - 1] => f[i] \in H[i]
  BY <1>3
<1>5. \A i \in 0..n : f[i] \in H[i]
  BY <1>3, <1>4, LoopStays
<1>6. \A i \in 1..n : i - 1 \in 0..n
  OBVIOUS
<1>7. Looped(f, n, x, H, F)
  BY <1>2, <1>3, <1>5, <1>6 DEF Looped
<1> QED
  BY <1>7

(* The threads in F have timed out.                                        *)
TimedOut(l, y, F) ==
  /\ Listed(y, {}) /\ Counted(y) /\ y.current = l.current
  /\ \A u \in Thread : View(y)[u] = IF u \in F THEN "RUNS" ELSE View(l)[u]
  /\ \A u \in Thread :
       y.msg[u] = IF u \in F /\ View(l)[u] # "RUNS" THEN "TIMEOUT" ELSE l.msg[u]
  /\ y.prio = l.prio /\ y.realprio = l.realprio /\ y.vt = l.vt /\ y.due = l.due
  /\ \A o \in Object : Members(y.q[o]) = Members(l.q[o]) \ F
  /\ \A m \in Mutex : y.q[m] = l.q[m]
  /\ Shrinks(l, y) /\ \A s \in Sem : Units(y, s) = Units(l, s)

(* One more thread of those whose time has come is woken.                   *)
LEMMA TimesOutMore ==
  ASSUME NEW l \in KernelState, NEW y, NEW F, TimedOut(l, y, F), NEW t \in Thread, t \notin F,
         t # l.current, View(l)[t] \in Timed, NEW z, z = wakeup(y, t)
  PROVE  TimedOut(l, z, F \cup {t})
<1>1. /\ Listed(y, {}) /\ Counted(y) /\ t # y.current /\ View(y)[t] = View(l)[t]
      /\ y.msg[t] = l.msg[t]
  BY DEF TimedOut
<1>2. View(y)[t] \in Timed
  BY <1>1
<1>3. TimesOut(y, z, t)
  BY <1>1, <1>2, WakeupIs
<1>4. y.msg \in [Thread -> Messages]
  BY <1>1, KernelIs DEF Listed
<1>5. \A u \in Thread : View(z)[u] = IF u = t THEN "RUNS" ELSE View(y)[u]
  <2>1. View(y) = [u \in Thread |-> View(y)[u]]
    BY DEF View
  <2> HIDE DEF View
  <2> QED
    BY <1>3, <2>1 DEF TimesOut
<1>6. \A u \in Thread : z.msg[u] = IF u = t /\ View(y)[t] # "RUNS" THEN "TIMEOUT"
                                   ELSE y.msg[u]
  BY <1>3, <1>4 DEF TimesOut
<1>7. \A o \in Object : Members(z.q[o]) = Members(l.q[o]) \ (F \cup {t})
  BY <1>3 DEF TimesOut, TimedOut
<1>8. \A u \in Thread : View(z)[u] = IF u \in F \cup {t} THEN "RUNS" ELSE View(l)[u]
  BY <1>5 DEF TimedOut
<1>9. \A u \in Thread :
        z.msg[u] = IF u \in F \cup {t} /\ View(l)[u] # "RUNS" THEN "TIMEOUT" ELSE l.msg[u]
  BY <1>1, <1>6 DEF TimedOut
<1>10. Shrinks(l, z)
  <2>1. Listed(z, {}) /\ Shrinks(l, y) /\ Shrinks(y, z)
    BY <1>3 DEF TimedOut, TimesOut
  <2>2. \A x \in {l, y, z} : x.q \in [Object -> Seq(Thread)]
    BY <1>1, <2>1, KernelIs DEF Listed
  <2> QED
    BY <2>1, <2>2, ShrinksIs
<1> QED
  BY <1>3, <1>7, <1>8, <1>9, <1>10 DEF TimesOut, TimedOut

(* The threads whose timers fire, of a list of timers.                     *)
Of(vt, i) == {vt[j].thd : j \in 1..i}
AfterFired(l, vt, i) ==
  {y \in KernelState : TimedOut(l, y, Of(vt, i))}

(* The loop over the timers that fired wakes each of their threads.         *)
LEMMA FiredWakeUp ==
  ASSUME NEW l, TimedOut(l, l, {}), NEW vt, NEW n \in Nat,
         \A i \in 1..n : /\ vt[i].thd \in Thread /\ vt[i].thd # l.current
                         /\ View(l)[vt[i].thd] \in Timed,
         \A i, j \in 1..n : vt[i].thd = vt[j].thd => i = j,
         NEW f, f = CHOOSE g : g = [i \in 0..n |-> IF i = 0 THEN l
                                                   ELSE wakeup(g[i - 1], vt[i].thd)]
  PROVE  f[n] \in AfterFired(l, vt, n)
<1> DEFINE H == [i \in 0..n |-> AfterFired(l, vt, i)]
           W(y, i) == wakeup(y, vt[i].thd)
           F == [i \in 1..n |-> [y \in KernelState |-> IF y \in H[i - 1] THEN W(y, i) ELSE y]]
           E(g) == g = [i \in 0..n |-> IF i = 0 THEN l ELSE wakeup(g[i - 1], vt[i].thd)]
<1>0. \A i \in 0..n : H[i] = AfterFired(l, vt, i)
  OBVIOUS
<1> HIDE DEF H
<1>1. \A i \in 0..n : H[i] \subseteq KernelState
  BY <1>0 DEF AfterFired
<1>2. l \in H[0]
  <2>1. Of(vt, 0) = {}
    BY DEF Of
  <2>2. l \in KernelState
    BY DEF TimedOut, Listed
  <2>3. TimedOut(l, l, Of(vt, 0))
    BY <2>1, Zenon
  <2>5. 0 \in 0..n
    OBVIOUS
  <2>4. l \in AfterFired(l, vt, 0)
    BY <2>2, <2>3 DEF AfterFired
  <2> QED
    BY <1>0, <2>4, <2>5
<1>3. ASSUME NEW i \in 1..n, NEW y \in H[i - 1]
      PROVE  W(y, i) \in H[i]
  <2> DEFINE t == vt[i].thd
             z == W(y, i)
  <2>1. i - 1 \in 0..n /\ i \in 0..n /\ i - 1 \in Nat /\ 1..i = 1..(i - 1) \cup {i}
    OBVIOUS
  <2>2. y \in AfterFired(l, vt, i - 1)
    BY <1>0, <1>3, <2>1
  <2>3. t \in Thread /\ t # l.current /\ View(l)[t] \in Timed
    OBVIOUS
  <2>4. t \notin Of(vt, i - 1)
    BY DEF Of
  <2>5. Of(vt, i) = Of(vt, i - 1) \cup {t}
    BY <2>1 DEF Of
  <2> HIDE DEF t
  <2>6. z = wakeup(y, t)
    BY DEF t
  <2> HIDE DEF z, W
  <2>7. TimedOut(l, y, Of(vt, i - 1))
    BY <2>2 DEF AfterFired
  <2>11. l \in KernelState
    BY DEF TimedOut, Listed
  <2>8. TimedOut(l, z, Of(vt, i - 1) \cup {t})
    <3> DEFINE X == Of(vt, i - 1)
    <3>1. TimedOut(l, y, X) /\ t \notin X
      BY <2>4, <2>7
    <3> HIDE DEF X
    <3>2. TimedOut(l, z, X \cup {t})
      BY <2>3, <2>6, <2>11, <3>1, TimesOutMore
    <3> QED
      BY <3>2 DEF X
  <2>9. z \in KernelState
    BY <2>8 DEF TimedOut, Listed
  <2>10. z \in AfterFired(l, vt, i)
    BY <2>5, <2>7, <2>8, <2>9 DEF AfterFired
  <2> QED
    BY <1>0, <2>1, <2>10 DEF z
<1> HIDE DEF W
<1>4. F \in [1..n -> [KernelState -> KernelState]]
  <2>1. ASSUME NEW i \in 1..n
        PROVE  [y \in KernelState |-> IF y \in H[i - 1] THEN W(y, i) ELSE y]
                 \in [KernelState -> KernelState]
    <3>1. i \in 0..n
      OBVIOUS
    <3>2. \A y \in H[i - 1] : W(y, i) \in KernelState
      BY <1>1, <1>3, <3>1
    <3> QED
      BY <3>2
  <2> QED
    BY <2>1
<1>5. \A i \in 1..n : \A y \in H[i - 1] : F[i][y] = W(y, i)
  <2>1. \A i \in 1..n : i - 1 \in 0..n
    OBVIOUS
  <2> QED
    BY <1>1, <2>1
<1> HIDE DEF F
<1>6. \A i \in 1..n : \A y \in H[i - 1] : F[i][y] \in H[i]
  BY <1>3, <1>5
<1>7. PICK g : Looped(g, n, l, H, F)
  BY <1>1, <1>2, <1>4, <1>6, LoopExists
<1>13. /\ g = [i \in 0..n |-> g[i]] /\ g[0] = l
       /\ \A i \in 1..n : g[i - 1] \in H[i - 1] /\ g[i] = F[i][g[i - 1]]
  BY <1>7 DEF Looped
<1>8. E(g)
  <2>1. \A i \in 0..n : g[i] = IF i = 0 THEN l ELSE wakeup(g[i - 1], vt[i].thd)
    <3> SUFFICES ASSUME NEW i \in 0..n, i # 0
                 PROVE  g[i] = wakeup(g[i - 1], vt[i].thd)
      BY <1>13
    <3>1. i \in 1..n
      OBVIOUS
    <3> QED
      BY <1>5, <1>13, <3>1 DEF W
  <2> QED
    BY <1>13, <2>1
<1>9. E(f)
  BY <1>8
<1>10. f[0] = l /\ \A i \in 1..n : f[i] = W(f[i - 1], i)
  <2>1. f = [i \in 0..n |-> IF i = 0 THEN l ELSE wakeup(f[i - 1], vt[i].thd)]
    BY <1>9
  <2> HIDE DEF E
  <2>2. \A i \in 0..n : f[i] = IF i = 0 THEN l ELSE wakeup(f[i - 1], vt[i].thd)
    BY <2>1
  <2>3. 0 \in 0..n /\ \A i \in 1..n : i \in 0..n /\ i # 0
    OBVIOUS
  <2> QED
    BY <2>2, <2>3 DEF W
<1>11. \A i \in 1..n : f[i - 1] \in H[i - 1] => f[i] \in H[i]
  BY <1>3, <1>10
<1>12. \A i \in 0..n : f[i] \in H[i]
  <2>1. f[0] \in H[0]
    BY <1>2, <1>10
  <2> HIDE DEF E
  <2> QED
    BY <1>11, <2>1, LoopStays
<1> QED
  BY <1>0, <1>12

(* The tick of the system: the timers come nearer, the threads in F, whose *)
(* timers fire, have timed out.                                            *)
TimeGoesOn(kk, r, F) ==
  /\ F \subseteq {t \in Thread : kk.due[t] > 0}
  /\ Listed(r, {}) /\ Counted(r) /\ r.current = kk.current
  /\ \A u \in Thread : View(r)[u] = IF u \in F THEN "RUNS" ELSE View(kk)[u]
  /\ \A u \in Thread :
       r.msg[u] = IF u \in F /\ View(kk)[u] # "RUNS" THEN "TIMEOUT" ELSE kk.msg[u]
  /\ r.prio = kk.prio /\ r.realprio = kk.realprio
  /\ TimersAre(r.vt, r.due) /\ \A u \in Thread : r.due[u] > 0 => kk.due[u] > 0
  /\ \A o \in Object : Members(r.q[o]) = Members(kk.q[o]) \ F
  /\ \A m \in Mutex : r.q[m] = kk.q[m]
  /\ Shrinks(kk, r) /\ \A s \in Sem : Units(r, s) = Units(kk, s)

TimersRight(kk) ==
  /\ TimersAre(kk.vt, kk.due)
  /\ \A t \in Thread : kk.due[t] > 0 => View(kk)[t] \in Timed

(* Without a timer that fires nobody is woken.                              *)
LEMMA NoTimeOut ==
  ASSUME NEW kk, Listed(kk, {}), Counted(kk), TimersAre(kk.vt, kk.due)
  PROVE  TimeGoesOn(kk, kk, {})
<1>1. Shrinks(kk, kk)
  BY KernelIs, ShrinksIs DEF Listed
<1> QED
  BY <1>1 DEF TimeGoesOn

(* chVTDoTickI wakes the threads whose time has come, and no other.         *)
LEMMA DoTickIs ==
  ASSUME NEW kk, Listed(kk, {}), Counted(kk), TimersRight(kk), kk.due[kk.current] = 0
  PROVE  \E F : TimeGoesOn(kk, chVTDoTickI(kk), F)
<1> DEFINE r == chVTDoTickI(kk)
<1>1. kk \in KernelState /\ TimersAre(kk.vt, kk.due)
  BY DEF Listed, TimersRight
<1>2. CASE kk.vt = <<>>
  <2>1. r = kk
    BY <1>2 DEF chVTDoTickI
  <2> HIDE DEF r
  <2>2. TimeGoesOn(kk, kk, {})
    BY <1>1, NoTimeOut
  <2>3. TimeGoesOn(kk, r, {})
    BY <2>1, <2>2
  <2> QED
    BY <2>3 DEF r
<1>3. CASE kk.vt # <<>>
  <2> DEFINE vt == Ticked(kk)
             n == Fired(kk)
             F == Of(vt, n)
             l == [kk EXCEPT !.vt = Ahead(kk), !.due = Nearer(kk)]
             f == CHOOSE g : g = [i \in 0..n |-> IF i = 0 THEN l
                                                 ELSE wakeup(g[i - 1], vt[i].thd)]
  <2>1. r = f[n]
    BY <1>3, Zenon DEF chVTDoTickI, Ticked, Fired, Ahead, Nearer
  <2>2. /\ n \in 0..Len(kk.vt) /\ TimersAre(Ahead(kk), Nearer(kk))
        /\ \A i \in 1..n : /\ vt[i].thd \in Thread /\ kk.due[vt[i].thd] > 0
                           /\ Nearer(kk)[vt[i].thd] = 0
        /\ \A i, j \in 1..n : vt[i].thd = vt[j].thd => i = j
    BY <1>1, <1>3, TickTimers
  <2>3. n \in Nat
    <3>1. Len(kk.vt) \in Nat
      BY <1>1, KernelIs
    <3> QED
      BY <2>2, <3>1
  <2> DEFINE nv == Ahead(kk)
             nd == Nearer(kk)
  <2>4. nv \in Seq(VTimer) /\ nd \in [Thread -> Nat] /\ l = [kk EXCEPT !.vt = nv, !.due = nd]
    BY <2>2 DEF TimersAre
  <2>5. \A u \in Thread : nd[u] > 0 => kk.due[u] > 0
    <3>1. \A u \in Thread : kk.due[u] \in Nat
      BY <1>1, KernelIs
    <3> QED
      BY <3>1 DEF Nearer
  <2> HIDE DEF nv, nd, l, vt, n, f
  <2>6. /\ l \in KernelState /\ SameThreads(kk, l) /\ l.q = kk.q /\ l.cnt = kk.cnt
        /\ l.msg = kk.msg /\ l.realprio = kk.realprio /\ l.vt = nv /\ l.due = nd
    BY <1>1, <2>4 DEF KernelState, SameThreads
  <2>7. Listed(l, {}) /\ View(l) = View(kk)
    BY <2>6, SameListed
  <2>8. l.current = kk.current /\ l.prio = kk.prio
    BY <2>6 DEF SameThreads
  <2>9. TimedOut(l, l, {})
    <3>1. Counted(l)
      BY <2>6 DEF Counted
    <3>2. Shrinks(l, l)
      BY <2>6, KernelIs, ShrinksIs
    <3> QED
      BY <2>7, <3>1, <3>2 DEF TimedOut
  <2>10. \A i \in 1..n : /\ vt[i].thd \in Thread /\ vt[i].thd # l.current
                         /\ View(l)[vt[i].thd] \in Timed
    BY <2>2, <2>7, <2>8 DEF TimersRight
  <2>11. \A i, j \in 1..n : vt[i].thd = vt[j].thd => i = j
    BY <2>2
  <2>12. f[n] \in AfterFired(l, vt, n)
    <3>1. f = CHOOSE g : g = [i \in 0..n |-> IF i = 0 THEN l
                                             ELSE wakeup(g[i - 1], vt[i].thd)]
      BY DEF f
    <3> QED
      BY <2>3, <2>9, <2>10, <2>11, <3>1, FiredWakeUp
  <2>13. F = Of(vt, n)
    OBVIOUS
  <2>14. F \subseteq {t \in Thread : kk.due[t] > 0}
    BY <2>2 DEF Of
  <2> HIDE DEF F
  <2>15. TimedOut(l, r, F)
    BY <2>1, <2>12, <2>13 DEF AfterFired
  <2>16. TimersAre(nv, nd)
    BY <2>2 DEF nv, nd
  <2> HIDE DEF r
  <2>17. Shrinks(kk, r)
    BY <2>6, <2>15 DEF TimedOut, Shrinks
  <2>18. TimeGoesOn(kk, r, F)
    BY <2>5, <2>6, <2>7, <2>8, <2>14, <2>15, <2>16, <2>17 DEF TimedOut, TimeGoesOn, Units
  <2> QED
    BY <2>18 DEF r
<1> QED
  BY <1>2, <1>3

(* So does the tick's handler, which also ends a time slice.                *)
LEMMA TickIs ==
  ASSUME NEW kk, Listed(kk, {}), Counted(kk), TimersRight(kk), kk.due[kk.current] = 0
  PROVE  \E F : TimeGoesOn(kk, chSysTimerHandlerI(kk), F)
<1> DEFINE p == [kk.preempt EXCEPT ![kk.current] = IF @ > 0 THEN @ - 1 ELSE @]
           e == [kk EXCEPT !.preempt = p]
<1>1. kk \in KernelState
  BY DEF Listed
<1>2. p \in [Thread -> 0..Quantum]
  <2>1. kk.preempt \in [Thread -> 0..Quantum] /\ kk.current \in Thread
    BY <1>1, KernelIs
  <2>2. kk.preempt[kk.current] \in 0..Quantum /\ Quantum \in Nat
    BY <2>1, ThreadAssumption
  <2>3. (IF kk.preempt[kk.current] > 0 THEN kk.preempt[kk.current] - 1
         ELSE kk.preempt[kk.current]) \in 0..Quantum
    BY <2>2
  <2> QED
    BY <2>1, <2>3
<1>3. chSysTimerHandlerI(kk) = chVTDoTickI(e)
  BY DEF chSysTimerHandlerI
<1> HIDE DEF p
<1>4. /\ e \in KernelState /\ SameThreads(kk, e) /\ e.q = kk.q /\ e.cnt = kk.cnt
      /\ e.msg = kk.msg /\ e.realprio = kk.realprio /\ e.vt = kk.vt /\ e.due = kk.due
  BY <1>1, <1>2 DEF KernelState, SameThreads
<1> HIDE DEF e
<1>5. Listed(e, {}) /\ View(e) = View(kk)
  BY <1>4, SameListed
<1>6. e.current = kk.current /\ e.prio = kk.prio
  BY <1>4 DEF SameThreads
<1>7. Counted(e) /\ TimersRight(e) /\ e.due[e.current] = 0
  BY <1>4, <1>5, <1>6 DEF Counted, TimersRight
<1>8. PICK F : TimeGoesOn(e, chVTDoTickI(e), F)
  BY <1>5, <1>7, DoTickIs
<1> DEFINE r == chVTDoTickI(e)
<1> HIDE DEF r
<1>9. TimeGoesOn(e, r, F)
  BY <1>8 DEF r
<1>10. TimeGoesOn(kk, r, F)
  BY <1>4, <1>5, <1>6, <1>9 DEF TimeGoesOn, Shrinks, Units
<1> QED
  BY <1>3, <1>10 DEF r

(* What the threads of a group wait for, where they go on, the objects.    *)
ViewsOf(g) ==
  {"NONE", "RUNS"} \cup
  IF g = "threads" THEN {"SUSPENDED", "SLEEPING", "FINAL", "WTEXIT"}
  ELSE IF g \in {"sem", "mbx"} THEN {"WTSEM"}
  ELSE IF g = "mtx" THEN {"WTMTX", "WTCOND"}
  ELSE IF g = "msg" THEN {"SNDMSGQ", "SNDMSG", "WTMSG"}
  ELSE IF g = "evt" THEN {"WTOREVT", "WTANDEVT"} ELSE {"WTQUEUE"}
Limits == Time \cup {Infinite, Immediate}
PlacesOf(g) ==
  {InUser} \cup
  IF g \in {"threads", "sem"} THEN {<<"woken">>}
  ELSE IF g = "mtx" THEN {<<"woken">>} \cup {<<"cond", m>> : m \in Mutex}
  ELSE IF g = "msg" THEN {<<"woken">>, <<"msg">>}
  ELSE IF g = "evt" THEN {<<"evt", how>> : how \in {"one", "any", "all"}}
  ELSE IF g = "mbx" THEN {<<"fetch">>} \cup {<<"post", h, m>> : h \in BOOLEAN, m \in Item}
  ELSE {<<"more", g, n, x>> : n \in 1..MaxBytes + 1, x \in Limits}
         \cup {<<g, n, x>> : n \in 1..MaxBytes + 1, x \in Limits}
ObjectsOf(g) ==
  IF g = "sem" THEN Sem ELSE IF g = "mbx" THEN {EmptySem, FullSem}
  ELSE IF g = "mtx" THEN Mutex \cup CondVar ELSE {g} \cap Queue

(* The kernel's state is right between two steps.                          *)
KernelRight(kk) ==
  Listed(kk, {}) /\ HighestCurrent(kk) /\ Counted(kk) /\ TimersRight(kk)

(* A thread in its own code runs, or is not there; one within a call is    *)
(* there, and runs or waits for what the calls of the group wait for.      *)
Absent == {"NONE", "SUSPENDED", "FINAL"}
Placed(kk, p, g) ==
  /\ p \in [Thread -> PlacesOf(g)] /\ p[Idle] = InUser
  /\ \A t \in Thread :
       /\ View(kk)[t] \in ViewsOf(g)
       /\ p[t][1] \in {"user", "more"} =>
            View(kk)[t] \in Absent \cup {"RUNS"} /\ kk.due[t] = 0
       /\ p[t][1] # "user" => View(kk)[t] \notin Absent
       /\ g = "msg" => kk.due[t] = 0
  /\ \A o \in Object : o \in ObjectsOf(g) \/ kk.q[o] = <<>>
  /\ g # "mtx" => kk.prio = kk.realprio

(* The calls of the other groups have not been used.                       *)
Untouched(g) ==
  /\ g # "threads" => waiting = [t \in Thread |-> <<>>]
  /\ g # "mtx" => MtxInit
  /\ g # "msg" => MsgInit
  /\ g # "evt" => EvtInit
  /\ g # "mbx" => \E x \in Item : chMBInit(x)
  /\ g \notin Queue => \E x \in Item : chIQInit(x)

(* A thread waits for the end of one other, that has not ended.            *)
ExitOK(v, w) ==
  /\ w \in [Thread -> Seq(Thread)]
  /\ \A u \in Thread :
       /\ Once(w[u])
       /\ \A t \in Members(w[u]) : v[t] = "WTEXIT"
       /\ w[u] # <<>> => v[u] \notin {"NONE", "FINAL"}
  /\ \A t, u, x \in Thread : t \in Members(w[u]) /\ t \in Members(w[x]) => u = x
  /\ \A t \in Thread : v[t] = "WTEXIT" => \E u \in Thread : t \in Members(w[u])

(* A sender is in the queue of one receiver, or taken by one; a receiver   *)
(* sleeps as long as there is no message.                                  *)
MsgOK(v, p, mq, tk) ==
  /\ mq \in [Thread -> Seq(Thread)] /\ tk \in [Thread -> SUBSET Thread]
  /\ \A u \in Thread :
       /\ Once(mq[u])
       /\ \A t \in Members(mq[u]) : v[t] = "SNDMSGQ"
       /\ \A t \in tk[u] : v[t] = "SNDMSG"
  /\ \A t, u, x \in Thread :
       /\ t \in Members(mq[u]) /\ t \in Members(mq[x]) => u = x
       /\ t \in tk[u] /\ t \in tk[x] => u = x
  /\ \A t \in Thread :
       /\ v[t] = "SNDMSGQ" => \E u \in Thread : t \in Members(mq[u])
       /\ v[t] = "SNDMSG" => \E u \in Thread : t \in tk[u]
       /\ v[t] = "WTMSG" => mq[t] = <<>> /\ p[t] = <<"msg">>
       /\ p[t] = <<"msg">> /\ v[t] # "WTMSG" => mq[t] # <<>> /\ v[t] = "RUNS"

(* A thread sleeps as long as its events are missing, and who was woken by *)
(* them has them.                                                          *)
Come(pend, mask, all) == IF all THEN mask \subseteq pend ELSE mask \cap pend # {}
EvtOK(v, p, ms, ep, ew, ls) ==
  /\ ep \in [Thread -> SUBSET Event] /\ ew \in [Thread -> SUBSET Event]
  /\ ls \in Seq([el_listener : Thread, el_mask : SUBSET Event])
  /\ \A t \in Thread :
       /\ v[t] = "WTOREVT" => ~Come(ep[t], ew[t], FALSE) /\ p[t] \in {<<"evt", "one">>, <<"evt", "any">>}
       /\ v[t] = "WTANDEVT" => ~Come(ep[t], ew[t], TRUE) /\ p[t] = <<"evt", "all">>
       /\ v[t] = "RUNS" /\ p[t][1] = "evt" /\ ms[t] = "OK"
            => Come(ep[t], ew[t], p[t] = <<"evt", "all">>)

(* A ring holds the items of s from its read pointer on, and its write     *)
(* pointer is behind them.                                                 *)
Ring == [buf : [0..Size - 1 -> Item], wr : 0..Size - 1, rd : 0..Size - 1]
Slot(n, m) == IF n + m >= Size THEN n + m - Size ELSE n + m
Keeps(r, s) ==
  /\ r \in Ring /\ s \in Seq(Item) /\ Len(s) <= Size
  /\ r.wr = Slot(r.rd, Len(s))
  /\ \A j \in 1..Len(s) : r.buf[Slot(r.rd, j - 1)] = s[j]

(* The units of the semaphores are the messages and the free slots that    *)
(* have not been given to a thread.                                        *)
Given(kk, p, place) ==
  {t \in Thread : p[t][1] = place /\ View(kk)[t] = "RUNS" /\ kk.msg[t] = "OK"}
MbxOK(kk, p, r, po) ==
  /\ Keeps(r, po)
  /\ \A t \in Members(kk.q[EmptySem]) : p[t][1] = "post"
  /\ \A t \in Members(kk.q[FullSem]) : p[t][1] = "fetch"
  /\ Units(kk, FullSem) + Cardinality(Given(kk, p, "fetch")) = Len(po)
  /\ Units(kk, EmptySem) + Cardinality(Given(kk, p, "post")) = Size - Len(po)

(* The counter of a queue, its ring and its bytes agree, and as many       *)
(* threads are on their way as there is to do, if others wait.             *)
IoqOK(kk, p, i, qc, h) ==
  /\ i \in [Queue -> Ring] /\ qc \in [Queue -> 0..Size] /\ h \in [Queue -> Seq(Item)]
  /\ \A q \in Queue :
       /\ Keeps(i[q], h[q])
       /\ qc[q] = IF q = "iq" THEN Len(h[q]) ELSE Size - Len(h[q])
       /\ kk.q[q] # <<>> => qc[q] <= Cardinality(Given(kk, p, q))

RingRight == Keeps(mb, posted)

IInv ==
  /\ api \in Group /\ systime \in 0..1
  /\ KernelRight(k) /\ Placed(k, pc, api) /\ Untouched(api)
  /\ ExitOK(View(k), waiting) /\ MsgOK(View(k), pc, msgqueue, taken)
  /\ EvtOK(View(k), pc, k.msg, epending, ewmask, listeners)
  /\ RingRight /\ (api = "mbx" => MbxOK(k, pc, mb, posted))
  /\ IoqOK(k, pc, io, q_counter, held)

(* A step that makes threads ready, and may take the thread c elsewhere.   *)
Frame(kk, r, S) ==
  \A t \in S : View(r)[t] \in {View(kk)[t], "RUNS"} /\ (r.due[t] > 0 => kk.due[t] > 0)
Whole(r, g) ==
  /\ Listed(r, {}) /\ HighestCurrent(r) /\ Counted(r) /\ TimersAre(r.vt, r.due)
  /\ \A o \in Object : o \in ObjectsOf(g) \/ r.q[o] = <<>>
  /\ g # "mtx" => r.prio = r.realprio
At(r, c, x, g) ==
  /\ c = Idle => x = InUser
  /\ View(r)[c] \in ViewsOf(g)
  /\ x[1] \in {"user", "more"} => View(r)[c] \in Absent \cup {"RUNS"} /\ r.due[c] = 0
  /\ x[1] # "user" => View(r)[c] \notin Absent
  /\ r.due[c] > 0 => View(r)[c] \in Timed
  /\ g = "msg" => r.due[c] = 0

(* What keeps the lists and each thread's view keeps the invariant's part   *)
(* on places.                                                               *)
LEMMA Kept ==
  ASSUME NEW kk, NEW p, NEW g, KernelRight(kk), Placed(kk, p, g),
         NEW r, Whole(r, g), Frame(kk, r, Thread)
  PROVE  KernelRight(r) /\ Placed(r, p, g)
<1>1. "RUNS" \in ViewsOf(g) /\ "RUNS" \notin Absent /\ "RUNS" \in Timed
  BY DEF ViewsOf, Absent, Timed
<1>2. TimersRight(r)
  BY <1>1 DEF Frame, KernelRight, TimersRight, Whole
<1>3. \A t \in Thread : r.due[t] \in Nat /\ kk.due[t] \in Nat
  BY KernelIs DEF Whole, KernelRight, Listed
<1>4. \A t \in Thread : kk.due[t] = 0 => r.due[t] = 0
  BY <1>3 DEF Frame
<1>5. ASSUME NEW t \in Thread
      PROVE  /\ View(r)[t] \in ViewsOf(g)
             /\ p[t][1] \in {"user", "more"} =>
                  View(r)[t] \in Absent \cup {"RUNS"} /\ r.due[t] = 0
             /\ p[t][1] # "user" => View(r)[t] \notin Absent
             /\ g = "msg" => r.due[t] = 0
  BY <1>1, <1>4 DEF Placed, Frame
<1> QED
  BY <1>2, <1>5 DEF KernelRight, Placed, Whole

(* So does a step in which one thread goes to another place.                *)
LEMMA Moved ==
  ASSUME NEW kk, NEW p, NEW g, KernelRight(kk), Placed(kk, p, g),
         NEW c \in Thread, NEW x \in PlacesOf(g),
         NEW r, Whole(r, g), Frame(kk, r, Thread \ {c}), At(r, c, x, g)
  PROVE  KernelRight(r) /\ Placed(r, [p EXCEPT ![c] = x], g)
<1> DEFINE p2 == [p EXCEPT ![c] = x]
<1>1. "RUNS" \in ViewsOf(g) /\ "RUNS" \notin Absent /\ "RUNS" \in Timed
  BY DEF ViewsOf, Absent, Timed
<1>2. TimersRight(r)
  BY <1>1 DEF Frame, KernelRight, TimersRight, Whole, At
<1>3. \A t \in Thread : r.due[t] \in Nat /\ kk.due[t] \in Nat
  BY KernelIs DEF Whole, KernelRight, Listed
<1>4. \A t \in Thread \ {c} : kk.due[t] = 0 => r.due[t] = 0
  BY <1>3 DEF Frame
<1>5. p \in [Thread -> PlacesOf(g)] /\ p[Idle] = InUser
  BY DEF Placed
<1>6. p2 \in [Thread -> PlacesOf(g)]
  BY <1>5
<1>7. \A t \in Thread : p2[t] = IF t = c THEN x ELSE p[t]
  BY <1>5
<1> HIDE DEF p2
<1>8. p2[Idle] = InUser
  BY <1>5, <1>7, ThreadAssumption DEF At
<1>9. ASSUME NEW t \in Thread
      PROVE  /\ View(r)[t] \in ViewsOf(g)
             /\ p2[t][1] \in {"user", "more"} =>
                  View(r)[t] \in Absent \cup {"RUNS"} /\ r.due[t] = 0
             /\ p2[t][1] # "user" => View(r)[t] \notin Absent
             /\ g = "msg" => r.due[t] = 0
  <2>1. CASE t = c
    <3>1. p2[t] = x
      BY <1>7, <2>1
    <3> QED
      BY <2>1, <3>1 DEF At
  <2>2. CASE t # c
    <3>1. p2[t] = p[t]
      BY <1>7, <2>2
    <3> QED
      BY <1>1, <1>4, <2>2, <3>1 DEF Placed, Frame
  <2> QED
    BY <2>1, <2>2
<1>10. KernelRight(r)
  BY <1>2 DEF KernelRight, Whole
<1>11. Placed(r, p2, g)
  BY <1>6, <1>8, <1>9 DEF Placed, Whole
<1> QED
  BY <1>10, <1>11 DEF p2

NamesOf(g) ==
  {"user"} \cup
  IF g \in {"threads", "sem"} THEN {"woken"}
  ELSE IF g = "mtx" THEN {"woken", "cond"}
  ELSE IF g = "msg" THEN {"woken", "msg"}
  ELSE IF g = "evt" THEN {"evt"}
  ELSE IF g = "mbx" THEN {"fetch", "post"} ELSE {"more", g}

(* A place of a group has one of the group's names.                         *)
LEMMA PlaceNames ==
  ASSUME NEW g, NEW x \in PlacesOf(g)
  PROVE  x[1] \in NamesOf(g)
<1>1. CASE x = InUser
  BY <1>1 DEF InUser, NamesOf
<1>2. CASE x # InUser
  <2>1. CASE g \in {"threads", "sem"}
    BY <1>2, <2>1 DEF PlacesOf, NamesOf
  <2>2. CASE g = "mtx"
    BY <1>2, <2>2 DEF PlacesOf, NamesOf
  <2>3. CASE g = "msg"
    BY <1>2, <2>3 DEF PlacesOf, NamesOf
  <2>4. CASE g = "evt"
    BY <1>2, <2>4 DEF PlacesOf, NamesOf
  <2>5. CASE g = "mbx"
    BY <1>2, <2>5 DEF PlacesOf, NamesOf
  <2>6. CASE g \notin {"threads", "sem", "mtx", "msg", "evt", "mbx"}
    <3>1. x \in {<<"more", g, n, y>> : n \in 1..MaxBytes + 1, y \in Limits}
                 \cup {<<g, n, y>> : n \in 1..MaxBytes + 1, y \in Limits}
      BY <1>2, <2>6 DEF PlacesOf
    <3>2. x[1] = "more" \/ x[1] = g
      BY <3>1
    <3> QED
      BY <2>6, <3>2 DEF NamesOf
  <2> QED
    BY <2>1, <2>2, <2>3, <2>4, <2>5, <2>6
<1> QED
  BY <1>1, <1>2

(* Without chThdWait nobody is in a list of those that wait for an exit.    *)
LEMMA NoExit ==
  ASSUME NEW v, NEW w, w = [t \in Thread |-> <<>>], \A t \in Thread : v[t] # "WTEXIT"
  PROVE  ExitOK(v, w)
BY DEF ExitOK, Once, Members

(* Without messages the queues of senders are empty.                        *)
LEMMA NoMsg ==
  ASSUME NEW v, NEW p, NEW mq, NEW tk,
         mq = [t \in Thread |-> <<>>], tk = [t \in Thread |-> {}],
         \A t \in Thread : /\ v[t] \notin {"SNDMSGQ", "SNDMSG", "WTMSG"}
                           /\ p[t] # <<"msg">>
  PROVE  MsgOK(v, p, mq, tk)
BY DEF MsgOK, Once, Members

(* Without events nobody waits for one.                                     *)
LEMMA NoEvt ==
  ASSUME NEW v, NEW p, NEW ms, NEW ep, NEW ew, NEW ls,
         ep = [t \in Thread |-> {}], ew = [t \in Thread |-> {}], ls = <<>>,
         \A t \in Thread : v[t] \notin {"WTOREVT", "WTANDEVT"} /\ p[t][1] # "evt"
  PROVE  EvtOK(v, p, ms, ep, ew, ls)
<1>1. ls \in Seq([el_listener : Thread, el_mask : SUBSET Event])
  OBVIOUS
<1>2. ep \in [Thread -> SUBSET Event] /\ ew \in [Thread -> SUBSET Event]
  OBVIOUS
<1> QED
  BY <1>1, <1>2 DEF EvtOK

(* A ring is empty at first.                                               *)
LEMMA EmptyKeeps ==
  ASSUME NEW x \in Item
  PROVE  EmptyRing(x) \in Ring /\ Keeps(EmptyRing(x), <<>>)
<1>1. Size \in Nat /\ Size > 0 /\ 0 \in 0..Size - 1
  BY SizeAssumption
<1>2. EmptyRing(x) \in Ring /\ EmptyRing(x).wr = 0 /\ EmptyRing(x).rd = 0
  BY <1>1 DEF EmptyRing, Ring
<1>3. <<>> \in Seq(Item) /\ Len(<<>>) = 0 /\ Slot(0, 0) = 0
  BY <1>1 DEF Slot
<1> QED
  BY <1>1, <1>2, <1>3 DEF Keeps

(* Empty queues hold what their counters say.                               *)
LEMMA NoIoq ==
  ASSUME NEW kk, NEW p, NEW i, NEW qc, NEW h, NEW x \in Item,
         i = [q \in Queue |-> EmptyRing(x)], qc = NoneYet, h = [q \in Queue |-> <<>>],
         \A q \in Queue : kk.q[q] = <<>>
  PROVE  IoqOK(kk, p, i, qc, h)
<1>1. Size \in Nat /\ Size > 0
  BY SizeAssumption
<1>2. qc \in [Queue -> 0..Size]
  BY <1>1 DEF NoneYet
<1>3. ASSUME NEW q \in Queue
      PROVE  /\ i[q] \in Ring /\ Keeps(i[q], h[q])
             /\ qc[q] = IF q = "iq" THEN Len(h[q]) ELSE Size - Len(h[q])
  <2>1. h[q] = <<>> /\ Len(h[q]) = 0 /\ i[q] = EmptyRing(x)
    OBVIOUS
  <2>2. i[q] \in Ring /\ Keeps(i[q], h[q])
    BY <2>1, EmptyKeeps
  <2> QED
    BY <1>1, <2>1, <2>2 DEF NoneYet
<1>4. i \in [Queue -> Ring]
  BY <1>3
<1>5. h \in [Queue -> Seq(Item)]
  OBVIOUS
<1> QED
  BY <1>2, <1>3, <1>4, <1>5 DEF IoqOK

(* After a step of its calls, a group's invariant is left to prove.        *)
LEMMA StepRight ==
  ASSUME IInv, api' = api, systime' \in 0..1,
         KernelRight(k'), Placed(k', pc', api), Untouched(api)',
         api = "threads" => ExitOK(View(k'), waiting'),
         api = "msg" => MsgOK(View(k'), pc', msgqueue', taken'),
         api = "evt" => EvtOK(View(k'), pc', k.msg', epending', ewmask', listeners'),
         api = "mbx" => MbxOK(k', pc', mb', posted'),
         api \in Queue => IoqOK(k', pc', io', q_counter', held')
  PROVE  IInv'
<1> DEFINE kk == k'
           p == pc'
           v == View(kk)
<1>1. api \in {"threads", "sem", "mtx", "msg", "evt", "mbx"} \cup Queue
  BY KernelAssumption DEF IInv
<1>2. \A t \in Thread : v[t] \in ViewsOf(api) /\ p[t] \in PlacesOf(api)
  BY DEF Placed
<1>3. \A t \in Thread : p[t][1] \in NamesOf(api)
  BY <1>2, PlaceNames
<1>4. \A o \in Object : o \in ObjectsOf(api) \/ kk.q[o] = <<>>
  BY DEF Placed
<1> HIDE DEF kk, p, v
<1>5. ExitOK(v, waiting')
  <2>1. CASE api = "threads"
    BY <2>1 DEF v, kk
  <2>2. CASE api # "threads"
    <3>1. waiting' = [t \in Thread |-> <<>>]
      BY <2>2 DEF Untouched
    <3>2. \A t \in Thread : v[t] # "WTEXIT"
      BY <1>2, <2>2 DEF ViewsOf
    <3> QED
      BY <3>1, <3>2, NoExit
  <2> QED
    BY <2>1, <2>2
<1>6. MsgOK(v, p, msgqueue', taken')
  <2>1. CASE api = "msg"
    BY <2>1 DEF v, kk, p
  <2>2. CASE api # "msg"
    <3>1. msgqueue' = [t \in Thread |-> <<>>] /\ taken' = [t \in Thread |-> {}]
      BY <2>2 DEF Untouched, MsgInit
    <3>2. \A t \in Thread : v[t] \notin {"SNDMSGQ", "SNDMSG", "WTMSG"}
      BY <1>2, <2>2 DEF ViewsOf
    <3>3. \A t \in Thread : p[t][1] # "msg"
      BY <1>1, <1>3, <2>2 DEF NamesOf, Queue
    <3>4. \A t \in Thread : p[t] # <<"msg">>
      BY <3>3
    <3> QED
      BY <3>1, <3>2, <3>4, NoMsg
  <2> QED
    BY <2>1, <2>2
<1>7. EvtOK(v, p, k.msg', epending', ewmask', listeners')
  <2>1. CASE api = "evt"
    BY <2>1 DEF v, kk, p
  <2>2. CASE api # "evt"
    <3>1. /\ epending' = [t \in Thread |-> {}] /\ ewmask' = [t \in Thread |-> {}]
          /\ listeners' = <<>>
      BY <2>2 DEF Untouched, EvtInit
    <3>2. \A t \in Thread : v[t] \notin {"WTOREVT", "WTANDEVT"}
      BY <1>2, <2>2 DEF ViewsOf
    <3>3. \A t \in Thread : p[t][1] # "evt"
      BY <1>1, <1>3, <2>2 DEF NamesOf, Queue
    <3> QED
      BY <3>1, <3>2, <3>3, NoEvt
  <2> QED
    BY <2>1, <2>2
<1>8. IoqOK(kk, p, io', q_counter', held')
  <2>1. CASE api \in Queue
    BY <2>1 DEF kk, p
  <2>2. CASE api \notin Queue
    <3>1. PICK x \in Item : chIQInit(x)'
      BY <2>2 DEF Untouched
    <3>2. /\ io' = [q \in Queue |-> EmptyRing(x)] /\ q_counter' = NoneYet
          /\ held' = [q \in Queue |-> <<>>]
      BY <3>1 DEF chIQInit, EmptyRing, NoneYet
    <3>3. \A q \in Queue : q \in Object /\ q \notin ObjectsOf(api)
      <4>1. Queue \subseteq Object \ (Sem \cup Mutex \cup CondVar)
        BY KernelAssumption
      <4>2. EmptySem \in Sem /\ FullSem \in Sem
        BY MailboxAssumption
      <4> QED
        BY <2>2, <4>1, <4>2 DEF ObjectsOf
    <3>4. \A q \in Queue : kk.q[q] = <<>>
      BY <1>4, <3>3
    <3> QED
      BY <3>2, <3>4, NoIoq
  <2> QED
    BY <2>1, <2>2
<1>9. RingRight'
  <2>1. CASE api = "mbx"
    BY <2>1 DEF MbxOK, RingRight
  <2>2. CASE api # "mbx"
    <3>1. PICK x \in Item : chMBInit(x)'
      BY <2>2 DEF Untouched
    <3>2. posted' = <<>> /\ mb' = EmptyRing(x)
      BY <3>1 DEF chMBInit, EmptyRing
    <3> QED
      BY <3>2, EmptyKeeps DEF RingRight
  <2> QED
    BY <2>1, <2>2
<1> QED
  BY <1>5, <1>6, <1>7, <1>8, <1>9 DEF IInv, v, kk, p

(* The thread that runs has no timer when it is in its own code.           *)
LEMMA CurrentRuns ==
  ASSUME NEW kk, Listed(kk, {})
  PROVE  kk.current \in Thread /\ kk.state[kk.current] = "CURRENT"
         /\ View(kk)[kk.current] = "RUNS" /\ kk \in KernelState
<1>1. kk.current \in Thread
  BY KernelIs DEF Listed
<1>2. kk.state[kk.current] = "CURRENT"
  BY <1>1 DEF Listed, ReadyRight
<1> QED
  BY <1>1, <1>2 DEF View, Runs, Listed

Caller(kk, p) ==
  /\ kk.current \in Thread /\ kk.current # Idle /\ p[kk.current] = InUser
  /\ kk.due[kk.current] = 0 /\ View(kk)[kk.current] = "RUNS"
  /\ kk.state[kk.current] = "CURRENT"
  /\ kk \in KernelState /\ Listed(kk, {}) /\ HighestCurrent(kk) /\ Counted(kk)
  /\ TimersRight(kk) /\ TimersAre(kk.vt, kk.due)

(* A thread that calls the kernel runs and has no timer.                    *)
LEMMA CallerIs ==
  ASSUME NEW g, KernelRight(k), Placed(k, pc, g), Calls
  PROVE  Caller(k, pc)
<1>1. Listed(k, {})
  BY DEF KernelRight
<1>2. me \in Thread /\ k.state[me] = "CURRENT" /\ View(k)[me] = "RUNS" /\ k \in KernelState
  BY <1>1, CurrentRuns DEF me
<1>3. pc[me] = InUser /\ me # Idle /\ pc[me][1] = "user"
  BY DEF Calls, InUser
<1>4. k.due[me] = 0
  BY <1>2, <1>3 DEF Placed
<1> QED
  BY <1>1, <1>2, <1>3, <1>4 DEF Caller, KernelRight, TimersRight, me

(* So does the one that is interrupted.                                     *)
LEMMA InterruptIs ==
  ASSUME NEW g, KernelRight(k), Placed(k, pc, g), Interrupts
  PROVE  k.due[k.current] = 0 /\ View(k)[k.current] = "RUNS"
BY CurrentRuns DEF KernelRight, Placed, Interrupts, me

(* A step up to its reschedule.                                            *)
Changed(kk, r, g) ==
  /\ Listed(r, {}) /\ Counted(r) /\ TimersAre(r.vt, r.due)
  /\ \A o \in Object : o \in ObjectsOf(g) \/ r.q[o] = <<>>
  /\ g # "mtx" => r.prio = r.realprio
  /\ Frame(kk, r, Thread)
Settles(h, r) == Listed(r, {}) /\ HighestCurrent(r) /\ Same(h, r)
Stable(r, p, g) == KernelRight(r) /\ Placed(r, p, g)

(* What chSchRescheduleS settles.                                           *)
LEMMA SettlesS ==
  ASSUME NEW kk, Listed(kk, {})
  PROVE  Settles(kk, chSchRescheduleS(kk))
BY RescheduleS DEF Settles

(* What the end of an interrupt settles.                                    *)
LEMMA SettlesI ==
  ASSUME NEW kk, Listed(kk, {})
  PROVE  Settles(kk, CH_IRQ_EPILOGUE(kk))
BY Epilogue DEF Settles

(* Nothing is to settle if the highest runs.                                *)
LEMMA SettlesItself ==
  ASSUME NEW kk, Listed(kk, {}), HighestCurrent(kk)
  PROVE  Settles(kk, kk)
BY SameItself DEF Settles

(* A change followed by a rescheduling leaves the lists whole.              *)
LEMMA WholeIs ==
  ASSUME NEW kk, NEW h, NEW r, NEW g, Changed(kk, h, g), Settles(h, r)
  PROVE  Whole(r, g) /\ Frame(kk, r, Thread)
<1>1. View(r) = View(h) /\ r.vt = h.vt /\ r.due = h.due /\ r.q = h.q /\ r.cnt = h.cnt
      /\ r.prio = h.prio /\ r.realprio = h.realprio
  BY DEF Settles, Same, SameRest
<1>2. Counted(r)
  BY <1>1 DEF Counted, Changed
<1> QED
  BY <1>1, <1>2 DEF Changed, Settles, Whole, Frame

(* A change followed by a rescheduling keeps the invariant's part on        *)
(* places.                                                                  *)
LEMMA Stays ==
  ASSUME NEW kk, NEW h, NEW r, NEW p, NEW g, Stable(kk, p, g),
         Changed(kk, h, g), Settles(h, r)
  PROVE  Stable(r, p, g)
<1>1. Whole(r, g) /\ Frame(kk, r, Thread)
  BY WholeIs
<1> QED
  BY <1>1, Kept DEF Stable

(* The running thread goes on elsewhere.                                   *)
LEMMA GoesElsewhere ==
  ASSUME NEW kk, NEW h, NEW r, NEW p, NEW g, Stable(kk, p, g),
         Changed(kk, h, g), Settles(h, r), NEW c \in Thread, NEW x \in PlacesOf(g),
         c # Idle, View(h)[c] = "RUNS", h.due[c] = 0
  PROVE  Stable(r, [p EXCEPT ![c] = x], g)
<1>1. Whole(r, g) /\ Frame(kk, r, Thread)
  BY WholeIs
<1>2. View(r)[c] = "RUNS" /\ r.due[c] = 0
  BY DEF Settles, Same, SameRest
<1>3. At(r, c, x, g)
  BY <1>2 DEF At, ViewsOf, Absent, Timed
<1>4. Frame(kk, r, Thread \ {c})
  BY <1>1 DEF Frame
<1>5. KernelRight(kk) /\ Placed(kk, p, g)
  BY DEF Stable
<1>6. KernelRight(r) /\ Placed(r, [p EXCEPT ![c] = x], g)
  BY <1>1, <1>3, <1>4, <1>5, Moved
<1> QED
  BY <1>6 DEF Stable

(* The running thread sleeps.                                              *)
LEMMA Slept ==
  ASSUME NEW kk, NEW p, NEW g, Stable(kk, p, g), Caller(kk, p) \/ kk.current # Idle,
         NEW e, NEW r, NEW s, Sleep(kk, e, r, s), Counted(e), e.realprio = kk.realprio,
         e.due = kk.due, \A o \in Object : o \in ObjectsOf(g) \/ e.q[o] = <<>>,
         NEW x \in PlacesOf(g), x[1] \notin {"user", "more"},
         s \in ViewsOf(g) \ Absent, (s \in Timed /\ g # "msg") \/ r.due[kk.current] = 0
  PROVE  Stable(r, [p EXCEPT ![kk.current] = x], g)
<1> DEFINE c == kk.current
<1>1. KernelRight(kk) /\ Placed(kk, p, g) /\ Listed(kk, {})
  BY DEF Stable, KernelRight
<1>2. c \in Thread /\ c # Idle
  BY <1>1, CurrentRuns DEF Caller
<1>3. View(kk) \in [Thread -> {View(kk)[t] : t \in Thread}]
  BY DEF View
<1>4. View(r)[c] = s /\ \A t \in Thread \ {c} : View(r)[t] = View(kk)[t]
  BY <1>2, <1>3 DEF Sleep
<1>5. Counted(r)
  BY DEF Sleep, Counted
<1>6. Whole(r, g)
  BY <1>1, <1>5 DEF Whole, Sleep, Placed
<1>7. Frame(kk, r, Thread \ {c})
  BY <1>2, <1>4 DEF Frame, Sleep
<1>8. At(r, c, x, g)
  BY <1>2, <1>4 DEF At
<1>9. KernelRight(r) /\ Placed(r, [p EXCEPT ![c] = x], g)
  BY <1>1, <1>2, <1>6, <1>7, <1>8, Moved
<1> QED
  BY <1>9 DEF Stable

(* A tick: what it does to the state of each group.                        *)
LEMMA TickChanges ==
  ASSUME NEW kk, NEW p, NEW g, Stable(kk, p, g), NEW h, NEW F, TimeGoesOn(kk, h, F)
  PROVE  Changed(kk, h, g)
<1>1. ASSUME NEW o \in Object, o \notin ObjectsOf(g)
      PROVE  h.q[o] = <<>>
  <2>1. kk.q[o] = <<>> /\ Members(kk.q[o]) = {}
    BY <1>1 DEF Stable, Placed, Members
  <2>2. Members(h.q[o]) = {}
    BY <2>1 DEF TimeGoesOn
  <2>3. h.q[o] \in Seq(Thread)
    BY KernelIs DEF TimeGoesOn, Listed
  <2> QED
    BY <2>2, <2>3, MembersAre
<1>2. Frame(kk, h, Thread)
  BY DEF TimeGoesOn, Frame
<1>3. g # "mtx" => h.prio = h.realprio
  BY DEF TimeGoesOn, Stable, Placed
<1> QED
  BY <1>1, <1>2, <1>3 DEF Changed, TimeGoesOn

Woke(v, u, F) ==
  /\ \A t \in F : v[t] \in Timed
  /\ \A t \in Thread : u[t] = IF t \in F THEN "RUNS" ELSE v[t]

(* A tick wakes threads that wait with a time limit.                        *)
LEMMA TickWakes ==
  ASSUME NEW kk, TimersRight(kk), NEW h, NEW F, TimeGoesOn(kk, h, F)
  PROVE  Woke(View(kk), View(h), F)
BY DEF Woke, TimersRight, TimeGoesOn

(* A tick wakes nobody who waits for an exit.                               *)
LEMMA ExitTick ==
  ASSUME NEW v, NEW w, ExitOK(v, w), NEW u, NEW F, Woke(v, u, F)
  PROVE  ExitOK(u, w)
<1>1. \A t \in Thread : v[t] = "WTEXIT" => u[t] = "WTEXIT"
  BY DEF Woke, Timed
<1>2. \A t \in Thread : u[t] = "WTEXIT" => v[t] = "WTEXIT"
  BY DEF Woke
<1>3. \A t \in Thread : v[t] \notin {"NONE", "FINAL"} => u[t] \notin {"NONE", "FINAL"}
  BY DEF Woke
<1>4. \A t \in Thread : Members(w[t]) \subseteq Thread
  BY MembersAre DEF ExitOK
<1> QED
  BY <1>1, <1>2, <1>3, <1>4 DEF ExitOK

(* A tick wakes nobody who waits for a message or an answer.                *)
LEMMA MsgTick ==
  ASSUME NEW v, NEW p, NEW mq, NEW tk, MsgOK(v, p, mq, tk), NEW u, NEW F, Woke(v, u, F),
         \A t \in Thread : v[t] \in ViewsOf("msg")
  PROVE  MsgOK(u, p, mq, tk)
<1>1. \A t \in Thread : v[t] \in Timed => v[t] = "RUNS"
  BY DEF ViewsOf, Timed
<1>2. \A t \in Thread : u[t] = v[t]
  BY <1>1 DEF Woke
<1>3. \A t \in Thread : Members(mq[t]) \subseteq Thread /\ tk[t] \subseteq Thread
  BY MembersAre DEF MsgOK
<1> QED
  BY <1>2, <1>3 DEF MsgOK

(* Who is woken by a tick has TIMEOUT, so that it need not have its events. *)
LEMMA EvtTick ==
  ASSUME NEW v, NEW p, NEW ms, NEW ep, NEW ew, NEW ls, EvtOK(v, p, ms, ep, ew, ls),
         NEW u, NEW F, Woke(v, u, F), NEW m,
         \A t \in Thread : m[t] = IF t \in F /\ v[t] # "RUNS" THEN "TIMEOUT" ELSE ms[t]
  PROVE  EvtOK(u, p, m, ep, ew, ls)
<1>1. ASSUME NEW t \in Thread
      PROVE  /\ u[t] = "WTOREVT" => v[t] = "WTOREVT"
             /\ u[t] = "WTANDEVT" => v[t] = "WTANDEVT"
             /\ u[t] = "RUNS" /\ m[t] = "OK" => v[t] = "RUNS" /\ ms[t] = "OK"
  BY DEF Woke
<1> QED
  BY <1>1 DEF EvtOK

(* Who is woken by a tick was given nothing.                                *)
LEMMA GivenTick ==
  ASSUME NEW kk, NEW h, NEW F, TimeGoesOn(kk, h, F), NEW p, NEW x
  PROVE  Given(h, p, x) = Given(kk, p, x)
BY DEF TimeGoesOn, Given

(* A rescheduling gives nothing.                                            *)
LEMMA SameGiven ==
  ASSUME NEW h, NEW r, Same(h, r), NEW p, NEW x
  PROVE  Given(r, p, x) = Given(h, p, x)
BY DEF Same, Given

(* A tick keeps the mailbox and its semaphores in step.                     *)
LEMMA MbxTick ==
  ASSUME NEW kk, NEW h, NEW r, NEW F, TimeGoesOn(kk, h, F), Same(h, r), NEW p,
         NEW b, NEW po, MbxOK(kk, p, b, po)
  PROVE  MbxOK(r, p, b, po)
<1>1. \A x : Given(r, p, x) = Given(kk, p, x)
  BY GivenTick, SameGiven
<1>2. \A s \in Sem : Units(r, s) = Units(kk, s)
  BY DEF TimeGoesOn, Same, SameRest, Units
<1>3. \A o \in Object : Members(r.q[o]) \subseteq Members(kk.q[o])
  BY DEF TimeGoesOn, Same, SameRest
<1>4. EmptySem \in Sem /\ FullSem \in Sem /\ EmptySem \in Object /\ FullSem \in Object
  BY MailboxAssumption, ThreadAssumption
<1> QED
  BY <1>1, <1>2, <1>3, <1>4 DEF MbxOK

(* A tick keeps the queues and those on their way in step.                  *)
LEMMA IoqTick ==
  ASSUME NEW kk, kk \in KernelState, NEW h, NEW r, NEW F, TimeGoesOn(kk, h, F), Same(h, r), NEW p,
         NEW i, NEW qc, NEW d, IoqOK(kk, p, i, qc, d)
  PROVE  IoqOK(r, p, i, qc, d)
<1>1. \A x : Given(r, p, x) = Given(kk, p, x)
  BY GivenTick, SameGiven
<1>2. \A q \in Queue : q \in Object
  BY KernelAssumption
<1>3. ASSUME NEW q \in Queue, r.q[q] # <<>>
      PROVE  kk.q[q] # <<>>
  <2>1. r.q = h.q /\ h \in KernelState
    BY DEF Same, SameRest, TimeGoesOn, Listed
  <2>2. r.q[q] \in Seq(Thread) /\ kk.q[q] \in Seq(Thread)
    BY <1>2, <2>1, KernelIs
  <2>3. Members(r.q[q]) # {}
    BY <1>3, <2>2, MembersAre
  <2>4. Members(kk.q[q]) # {}
    BY <1>2, <2>1, <2>3 DEF TimeGoesOn
  <2> QED
    BY <2>2, <2>4, MembersAre
<1> QED
  BY <1>1, <1>3 DEF IoqOK

Others ==
  <<owner, mtxlist, msgqueue, taken, epending, ewmask, listeners, mb, posted,
    io, q_counter, held>>

(* A step of another group leaves a group's state alone.                    *)
LEMMA UntouchedStays ==
  ASSUME NEW g, Untouched(g), UNCHANGED <<waiting, Others>>
  PROVE  Untouched(g)'
BY DEF Untouched, Others, MtxInit, MsgInit, EvtInit, chMBInit, chIQInit

(* The same variables, by their groups and one by one.                      *)
LEMMA OthersAre ==
  ASSUME UNCHANGED <<mtxVars, msgVars, evtVars, mbxVars, ioqVars>>
  PROVE  UNCHANGED Others
BY DEF mtxVars, msgVars, evtVars, mbxVars, ioqVars, Others

(* The system tick keeps the invariant.                                     *)
LEMMA TickRight ==
  ASSUME IInv, Tick, UNCHANGED Others, api' = api
  PROVE  IInv'
<1> DEFINE h == chSysTimerHandlerI(k)
           r == CH_IRQ_EPILOGUE(h)
<1>1. KernelRight(k) /\ Placed(k, pc, api) /\ Stable(k, pc, api)
  BY DEF IInv, Stable
<1>2. Interrupts /\ k' = r /\ systime' = 1 - systime /\ pc' = pc /\ waiting' = waiting
  BY DEF Tick
<1>3. k.due[k.current] = 0 /\ Listed(k, {}) /\ Counted(k) /\ TimersRight(k) /\ k \in KernelState
  BY <1>1, <1>2, InterruptIs DEF KernelRight, Listed
<1>4. PICK F : TimeGoesOn(k, h, F)
  BY <1>3, TickIs
<1>5. Listed(h, {})
  BY <1>4 DEF TimeGoesOn
<1>6. Settles(h, r)
  BY <1>5, SettlesI
<1> HIDE DEF h, r
<1>7. Same(h, r) /\ View(r) = View(h) /\ r.msg = h.msg
  BY <1>6 DEF Settles, Same
<1>8. Changed(k, h, api)
  BY <1>1, <1>4, TickChanges
<1>9. Stable(r, pc, api)
  BY <1>1, <1>6, <1>8, Stays
<1>10. KernelRight(k') /\ Placed(k', pc', api)
  BY <1>2, <1>9 DEF Stable
<1>11. systime' \in 0..1
  BY <1>2 DEF IInv
<1>12. Untouched(api)'
  BY <1>2, UntouchedStays DEF IInv
<1>13. Woke(View(k), View(r), F)
  BY <1>3, <1>4, <1>7, TickWakes
<1>14. ExitOK(View(k'), waiting')
  <2>1. ExitOK(View(k), waiting)
    BY DEF IInv
  <2>2. ExitOK(View(r), waiting)
    BY <1>13, <2>1, ExitTick
  <2> QED
    BY <1>2, <2>2
<1>15. ASSUME api = "msg"
       PROVE  MsgOK(View(k'), pc', msgqueue', taken')
  <2>1. MsgOK(View(k), pc, msgqueue, taken) /\ \A t \in Thread : View(k)[t] \in ViewsOf("msg")
    BY <1>1, <1>15 DEF IInv, Placed
  <2>2. MsgOK(View(r), pc, msgqueue, taken)
    BY <1>13, <2>1, MsgTick
  <2> QED
    BY <1>2, <2>2 DEF Others
<1>16. EvtOK(View(k'), pc', k.msg', epending', ewmask', listeners')
  <2>1. EvtOK(View(k), pc, k.msg, epending, ewmask, listeners)
    BY DEF IInv
  <2>2. \A t \in Thread : r.msg[t] = IF t \in F /\ View(k)[t] # "RUNS" THEN "TIMEOUT" ELSE k.msg[t]
    BY <1>4, <1>7 DEF TimeGoesOn
  <2>3. EvtOK(View(r), pc, r.msg, epending, ewmask, listeners)
    BY <1>13, <2>1, <2>2, EvtTick
  <2> QED
    BY <1>2, <2>3 DEF Others
<1>17. ASSUME api = "mbx"
       PROVE  MbxOK(k', pc', mb', posted')
  <2>1. MbxOK(k, pc, mb, posted)
    BY <1>17 DEF IInv
  <2>2. MbxOK(r, pc, mb, posted)
    BY <1>4, <1>7, <2>1, MbxTick
  <2> QED
    BY <1>2, <2>2 DEF Others
<1>18. IoqOK(k', pc', io', q_counter', held')
  <2>1. IoqOK(k, pc, io, q_counter, held)
    BY DEF IInv
  <2>2. IoqOK(r, pc, io, q_counter, held)
    BY <1>3, <1>4, <1>7, <2>1, IoqTick
  <2> QED
    BY <1>2, <2>2 DEF Others
<1> QED
  BY <1>10, <1>11, <1>12, <1>14, <1>15, <1>16, <1>17, <1>18, StepRight

(* A thread goes on after it has slept.                                    *)
LEMMA ResumedChanges ==
  ASSUME NEW kk, NEW p, NEW g, Stable(kk, p, g), NEW h, Resumed(kk, h)
  PROVE  Changed(kk, h, g) /\ Settles(h, h) /\ h.due[kk.current] = 0
         /\ View(h) = View(kk) /\ h.current = kk.current
<1>1. Listed(kk, {}) /\ HighestCurrent(kk) /\ Counted(kk)
  BY DEF Stable, KernelRight
<1>2. Listed(h, {}) /\ View(h) = View(kk) /\ HighestCurrent(h)
  BY <1>1, ResumedListed
<1>3. Counted(h)
  BY <1>1 DEF Counted, Resumed
<1>4. h.due[kk.current] = 0 /\ h.due = [kk.due EXCEPT ![kk.current] = 0] /\ kk.due \in [Thread -> Nat]
  BY <1>1, KernelIs DEF Resumed, Listed
<1>5. Frame(kk, h, Thread)
  BY <1>2, <1>4 DEF Frame
<1>6. h.prio = kk.prio /\ h.realprio = kk.realprio /\ h.q = kk.q /\ TimersAre(h.vt, h.due)
      /\ h.current = kk.current
  BY DEF Resumed, SameThreads
<1>7. Settles(h, h)
  BY <1>2, SettlesItself
<1> QED
  BY <1>2, <1>3, <1>4, <1>5, <1>6, <1>7 DEF Changed, Stable, Placed

(* A thread that returns from its wait to its own code.                     *)
LEMMA ReturnStable ==
  ASSUME NEW kk, NEW p, NEW g, Stable(kk, p, g), p[kk.current] # InUser,
         NEW h, Resumed(kk, h), NEW r, Settles(h, r)
  PROVE  Stable(r, [p EXCEPT ![kk.current] = InUser], g)
<1> DEFINE c == kk.current
<1>1. Listed(kk, {})
  BY DEF Stable, KernelRight
<1>2. c \in Thread /\ View(kk)[c] = "RUNS"
  BY <1>1, CurrentRuns
<1>3. c # Idle
  BY DEF Stable, Placed
<1>4. Changed(kk, h, g) /\ h.due[c] = 0 /\ View(h) = View(kk)
  BY ResumedChanges
<1>5. InUser \in PlacesOf(g)
  BY DEF PlacesOf
<1> HIDE DEF c
<1>6. Stable(r, [p EXCEPT ![c] = InUser], g)
  BY <1>2, <1>3, <1>4, <1>5, GoesElsewhere
<1> QED
  BY <1>6 DEF c

(* The return from a wait that has nothing else to do keeps the invariant.  *)
LEMMA WokenRight ==
  ASSUME IInv, Woken, UNCHANGED Others, api' = api
  PROVE  IInv'
<1> DEFINE r == AwakeOf(k)
           p == [pc EXCEPT ![k.current] = InUser]
<1>1. Stable(k, pc, api) /\ Listed(k, {}) /\ k \in KernelState /\ TimersAre(k.vt, k.due)
  BY DEF IInv, Stable, KernelRight, TimersRight, Listed
<1>2. pc[k.current][1] = "woken" /\ k' = r /\ pc' = p /\ waiting' = waiting /\ systime' = systime
  BY DEF Woken, GoesOn, Returns, Awake, AwakeOf, me
<1>3. pc[k.current] # InUser
  BY <1>2 DEF InUser
<1>4. k.current \in Thread
  BY <1>1, KernelIs
<1>5. api \in {"threads", "sem", "mtx", "msg"}
  <2>1. pc[k.current] \in PlacesOf(api)
    BY <1>1, <1>4 DEF Stable, Placed
  <2>2. "woken" \in NamesOf(api)
    BY <1>2, <2>1, PlaceNames
  <2>3. api \in {"threads", "sem", "mtx", "msg", "evt", "mbx"} \cup Queue
    BY KernelAssumption DEF IInv
  <2> QED
    BY <2>2, <2>3 DEF NamesOf, Queue
<1>6. Resumed(k, r)
  BY <1>1, AwakeIs
<1> HIDE DEF r
<1>7. Settles(r, r) /\ View(r) = View(k)
  BY <1>1, <1>6, ResumedChanges
<1>8. Stable(r, p, api)
  BY <1>1, <1>3, <1>6, <1>7, ReturnStable
<1>9. KernelRight(k') /\ Placed(k', pc', api)
  BY <1>2, <1>8 DEF Stable
<1>10. Untouched(api)'
  BY <1>2, UntouchedStays DEF IInv
<1>11. ExitOK(View(k'), waiting')
  BY <1>2, <1>7 DEF IInv
<1>12. MsgOK(View(k'), pc', msgqueue', taken')
  <2>1. MsgOK(View(k), pc, msgqueue, taken)
    BY DEF IInv
  <2>2. pc \in [Thread -> PlacesOf(api)] /\ \A t \in Thread : p[t] = IF t = k.current THEN InUser ELSE pc[t]
    BY <1>1, <1>4 DEF Stable, Placed
  <2>3. View(k)[k.current] = "RUNS" /\ InUser # <<"msg">>
    BY <1>1, CurrentRuns DEF InUser
  <2>4. \A t \in Thread : (View(k)[t] = "WTMSG" => p[t] = pc[t]) /\ (p[t] = <<"msg">> => pc[t] = <<"msg">>)
    BY <2>2, <2>3
  <2> HIDE DEF p
  <2>5. MsgOK(View(k), p, msgqueue, taken)
    BY <2>1, <2>4 DEF MsgOK
  <2> QED
    BY <1>2, <1>7, <2>5 DEF Others
<1> QED
  BY <1>2, <1>5, <1>9, <1>10, <1>11, <1>12, StepRight DEF IInv, Queue

(* The same with a step for what it is applied to only.                    *)
LEMMA LoopRuns ==
  ASSUME NEW n \in Nat, NEW H, NEW x \in H[0], NEW G,
         \A i \in 1..n : G[i] \in [H[i - 1] -> H[i]]
  PROVE  \E f : Looped(f, n, x, H, G)
<1> DEFINE S == UNION {H[i] : i \in 0..n}
           F == [i \in 1..n |-> [y \in S |-> IF y \in H[i - 1] THEN G[i][y] ELSE y]]
<1>1. \A i \in 0..n : H[i] \subseteq S
  OBVIOUS
<1>2. \A i \in 1..n : i - 1 \in 0..n /\ i \in 0..n
  OBVIOUS
<1>3. \A i \in 1..n : \A y \in H[i - 1] : G[i][y] \in H[i]
  OBVIOUS
<1>4. \A i \in 1..n : \A y \in S : (IF y \in H[i - 1] THEN G[i][y] ELSE y) \in S
  BY <1>1, <1>2, <1>3
<1>5. \A i \in 1..n : \A y \in H[i - 1] : y \in S
  BY <1>1, <1>2
<1> HIDE DEF S
<1>6. F \in [1..n -> [S -> S]]
  BY <1>4
<1>7. \A i \in 1..n : \A y \in H[i - 1] : F[i][y] = G[i][y]
  BY <1>5
<1> HIDE DEF F
<1>8. \A i \in 1..n : \A y \in H[i - 1] : F[i][y] \in H[i]
  BY <1>3, <1>7
<1>9. PICK f : Looped(f, n, x, H, F)
  BY <1>1, <1>6, <1>8, LoopExists
<1>10. Looped(f, n, x, H, G)
  BY <1>7, <1>9 DEF Looped
<1> QED
  BY <1>10

Readied(l, y, L, T) ==
  /\ Listed(y, L \ T) /\ T \subseteq L
  /\ y.current = l.current /\ SameRest(l, y) /\ y.msg = l.msg
  /\ \A u \in Thread : View(y)[u] = IF u \in T THEN "RUNS" ELSE View(l)[u]
First(s, i) == {s[j] : j \in 1..i}
AfterReady(l, L, s, i) == {y \in KernelState : Readied(l, y, L, First(s, i))}

(* One more thread of a set is made ready.                                  *)
LEMMA ReadiedMore ==
  ASSUME NEW l, NEW L, NEW T, NEW y, Readied(l, y, L, T), NEW t \in L, t \notin T
  PROVE  Readied(l, chSchReadyI(y, t), L, T \cup {t})
<1> DEFINE z == chSchReadyI(y, t)
<1>1. Listed(y, L \ T) /\ t \in L \ T /\ t \in Thread
  BY DEF Readied, Listed
<1> DEFINE X == L \ T
<1>2. Listed(y, X) /\ t \in X
  BY <1>1
<1> HIDE DEF X
<1>3. /\ Listed(z, X \ {t}) /\ View(z) = [View(y) EXCEPT ![t] = "RUNS"]
      /\ SameRest(y, z) /\ z.msg = y.msg /\ z.current = y.current
  BY <1>2, ReadyIListed
<1>4. X \ {t} = L \ (T \cup {t})
  BY DEF X
<1>5. \A u \in Thread : View(z)[u] = IF u = t THEN "RUNS" ELSE View(y)[u]
  BY <1>3 DEF View
<1> HIDE DEF z
<1>6. Listed(z, L \ (T \cup {t})) /\ T \cup {t} \subseteq L
  BY <1>1, <1>3, <1>4 DEF Readied
<1>7. \A u \in Thread : View(z)[u] = IF u \in T \cup {t} THEN "RUNS" ELSE View(l)[u]
  BY <1>5 DEF Readied
<1>8. Readied(l, z, L, T \cup {t})
  BY <1>3, <1>6, <1>7 DEF Readied, SameRest
<1> QED
  BY <1>8 DEF z

(* The first i members are the first i - 1 and one more.                    *)
LEMMA FirstIs ==
  ASSUME NEW s, NEW n \in Nat, \A i, j \in 1..n : s[i] = s[j] => i = j, NEW i \in 1..n
  PROVE  First(s, i) = First(s, i - 1) \cup {s[i]} /\ s[i] \notin First(s, i - 1)
<1>1. 1..i = 1..(i - 1) \cup {i} /\ 1..i \subseteq 1..n
  OBVIOUS
<1> QED
  BY <1>1 DEF First

(* The loop that makes a list's threads ready makes all of them ready.      *)
LEMMA AllReady ==
  ASSUME NEW l, NEW L, Listed(l, L), NEW s, NEW n \in Nat, \A i \in 1..n : s[i] \in L,
         \A i, j \in 1..n : s[i] = s[j] => i = j,
         NEW f, f = CHOOSE g : g = [i \in 0..n |-> IF i = 0 THEN l
                                                   ELSE chSchReadyI(g[i - 1], s[i])]
  PROVE  Readied(l, f[n], L, First(s, n))
<1> DEFINE W(y, i) == chSchReadyI(y, s[i])
           H == [i \in 0..n |-> AfterReady(l, L, s, i)]
           G == [i \in 1..n |-> [y \in H[i - 1] |-> W(y, i)]]
           E(g) == g = [i \in 0..n |-> IF i = 0 THEN l ELSE W(g[i - 1], i)]
<1>1. l \in H[0]
  <2>1. First(s, 0) = {} /\ L \ {} = L /\ {} \subseteq L
    BY DEF First
  <2>2. Readied(l, l, L, {})
    BY <2>1 DEF Readied, SameRest
  <2>3. l \in KernelState /\ 0 \in 0..n
    BY DEF Listed
  <2> QED
    BY <2>1, <2>2, <2>3 DEF AfterReady
<1>2. ASSUME NEW i \in 1..n, NEW y \in H[i - 1]
      PROVE  W(y, i) \in H[i]
  <2> DEFINE t == s[i]
             X == First(s, i - 1)
             z == W(y, i)
  <2>1. i - 1 \in 0..n /\ i \in 0..n
    OBVIOUS
  <2>2. Readied(l, y, L, X) /\ t \in L
    BY <1>2, <2>1 DEF AfterReady
  <2>3. First(s, i) = X \cup {t} /\ t \notin X
    BY FirstIs
  <2> HIDE DEF X, t
  <2>4. Readied(l, chSchReadyI(y, t), L, X \cup {t})
    BY <2>2, <2>3, ReadiedMore
  <2>5. Readied(l, z, L, First(s, i))
    BY <2>3, <2>4 DEF t
  <2>6. z \in KernelState
    BY <2>5 DEF Readied, Listed
  <2> QED
    BY <2>1, <2>5, <2>6 DEF AfterReady
<1> HIDE DEF H, W
<1>3. \A i \in 1..n : G[i] \in [H[i - 1] -> H[i]]
  BY <1>2
<1>4. \A i \in 1..n : \A y \in H[i - 1] : G[i][y] = W(y, i)
  OBVIOUS
<1> HIDE DEF G
<1>5. PICK g : Looped(g, n, l, H, G)
  BY <1>1, <1>3, LoopRuns
<1>6. E(g)
  <2>1. /\ g = [i \in 0..n |-> g[i]] /\ g[0] = l
        /\ \A i \in 1..n : g[i - 1] \in H[i - 1] /\ g[i] = G[i][g[i - 1]]
    BY <1>5 DEF Looped
  <2>2. \A i \in 0..n : g[i] = IF i = 0 THEN l ELSE W(g[i - 1], i)
    <3> SUFFICES ASSUME NEW i \in 0..n, i # 0
                 PROVE  g[i] = W(g[i - 1], i)
      BY <2>1
    <3>1. i \in 1..n
      OBVIOUS
    <3> QED
      BY <1>4, <2>1, <3>1
  <2> QED
    BY <2>1, <2>2
<1>7. E(f)
  BY <1>6 DEF W
<1>8. f[0] = l /\ \A i \in 1..n : f[i] = W(f[i - 1], i)
  <2>1. f = [i \in 0..n |-> IF i = 0 THEN l ELSE W(f[i - 1], i)]
    BY <1>7
  <2> HIDE DEF E
  <2>2. \A i \in 0..n : f[i] = IF i = 0 THEN l ELSE W(f[i - 1], i)
    BY <2>1
  <2>3. 0 \in 0..n /\ \A i \in 1..n : i \in 0..n /\ i # 0
    OBVIOUS
  <2> QED
    BY <2>2, <2>3
<1> HIDE DEF E
<1>9. f[n] \in H[n]
  <2>1. \A i \in 1..n : f[i - 1] \in H[i - 1] => f[i] \in H[i]
    BY <1>2, <1>8
  <2>2. f[0] \in H[0]
    BY <1>1, <1>8
  <2>3. \A i \in 0..n : f[i] \in H[i]
    BY <2>1, <2>2, LoopStays
  <2> QED
    BY <2>3
<1> QED
  BY <1>9 DEF H, AfterReady

(* A thread in no list: what it is changes no list.                        *)
LEMMA LooseAll ==
  ASSUME NEW kk, Listed(kk, {}), NEW L \in SUBSET Thread,
         \A t \in L : kk.state[t] \notin Runs \cup Waits
  PROVE  Listed(kk, L)
<1>1. \A o \in Object : Kind(o) \in Waits
  BY DEF Kind, Waits
<1>2. \A o \in Object : \A t \in L : t \notin Members(kk.q[o])
  BY <1>1 DEF Listed, QueuesRight
<1>3. kk.current \notin L
  BY DEF Listed, ReadyRight, Runs
<1>4. QueuesRight(kk, L)
  BY <1>2 DEF Listed, QueuesRight
<1>5. ReadyRight(kk, L)
  BY <1>3 DEF Listed, ReadyRight, Runs
<1> QED
  BY <1>4, <1>5 DEF Listed

(* A thread in no list can change its state and its priority.               *)
LEMMA LoosePrio ==
  ASSUME NEW kk, Listed(kk, {}), NEW t \in Thread, kk.state[t] \notin Runs \cup Waits,
         NEW r \in KernelState, NEW p, NEW s, s \notin Runs \cup Waits,
         r.state = [kk.state EXCEPT ![t] = s], r.prio = [kk.prio EXCEPT ![t] = p],
         r.ready = kk.ready, r.current = kk.current, r.q = kk.q
  PROVE  Listed(r, {}) /\ View(r) = [View(kk) EXCEPT ![t] = s]
         /\ (HighestCurrent(kk) => HighestCurrent(r))
<1>1. kk \in KernelState
  BY DEF Listed
<1>2. kk.prio \in [Thread -> Prios] /\ kk.current \in Thread /\ kk.state \in [Thread -> States]
      /\ kk.q \in [Object -> Seq(Thread)] /\ kk.ready \in Seq(Thread)
  BY <1>1, KernelIs
<1>3. \A u \in Thread : r.prio[u] = (IF u = t THEN p ELSE kk.prio[u])
                     /\ r.state[u] = (IF u = t THEN s ELSE kk.state[u])
  BY <1>2
<1>4. QueuesRight(kk, {}) /\ ReadyRight(kk, {})
  BY DEF Listed
<1>5. \A u \in Seq(Thread) : t \notin Members(u) /\ Ranked(kk.prio, u)
                               => Ranked(r.prio, u)
  <2> SUFFICES ASSUME NEW u \in Seq(Thread), t \notin Members(u),
                      Ranked(kk.prio, u)
               PROVE  Ranked(r.prio, u)
    OBVIOUS
  <2>1. \A i \in 1..Len(u) : u[i] \in Thread /\ u[i] # t
    BY MembersAre
  <2> QED
    BY <1>3, <2>1 DEF Ranked
<1>6. t \notin Members(kk.ready) /\ t # kk.current
  BY <1>4 DEF ReadyRight, Runs
<1>7. \A o \in Object : kk.q[o] \in Seq(Thread) /\ t \notin Members(kk.q[o])
  <2>1. \A o \in Object : Kind(o) \in Waits
    BY DEF Kind, Waits
  <2> QED
    BY <1>2, <1>4, <2>1 DEF QueuesRight
<1>8. \A m \in Mutex : m \in Object
  BY MutexAssumption
<1>9. QueuesRight(r, {})
  BY <1>3, <1>4, <1>5, <1>7, <1>8 DEF QueuesRight
<1>10. ReadyRight(r, {})
  <2>1. \A u \in Thread : /\ r.state[u] = "READY" <=> kk.state[u] = "READY"
                          /\ r.state[u] = "CURRENT" <=> kk.state[u] = "CURRENT"
                          /\ r.state[u] \in Runs <=> kk.state[u] \in Runs
    <3>1. s \notin {"READY", "CURRENT"} /\ kk.state[t] \notin {"READY", "CURRENT"}
      BY DEF Runs
    <3>2. \A u \in Thread : \/ r.state[u] = kk.state[u]
                            \/ /\ r.state[u] \notin {"READY", "CURRENT"}
                               /\ kk.state[u] \notin {"READY", "CURRENT"}
      BY <1>3, <3>1
    <3> QED
      BY <3>2 DEF Runs
  <2>2. Ranked(r.prio, r.ready)
    BY <1>2, <1>4, <1>5, <1>6 DEF ReadyRight
  <2>3. Members(r.ready) = {u \in Thread \ {} : r.state[u] = "READY"} /\ Once(r.ready)
    <3>1. Members(kk.ready) = {u \in Thread \ {} : kk.state[u] = "READY"} /\ Once(kk.ready)
      BY <1>4 DEF ReadyRight
    <3> QED
      BY <2>1, <3>1
  <2>4. \A u \in Thread \ {} : r.state[u] = "CURRENT" <=> u = r.current
    <3>1. \A u \in Thread \ {} : kk.state[u] = "CURRENT" <=> u = kk.current
      BY <1>4 DEF ReadyRight
    <3> QED
      BY <2>1, <3>1
  <2>5. r.state[Idle] \in Runs
    BY <1>4, <2>1, ThreadAssumption DEF ReadyRight
  <2> QED
    BY <2>2, <2>3, <2>4, <2>5 DEF ReadyRight
<1>11. View(r) = [View(kk) EXCEPT ![t] = s]
  BY <1>3 DEF View
<1>12. HighestCurrent(kk) => HighestCurrent(r)
  BY <1>3, <1>6 DEF HighestCurrent, Runs
<1> QED
  BY <1>9, <1>10, <1>11, <1>12 DEF Listed

Made(kk, r, t, p) ==
  /\ Listed(r, {}) /\ HighestCurrent(r)
  /\ r.prio = [kk.prio EXCEPT ![t] = p] /\ r.realprio = [kk.realprio EXCEPT ![t] = p]
  /\ r.vt = kk.vt /\ r.due = kk.due /\ r.q = kk.q /\ r.cnt = kk.cnt

(* thread_init makes a suspended thread of a free one.                      *)
LEMMA ThreadInitIs ==
  ASSUME NEW kk, Listed(kk, {}), HighestCurrent(kk), NEW t \in Thread,
         kk.state[t] = "NONE", NEW p \in Prios, NEW r, r = thread_init(kk, t, p)
  PROVE  /\ Made(kk, r, t, p) /\ View(r) = [View(kk) EXCEPT ![t] = "SUSPENDED"]
         /\ r.msg = kk.msg /\ r.current = kk.current
<1>1. kk \in KernelState
  BY DEF Listed
<1> DEFINE a == [kk.prio EXCEPT ![t] = p]
           b == [kk.realprio EXCEPT ![t] = p]
           c == [kk.state EXCEPT ![t] = "SUSPENDED"]
           d == [kk.preempt EXCEPT ![t] = Quantum]
<1>2. r = [kk EXCEPT !.prio = a, !.realprio = b, !.state = c, !.preempt = d]
  BY DEF thread_init
<1>3. a \in [Thread -> Prios] /\ b \in [Thread -> Prios] /\ c \in [Thread -> States]
  BY <1>1, KernelIs DEF States
<1>4. d \in [Thread -> 0..Quantum]
  <2>1. Quantum \in 0..Quantum
    BY ThreadAssumption
  <2> QED
    BY <1>1, <2>1, KernelIs
<1> HIDE DEF a, b, c, d
<1>5. /\ r \in KernelState /\ r.prio = a /\ r.realprio = b /\ r.state = c
      /\ r.ready = kk.ready /\ r.current = kk.current /\ r.q = kk.q /\ r.vt = kk.vt
      /\ r.due = kk.due /\ r.cnt = kk.cnt /\ r.msg = kk.msg
  BY <1>1, <1>2, <1>3, <1>4 DEF KernelState
<1>6. kk.state[t] \notin Runs \cup Waits /\ "SUSPENDED" \notin Runs \cup Waits
  BY DEF Runs, Waits
<1>7. r.state = [kk.state EXCEPT ![t] = "SUSPENDED"] /\ r.prio = [kk.prio EXCEPT ![t] = p]
  BY <1>5 DEF a, c
<1>8. Listed(r, {}) /\ View(r) = [View(kk) EXCEPT ![t] = "SUSPENDED"]
      /\ (HighestCurrent(kk) => HighestCurrent(r))
  BY <1>5, <1>6, <1>7, LoosePrio
<1> QED
  BY <1>5, <1>7, <1>8 DEF Made, b

(* A thread in no list is woken.                                            *)
LEMMA LooseWoken ==
  ASSUME NEW kk, Listed(kk, {}), HighestCurrent(kk), NEW t \in Thread,
         kk.state[t] \notin Runs \cup Waits, NEW m \in Messages
  PROVE  Awoken(kk, kk, chSchWakeupS(kk, t, m), t, m)
<1>1. Listed(kk, {} \cup {t})
  BY LooseListed
<1>2. {} \cup {t} = {t}
  OBVIOUS
<1>3. Listed(kk, {t})
  BY <1>1, <1>2
<1>4. HighestOf(kk, t)
  BY DEF HighestOf, HighestCurrent
<1> DEFINE r == chSchWakeupS(kk, t, m)
<1>5. /\ Listed(r, {}) /\ HighestCurrent(r)
      /\ View(r) = [View(kk) EXCEPT ![t] = "RUNS"]
      /\ SameRest(kk, r) /\ r.msg = [kk.msg EXCEPT ![t] = m]
  BY <1>3, <1>4, WakeupSListed
<1> HIDE DEF r
<1>6. Awoken(kk, kk, r, t, m)
  BY <1>5 DEF Awoken
<1> QED
  BY <1>6 DEF r

(* A thread that was created is ready or runs.                              *)
LEMMA CreatedIs ==
  ASSUME NEW kk, Listed(kk, {}), HighestCurrent(kk), NEW t \in Thread,
         kk.state[t] = "NONE", NEW p \in Prios, NEW r, r = Created(kk, t, p)
  PROVE  /\ Made(kk, r, t, p) /\ View(r) = [View(kk) EXCEPT ![t] = "RUNS"]
         /\ r.msg = [kk.msg EXCEPT ![t] = "OK"]
<1> DEFINE h == thread_init(kk, t, p)
<1>1. r = chSchWakeupS(h, t, "OK")
  BY DEF Created
<1> HIDE DEF h
<1>2. h = thread_init(kk, t, p)
  BY DEF h
<1>3. Made(kk, h, t, p)
  BY <1>2, ThreadInitIs
<1>4. View(h) = [View(kk) EXCEPT ![t] = "SUSPENDED"] /\ h.msg = kk.msg
  BY <1>2, <1>3, ThreadInitIs
<1>5. View(h)[t] = "SUSPENDED"
  BY <1>4 DEF View
<1>6. h.state[t] \notin Runs \cup Waits
  BY <1>5 DEF View, Runs, Waits
<1>7. "OK" \in Messages
  BY DEF Messages
<1>8. Listed(h, {}) /\ HighestCurrent(h)
  BY <1>3 DEF Made
<1>9. Awoken(h, h, r, t, "OK")
  BY <1>1, <1>6, <1>7, <1>8, LooseWoken
<1>10. View(r) = [View(kk) EXCEPT ![t] = "RUNS"]
  BY <1>4, <1>9 DEF Awoken, View
<1>11. Made(kk, r, t, p)
  BY <1>3, <1>9 DEF Made, Awoken, SameRest
<1> QED
  BY <1>4, <1>9, <1>10, <1>11 DEF Awoken

(* Another thread is created or ends its wait, the caller's place stays.   *)
LEMMA InUserIs ==
  ASSUME NEW g, NEW x \in PlacesOf(g), x[1] = "user", g \in Group
  PROVE  x = InUser
<1>1. g \in {"threads", "sem", "mtx", "msg", "evt", "mbx"} \cup Queue
  BY KernelAssumption
<1>2. g # "user"
  BY <1>1 DEF Queue
<1>3. CASE g \in {"threads", "sem"}
  BY <1>3 DEF PlacesOf
<1>4. CASE g = "mtx"
  BY <1>4 DEF PlacesOf
<1>5. CASE g = "msg"
  BY <1>5 DEF PlacesOf
<1>6. CASE g = "evt"
  BY <1>6 DEF PlacesOf
<1>7. CASE g = "mbx"
  BY <1>7 DEF PlacesOf
<1>8. CASE g \in Queue
  <2>1. x # InUser => x \in {<<"more", g, n, y>> : n \in 1..MaxBytes + 1, y \in Limits}
                         \cup {<<g, n, y>> : n \in 1..MaxBytes + 1, y \in Limits}
    BY <1>8 DEF PlacesOf, Queue
  <2>2. x # InUser => x[1] = "more" \/ x[1] = g
    BY <2>1
  <2> QED
    BY <1>2, <2>2
<1> QED
  BY <1>1, <1>3, <1>4, <1>5, <1>6, <1>7, <1>8

(* A thread that stays where it is.                                         *)
LEMMA SamePlace ==
  ASSUME NEW g, NEW kk, NEW p, Placed(kk, p, g), NEW t \in Thread
  PROVE  p = [p EXCEPT ![t] = p[t]] /\ p[t] \in PlacesOf(g)
BY DEF Placed

(* One thread changes from absent to absent, at its place.                 *)
LEMMA AbsentStable ==
  ASSUME NEW kk, NEW p, NEW g, Stable(kk, p, g), NEW t \in Thread,
         NEW r, Whole(r, g), Frame(kk, r, Thread \ {t}),
         View(kk)[t] \in Absent \/ p[t][1] = "user",
         View(r)[t] \in ViewsOf(g) \cap Absent, r.due[t] = 0
  PROVE  Stable(r, p, g)
<1> DEFINE x == p[t]
<1>1. KernelRight(kk) /\ Placed(kk, p, g)
  BY DEF Stable
<1>2. p = [p EXCEPT ![t] = x] /\ x \in PlacesOf(g)
  BY <1>1, SamePlace
<1>3. x[1] = "user"
  BY <1>1 DEF Placed
<1>4. At(r, t, x, g)
  BY <1>1, <1>3 DEF At, Placed
<1> HIDE DEF x
<1>5. KernelRight(r) /\ Placed(r, [p EXCEPT ![t] = x], g)
  BY <1>1, <1>2, <1>4, Moved
<1> QED
  BY <1>2, <1>5 DEF Stable

(* chThdCreateI keeps the invariant.                                        *)
LEMMA CreateIRight ==
  ASSUME IInv, api = "threads", UNCHANGED Others, api' = api,
         NEW t \in Thread, NEW p \in Prio, chThdCreateI(t, p)
  PROVE  IInv'
<1> DEFINE r == thread_init(k, t, p)
<1>1. Stable(k, pc, api) /\ Listed(k, {}) /\ HighestCurrent(k) /\ k \in KernelState /\ Counted(k)
      /\ TimersAre(k.vt, k.due)
  BY DEF IInv, Stable, KernelRight, TimersRight, Listed
<1>2. k.state[t] = "NONE" /\ k' = r /\ UNCHANGED <<pc, waiting, systime>>
  BY DEF chThdCreateI
<1>3. p \in Prios
  BY ThreadsAssumption DEF Prios
<1> HIDE DEF r
<1>4. Made(k, r, t, p)
  BY <1>1, <1>2, <1>3, ThreadInitIs DEF r
<1>5. View(r) = [View(k) EXCEPT ![t] = "SUSPENDED"]
  BY <1>1, <1>2, <1>3, <1>4, ThreadInitIs DEF r
<1>6. View(k)[t] = "NONE"
  BY <1>2 DEF View, Runs
<1>7. \A u \in Thread : View(r)[u] = IF u = t THEN "SUSPENDED" ELSE View(k)[u]
  BY <1>5 DEF View
<1>8. Whole(r, api)
  <2>1. Counted(r)
    BY <1>1, <1>4 DEF Counted, Made
  <2>2. r.prio = r.realprio
    BY <1>1, <1>4 DEF Made, Stable, Placed
  <2> QED
    BY <1>1, <1>4, <2>1, <2>2 DEF Whole, Made, Stable, Placed
<1>9. Frame(k, r, Thread \ {t})
  BY <1>4, <1>7 DEF Frame, Made
<1>10. r.due[t] = 0
  <2>1. View(k)[t] \in Absent /\ k.due[t] \in Nat
    BY <1>1, <1>6, KernelIs DEF Absent
  <2>2. k.due[t] = 0
    BY <1>1, <1>6, <2>1 DEF IInv, KernelRight, TimersRight, Timed
  <2> QED
    BY <1>4, <2>2 DEF Made
<1>11. Stable(r, pc, api)
  BY <1>1, <1>6, <1>7, <1>8, <1>9, <1>10, AbsentStable DEF ViewsOf, Absent
<1>12. Untouched(api)'
  BY <1>2, UntouchedStays DEF IInv
<1>13. ExitOK(View(k'), waiting')
  <2>1. ExitOK(View(k), waiting)
    BY DEF IInv
  <2>2. \A u \in Thread : Members(waiting[u]) \subseteq Thread
    BY <2>1, MembersAre DEF ExitOK
  <2>3. ExitOK(View(r), waiting)
    BY <1>6, <1>7, <2>1, <2>2 DEF ExitOK
  <2> QED
    BY <1>2, <2>3
<1>14. KernelRight(k') /\ Placed(k', pc', api)
  BY <1>2, <1>11 DEF Stable
<1>15. systime' \in 0..1 /\ api \notin Queue
  BY <1>2 DEF IInv, Queue
<1> QED
  BY <1>12, <1>13, <1>14, <1>15, StepRight

(* A step of the group threads that makes a thread ready.                  *)
LEMMA ThreadsRight ==
  ASSUME IInv, api = "threads", UNCHANGED Others, api' = api, systime' = systime,
         Stable(k', pc', api), ExitOK(View(k'), waiting')
  PROVE  IInv'
<1>1. KernelRight(k') /\ Placed(k', pc', api)
  BY DEF Stable
<1>2. Untouched(api)'
  BY DEF IInv, Untouched, Others, MtxInit, MsgInit, EvtInit, chMBInit, chIQInit
<1>3. systime' \in 0..1 /\ api \notin Queue
  BY DEF IInv, Queue
<1> QED
  BY <1>1, <1>2, <1>3, StepRight

(* A thread that was created or woken is nobody's that waits for an end.   *)
LEMMA ExitRuns ==
  ASSUME NEW v, NEW w, ExitOK(v, w), NEW t \in Thread, v[t] # "WTEXIT", NEW u,
         \A x \in Thread : u[x] = IF x = t THEN "RUNS" ELSE v[x]
  PROVE  ExitOK(u, w)
<1>1. \A x \in Thread : Members(w[x]) \subseteq Thread
  BY MembersAre DEF ExitOK
<1> QED
  BY <1>1 DEF ExitOK

(* chThdCreateStatic keeps the invariant.                                   *)
LEMMA CreateRight ==
  ASSUME IInv, api = "threads", UNCHANGED Others, api' = api,
         NEW t \in Thread, NEW p \in Prio, chThdCreateStatic(t, p)
  PROVE  IInv'
<1> DEFINE r == Created(k, t, p)
<1>1. Stable(k, pc, api) /\ Listed(k, {}) /\ HighestCurrent(k) /\ k \in KernelState /\ Counted(k)
      /\ TimersAre(k.vt, k.due)
  BY DEF IInv, Stable, KernelRight, TimersRight, Listed
<1>2. k.state[t] = "NONE" /\ k' = r /\ UNCHANGED <<pc, waiting, systime>>
  BY DEF chThdCreateStatic
<1>3. p \in Prios
  BY ThreadsAssumption DEF Prios
<1> HIDE DEF r
<1>4. Made(k, r, t, p)
  BY <1>1, <1>2, <1>3, CreatedIs DEF r
<1>5. View(r) = [View(k) EXCEPT ![t] = "RUNS"]
  <2>1. r = Created(k, t, p)
    BY DEF r
  <2>2. /\ Made(k, r, t, p) /\ View(r) = [View(k) EXCEPT ![t] = "RUNS"]
        /\ r.msg = [k.msg EXCEPT ![t] = "OK"]
    BY <1>1, <1>2, <1>3, <2>1, CreatedIs
  <2> QED
    BY <2>2
<1>6. View(k)[t] = "NONE"
  BY <1>2 DEF View, Runs
<1>7. \A u \in Thread : View(r)[u] = IF u = t THEN "RUNS" ELSE View(k)[u]
  BY <1>5 DEF View
<1>8. Changed(k, r, api)
  <2>1. Counted(r)
    BY <1>1, <1>4 DEF Counted, Made
  <2>2. r.prio = r.realprio
    BY <1>1, <1>4 DEF Made, Stable, Placed
  <2>3. Frame(k, r, Thread)
    BY <1>4, <1>7 DEF Frame, Made
  <2> QED
    BY <1>1, <1>4, <2>1, <2>2, <2>3 DEF Changed, Made, Stable, Placed
<1>9. Settles(r, r)
  BY <1>4, SettlesItself DEF Made
<1>10. Stable(r, pc, api)
  BY <1>1, <1>8, <1>9, Stays
<1>11. ExitOK(View(r), waiting)
  <2>1. ExitOK(View(k), waiting) /\ View(k)[t] # "WTEXIT"
    BY <1>6 DEF IInv
  <2> QED
    BY <1>7, <2>1, ExitRuns
<1> QED
  BY <1>2, <1>10, <1>11, ThreadsRight

(* A wake up leaves the lists whole, with the highest running.              *)
LEMMA AwokenChanges ==
  ASSUME NEW kk, NEW p, NEW g, Stable(kk, p, g), NEW e, NEW r, NEW t \in Thread, NEW m,
         Awoken(kk, e, r, t, m), Counted(e), TimersAre(e.vt, e.due), e.due = kk.due,
         \A o \in Object : o \in ObjectsOf(g) \/ e.q[o] = <<>>,
         g # "mtx" => e.prio = e.realprio
  PROVE  Changed(kk, r, g) /\ Settles(r, r) /\ Stable(r, p, g)
<1>1. \A u \in Thread : View(r)[u] = IF u = t THEN "RUNS" ELSE View(kk)[u]
  BY DEF Awoken, View
<1>2. Frame(kk, r, Thread)
  BY <1>1 DEF Frame, Awoken, SameRest
<1>3. Counted(r)
  BY DEF Awoken, SameRest, Counted
<1>4. Changed(kk, r, g)
  BY <1>2, <1>3 DEF Changed, Awoken, SameRest
<1>5. Settles(r, r)
  BY SettlesItself DEF Awoken
<1>6. Stable(r, p, g)
  BY <1>4, <1>5, Stays
<1> QED
  BY <1>4, <1>5, <1>6

(* chThdResume keeps the invariant.                                         *)
LEMMA ResumeRight ==
  ASSUME IInv, api = "threads", UNCHANGED Others, api' = api,
         NEW t \in Thread, chThdResume(t)
  PROVE  IInv'
<1> DEFINE r == chSchWakeupS(k, t, "OK")
<1>1. Stable(k, pc, api) /\ Listed(k, {}) /\ HighestCurrent(k) /\ k \in KernelState /\ Counted(k)
      /\ TimersAre(k.vt, k.due)
  BY DEF IInv, Stable, KernelRight, TimersRight, Listed
<1>2. k.state[t] = "SUSPENDED" /\ k' = r /\ UNCHANGED <<pc, waiting, systime>>
  BY DEF chThdResume
<1>3. k.state[t] \notin Runs \cup Waits /\ "OK" \in Messages
  BY <1>2 DEF Runs, Waits, Messages
<1>4. Awoken(k, k, r, t, "OK")
  BY <1>1, <1>3, LooseWoken
<1> HIDE DEF r
<1>5. /\ \A o \in Object : o \in ObjectsOf(api) \/ k.q[o] = <<>>
      /\ api # "mtx" => k.prio = k.realprio
  BY <1>1 DEF Stable, Placed
<1>6. Stable(r, pc, api)
  BY <1>1, <1>4, <1>5, AwokenChanges
<1>7. View(k)[t] # "WTEXIT"
  BY <1>2 DEF View, Runs
<1>8. \A u \in Thread : View(r)[u] = IF u = t THEN "RUNS" ELSE View(k)[u]
  BY <1>4 DEF Awoken, View
<1>9. ExitOK(View(r), waiting)
  BY <1>7, <1>8, ExitRuns DEF IInv
<1> QED
  BY <1>2, <1>6, <1>9, ThreadsRight

(* Nothing has changed yet.                                                 *)
LEMMA StillPlain ==
  ASSUME NEW kk, NEW p, NEW g, Stable(kk, p, g)
  PROVE  Changed(kk, kk, g)
BY DEF Stable, KernelRight, TimersRight, Placed, Changed, Frame

(* The running thread has another priority.                                *)
Repriced(kk, h) ==
  /\ h \in KernelState /\ h.state = kk.state /\ h.ready = kk.ready /\ h.current = kk.current
  /\ h.q = kk.q /\ h.cnt = kk.cnt /\ h.vt = kk.vt /\ h.due = kk.due /\ h.msg = kk.msg

(* The running thread can change its own priority.                          *)
LEMMA RepricedChanges ==
  ASSUME NEW kk, NEW p, NEW g, Stable(kk, p, g), NEW h, Repriced(kk, h), NEW n,
         h.prio = [kk.prio EXCEPT ![kk.current] = n],
         g # "mtx" => h.prio = h.realprio
  PROVE  Changed(kk, h, g) /\ View(h) = View(kk)
<1>1. Listed(kk, {}) /\ Counted(kk) /\ TimersAre(kk.vt, kk.due)
  BY DEF Stable, KernelRight, TimersRight
<1>2. Listed(h, {}) /\ View(h) = View(kk)
  BY <1>1, RunningPrio DEF Repriced
<1>3. Counted(h)
  BY <1>1 DEF Counted, Repriced
<1>4. Frame(kk, h, Thread)
  BY <1>2 DEF Frame, Repriced
<1> QED
  BY <1>1, <1>2, <1>3, <1>4 DEF Changed, Repriced, Stable, Placed

NewPrio(kk, n) ==
  LET c == kk.current IN
  [kk EXCEPT !.prio[c] = IF @ = kk.realprio[c] \/ n > @ THEN n ELSE @,
             !.realprio[c] = n]

(* chThdSetPriority changes the running thread's priority alone.            *)
LEMMA NewPrioIs ==
  ASSUME NEW kk \in KernelState, NEW n \in Prios
  PROVE  /\ Repriced(kk, NewPrio(kk, n))
         /\ \E x \in Prios : NewPrio(kk, n).prio = [kk.prio EXCEPT ![kk.current] = x]
         /\ kk.prio = kk.realprio => NewPrio(kk, n).prio = NewPrio(kk, n).realprio
<1> DEFINE c == kk.current
           x == IF kk.prio[c] = kk.realprio[c] \/ n > kk.prio[c] THEN n ELSE kk.prio[c]
           a == [kk.prio EXCEPT ![c] = x]
           b == [kk.realprio EXCEPT ![c] = n]
           h == NewPrio(kk, n)
<1>1. kk.prio \in [Thread -> Prios] /\ kk.realprio \in [Thread -> Prios] /\ c \in Thread
  BY KernelIs
<1>2. x \in Prios
  BY <1>1
<1>3. h = [kk EXCEPT !.prio = a, !.realprio = b]
  BY DEF NewPrio
<1>4. kk.prio = kk.realprio => a = b
  OBVIOUS
<1> HIDE DEF x
<1>5. a \in [Thread -> Prios] /\ b \in [Thread -> Prios]
  BY <1>1, <1>2
<1>6. a = [kk.prio EXCEPT ![kk.current] = x]
  OBVIOUS
<1> HIDE DEF a, b, h
<1>7. Repriced(kk, h) /\ h.prio = a /\ h.realprio = b
  BY <1>3, <1>5 DEF KernelState, Repriced
<1> QED
  BY <1>2, <1>4, <1>6, <1>7 DEF h

(* chThdSetPriority keeps the invariant.                                    *)
LEMMA SetPriorityRight ==
  ASSUME IInv, api = "threads", UNCHANGED Others, api' = api,
         NEW n \in Prio, chThdSetPriority(n)
  PROVE  IInv'
<1> DEFINE h == NewPrio(k, n)
           r == chSchRescheduleS(h)
<1>1. Stable(k, pc, api) /\ k \in KernelState /\ k.prio = k.realprio
  BY DEF IInv, Stable, KernelRight, Listed, Placed
<1>2. k' = r /\ UNCHANGED <<pc, waiting, systime>>
  BY DEF chThdSetPriority, NewPrio, me
<1>3. n \in Prios
  BY ThreadsAssumption DEF Prios
<1>4. /\ Repriced(k, h) /\ h.prio = h.realprio
      /\ \E x \in Prios : h.prio = [k.prio EXCEPT ![k.current] = x]
  BY <1>1, <1>3, NewPrioIs
<1> HIDE DEF h
<1>5. Changed(k, h, api) /\ View(h) = View(k)
  BY <1>1, <1>4, RepricedChanges
<1>6. Settles(h, r)
  BY <1>5, SettlesS DEF Changed
<1> HIDE DEF r
<1>7. Stable(r, pc, api)
  BY <1>1, <1>5, <1>6, Stays
<1>8. View(r) = View(k)
  BY <1>5, <1>6 DEF Settles, Same
<1>9. ExitOK(View(r), waiting)
  BY <1>8 DEF IInv
<1> QED
  BY <1>2, <1>7, <1>9, ThreadsRight

(* chThdYield keeps the invariant.                                          *)
LEMMA YieldRight ==
  ASSUME IInv, api = "threads", UNCHANGED Others, api' = api, chThdYield
  PROVE  IInv'
<1> DEFINE r == chSchDoRescheduleBehind(k)
<1>1. Stable(k, pc, api) /\ Listed(k, {})
  BY DEF IInv, Stable, KernelRight
<1>2. k' = r /\ UNCHANGED <<pc, waiting, systime>> /\ firstprio(k) >= k.prio[k.current]
  BY DEF chThdYield, me
<1>3. Settles(k, r)
  BY <1>1, <1>2, RescheduleListed DEF Settles
<1> HIDE DEF r
<1>4. Stable(r, pc, api)
  BY <1>1, <1>3, StillPlain, Stays
<1>5. View(r) = View(k)
  BY <1>3 DEF Settles, Same
<1>6. ExitOK(View(r), waiting)
  BY <1>5 DEF IInv
<1> QED
  BY <1>2, <1>4, <1>6, ThreadsRight

(* chThdSleep keeps the invariant.                                          *)
LEMMA SleepRight ==
  ASSUME IInv, api = "threads", UNCHANGED Others, api' = api,
         NEW n \in Time, chThdSleep(n)
  PROVE  IInv'
<1> DEFINE r == chSchGoSleepTimeoutS(k, "SLEEPING", n)
           x == <<"woken">>
<1>1. Stable(k, pc, api) /\ KernelRight(k) /\ Placed(k, pc, api) /\ Calls
  BY DEF IInv, Stable, chThdSleep
<1>2. Caller(k, pc)
  BY <1>1, CallerIs
<1>3. k' = r /\ pc' = [pc EXCEPT ![k.current] = x] /\ UNCHANGED <<waiting, systime>>
  BY DEF chThdSleep, Sleeps, me
<1>4. "SLEEPING" \in States \ (Runs \cup Waits)
  BY DEF States, Runs, Waits
<1>5. Sleep(k, k, r, "SLEEPING")
  BY <1>2, <1>4, SleepPlain DEF Caller
<1> HIDE DEF r
<1>6. x \in PlacesOf(api) /\ x[1] \notin {"user", "more"}
  BY DEF PlacesOf
<1>7. "SLEEPING" \in ViewsOf(api) \ Absent /\ "SLEEPING" \in Timed
  BY DEF ViewsOf, Absent, Timed
<1>8. Counted(k) /\ \A o \in Object : o \in ObjectsOf(api) \/ k.q[o] = <<>>
  BY <1>1 DEF KernelRight, Placed
<1> HIDE DEF x
<1>9. Stable(r, [pc EXCEPT ![k.current] = x], api)
  BY <1>1, <1>2, <1>5, <1>6, <1>7, <1>8, Slept
<1>10. ExitOK(View(r), waiting)
  <2>1. ExitOK(View(k), waiting) /\ View(k)[k.current] = "RUNS"
    BY <1>2 DEF IInv, Caller
  <2>2. \A u \in Thread : View(r)[u] = IF u = k.current THEN "SLEEPING" ELSE View(k)[u]
    BY <1>5 DEF Sleep, View
  <2>3. \A u \in Thread : Members(waiting[u]) \subseteq Thread
    BY <2>1, MembersAre DEF ExitOK
  <2> QED
    BY <2>1, <2>2, <2>3 DEF ExitOK
<1> QED
  BY <1>3, <1>9, <1>10, ThreadsRight

(* A thread that sleeps without a time limit, in no queue.                  *)
LEMMA SleepS ==
  ASSUME NEW kk, Listed(kk, {}), kk.current # Idle, TimersAre(kk.vt, kk.due),
         NEW s \in States \ (Runs \cup Waits), NEW r, r = chSchGoSleepS(kk, s)
  PROVE  Sleep(kk, kk, r, s) /\ r.due = kk.due
<1>1. /\ Listed(r, {}) /\ HighestCurrent(r)
      /\ View(r) = [View(kk) EXCEPT ![kk.current] = s]
      /\ SameRest(kk, r) /\ r.msg = kk.msg
  BY GoSleepListed
<1> QED
  BY <1>1 DEF Sleep, SameRest

(* A list with one more at its head.                                        *)
LEMMA InFrontIs ==
  ASSUME NEW s \in Seq(Thread), NEW t \in Thread, NEW r, r = <<t>> \o s
  PROVE  r \in Seq(Thread) /\ Members(r) = Members(s) \cup {t}
         /\ (Once(s) /\ t \notin Members(s) => Once(r)) /\ r # <<>>
<1>1. r \in Seq(Thread) /\ Len(r) = Len(s) + 1 /\ Len(s) \in Nat
  OBVIOUS
<1>2. r[1] = t /\ \A i \in 1..Len(s) : r[i + 1] = s[i]
  OBVIOUS
<1>3. \A i \in 2..Len(s) + 1 : i - 1 \in 1..Len(s) /\ r[i] = s[i - 1]
  BY <1>1, <1>2
<1>4. DOMAIN r = 1..Len(s) + 1 /\ DOMAIN s = 1..Len(s)
  BY <1>1
<1>5. \A x : x \in Members(s) => x \in Members(r)
  <2> SUFFICES ASSUME NEW i \in 1..Len(s)
               PROVE  s[i] \in Members(r)
    BY <1>4 DEF Members
  <2>1. i + 1 \in 1..Len(s) + 1 /\ r[i + 1] = s[i]
    BY <1>1, <1>2
  <2> QED
    BY <1>4, <2>1 DEF Members
<1>6. t \in Members(r)
  BY <1>1, <1>2, <1>4 DEF Members
<1>7. \A x \in Members(r) : x = t \/ x \in Members(s)
  <2>1. \A i \in 1..Len(s) + 1 : i = 1 \/ i \in 2..Len(s) + 1
    BY <1>1
  <2> QED
    BY <1>2, <1>3, <1>4, <2>1 DEF Members
<1>8. Members(r) = Members(s) \cup {t}
  BY <1>5, <1>6, <1>7
<1>9. ASSUME Once(s), t \notin Members(s)
      PROVE  Once(r)
  <2>1. \A i \in 1..Len(s) : s[i] # t
    BY <1>4, <1>9 DEF Members
  <2>2. \A i \in 1..Len(s) + 1 : i = 1 \/ i \in 2..Len(s) + 1
    BY <1>1
  <2>3. \A i, j \in 2..Len(s) + 1 : s[i - 1] = s[j - 1] => i = j
    <3> SUFFICES ASSUME NEW i \in 2..Len(s) + 1, NEW j \in 2..Len(s) + 1, s[i - 1] = s[j - 1]
                 PROVE  i = j
      OBVIOUS
    <3>1. i - 1 \in DOMAIN s /\ j - 1 \in DOMAIN s
      BY <1>1, <1>4
    <3>2. i - 1 = j - 1
      BY <1>9, <3>1 DEF Once
    <3> QED
      BY <1>1, <3>2
  <2> QED
    BY <1>2, <1>3, <1>4, <2>1, <2>2, <2>3 DEF Once
<1> QED
  BY <1>1, <1>8, <1>9

(* A thread that begins to wait for an exit is in one list.                 *)
LEMMA ExitWaits ==
  ASSUME NEW v, NEW w, ExitOK(v, w), NEW t \in Thread, v[t] \notin {"NONE", "FINAL"},
         NEW c \in Thread, c # t, v[c] = "RUNS", NEW u,
         \A x \in Thread : u[x] = IF x = c THEN "WTEXIT" ELSE v[x]
  PROVE  ExitOK(u, [w EXCEPT ![t] = <<c>> \o @])
<1> DEFINE s == w[t]
           r == <<c>> \o s
           n == [w EXCEPT ![t] = <<c>> \o @]
<1>1. w \in [Thread -> Seq(Thread)] /\ s \in Seq(Thread)
  BY DEF ExitOK
<1>2. \A x \in Thread : c \notin Members(w[x])
  BY DEF ExitOK
<1>3. r \in Seq(Thread) /\ Members(r) = Members(s) \cup {c} /\ Once(r) /\ r # <<>>
  <2>1. Once(s) /\ c \notin Members(s)
    BY <1>2 DEF ExitOK
  <2> HIDE DEF s
  <2> QED
    BY <1>1, <2>1, InFrontIs
<1>4. n = [w EXCEPT ![t] = r]
  OBVIOUS
<1> HIDE DEF r
<1>5. n \in [Thread -> Seq(Thread)] /\ \A x \in Thread : n[x] = IF x = t THEN r ELSE w[x]
  BY <1>1, <1>3, <1>4
<1> HIDE DEF n
<1>6. \A x \in Thread : Members(w[x]) \subseteq Thread
  BY <1>1, MembersAre
<1>7. \A x \in Thread : Members(n[x]) = IF x = t THEN Members(w[t]) \cup {c} ELSE Members(w[x])
  BY <1>3, <1>5
<1>8. \A x \in Thread :
        /\ Once(n[x])
        /\ \A y \in Members(n[x]) : u[y] = "WTEXIT"
        /\ n[x] # <<>> => u[x] \notin {"NONE", "FINAL"}
  <2> TAKE x \in Thread
  <2>1. Once(n[x])
    BY <1>3, <1>5 DEF ExitOK
  <2>2. \A y \in Members(n[x]) : u[y] = "WTEXIT"
    <3> TAKE y \in Members(n[x])
    <3>1. y = c \/ y \in Members(w[x])
      BY <1>7
    <3>2. y \in Members(w[x]) => v[y] = "WTEXIT" /\ y \in Thread
      BY <1>6 DEF ExitOK
    <3> QED
      BY <3>1, <3>2
  <2>3. n[x] # <<>> => u[x] \notin {"NONE", "FINAL"}
    BY <1>5 DEF ExitOK
  <2> QED
    BY <2>1, <2>2, <2>3
<1>9. \A y, x, z \in Thread : y \in Members(n[x]) /\ y \in Members(n[z]) => x = z
  <2> TAKE y, x, z \in Thread
  <2> HAVE y \in Members(n[x]) /\ y \in Members(n[z])
  <2>1. CASE y = c
    BY <1>2, <1>7, <2>1
  <2>2. CASE y # c
    <3>1. y \in Members(w[x]) /\ y \in Members(w[z])
      BY <1>7, <2>2
    <3> QED
      BY <3>1 DEF ExitOK
  <2> QED
    BY <2>1, <2>2
<1>10. \A y \in Thread : u[y] = "WTEXIT" => \E x \in Thread : y \in Members(n[x])
  <2> SUFFICES ASSUME NEW y \in Thread, u[y] = "WTEXIT"
               PROVE  \E x \in Thread : y \in Members(n[x])
    OBVIOUS
  <2>1. CASE y = c
    BY <1>7, <2>1
  <2>2. CASE y # c
    <3>1. v[y] = "WTEXIT"
      BY <2>2
    <3>2. PICK x \in Thread : y \in Members(w[x])
      BY <3>1 DEF ExitOK
    <3> QED
      BY <1>7, <3>2
  <2> QED
    BY <2>1, <2>2
<1>11. ExitOK(u, n)
  BY <1>5, <1>8, <1>9, <1>10 DEF ExitOK
<1> QED
  BY <1>11 DEF n

(* chThdWait keeps the invariant.                                           *)
LEMMA WaitRight ==
  ASSUME IInv, api = "threads", UNCHANGED Others, api' = api,
         NEW t \in Thread, chThdWait(t)
  PROVE  IInv'
<1> DEFINE r == chSchGoSleepS(k, "WTEXIT")
           x == <<"woken">>
<1>1. Stable(k, pc, api) /\ KernelRight(k) /\ Placed(k, pc, api) /\ Calls
  BY DEF IInv, Stable, chThdWait
<1>2. Caller(k, pc)
  BY <1>1, CallerIs
<1>3. k' = r /\ pc' = [pc EXCEPT ![k.current] = x] /\ systime' = systime
      /\ waiting' = [waiting EXCEPT ![t] = <<k.current>> \o @]
      /\ t # k.current /\ k.state[t] \notin {"NONE", "FINAL"}
  BY DEF chThdWait, Sleeps, me
<1>4. "WTEXIT" \in States \ (Runs \cup Waits)
  BY DEF States, Runs, Waits
<1>5. Sleep(k, k, r, "WTEXIT") /\ r.due = k.due
  BY <1>2, <1>4, SleepS DEF Caller
<1> HIDE DEF r
<1>6. x \in PlacesOf(api) /\ x[1] \notin {"user", "more"}
  BY DEF PlacesOf
<1>7. "WTEXIT" \in ViewsOf(api) \ Absent
  BY DEF ViewsOf, Absent
<1>8. Counted(k) /\ \A o \in Object : o \in ObjectsOf(api) \/ k.q[o] = <<>>
  BY <1>1 DEF KernelRight, Placed
<1> HIDE DEF x
<1>9. r.due[k.current] = 0
  BY <1>2, <1>5 DEF Caller
<1>10. Stable(r, [pc EXCEPT ![k.current] = x], api)
  BY <1>1, <1>2, <1>5, <1>6, <1>7, <1>8, <1>9, Slept
<1>11. ExitOK(View(r), waiting')
  <2>1. ExitOK(View(k), waiting) /\ View(k)[k.current] = "RUNS" /\ k.current \in Thread
    BY <1>2 DEF IInv, Caller
  <2>2. \A u \in Thread : View(r)[u] = IF u = k.current THEN "WTEXIT" ELSE View(k)[u]
    BY <1>5 DEF Sleep, View
  <2>3. View(k)[t] \notin {"NONE", "FINAL"}
    BY <1>3 DEF View
  <2> QED
    BY <1>3, <2>1, <2>2, <2>3, ExitWaits
<1> QED
  BY <1>3, <1>10, <1>11, ThreadsRight

(* Whoever waited for a thread runs when that thread ends.                  *)
LEMMA ExitEnds ==
  ASSUME NEW v, NEW w, ExitOK(v, w), NEW c \in Thread, v[c] = "RUNS", NEW u,
         \A x \in Thread : u[x] = IF x = c THEN "FINAL"
                                  ELSE IF x \in Members(w[c]) THEN "RUNS" ELSE v[x]
  PROVE  ExitOK(u, [w EXCEPT ![c] = <<>>])
<1> DEFINE n == [w EXCEPT ![c] = <<>>]
<1>1. w \in [Thread -> Seq(Thread)]
  BY DEF ExitOK
<1>2. n \in [Thread -> Seq(Thread)] /\ \A x \in Thread : n[x] = IF x = c THEN <<>> ELSE w[x]
  BY <1>1
<1> HIDE DEF n
<1>3. \A x \in Thread : Members(w[x]) \subseteq Thread
  BY <1>1, MembersAre
<1>4. \A x \in Thread : Members(n[x]) = IF x = c THEN {} ELSE Members(w[x])
  BY <1>2 DEF Members
<1>5. ASSUME NEW x \in Thread
      PROVE  /\ Once(n[x])
             /\ \A y \in Members(n[x]) : u[y] = "WTEXIT"
             /\ n[x] # <<>> => u[x] \notin {"NONE", "FINAL"}
  <2>1. Once(n[x])
    BY <1>2 DEF ExitOK, Once
  <2>2. ASSUME NEW y \in Members(n[x])
        PROVE  u[y] = "WTEXIT"
    <3>1. x # c /\ y \in Members(w[x]) /\ y \in Thread
      BY <1>3, <1>4
    <3>2. v[y] = "WTEXIT" /\ y \notin Members(w[c])
      BY <3>1 DEF ExitOK
    <3> QED
      BY <3>1, <3>2
  <2>3. n[x] # <<>> => u[x] \notin {"NONE", "FINAL"}
    BY <1>2 DEF ExitOK
  <2> QED
    BY <2>1, <2>2, <2>3
<1>6. \A y, x, z \in Thread : y \in Members(n[x]) /\ y \in Members(n[z]) => x = z
  BY <1>4 DEF ExitOK
<1>7. \A y \in Thread : u[y] = "WTEXIT" => \E x \in Thread : y \in Members(n[x])
  <2> SUFFICES ASSUME NEW y \in Thread, u[y] = "WTEXIT"
               PROVE  \E x \in Thread : y \in Members(n[x])
    OBVIOUS
  <2>1. v[y] = "WTEXIT" /\ y \notin Members(w[c])
    OBVIOUS
  <2>2. PICK x \in Thread : y \in Members(w[x])
    BY <2>1 DEF ExitOK
  <2> QED
    BY <1>4, <2>1, <2>2
<1>8. ExitOK(u, n)
  BY <1>2, <1>5, <1>6, <1>7 DEF ExitOK
<1> QED
  BY <1>8 DEF n

(* chThdExit keeps the invariant.                                           *)
LEMMA ExitRight ==
  ASSUME IInv, api = "threads", UNCHANGED Others, api' = api, chThdExit
  PROVE  IInv'
<1> DEFINE c == k.current
           s == waiting[c]
           n == Len(s)
           f == CHOOSE g : g = [i \in 0..n |-> IF i = 0 THEN k
                                               ELSE chSchReadyI(g[i - 1], s[i])]
           y == f[n]
           r == chSchGoSleepS(y, "FINAL")
           L == Members(s)
<1>1. Stable(k, pc, api) /\ KernelRight(k) /\ Placed(k, pc, api) /\ Calls /\ ExitOK(View(k), waiting)
  BY DEF IInv, Stable, chThdExit
<1>2. Caller(k, pc)
  BY <1>1, CallerIs
<1>3. k' = r /\ pc' = pc /\ systime' = systime /\ waiting' = [waiting EXCEPT ![c] = <<>>]
  <2>1. k' = r
    BY Zenon DEF chThdExit, WakeAll, me
  <2> HIDE DEF r
  <2> QED
    BY <2>1 DEF chThdExit, me
<1>4. c \in Thread /\ s \in Seq(Thread) /\ Once(s) /\ \A t \in L : View(k)[t] = "WTEXIT"
  BY <1>1, <1>2 DEF ExitOK, Caller
<1>5. L \in SUBSET Thread /\ n \in Nat /\ (\A i \in 1..n : s[i] \in L)
      /\ (\A i, j \in 1..n : s[i] = s[j] => i = j) /\ First(s, n) = L
  <2>1. L \in SUBSET Thread
    <3> HIDE DEF s
    <3> QED
      BY <1>4, MembersAre
  <2>2. n \in Nat /\ DOMAIN s = 1..n
    <3> HIDE DEF s
    <3> QED
      BY <1>4
  <2> HIDE DEF s, n
  <2> QED
    BY <1>4, <2>1, <2>2 DEF Members, Once, First
<1>6. Listed(k, L)
  <2>1. \A t \in L : k.state[t] \notin Runs \cup Waits
    BY <1>4, <1>5 DEF View, Runs, Waits
  <2> HIDE DEF L
  <2> QED
    BY <1>2, <1>5, <2>1, LooseAll DEF Caller
<1>7. Readied(k, y, L, First(s, n))
  <2>1. f = CHOOSE g : g = [i \in 0..n |-> IF i = 0 THEN k
                                            ELSE chSchReadyI(g[i - 1], s[i])]
    OBVIOUS
  <2> HIDE DEF L, s, n, f
  <2> QED
    BY <1>5, <1>6, <2>1, AllReady
<1>8. Readied(k, y, L, L) /\ L \ L = {}
  BY <1>5, <1>7
<1> HIDE DEF L, y
<1>9. Listed(y, {}) /\ y.current = c /\ SameRest(k, y)
  BY <1>8 DEF Readied
<1>10. "FINAL" \in States \ (Runs \cup Waits) /\ c # Idle
  BY <1>2 DEF States, Runs, Waits, Caller
<1>11. /\ Listed(r, {}) /\ HighestCurrent(r)
       /\ View(r) = [View(y) EXCEPT ![y.current] = "FINAL"]
       /\ SameRest(y, r)
  BY <1>9, <1>10, GoSleepListed
<1> HIDE DEF r, c
<1>12. \A x \in Thread : View(r)[x] = IF x = c THEN "FINAL"
                                      ELSE IF x \in L THEN "RUNS" ELSE View(k)[x]
  BY <1>8, <1>9, <1>11 DEF Readied, View
<1>13. SameRest(k, r)
  BY <1>9, <1>11 DEF SameRest
<1>14. Whole(r, api)
  <2>1. Counted(r)
    BY <1>1, <1>13 DEF Counted, SameRest, KernelRight
  <2> QED
    BY <1>1, <1>11, <1>13, <2>1 DEF Whole, SameRest, KernelRight, TimersRight, Placed
<1>15. Frame(k, r, Thread \ {c})
  BY <1>12, <1>13 DEF Frame, SameRest
<1>16. pc[c][1] = "user" /\ View(r)[c] \in ViewsOf(api) \cap Absent /\ r.due[c] = 0
  BY <1>2, <1>4, <1>12, <1>13 DEF ViewsOf, Absent, Caller, SameRest, InUser, c
<1>17. Stable(r, pc, api)
  BY <1>1, <1>4, <1>14, <1>15, <1>16, AbsentStable
<1>18. ExitOK(View(r), waiting')
  <2>1. View(k)[c] = "RUNS"
    BY <1>2 DEF Caller, c
  <2>2. L = Members(waiting[c])
    BY DEF L
  <2> QED
    BY <1>1, <1>3, <1>4, <1>12, <2>1, <2>2, ExitEnds
<1> QED
  BY <1>3, <1>17, <1>18, ThreadsRight

(* Every call of the threads.                                              *)
LEMMA ThreadCallsRight ==
  ASSUME IInv, api = "threads", UNCHANGED Others, api' = api, ThreadCalls
  PROVE  IInv'
<1>1. CASE \E t \in Thread, p \in Prio : chThdCreateI(t, p) \/ chThdCreateStatic(t, p)
  BY <1>1, CreateIRight, CreateRight
<1>2. CASE \E t \in Thread : chThdResume(t) \/ chThdWait(t)
  BY <1>2, ResumeRight, WaitRight
<1>3. CASE \E p \in Prio : chThdSetPriority(p)
  BY <1>3, SetPriorityRight
<1>4. CASE \E n \in Time : chThdSleep(n)
  BY <1>4, SleepRight
<1>5. CASE chThdYield
  BY <1>5, YieldRight
<1>6. CASE chThdExit
  BY <1>6, ExitRight
<1> QED
  BY <1>1, <1>2, <1>3, <1>4, <1>5, <1>6 DEF ThreadCalls

(* The running thread sleeps after it has done something else.             *)
LEMMA SleptAfter ==
  ASSUME NEW kk, NEW p, NEW g, Stable(kk, p, g), NEW h, Changed(kk, h, g),
         h.current = kk.current, kk.current # Idle,
         NEW e, NEW r, NEW s, Sleep(h, e, r, s), Counted(e), e.realprio = h.realprio,
         e.due = h.due, \A o \in Object : o \in ObjectsOf(g) \/ e.q[o] = <<>>,
         NEW x \in PlacesOf(g), x[1] \notin {"user", "more"},
         s \in ViewsOf(g) \ Absent, (s \in Timed /\ g # "msg") \/ r.due[kk.current] = 0
  PROVE  Stable(r, [p EXCEPT ![kk.current] = x], g)
<1> DEFINE c == kk.current
<1>1. KernelRight(kk) /\ Placed(kk, p, g) /\ Listed(kk, {})
  BY DEF Stable, KernelRight
<1>2. c \in Thread /\ c # Idle
  BY <1>1, CurrentRuns
<1>4. View(r)[c] = s /\ \A t \in Thread \ {c} : View(r)[t] = View(h)[t]
  BY <1>2 DEF Sleep, View
<1>5. Counted(r)
  BY DEF Sleep, Counted
<1>6. Whole(r, g)
  BY <1>1, <1>5 DEF Whole, Sleep, Changed
<1>7. Frame(kk, r, Thread \ {c})
  BY <1>2, <1>4 DEF Frame, Sleep, Changed
<1>8. At(r, c, x, g)
  BY <1>2, <1>4 DEF At
<1>9. KernelRight(r) /\ Placed(r, [p EXCEPT ![c] = x], g)
  BY <1>1, <1>2, <1>6, <1>7, <1>8, Moved
<1> QED
  BY <1>9 DEF Stable

(* Mutexes.                                                                 *)
LEMMA LooseRepriced ==
  ASSUME NEW kk, NEW L, Listed(kk, L), NEW t \in L, NEW r \in KernelState, NEW p,
         r.state = kk.state, r.ready = kk.ready, r.current = kk.current, r.q = kk.q,
         r.prio = [kk.prio EXCEPT ![t] = p]
  PROVE  Listed(r, L) /\ View(r) = View(kk)
<1>1. kk \in KernelState /\ t \in Thread /\ L \subseteq Thread
  BY DEF Listed
<1>2. kk.prio \in [Thread -> Prios] /\ kk.q \in [Object -> Seq(Thread)]
      /\ kk.ready \in Seq(Thread)
  BY <1>1, KernelIs
<1>3. \A u \in Thread : u # t => r.prio[u] = kk.prio[u]
  BY <1>2
<1>4. QueuesRight(kk, L) /\ ReadyRight(kk, L)
  BY DEF Listed
<1>6. \A s \in Seq(Thread) : t \notin Members(s) /\ Ranked(kk.prio, s) => Ranked(r.prio, s)
  <2> SUFFICES ASSUME NEW s \in Seq(Thread), t \notin Members(s), Ranked(kk.prio, s)
               PROVE  Ranked(r.prio, s)
    OBVIOUS
  <2>1. \A i \in 1..Len(s) : s[i] \in Thread /\ s[i] # t
    BY MembersAre
  <2> QED
    BY <1>3, <2>1 DEF Ranked
<1>7. t \notin Members(kk.ready)
  BY <1>4 DEF ReadyRight
<1>8. \A m \in Mutex : m \in Object /\ kk.q[m] \in Seq(Thread) /\ t \notin Members(kk.q[m])
  BY <1>2, <1>4, MutexAssumption DEF QueuesRight
<1>9. QueuesRight(r, L)
  BY <1>4, <1>6, <1>8 DEF QueuesRight
<1>10. ReadyRight(r, L)
  BY <1>2, <1>4, <1>6, <1>7 DEF ReadyRight
<1> QED
  BY <1>1, <1>9, <1>10 DEF Listed, View

(* A priority and a place have changed, and nothing else.                   *)
Raised(kk, r, t, p) ==
  /\ r \in KernelState /\ r.prio = [kk.prio EXCEPT ![t] = p]
  /\ r.state = kk.state /\ r.current = kk.current
  /\ r.realprio = kk.realprio /\ r.cnt = kk.cnt /\ r.vt = kk.vt /\ r.due = kk.due
  /\ r.msg = kk.msg
  /\ \A o \in Object : Members(r.q[o]) = Members(kk.q[o])
  /\ \A o \in Object \ (Mutex \cup CondVar) : r.q[o] = kk.q[o]

(* In a queue a thread goes to the place of its new priority.               *)
LEMMA RequeuedListed ==
  ASSUME NEW kk, Listed(kk, {}), NEW o \in Object, o \in Mutex \cup CondVar,
         NEW t \in Members(kk.q[o]), NEW p \in Prios,
         NEW r, r = [kk EXCEPT !.prio[t] = p,
                               !.q[o] = prio_insert([kk EXCEPT !.prio[t] = p],
                                                    Without(@, t), t)]
  PROVE  Listed(r, {}) /\ Raised(kk, r, t, p)
<1>1. kk \in KernelState /\ kk.q[o] \in Seq(Thread) /\ Once(kk.q[o])
      /\ (o \in Mutex => Ranked(kk.prio, kk.q[o]))
  BY KernelIs DEF Listed, QueuesRight
<1>2. t \in Thread
  BY <1>1, MembersAre
<1> DEFINE out == Without(kk.q[o], t)
           q1 == [kk.q EXCEPT ![o] = out]
           e == [kk EXCEPT !.q = q1]
           pr == [kk.prio EXCEPT ![t] = p]
           up == [kk EXCEPT !.prio = pr]
           d == [kk EXCEPT !.prio = pr, !.q = q1]
           in == prio_insert(up, out, t)
           q2 == [kk.q EXCEPT ![o] = in]
<1>3. /\ out \in Seq(Thread) /\ Once(out) /\ Members(out) = Members(kk.q[o]) \ {t}
      /\ (o \in Mutex => Ranked(kk.prio, out))
  BY <1>1, WithoutPlaces
<1> HIDE DEF out
<1>4. q1 \in [Object -> Seq(Thread)] /\ pr \in [Thread -> Prios]
  BY <1>1, <1>2, <1>3, KernelIs
<1>5. kk.q \in [Object -> Seq(Thread)] /\ kk.prio \in [Thread -> Prios]
  BY <1>1, KernelIs
<1> HIDE DEF q1, pr
<1>6. /\ e \in KernelState /\ SameThreads(kk, e) /\ e.q = q1
      /\ up.prio = pr
      /\ d \in KernelState /\ d.state = e.state /\ d.ready = e.ready
      /\ d.current = e.current /\ d.q = e.q /\ d.prio = pr /\ e.prio = kk.prio
  BY <1>1, <1>4 DEF KernelState, SameThreads
<1> HIDE DEF up
<1>7. Leaves(kk, e, {}, o, t)
  BY <1>3, <1>6, LostListed DEF q1
<1>8. Listed(e, {t}) /\ kk.state[t] = Kind(o)
  <2>1. {} \cup {t} = {t}
    OBVIOUS
  <2> QED
    BY <1>7, <2>1 DEF Leaves
<1>9. Listed(d, {t})
  <2>1. d.prio = [e.prio EXCEPT ![t] = p]
    BY <1>6 DEF pr
  <2> QED
    BY <1>6, <1>8, <2>1, LooseRepriced
<1>10. PlacedIn(in, pr, out, t)
  BY <1>2, <1>3, <1>4, <1>6, PrioInsertIs
<1>11. in \in Seq(Thread) /\ Members(in) = Members(out) \cup {t} /\ Once(in)
  BY <1>3, <1>10 DEF PlacedIn
<1>12. Members(in) = Members(kk.q[o])
  BY <1>3, <1>11
<1>13. o \in Mutex => Ranked(pr, in)
  <2>1. o \in Mutex => Ranked(pr, out)
    <3> SUFFICES ASSUME o \in Mutex
                 PROVE  Ranked(pr, out)
      OBVIOUS
    <3>1. Ranked(d.prio, d.q[o])
      BY <1>9 DEF Listed, QueuesRight
    <3>2. d.q[o] = out
      BY <1>5, <1>6 DEF q1
    <3> QED
      BY <1>6, <3>1, <3>2
  <2> QED
    BY <1>10, <2>1 DEF PlacedIn
<1>14. r = [kk EXCEPT !.prio = pr, !.q = q2]
  <2>1. [kk EXCEPT !.prio[t] = p] = up
    BY <1>1 DEF up, pr, KernelState
  <2>2. r = [kk EXCEPT !.prio[t] = p, !.q[o] = in]
    BY <2>1 DEF out
  <2> HIDE DEF in
  <2> QED
    BY <1>1, <2>2 DEF pr, KernelState
<1> HIDE DEF in, e
<1>15. q2 \in [Object -> Seq(Thread)]
  BY <1>5, <1>11
<1>16. q2 = [q1 EXCEPT ![o] = in] /\ \A x \in Object : q2[x] = IF x = o THEN in ELSE kk.q[x]
  BY <1>5 DEF q1
<1> HIDE DEF q2
<1>17. /\ r \in KernelState /\ SameThreads(d, r) /\ r.q = q2 /\ r.prio = pr
       /\ r.state = kk.state /\ r.current = kk.current
       /\ r.realprio = kk.realprio /\ r.cnt = kk.cnt /\ r.vt = kk.vt /\ r.due = kk.due
       /\ r.msg = kk.msg
  BY <1>1, <1>4, <1>14, <1>15 DEF KernelState, SameThreads
<1>18. Listed(r, {})
  <2>1. d.state[t] = Kind(o)
    BY <1>6, <1>8 DEF SameThreads
  <2>2. r.q = [d.q EXCEPT ![o] = in]
    BY <1>6, <1>16, <1>17
  <2>3. Members(in) = Members(d.q[o]) \cup {t}
    <3>1. d.q[o] = out
      BY <1>5, <1>6 DEF q1
    <3> QED
      BY <1>11, <3>1
  <2> HIDE DEF d
  <2>4. o \in Mutex => Ranked(d.prio, in)
    BY <1>6, <1>13
  <2>5. r \in KernelState /\ SameThreads(d, r) /\ Once(in)
    BY <1>11, <1>17
  <2> QED
    BY <1>2, <1>9, <2>1, <2>2, <2>3, <2>4, <2>5, QueuedListed
<1>19. Raised(kk, r, t, p)
  BY <1>12, <1>16, <1>17 DEF Raised, pr
<1> QED
  BY <1>18, <1>19

(* In the ready list it does so, too.                                       *)
LEMMA RereadyListed ==
  ASSUME NEW kk, Listed(kk, {}), NEW t \in Thread, kk.state[t] = "READY", NEW p \in Prios,
         NEW r, r = chSchReadyI([kk EXCEPT !.prio[t] = p, !.ready = Without(@, t)], t)
  PROVE  Listed(r, {}) /\ Raised(kk, r, t, p)
<1>1. /\ kk \in KernelState /\ kk.ready \in Seq(Thread) /\ Once(kk.ready)
      /\ Ranked(kk.prio, kk.ready) /\ kk.prio \in [Thread -> Prios]
      /\ QueuesRight(kk, {}) /\ ReadyRight(kk, {})
  BY KernelIs DEF Listed, ReadyRight
<1> DEFINE out == Without(kk.ready, t)
           pr == [kk.prio EXCEPT ![t] = p]
           e == [kk EXCEPT !.ready = out]
           d == [kk EXCEPT !.prio = pr, !.ready = out]
<1>2. /\ out \in Seq(Thread) /\ Once(out) /\ Members(out) = Members(kk.ready) \ {t}
      /\ Ranked(kk.prio, out)
  BY <1>1, WithoutPlaces
<1>3. [kk EXCEPT !.prio[t] = p, !.ready = Without(@, t)] = d
  BY <1>1 DEF KernelState
<1> HIDE DEF out
<1>4. pr \in [Thread -> Prios]
  BY <1>1
<1> HIDE DEF pr
<1>5. /\ e \in KernelState /\ e.ready = out /\ e.state = kk.state /\ e.prio = kk.prio
      /\ e.q = kk.q /\ e.current = kk.current
      /\ d \in KernelState /\ d.state = e.state /\ d.ready = e.ready
      /\ d.current = e.current /\ d.q = e.q /\ d.prio = pr
      /\ d.realprio = kk.realprio /\ d.cnt = kk.cnt /\ d.vt = kk.vt /\ d.due = kk.due
      /\ d.msg = kk.msg
  BY <1>1, <1>2, <1>4 DEF KernelState
<1> HIDE DEF e, d
<1>6. t # kk.current
  BY <1>1 DEF ReadyRight
<1>7. QueuesRight(e, {t})
  <2>1. \A o \in Object : t \notin Members(kk.q[o])
    BY <1>1 DEF QueuesRight, Kind
  <2> QED
    BY <1>1, <1>5, <2>1 DEF QueuesRight
<1>8. ReadyRight(e, {t})
  BY <1>1, <1>2, <1>5, <1>6 DEF ReadyRight
<1>9. Listed(e, {t})
  BY <1>5, <1>7, <1>8 DEF Listed
<1>10. Listed(d, {t})
  <2>1. d.prio = [e.prio EXCEPT ![t] = p]
    BY <1>5 DEF pr
  <2> QED
    BY <1>5, <1>9, <2>1, LooseRepriced
<1>11. r = chSchReadyI(d, t)
  BY <1>3
<1>12. Listed(r, {}) /\ SameRest(d, r) /\ r.msg = d.msg /\ r.current = d.current
  <2>1. t \in {t} /\ {t} \ {t} = {}
    OBVIOUS
  <2> QED
    BY <1>10, <1>11, <2>1, ReadyIListed, SMTT(40)
<1>13. r.state = kk.state
  <2>1. r.state = [d.state EXCEPT ![t] = "READY"]
    BY <1>5, <1>11, ReadyIs
  <2>2. kk.state \in [Thread -> States]
    BY <1>1, KernelIs
  <2> QED
    BY <1>5, <2>1, <2>2
<1>14. Raised(kk, r, t, p)
  BY <1>5, <1>12, <1>13 DEF Raised, SameRest, pr, Listed
<1> QED
  BY <1>12, <1>14

(* A thread in no list: its priority changes nothing else.                  *)
LEMMA UnlistedPrio ==
  ASSUME NEW kk, Listed(kk, {}), NEW t \in Thread,
         kk.state[t] \notin {"WTMTX", "WTCOND", "READY"}, NEW p \in Prios,
         View(kk)[t] \in ViewsOf("mtx"),
         NEW r, r = [kk EXCEPT !.prio[t] = p]
  PROVE  Listed(r, {}) /\ Raised(kk, r, t, p)
<1>1. kk \in KernelState /\ QueuesRight(kk, {}) /\ ReadyRight(kk, {})
      /\ kk.prio \in [Thread -> Prios] /\ kk.state \in [Thread -> States]
  BY KernelIs DEF Listed
<1> DEFINE pr == [kk.prio EXCEPT ![t] = p]
<1>2. pr \in [Thread -> Prios]
  BY <1>1
<1>3. r = [kk EXCEPT !.prio = pr]
  BY <1>1 DEF KernelState
<1> HIDE DEF pr
<1>4. /\ r \in KernelState /\ r.prio = pr
      /\ r.state = kk.state /\ r.current = kk.current /\ r.ready = kk.ready /\ r.q = kk.q
      /\ r.realprio = kk.realprio /\ r.cnt = kk.cnt /\ r.vt = kk.vt /\ r.due = kk.due
      /\ r.msg = kk.msg
  BY <1>1, <1>2, <1>3 DEF KernelState
<1>5. kk.state[t] \in {"NONE", "CURRENT"}
  <2>1. kk.state[t] \in States
    BY <1>1
  <2> QED
    BY <2>1 DEF View, ViewsOf, Runs, States
<1>6. CASE kk.state[t] = "CURRENT"
  <2>1. t = kk.current
    BY <1>1, <1>6 DEF ReadyRight
  <2>2. r.prio = [kk.prio EXCEPT ![kk.current] = p]
    BY <1>4, <2>1 DEF pr
  <2>3. Listed(r, {})
    BY <1>4, <2>2, RunningPrio
  <2> QED
    BY <1>4, <2>3 DEF pr, Raised
<1>7. CASE kk.state[t] = "NONE"
  <2>1. kk.state[t] \notin Runs \cup Waits /\ t \in Thread \ {} /\ {} \cup {t} = {t}
    BY <1>7 DEF Runs, Waits
  <2>2. Listed(kk, {t})
    BY <2>1, LooseListed
  <2>3. r.prio = [kk.prio EXCEPT ![t] = p] /\ t \in {t}
    BY <1>4 DEF pr
  <2>4. Listed(r, {t})
    BY <1>4, <2>2, <2>3, LooseRepriced
  <2>5. Listed(r, {})
    BY <1>4, <2>1, <2>4, PutListed
  <2> QED
    BY <1>4, <2>5 DEF pr, Raised
<1> QED
  BY <1>5, <1>6, <1>7

(* So whatever a thread waits for, it may be given another priority.        *)
LEMMA ReprioritisedIs ==
  ASSUME NEW kk, Listed(kk, {}), NEW t \in Thread, NEW p \in Prios,
         View(kk)[t] \in ViewsOf("mtx")
  PROVE  Listed(Reprioritised(kk, t, p), {}) /\ Raised(kk, Reprioritised(kk, t, p), t, p)
<1>1. kk \in KernelState /\ QueuesRight(kk, {})
  BY DEF Listed
<1>2. CASE kk.state[t] \in {"WTMTX", "WTCOND"}
  <2> DEFINE o == Queued(kk, t)
             up == [kk EXCEPT !.prio[t] = p]
  <2>1. \E x \in Object : t \in Members(kk.q[x])
    BY <1>1, <1>2 DEF QueuesRight, Waits
  <2>2. o \in Object /\ t \in Members(kk.q[o])
    BY <2>1 DEF Queued
  <2>3. Reprioritised(kk, t, p) = [up EXCEPT !.q[o] = prio_insert(up, Without(@, t), t)]
    BY <1>2 DEF Reprioritised
  <2> HIDE DEF o
  <2>4. o \in Mutex \cup CondVar
    <3>1. kk.state[t] = Kind(o)
      BY <1>1, <2>2 DEF QueuesRight
    <3> QED
      BY <1>2, <3>1 DEF Kind
  <2>5. [up EXCEPT !.q[o] = prio_insert(up, Without(@, t), t)]
          = [kk EXCEPT !.prio[t] = p,
                       !.q[o] = prio_insert([kk EXCEPT !.prio[t] = p], Without(@, t), t)]
    BY <1>1 DEF KernelState
  <2> HIDE DEF up
  <2> QED
    BY <2>2, <2>3, <2>4, <2>5, RequeuedListed
<1>3. CASE kk.state[t] = "READY"
  <2>1. Reprioritised(kk, t, p)
          = chSchReadyI([[kk EXCEPT !.prio[t] = p] EXCEPT !.ready = Without(@, t)], t)
    BY <1>3 DEF Reprioritised
  <2>2. [[kk EXCEPT !.prio[t] = p] EXCEPT !.ready = Without(@, t)]
          = [kk EXCEPT !.prio[t] = p, !.ready = Without(@, t)]
    BY <1>1 DEF KernelState
  <2> QED
    BY <1>3, <2>1, <2>2, RereadyListed
<1>4. CASE kk.state[t] \notin {"WTMTX", "WTCOND", "READY"}
  <2>1. Reprioritised(kk, t, p) = [kk EXCEPT !.prio[t] = p]
    BY <1>4 DEF Reprioritised
  <2> QED
    BY <1>4, <2>1, UnlistedPrio
<1> QED
  BY <1>2, <1>3, <1>4
------------------------------------------------------------------------------
(* Mutexes: who waits for whom, and the priority that this asks for.       *)
WaitsFor(qq, ow, u, t) == \E m \in Mutex : ow[m] = t /\ u \in Members(qq[m])
Owned(qq, ow, ml) ==
  /\ ow \in [Mutex -> Thread \cup {NoThread}] /\ ml \in [Thread -> Seq(Mutex)]
  /\ \A t \in Thread : Once(ml[t])
  /\ \A t \in Thread, m \in Mutex : m \in Members(ml[t]) <=> ow[m] = t
  /\ \A m \in Mutex : ow[m] = NoThread => qq[m] = <<>>
Inherits(kk, ow) ==
  \A t \in Thread :
    /\ kk.realprio[t] <= kk.prio[t]
    /\ \A u \in Thread : WaitsFor(kk.q, ow, u, t) => kk.prio[u] <= kk.prio[t]
    /\ \/ kk.prio[t] = kk.realprio[t]
       \/ \E u \in Thread : WaitsFor(kk.q, ow, u, t) /\ kk.prio[u] = kk.prio[t]
MtxOK(kk, ow, ml) == Owned(kk.q, ow, ml) /\ Inherits(kk, ow)

(* While a priority goes from owner to owner: it has reached all but tp,   *)
(* and raised one thread at each step.                                     *)
SamePlaces(kk, r) ==
  /\ r.state = kk.state /\ r.current = kk.current /\ r.realprio = kk.realprio
  /\ r.cnt = kk.cnt /\ r.vt = kk.vt /\ r.due = kk.due /\ r.msg = kk.msg
  /\ \A o \in Object : Members(r.q[o]) = Members(kk.q[o])
  /\ \A o \in Object \ (Mutex \cup CondVar) : r.q[o] = kk.q[o]
Tight(kk, ow, r, t, first, p) ==
  \/ r.prio[t] = r.realprio[t]
  \/ \E u \in Thread : WaitsFor(kk.q, ow, u, t) /\ r.prio[u] = r.prio[t]
  \/ t = first /\ r.prio[t] = p
Reached(kk, ow, r, t, first, p) ==
  /\ \A u \in Thread : WaitsFor(kk.q, ow, u, t) => r.prio[u] <= r.prio[t]
  /\ t = first => p <= r.prio[t]
  /\ Tight(kk, ow, r, t, first, p)
DueNext(kk, ow, r, t, first, p) ==
  /\ \A u \in Thread : WaitsFor(kk.q, ow, u, t) => r.prio[u] <= r.prio[t] \/ r.prio[u] = p
  /\ t = first \/ \E u \in Thread : WaitsFor(kk.q, ow, u, t) /\ r.prio[u] = p
  /\ r.prio[t] >= p => Tight(kk, ow, r, t, first, p)
Prices(kk, r, p) ==
  \A t \in Thread : /\ r.prio[t] = kk.prio[t] \/ (r.prio[t] = p /\ kk.prio[t] < p)
                    /\ r.realprio[t] <= r.prio[t]
HigherIn(kk, r) == {t \in Thread : r.prio[t] # kk.prio[t]}
Chained(kk, ow, r, tp, first, p) ==
  /\ Prices(kk, r, p)
  /\ \A t \in Thread \ {tp} : Reached(kk, ow, r, t, first, p)
  /\ tp \in Thread => DueNext(kk, ow, r, tp, first, p)

(* At a thread that has the priority already the chain ends.                *)
LEMMA ChainStops ==
  ASSUME NEW kk, NEW ow, NEW r \in KernelState, NEW tp \in Thread, NEW first \in Thread,
         NEW p \in Prios, Chained(kk, ow, r, tp, first, p), r.prio[tp] >= p
  PROVE  Chained(kk, ow, r, NoThread, first, p)
<1>1. NoThread \notin Thread
  BY MutexAssumption
<1>2. \A t \in Thread : r.prio[t] \in Nat
  BY KernelIs
<1>3. p \in Nat
  BY DEF Prios
<1>4. Reached(kk, ow, r, tp, first, p)
  <2>1. DueNext(kk, ow, r, tp, first, p)
    BY DEF Chained
  <2> QED
    BY <1>2, <1>3, <2>1 DEF DueNext, Reached
<1> QED
  BY <1>1, <1>4 DEF Chained

RaisedTo(y, r, tp, p) ==
  /\ y \in KernelState /\ tp \in Thread /\ p \in Prios /\ y.prio[tp] < p
  /\ r \in KernelState /\ r.prio = [y.prio EXCEPT ![tp] = p] /\ r.realprio = y.realprio
OnlyOwner(qq, ow, tp, to) ==
  /\ to \in Thread \cup {NoThread}
  /\ \A t \in Thread : WaitsFor(qq, ow, tp, t) <=> t = to

(* A thread that has it not is raised, and the chain goes on to the owner   *)
(* of the mutex that it waits for.                                          *)
LEMMA ChainGoesOn ==
  ASSUME NEW kk, NEW ow, NEW y, NEW r, NEW tp, NEW first \in Thread, NEW p,
         Chained(kk, ow, y, tp, first, p), RaisedTo(y, r, tp, p),
         NEW to, OnlyOwner(kk.q, ow, tp, to)
  PROVE  /\ Chained(kk, ow, r, to, first, p)
         /\ tp \notin HigherIn(kk, y) /\ HigherIn(kk, r) = HigherIn(kk, y) \cup {tp}
<1>0. /\ y \in KernelState /\ tp \in Thread /\ p \in Prios /\ y.prio[tp] < p
      /\ r \in KernelState /\ r.prio = [y.prio EXCEPT ![tp] = p] /\ r.realprio = y.realprio
      /\ to \in Thread \cup {NoThread}
      /\ \A t \in Thread : WaitsFor(kk.q, ow, tp, t) <=> t = to
  BY DEF RaisedTo, OnlyOwner
<1>1. NoThread \notin Thread /\ p \in Nat
  BY <1>0, MutexAssumption DEF Prios
<1>2. \A t \in Thread : y.prio[t] \in Nat /\ r.prio[t] \in Nat /\ y.realprio[t] \in Nat
  <2>1. \A t \in Thread : y.realprio[t] \in Prios
    BY <1>0, KernelIs
  <2> QED
    BY <1>0, <2>1, KernelIs DEF Prios
<1>3. \A t \in Thread : r.prio[t] = IF t = tp THEN p ELSE y.prio[t]
  BY <1>0, KernelIs
<1>4. Prices(kk, y, p) /\ DueNext(kk, ow, y, tp, first, p)
  BY <1>0 DEF Chained
<1>5. y.prio[tp] = kk.prio[tp]
  BY <1>0, <1>1, <1>2, <1>4 DEF Prices
<1>6. Prices(kk, r, p)
  BY <1>0, <1>1, <1>2, <1>3, <1>4, <1>5 DEF Prices
<1>7. ASSUME NEW t \in Thread \ {to}
      PROVE  Reached(kk, ow, r, t, first, p)
  <2>1. ~WaitsFor(kk.q, ow, tp, t)
    BY <1>0, <1>7
  <2>2. CASE t = tp
    <3>1. \A u \in Thread : WaitsFor(kk.q, ow, u, t) => r.prio[u] <= p
      BY <1>0, <1>1, <1>2, <1>3, <1>4, <2>1, <2>2 DEF DueNext
    <3>2. Tight(kk, ow, r, t, first, p)
      <4>1. t = first \/ \E u \in Thread : WaitsFor(kk.q, ow, u, t) /\ y.prio[u] = p
        BY <1>4, <2>2 DEF DueNext
      <4> QED
        BY <1>0, <1>3, <2>1, <2>2, <4>1 DEF Tight
    <3> QED
      BY <1>0, <1>1, <1>3, <2>2, <3>1, <3>2 DEF Reached
  <2>3. CASE t # tp
    <3>1. Reached(kk, ow, y, t, first, p)
      BY <2>3 DEF Chained
    <3>2. \A u \in Thread : WaitsFor(kk.q, ow, u, t) => r.prio[u] = y.prio[u]
      BY <1>3, <2>1
    <3>3. r.prio[t] = y.prio[t]
      BY <1>3, <2>3
    <3> QED
      BY <1>0, <3>1, <3>2, <3>3 DEF Reached, Tight
  <2> QED
    BY <2>2, <2>3
<1>8. ASSUME to \in Thread
      PROVE  DueNext(kk, ow, r, to, first, p)
  <2>1. WaitsFor(kk.q, ow, tp, to) /\ r.prio[tp] = p
    BY <1>0, <1>3, <1>8
  <2>2. CASE to = tp
    <3>1. \A u \in Thread : WaitsFor(kk.q, ow, u, to) => r.prio[u] <= p \/ r.prio[u] = p
      BY <1>0, <1>1, <1>2, <1>3, <1>4, <2>2 DEF DueNext
    <3>2. Tight(kk, ow, r, to, first, p)
      BY <1>0, <2>1, <2>2 DEF Tight
    <3> QED
      BY <1>0, <2>1, <2>2, <3>1, <3>2 DEF DueNext
  <2>3. CASE to # tp
    <3>1. Reached(kk, ow, y, to, first, p) /\ r.prio[to] = y.prio[to]
      BY <1>3, <1>8, <2>3 DEF Chained
    <3>2. \A u \in Thread : WaitsFor(kk.q, ow, u, to) => r.prio[u] <= r.prio[to] \/ r.prio[u] = p
      BY <1>3, <3>1 DEF Reached
    <3>3. r.prio[to] >= p => Tight(kk, ow, r, to, first, p)
      <4> SUFFICES ASSUME r.prio[to] >= p
                   PROVE  Tight(kk, ow, r, to, first, p)
        OBVIOUS
      <4>1. Tight(kk, ow, y, to, first, p)
        BY <3>1 DEF Reached
      <4>2. \A u \in Thread : y.prio[u] = y.prio[to] => u # tp
        BY <1>0, <1>1, <1>2, <3>1
      <4> QED
        BY <1>0, <1>3, <3>1, <4>1, <4>2 DEF Tight
    <3> QED
      BY <1>0, <2>1, <3>2, <3>3 DEF DueNext
  <2> QED
    BY <2>2, <2>3
<1>9. tp \notin HigherIn(kk, y) /\ HigherIn(kk, r) = HigherIn(kk, y) \cup {tp}
  BY <1>0, <1>1, <1>2, <1>3, <1>5 DEF HigherIn
<1> QED
  BY <1>6, <1>7, <1>8, <1>9 DEF Chained

(* Who is next is the owner of the mutex that a thread waits for.           *)
LEMMA NextOwnerIs ==
  ASSUME NEW kk, Listed(kk, {}), NEW ml, Owned(kk.q, owner, ml),
         NEW y, Listed(y, {}), SamePlaces(kk, y), NEW t \in Thread
  PROVE  /\ NextOwner(y, t) \in Thread \cup {NoThread}
         /\ \A u \in Thread : WaitsFor(kk.q, owner, t, u) <=> u = NextOwner(y, t)
<1>1. QueuesRight(kk, {}) /\ QueuesRight(y, {}) /\ Mutex \subseteq Object
  BY MutexAssumption DEF Listed
<1>2. \A o \in Object : Members(y.q[o]) = Members(kk.q[o])
  BY DEF SamePlaces
<1>3. \A m \in Mutex : t \in Members(kk.q[m]) => y.state[t] = "WTMTX"
  BY <1>1, <1>2, MutexAssumption DEF QueuesRight, Kind
<1>4. CASE y.state[t] = "WTMTX"
  <2> DEFINE o == Queued(y, t)
  <2>1. \E x \in Object : t \in Members(y.q[x])
    BY <1>1, <1>4 DEF QueuesRight, Waits
  <2>2. o \in Object /\ t \in Members(y.q[o])
    BY <2>1 DEF Queued
  <2>3. NextOwner(y, t) = owner[o]
    BY <1>4 DEF NextOwner
  <2> HIDE DEF o
  <2>4. o \in Mutex
    <3>1. y.state[t] = Kind(o)
      BY <1>1, <2>2 DEF QueuesRight
    <3> QED
      BY <1>4, <3>1 DEF Kind
  <2>5. \A m \in Mutex : t \in Members(kk.q[m]) <=> m = o
    BY <1>1, <1>2, <2>2 DEF QueuesRight
  <2>6. owner[o] \in Thread \cup {NoThread}
    BY <2>4 DEF Owned
  <2>7. \A u \in Thread : WaitsFor(kk.q, owner, t, u) <=> u = owner[o]
    BY <2>4, <2>5 DEF WaitsFor
  <2> QED
    BY <2>3, <2>6, <2>7
<1>5. CASE y.state[t] # "WTMTX"
  <2>1. NextOwner(y, t) = NoThread
    BY <1>5 DEF NextOwner
  <2> QED
    BY <1>3, <1>5, <2>1, MutexAssumption DEF WaitsFor
<1> QED
  BY <1>4, <1>5

(* One step along the chain of owners.                                      *)
Link(x, p) ==
  LET on == x[1]  tp == x[2]
  IN IF tp = NoThread THEN <<on, tp>>
     ELSE IF on.prio[tp] >= p THEN <<on, NoThread>>
     ELSE <<Reprioritised(on, tp, p), NextOwner(on, tp)>>
Linked(kk, first, p, n) ==
  {x \in KernelState \X (Thread \cup {NoThread}) :
     /\ Listed(x[1], {}) /\ SamePlaces(kk, x[1])
     /\ Chained(kk, owner, x[1], x[2], first, p)
     /\ x[2] # NoThread => Cardinality(HigherIn(kk, x[1])) = n}

(* A thread's new priority leaves every thread in its place.                *)
LEMMA RaisedPlaces ==
  ASSUME NEW kk, NEW y, SamePlaces(kk, y), NEW r, NEW t, NEW p, Raised(y, r, t, p)
  PROVE  SamePlaces(kk, r)
BY DEF SamePlaces, Raised

(* One step along the chain of owners keeps what holds of those behind it.  *)
LEMMA LinkIs ==
  ASSUME NEW kk, Listed(kk, {}), \A t \in Thread : View(kk)[t] \in ViewsOf("mtx"),
         NEW ml, Owned(kk.q, owner, ml), NEW first \in Thread, NEW p \in Prios,
         NEW n \in Nat, NEW x \in Linked(kk, first, p, n)
  PROVE  Link(x, p) \in Linked(kk, first, p, n + 1)
<1> DEFINE y == x[1]
           tp == x[2]
           r == Reprioritised(y, tp, p)
           to == NextOwner(y, tp)
<1>1. /\ y \in KernelState /\ tp \in Thread \cup {NoThread}
      /\ Listed(y, {}) /\ SamePlaces(kk, y) /\ Chained(kk, owner, y, tp, first, p)
      /\ tp # NoThread => Cardinality(HigherIn(kk, y)) = n
  BY DEF Linked
<1>2. Link(x, p) = IF tp = NoThread THEN <<y, tp>>
                   ELSE IF y.prio[tp] >= p THEN <<y, NoThread>> ELSE <<r, to>>
  BY DEF Link
<1>3. NoThread \notin Thread /\ IsFiniteSet(Thread)
  BY MutexAssumption, ThreadsAssumption
<1> HIDE DEF y, tp, r, to
<1>4. CASE tp = NoThread
  <2>1. Link(x, p) = <<y, NoThread>>
    BY <1>2, <1>4
  <2> QED
    BY <1>1, <1>4, <2>1 DEF Linked
<1>5. CASE tp # NoThread /\ y.prio[tp] >= p
  <2>1. Link(x, p) = <<y, NoThread>>
    BY <1>2, <1>5
  <2>2. Chained(kk, owner, y, NoThread, first, p)
    BY <1>1, <1>5, ChainStops
  <2> QED
    BY <1>1, <2>1, <2>2 DEF Linked
<1>6. CASE tp # NoThread /\ ~(y.prio[tp] >= p)
  <2>1. Link(x, p) = <<r, to>>
    BY <1>2, <1>6
  <2>2. tp \in Thread /\ y.prio[tp] < p
    <3>1. tp \in Thread
      BY <1>1, <1>6
    <3>2. y.prio[tp] \in Nat /\ p \in Nat
      BY <1>1, <3>1, KernelIs DEF Prios
    <3> QED
      BY <1>6, <3>1, <3>2
  <2>3. View(y)[tp] \in ViewsOf("mtx")
    BY <1>1, <2>2 DEF SamePlaces, View
  <2>4. Listed(r, {}) /\ Raised(y, r, tp, p)
    BY <1>1, <2>2, <2>3, ReprioritisedIs DEF r
  <2>5. to \in Thread \cup {NoThread} /\ \A t \in Thread : WaitsFor(kk.q, owner, tp, t) <=> t = to
    BY <1>1, <2>2, NextOwnerIs DEF to
  <2>6. r \in KernelState /\ r.prio = [y.prio EXCEPT ![tp] = p] /\ r.realprio = y.realprio
    BY <2>4 DEF Raised
  <2>7. /\ Chained(kk, owner, r, to, first, p)
        /\ tp \notin HigherIn(kk, y) /\ HigherIn(kk, r) = HigherIn(kk, y) \cup {tp}
    <3>1. RaisedTo(y, r, tp, p) /\ Chained(kk, owner, y, tp, first, p)
      BY <1>1, <2>2, <2>6 DEF RaisedTo
    <3>2. OnlyOwner(kk.q, owner, tp, to)
      BY <2>5 DEF OnlyOwner
    <3> QED
      BY <3>1, <3>2, ChainGoesOn, ZenonT(40)
  <2>8. Cardinality(HigherIn(kk, r)) = n + 1
    <3>1. IsFiniteSet(HigherIn(kk, y))
      BY <1>3, FS_Subset DEF HigherIn
    <3> QED
      BY <1>1, <1>6, <2>7, <3>1, FS_AddElement
  <2>9. SamePlaces(kk, r)
    BY <1>1, <2>4, RaisedPlaces
  <2> DEFINE z == <<r, to>>
  <2>10. /\ z \in KernelState \X (Thread \cup {NoThread})
         /\ z[1] = r /\ z[2] = to
    BY <2>5, <2>6
  <2> HIDE DEF z
  <2>11. /\ Listed(z[1], {}) /\ SamePlaces(kk, z[1])
         /\ Chained(kk, owner, z[1], z[2], first, p)
         /\ z[2] # NoThread => Cardinality(HigherIn(kk, z[1])) = n + 1
    BY <2>4, <2>7, <2>8, <2>9, <2>10
  <2>12. z \in Linked(kk, first, p, n + 1)
    BY <2>10, <2>11, Zenon DEF Linked
  <2> QED
    BY <2>1, <2>12 DEF z
<1> QED
  BY <1>4, <1>5, <1>6

(* The priority reaches all owners along the chain, whatever its length.    *)
LEMMA InheritIs ==
  ASSUME NEW kk, Listed(kk, {}), \A t \in Thread : View(kk)[t] \in ViewsOf("mtx"),
         NEW ml, Owned(kk.q, owner, ml), Inherits(kk, owner),
         NEW first \in Thread, NEW p \in Prios, NEW r, r = Inherit(kk, first, p)
  PROVE  /\ Listed(r, {}) /\ SamePlaces(kk, r)
         /\ Chained(kk, owner, r, NoThread, first, p)
<1> DEFINE n == Cardinality(Thread)
           W(y) == Link(y, p)
           H == [i \in 0..n |-> Linked(kk, first, p, i)]
           G == [i \in 1..n |-> [y \in H[i - 1] |-> W(y)]]
           x == <<kk, first>>
           E(g) == g = [i \in 0..n |-> IF i = 0 THEN x ELSE W(g[i - 1])]
           f == CHOOSE g : g = [i \in 0..n |-> IF i = 0 THEN x ELSE W(g[i - 1])]
<1>0. n \in Nat
  BY ThreadsAssumption, FS_CardinalityType
<1>00. r = f[n][1]
  BY Zenon DEF Inherit, Link
<1> HIDE DEF n
<1>1. x \in H[0]
  <2>1. kk \in KernelState /\ SamePlaces(kk, kk) /\ 0 \in 0..n
    BY <1>0 DEF Listed, SamePlaces
  <2>2. HigherIn(kk, kk) = {} /\ Cardinality({}) = 0
    BY FS_EmptySet DEF HigherIn
  <2>3. Chained(kk, owner, kk, first, first, p)
    <3>1. Prices(kk, kk, p)
      BY DEF Prices, Inherits
    <3>2. \A t \in Thread \ {first} : Reached(kk, owner, kk, t, first, p)
      BY DEF Inherits, Reached, Tight
    <3>3. DueNext(kk, owner, kk, first, first, p)
      BY DEF Inherits, DueNext, Tight
    <3> QED
      BY <3>1, <3>2, <3>3 DEF Chained
  <2> QED
    BY <2>1, <2>2, <2>3 DEF Linked
<1>2. ASSUME NEW i \in 1..n, NEW y \in H[i - 1]
      PROVE  W(y) \in H[i]
  <2>1. i - 1 \in 0..n /\ i \in 0..n /\ i - 1 \in Nat /\ (i - 1) + 1 = i
    BY <1>0
  <2>2. y \in Linked(kk, first, p, i - 1)
    BY <1>2, <2>1
  <2>3. Link(y, p) \in Linked(kk, first, p, (i - 1) + 1)
    BY <2>1, <2>2, LinkIs
  <2> QED
    BY <2>1, <2>3
<1> HIDE DEF H, W, x
<1>3. \A i \in 1..n : G[i] \in [H[i - 1] -> H[i]]
  BY <1>2
<1>4. \A i \in 1..n : \A y \in H[i - 1] : G[i][y] = W(y)
  OBVIOUS
<1> HIDE DEF G
<1>5. PICK g : Looped(g, n, x, H, G)
  BY <1>0, <1>1, <1>3, LoopRuns
<1>6. E(g)
  <2>1. /\ g = [i \in 0..n |-> g[i]] /\ g[0] = x
        /\ \A i \in 1..n : g[i - 1] \in H[i - 1] /\ g[i] = G[i][g[i - 1]]
    BY <1>5 DEF Looped
  <2>2. \A i \in 0..n : g[i] = IF i = 0 THEN x ELSE W(g[i - 1])
    <3> SUFFICES ASSUME NEW i \in 0..n, i # 0
                 PROVE  g[i] = W(g[i - 1])
      BY <2>1
    <3>1. i \in 1..n
      BY <1>0
    <3> QED
      BY <1>4, <2>1, <3>1
  <2> QED
    BY <2>1, <2>2
<1>7. E(f)
  BY <1>6
<1> HIDE DEF f
<1>8. f[0] = x /\ \A i \in 1..n : f[i] = W(f[i - 1])
  <2>1. f = [i \in 0..n |-> IF i = 0 THEN x ELSE W(f[i - 1])]
    BY <1>7
  <2> HIDE DEF E
  <2>2. \A i \in 0..n : f[i] = IF i = 0 THEN x ELSE W(f[i - 1])
    BY <2>1
  <2>3. 0 \in 0..n /\ \A i \in 1..n : i \in 0..n /\ i # 0
    BY <1>0
  <2> QED
    BY <2>2, <2>3
<1> HIDE DEF E
<1>9. f[n] \in H[n]
  <2>1. \A i \in 1..n : f[i - 1] \in H[i - 1] => f[i] \in H[i]
    BY <1>2, <1>8
  <2>2. f[0] \in H[0]
    BY <1>1, <1>8
  <2>3. \A i \in 0..n : f[i] \in H[i]
    BY <1>0, <2>1, <2>2, LoopStays
  <2> QED
    BY <1>0, <2>3
<1> DEFINE tp == f[n][2]
<1>10. /\ r \in KernelState /\ tp \in Thread \cup {NoThread}
       /\ Listed(r, {}) /\ SamePlaces(kk, r) /\ Chained(kk, owner, r, tp, first, p)
       /\ tp # NoThread => Cardinality(HigherIn(kk, r)) = n
  BY <1>0, <1>00, <1>9 DEF H, Linked
<1> HIDE DEF tp
<1>11. CASE tp = NoThread
  BY <1>10, <1>11
<1>12. CASE tp # NoThread
  <2>1. HigherIn(kk, r) \subseteq Thread /\ IsFiniteSet(Thread)
    BY ThreadsAssumption DEF HigherIn
  <2>2. HigherIn(kk, r) = Thread
    BY <1>10, <1>12, <2>1, FS_Subset DEF n
  <2>3. tp \in Thread /\ r.prio[tp] = p
    <3>1. tp \in Thread
      BY <1>10, <1>12
    <3> QED
      BY <1>10, <2>2, <3>1 DEF HigherIn, Chained, Prices
  <2>4. r.prio[tp] >= p
    BY <2>3 DEF Prios
  <2>5. Chained(kk, owner, r, NoThread, first, p)
    BY <1>10, <2>3, <2>4, ChainStops
  <2> QED
    BY <1>10, <2>5
<1> QED
  BY <1>11, <1>12
------------------------------------------------------------------------------
(* Priorities have a greatest one.                                          *)
LEMMA MaxOfIs ==
  ASSUME NEW S, S \subseteq Prios, S # {}
  PROVE  MaxOf(S) \in S /\ \A i \in S : i <= MaxOf(S)
<1> DEFINE T == {HIGHPRIO - n : n \in S}
<1>1. \A n \in S : n \in Nat /\ n <= HIGHPRIO /\ HIGHPRIO \in Nat
  BY DEF Prios, HIGHPRIO
<1>2. T \in SUBSET Nat /\ T # {}
  BY <1>1
<1>3. PICK x \in T : \A y \in T : x <= y
  BY <1>2, NatMin
<1>4. PICK n \in S : x = HIGHPRIO - n
  BY <1>3
<1>5. \A i \in S : i <= n
  <2> SUFFICES ASSUME NEW i \in S
               PROVE  i <= n
    OBVIOUS
  <2>1. HIGHPRIO - i \in T
    OBVIOUS
  <2>2. HIGHPRIO - n <= HIGHPRIO - i
    BY <1>3, <1>4, <2>1
  <2> QED
    BY <1>1, <2>2
<1> QED
  BY <1>4, <1>5 DEF MaxOf

(* What the owners and their priorities depend on.                          *)
SameMtx(kk, r) ==
  /\ r.prio = kk.prio /\ r.realprio = kk.realprio
  /\ \A m \in Mutex : r.q[m] = kk.q[m]

(* What leaves priorities and the mutexes' queues alone keeps the mutexes   *)
(* right.                                                                   *)
LEMMA SameMtxOK ==
  ASSUME NEW kk, NEW r, SameMtx(kk, r), NEW ow, NEW ml, MtxOK(kk, ow, ml)
  PROVE  MtxOK(r, ow, ml)
<1>1. \A u, t : WaitsFor(r.q, ow, u, t) <=> WaitsFor(kk.q, ow, u, t)
  BY DEF SameMtx, WaitsFor
<1>2. Owned(r.q, ow, ml)
  BY DEF MtxOK, Owned, SameMtx
<1>3. Inherits(r, ow)
  BY <1>1 DEF MtxOK, Inherits, SameMtx
<1> QED
  BY <1>2, <1>3 DEF MtxOK

(* A thread gives up some of its mutexes: each goes to the first that       *)
(* waits for it, and the thread is left with the priority x.                *)
To(kk, m) == IF kk.q[m] = <<>> THEN NoThread ELSE Head(kk.q[m])
LeftWith(kk, ow, c, M, x) ==
  /\ x \in Prios /\ kk.realprio[c] <= x
  /\ \A n \in Mutex \ M : ow[n] = c => \A u \in Members(kk.q[n]) : kk.prio[u] <= x
  /\ \/ x = kk.realprio[c]
     \/ \E n \in Mutex \ M : \E u \in Members(kk.q[n]) : ow[n] = c /\ kk.prio[u] = x
GivenUp(kk, r, M, c, x) ==
  /\ r.prio = [kk.prio EXCEPT ![c] = x] /\ r.realprio = kk.realprio
  /\ \A n \in Mutex : r.q[n] = IF n \in M /\ kk.q[n] # <<>> THEN Tail(kk.q[n]) ELSE kk.q[n]
NewOwners(kk, ow, o2, M) ==
  /\ DOMAIN o2 = Mutex /\ o2 = [n \in Mutex |-> o2[n]]
  /\ \A n \in Mutex : o2[n] = IF n \in M THEN To(kk, n) ELSE ow[n]

(* The running thread waits for nothing, and the first in a queue has the   *)
(* highest priority of it.                                                  *)
LEMMA MutexQueues ==
  ASSUME NEW kk, Listed(kk, {})
  PROVE  \A m \in Mutex :
           /\ m \in Object /\ kk.q[m] \in Seq(Thread) /\ Members(kk.q[m]) \subseteq Thread
           /\ kk.current \notin Members(kk.q[m])
           /\ kk.q[m] # <<>> =>
                /\ Head(kk.q[m]) \in Members(kk.q[m])
                /\ Members(Tail(kk.q[m])) = Members(kk.q[m]) \ {Head(kk.q[m])}
                /\ \A u \in Members(kk.q[m]) : kk.prio[u] <= kk.prio[Head(kk.q[m])]
<1> SUFFICES ASSUME NEW m \in Mutex
             PROVE  /\ m \in Object /\ kk.q[m] \in Seq(Thread) /\ Members(kk.q[m]) \subseteq Thread
                    /\ kk.current \notin Members(kk.q[m])
                    /\ kk.q[m] # <<>> =>
                         /\ Head(kk.q[m]) \in Members(kk.q[m])
                         /\ Members(Tail(kk.q[m])) = Members(kk.q[m]) \ {Head(kk.q[m])}
                         /\ \A u \in Members(kk.q[m]) : kk.prio[u] <= kk.prio[Head(kk.q[m])]
  OBVIOUS
<1>1. m \in Object
  BY MutexAssumption
<1>2. kk \in KernelState /\ QueuesRight(kk, {})
  BY DEF Listed
<1> DEFINE s == kk.q[m]
<1>3. s \in Seq(Thread) /\ Once(s) /\ Ranked(kk.prio, s)
  BY <1>1, <1>2, KernelIs DEF QueuesRight
<1>4. Members(s) \subseteq Thread
  BY <1>3, MembersAre
<1>5. kk.current \notin Members(s)
  <2>1. kk.state[kk.current] = "CURRENT"
    BY CurrentRuns
  <2> QED
    BY <1>1, <1>2, <2>1 DEF QueuesRight, Kind
<1> HIDE DEF s
<1>6. ASSUME s # <<>>
      PROVE  /\ Head(s) \in Members(s) /\ Members(Tail(s)) = Members(s) \ {Head(s)}
             /\ \A u \in Members(s) : kk.prio[u] <= kk.prio[Head(s)]
  <2>1. Head(s) \in Members(s) /\ Members(Tail(s)) = Members(s) \ {Head(s)} /\ Head(s) = s[1]
    BY <1>3, <1>6, TailPlaces
  <2>2. ASSUME NEW u \in Members(s)
        PROVE  kk.prio[u] <= kk.prio[Head(s)]
    <3>1. PICK i \in 1..Len(s) : s[i] = u
      BY <1>3, MembersAre
    <3>2. \A t \in Thread : kk.prio[t] \in Nat
      BY <1>2, KernelIs
    <3>3. u \in Thread /\ s[1] \in Thread /\ Len(s) \in Nat /\ 1 \in DOMAIN s /\ i \in DOMAIN s
      BY <1>3, <1>4, <2>1, <3>1
    <3>4. CASE i = 1
      BY <2>1, <3>1, <3>2, <3>3, <3>4
    <3>5. CASE 1 < i
      BY <1>3, <2>1, <3>1, <3>2, <3>3, <3>5 DEF Ranked
    <3> QED
      BY <3>4, <3>5
  <2> QED
    BY <2>1, <2>2
<1> QED
  BY <1>1, <1>3, <1>4, <1>5, <1>6 DEF s

(* Who is given a mutex has the priority of those that still wait for it,   *)
(* since it had the highest of them.                                        *)
LEMMA GivenUpInherits ==
  ASSUME NEW kk, Listed(kk, {}), NEW ow, Inherits(kk, ow), ow \in [Mutex -> Thread \cup {NoThread}],
         NEW M \in SUBSET Mutex, \A m \in M : ow[m] = kk.current,
         NEW x, LeftWith(kk, ow, kk.current, M, x),
         NEW r, GivenUp(kk, r, M, kk.current, x), NEW o2, NewOwners(kk, ow, o2, M)
  PROVE  Inherits(r, o2)
<1> DEFINE c == kk.current
<1>1. \A m \in Mutex :
        /\ Members(kk.q[m]) \subseteq Thread /\ c \notin Members(kk.q[m])
        /\ kk.q[m] # <<>> =>
             /\ Head(kk.q[m]) \in Members(kk.q[m])
             /\ Members(Tail(kk.q[m])) = Members(kk.q[m]) \ {Head(kk.q[m])}
             /\ \A u \in Members(kk.q[m]) : kk.prio[u] <= kk.prio[Head(kk.q[m])]
  BY MutexQueues
<1>2. kk.prio \in [Thread -> Prios] /\ c \in Thread /\ NoThread \notin Thread
  BY KernelIs, MutexAssumption DEF Listed
<1>3. \A u \in Thread : r.prio[u] = IF u = c THEN x ELSE kk.prio[u]
  BY <1>2 DEF GivenUp
<1>4. r.realprio = kk.realprio
  BY DEF GivenUp
<1>5. ASSUME NEW n \in Mutex, n \notin M
      PROVE  o2[n] = ow[n] /\ r.q[n] = kk.q[n]
  BY <1>5 DEF NewOwners, GivenUp
<1>6. ASSUME NEW n \in M, NEW t \in Thread, o2[n] = t
      PROVE  /\ kk.q[n] # <<>> /\ t = Head(kk.q[n]) /\ t # c
             /\ Members(r.q[n]) \subseteq Members(kk.q[n])
  BY <1>1, <1>2, <1>6 DEF NewOwners, GivenUp, To
<1> HIDE DEF c
<1>7. ASSUME NEW t \in Thread
      PROVE  /\ r.realprio[t] <= r.prio[t]
             /\ \A u \in Thread : WaitsFor(r.q, o2, u, t) => r.prio[u] <= r.prio[t]
             /\ \/ r.prio[t] = r.realprio[t]
                \/ \E u \in Thread : WaitsFor(r.q, o2, u, t) /\ r.prio[u] = r.prio[t]
  <2>1. CASE t = c
    <3>1. r.prio[t] = x /\ r.realprio[t] <= x
      BY <1>2, <1>3, <1>4, <2>1 DEF LeftWith, c
    <3>2. ASSUME NEW u \in Thread, WaitsFor(r.q, o2, u, t)
          PROVE  r.prio[u] <= r.prio[t]
      <4>1. PICK n \in Mutex : o2[n] = t /\ u \in Members(r.q[n])
        BY <3>2 DEF WaitsFor
      <4>2. n \notin M
        BY <1>6, <2>1, <4>1
      <4>3. ow[n] = t /\ u \in Members(kk.q[n])
        BY <1>5, <4>1, <4>2
      <4>4. u # c /\ kk.prio[u] <= x
        BY <1>1, <2>1, <4>2, <4>3 DEF LeftWith, c
      <4> QED
        BY <1>3, <3>1, <4>4
    <3>3. CASE x = kk.realprio[c]
      BY <1>4, <2>1, <3>1, <3>2, <3>3
    <3>4. CASE \E n \in Mutex \ M : \E u \in Members(kk.q[n]) : ow[n] = c /\ kk.prio[u] = x
      <4>0. PICK n \in Mutex \ M : \E u \in Members(kk.q[n]) : ow[n] = c /\ kk.prio[u] = x
        BY <3>4
      <4>1. PICK u \in Members(kk.q[n]) : ow[n] = c /\ kk.prio[u] = x
        BY <4>0
      <4>2. u \in Thread /\ u # c
        BY <1>1, <4>1
      <4>3. WaitsFor(r.q, o2, u, t) /\ r.prio[u] = x
        BY <1>3, <1>5, <2>1, <4>1, <4>2 DEF WaitsFor
      <4> QED
        BY <3>1, <3>2, <4>2, <4>3
    <3>5. x = kk.realprio[c]
          \/ \E n \in Mutex \ M : \E u \in Members(kk.q[n]) : ow[n] = c /\ kk.prio[u] = x
      BY DEF LeftWith, c
    <3> QED
      BY <3>1, <3>2, <3>3, <3>4, <3>5
  <2>2. CASE t # c
    <3>1. r.prio[t] = kk.prio[t]
      BY <1>3, <2>2
    <3>2. /\ kk.realprio[t] <= kk.prio[t]
          /\ \A u \in Thread : WaitsFor(kk.q, ow, u, t) => kk.prio[u] <= kk.prio[t]
          /\ \/ kk.prio[t] = kk.realprio[t]
             \/ \E u \in Thread : WaitsFor(kk.q, ow, u, t) /\ kk.prio[u] = kk.prio[t]
      BY DEF Inherits
    <3>3. ASSUME NEW u \in Thread, WaitsFor(r.q, o2, u, t)
          PROVE  r.prio[u] <= r.prio[t]
      <4>1. PICK n \in Mutex : o2[n] = t /\ u \in Members(r.q[n])
        BY <3>3 DEF WaitsFor
      <4>2. u \in Members(kk.q[n]) /\ kk.prio[u] <= kk.prio[t]
        <5>1. CASE n \in M
          <6>1. kk.q[n] # <<>> /\ t = Head(kk.q[n]) /\ u \in Members(kk.q[n])
            BY <1>6, <4>1, <5>1
          <6> QED
            BY <1>1, <6>1
        <5>2. CASE n \notin M
          <6>1. ow[n] = t /\ u \in Members(kk.q[n])
            BY <1>5, <4>1, <5>2
          <6> QED
            BY <3>2, <6>1 DEF WaitsFor
        <5> QED
          BY <5>1, <5>2
      <4>3. u # c
        BY <1>1, <4>2
      <4> QED
        BY <1>3, <3>1, <4>2, <4>3
    <3>4. ASSUME NEW u \in Thread, WaitsFor(kk.q, ow, u, t), kk.prio[u] = kk.prio[t]
          PROVE  WaitsFor(r.q, o2, u, t) /\ r.prio[u] = r.prio[t]
      <4>1. PICK n \in Mutex : ow[n] = t /\ u \in Members(kk.q[n])
        BY <3>4 DEF WaitsFor
      <4>2. n \notin M
        BY <2>2, <4>1 DEF c
      <4>3. u # c
        BY <1>1, <4>1
      <4> QED
        BY <1>3, <1>5, <3>1, <3>4, <4>1, <4>2, <4>3 DEF WaitsFor
    <3> QED
      BY <1>4, <3>1, <3>2, <3>3, <3>4
  <2> QED
    BY <2>1, <2>2
<1> QED
  BY <1>7 DEF Inherits

(* Its owners and its stacks agree as before.                               *)
NewLists(kk, ml, l2, M, c) ==
  /\ l2 \in [Thread -> Seq(Mutex)]
  /\ \A t \in Thread :
       /\ Once(l2[t])
       /\ Members(l2[t]) = IF t = c THEN Members(ml[c]) \ M
                            ELSE Members(ml[t]) \cup {n \in M : To(kk, n) = t}

(* Mutexes that are given up are owned by those that waited first.          *)
LEMMA GivenUpOwned ==
  ASSUME NEW kk, Listed(kk, {}), NEW ow, NEW ml, Owned(kk.q, ow, ml),
         NEW M \in SUBSET Mutex, \A m \in M : ow[m] = kk.current,
         NEW x, NEW r, GivenUp(kk, r, M, kk.current, x),
         NEW o2, NewOwners(kk, ow, o2, M), NEW l2, NewLists(kk, ml, l2, M, kk.current)
  PROVE  Owned(r.q, o2, l2)
<1> DEFINE c == kk.current
<1>1. \A m \in Mutex :
        /\ Members(kk.q[m]) \subseteq Thread /\ c \notin Members(kk.q[m])
        /\ kk.q[m] # <<>> => Head(kk.q[m]) \in Members(kk.q[m])
  BY MutexQueues
<1>2. c \in Thread /\ NoThread \notin Thread
  BY KernelIs, MutexAssumption DEF Listed
<1>3. \A m \in Mutex : /\ To(kk, m) \in (Thread \ {c}) \cup {NoThread}
                       /\ To(kk, m) = NoThread => kk.q[m] = <<>>
  BY <1>1, <1>2 DEF To
<1>4. /\ ow \in [Mutex -> Thread \cup {NoThread}] /\ ml \in [Thread -> Seq(Mutex)]
      /\ \A t \in Thread, m \in Mutex : m \in Members(ml[t]) <=> ow[m] = t
      /\ \A m \in Mutex : ow[m] = NoThread => kk.q[m] = <<>>
  BY DEF Owned
<1>5. \A n \in Mutex : /\ o2[n] = IF n \in M THEN To(kk, n) ELSE ow[n]
                       /\ r.q[n] = IF n \in M /\ kk.q[n] # <<>> THEN Tail(kk.q[n]) ELSE kk.q[n]
  BY DEF NewOwners, GivenUp
<1>6. \A m \in M : ow[m] = c
  OBVIOUS
<1>7. \A t \in Thread : Members(l2[t]) = IF t = c THEN Members(ml[c]) \ M
                           ELSE Members(ml[t]) \cup {n \in M : To(kk, n) = t}
  BY DEF NewLists
<1> HIDE DEF c
<1>8. o2 \in [Mutex -> Thread \cup {NoThread}]
  <2>1. \A n \in Mutex : o2[n] \in Thread \cup {NoThread}
    BY <1>3, <1>4, <1>5
  <2> QED
    BY <2>1 DEF NewOwners
<1>9. \A t \in Thread, m \in Mutex : m \in Members(l2[t]) <=> o2[m] = t
  <2> SUFFICES ASSUME NEW t \in Thread, NEW m \in Mutex
               PROVE  m \in Members(l2[t]) <=> o2[m] = t
    OBVIOUS
  <2>1. CASE t = c
    <3>1. m \in Members(l2[t]) <=> m \in Members(ml[c]) /\ m \notin M
      BY <1>7, <2>1
    <3> QED
      BY <1>2, <1>3, <1>4, <1>5, <2>1, <3>1
  <2>2. CASE t # c
    <3>1. m \in Members(l2[t]) <=> m \in Members(ml[t]) \/ (m \in M /\ To(kk, m) = t)
      BY <1>7, <2>2
    <3> QED
      BY <1>4, <1>5, <1>6, <2>2, <3>1
  <2> QED
    BY <2>1, <2>2
<1>10. \A m \in Mutex : o2[m] = NoThread => r.q[m] = <<>>
  BY <1>3, <1>4, <1>5
<1> QED
  BY <1>8, <1>9, <1>10 DEF Owned, NewLists

(* A mutex in front of a stack.                                             *)
LEMMA StackedIs ==
  ASSUME NEW s \in Seq(Mutex), NEW m \in Mutex, NEW r, r = Stacked(m, s)
  PROVE  r \in Seq(Mutex) /\ Members(r) = Members(s) \cup {m}
         /\ (Once(s) /\ m \notin Members(s) => Once(r))
<1>0. r = <<m>> \o s
  BY DEF Stacked
<1>1. r \in Seq(Mutex) /\ Len(r) = Len(s) + 1 /\ Len(s) \in Nat
  BY <1>0
<1>2. r[1] = m /\ \A i \in 1..Len(s) : r[i + 1] = s[i]
  BY <1>0
<1>3. \A i \in 2..Len(s) + 1 : i - 1 \in 1..Len(s) /\ r[i] = s[i - 1]
  BY <1>1, <1>2
<1>4. DOMAIN r = 1..Len(s) + 1 /\ DOMAIN s = 1..Len(s)
  BY <1>1
<1>5. \A x : x \in Members(s) => x \in Members(r)
  <2> SUFFICES ASSUME NEW i \in 1..Len(s)
               PROVE  s[i] \in Members(r)
    BY <1>4 DEF Members
  <2>1. i + 1 \in 1..Len(s) + 1 /\ r[i + 1] = s[i]
    BY <1>1, <1>2
  <2> QED
    BY <1>4, <2>1 DEF Members
<1>6. m \in Members(r)
  BY <1>1, <1>2, <1>4 DEF Members
<1>7. \A x \in Members(r) : x = m \/ x \in Members(s)
  <2> SUFFICES ASSUME NEW i \in 1..Len(s) + 1
               PROVE  r[i] = m \/ r[i] \in Members(s)
    BY <1>4 DEF Members
  <2>1. CASE i = 1
    BY <1>2, <2>1
  <2>2. CASE i # 1
    <3>1. i - 1 \in DOMAIN s /\ r[i] = s[i - 1]
      BY <1>1, <1>3, <1>4, <2>2
    <3> QED
      BY <3>1 DEF Members
  <2> QED
    BY <2>1, <2>2
<1>8. Members(r) = Members(s) \cup {m}
  BY <1>5, <1>6, <1>7
<1>9. ASSUME Once(s), m \notin Members(s)
      PROVE  Once(r)
  <2>1. \A i \in 1..Len(s) : s[i] # m
    BY <1>4, <1>9 DEF Members
  <2>2. \A i \in 1..Len(s) + 1 : i = 1 \/ i \in 2..Len(s) + 1
    BY <1>1
  <2>3. \A i, j \in 2..Len(s) + 1 : s[i - 1] = s[j - 1] => i = j
    <3> SUFFICES ASSUME NEW i \in 2..Len(s) + 1, NEW j \in 2..Len(s) + 1, s[i - 1] = s[j - 1]
                 PROVE  i = j
      OBVIOUS
    <3>1. i - 1 \in DOMAIN s /\ j - 1 \in DOMAIN s
      BY <1>1, <1>4
    <3>2. i - 1 = j - 1
      BY <1>9, <3>1 DEF Once
    <3> QED
      BY <1>1, <3>2
  <2> QED
    BY <1>2, <1>3, <1>4, <2>1, <2>2, <2>3 DEF Once
<1> QED
  BY <1>1, <1>8, <1>9

(* The invariant, with the mutexes.                                         *)
KInv == IInv /\ (api = "mtx" => MtxOK(k, owner, mtxlist))
MtxOthers ==
  <<waiting, systime, msgqueue, taken, epending, ewmask, listeners, mb, posted,
    io, q_counter, held>>

(* What keeps the lists and the owners keeps the invariant, when mutexes    *)
(* are used.                                                                *)
LEMMA MtxRight ==
  ASSUME IInv, api = "mtx", api' = api, UNCHANGED MtxOthers,
         Stable(k', pc', api), MtxOK(k', owner', mtxlist')
  PROVE  KInv'
<1>1. KernelRight(k') /\ Placed(k', pc', api)
  BY DEF Stable
<1>2. Untouched(api)'
  <2>1. Untouched(api)
    BY DEF IInv
  <2> QED
    BY <2>1 DEF Untouched, MtxOthers, MsgInit, EvtInit, chMBInit, chIQInit
<1>3. systime' \in 0..1 /\ api \notin Queue
  BY DEF IInv, MtxOthers, Queue
<1>4. IInv'
  BY <1>1, <1>2, <1>3, StepRight
<1> QED
  BY <1>4 DEF KInv

(* A priority that is handed on moves no thread to another list.            *)
LEMMA PlacesChange ==
  ASSUME NEW kk, NEW a, Changed(kk, a, "mtx"), NEW h, Listed(h, {}), SamePlaces(a, h)
  PROVE  Changed(kk, h, "mtx") /\ View(h) = View(a)
<1>1. \A o \in Object : o \in Mutex \cup CondVar \/ h.q[o] = a.q[o]
  BY DEF SamePlaces
<1>2. Counted(h)
  <2>1. \A s \in Sem : s \in Object /\ s \notin Mutex \cup CondVar
    BY ThreadAssumption, MutexAssumption
  <2> QED
    BY <1>1, <2>1 DEF Counted, Changed, SamePlaces
<1>3. \A o \in Object : o \in ObjectsOf("mtx") \/ h.q[o] = <<>>
  BY <1>1 DEF Changed, ObjectsOf
<1>4. View(h) = View(a)
  BY DEF View, SamePlaces
<1>5. Frame(kk, h, Thread)
  BY <1>4 DEF Changed, Frame, SamePlaces
<1> QED
  BY <1>2, <1>3, <1>4, <1>5 DEF Changed, SamePlaces

(* A thread in the queue of a mutex: its owner has that thread's priority,  *)
(* and so has every thread that the owner waits for in turn.                *)
Joined(kk, h, r, ow, m, c) ==
  /\ h \in KernelState /\ m \in Mutex /\ c \in Thread /\ ow[m] \in Thread /\ kk.prio[c] \in Nat
  /\ Chained(kk, ow, h, NoThread, ow[m], kk.prio[c])
  /\ r.prio = h.prio /\ r.realprio = h.realprio
  /\ \A n \in Mutex : Members(r.q[n]) = IF n = m THEN Members(kk.q[n]) \cup {c}
                                         ELSE Members(kk.q[n])

(* A thread that queues for a mutex, once its owner has inherited, breaks   *)
(* no inheritance.                                                          *)
LEMMA QueuedInherits ==
  ASSUME NEW kk, NEW h, NEW r, NEW ow, NEW m, NEW c, Joined(kk, h, r, ow, m, c)
  PROVE  Inherits(r, ow)
<1> DEFINE p == kk.prio[c]
           first == ow[m]
<1>0. /\ h \in KernelState /\ m \in Mutex /\ c \in Thread /\ first \in Thread /\ p \in Nat
      /\ Chained(kk, ow, h, NoThread, first, p)
      /\ r.prio = h.prio /\ r.realprio = h.realprio
      /\ \A n \in Mutex : Members(r.q[n]) = IF n = m THEN Members(kk.q[n]) \cup {c}
                                             ELSE Members(kk.q[n])
  BY DEF Joined
<1>1. NoThread \notin Thread
  BY MutexAssumption
<1>2. Prices(kk, h, p) /\ \A t \in Thread : Reached(kk, ow, h, t, first, p)
  BY <1>0, <1>1 DEF Chained
<1>3. h.prio[c] = p /\ \A t \in Thread : h.realprio[t] <= h.prio[t] /\ h.prio[t] \in Nat
  BY <1>0, <1>2, KernelIs DEF Prices
<1>4. \A u, t \in Thread : WaitsFor(r.q, ow, u, t) <=> WaitsFor(kk.q, ow, u, t) \/ (u = c /\ t = first)
  BY <1>0 DEF WaitsFor
<1> HIDE DEF p, first
<1>5. ASSUME NEW t \in Thread
      PROVE  /\ h.realprio[t] <= h.prio[t]
             /\ \A u \in Thread : WaitsFor(r.q, ow, u, t) => h.prio[u] <= h.prio[t]
             /\ \/ h.prio[t] = h.realprio[t]
                \/ \E u \in Thread : WaitsFor(r.q, ow, u, t) /\ h.prio[u] = h.prio[t]
  <2>1. /\ \A u \in Thread : WaitsFor(kk.q, ow, u, t) => h.prio[u] <= h.prio[t]
        /\ t = first => p <= h.prio[t]
        /\ Tight(kk, ow, h, t, first, p)
    BY <1>2 DEF Reached
  <2>2. \A u \in Thread : WaitsFor(r.q, ow, u, t) => h.prio[u] <= h.prio[t]
    BY <1>0, <1>3, <1>4, <2>1
  <2> QED
    BY <1>0, <1>3, <1>4, <2>1, <2>2 DEF Tight
<1> QED
  BY <1>0, <1>5 DEF Inherits

(* A thread goes to sleep in the queue of a mutex, its owner and whoever    *)
(* that waits for having been given its priority.                           *)
LEMMA MtxSleepStable ==
  ASSUME NEW p, Stable(k, p, "mtx"), me # Idle,
         NEW kk, Changed(k, kk, "mtx"), kk.current = me, kk.due[me] = 0,
         \A t \in Thread : View(kk)[t] \in ViewsOf("mtx"),
         MtxOK(kk, owner, mtxlist), NEW m \in Mutex, owner[m] # NoThread,
         NEW r, r = MtxSleepS(kk, m)
  PROVE  Stable(r, [p EXCEPT ![me] = <<"woken">>], "mtx") /\ MtxOK(r, owner, mtxlist)
<1> DEFINE c == kk.current
           first == owner[m]
           h == Inherit(kk, first, kk.prio[c])
           x == prio_insert(h, h.q[m], c)
           w == [h.q EXCEPT ![m] = x]
           e == [h EXCEPT !.q[m] = prio_insert(h, @, c)]
<1>1. Listed(kk, {}) /\ kk \in KernelState /\ TimersAre(kk.vt, kk.due) /\ c \in Thread
      /\ kk.prio[c] \in Prios /\ kk.prio[c] \in Nat /\ c = me
  BY KernelIs DEF Changed, Listed
<1>2. Owned(kk.q, owner, mtxlist) /\ Inherits(kk, owner)
  BY DEF MtxOK
<1>3. first \in Thread
  BY <1>2 DEF Owned
<1>4. r = chSchGoSleepTimeoutS(e, "WTMTX", Infinite)
  BY <1>1 DEF MtxSleepS, chSchGoSleepTimeoutS
<1>5. Listed(h, {}) /\ SamePlaces(kk, h) /\ Chained(kk, owner, h, NoThread, first, kk.prio[c])
  <2> DEFINE z == kk.prio[c]
  <2> HIDE DEF z, first, c
  <2>1. h = Inherit(kk, first, z)
    BY DEF z
  <2>2. z \in Prios
    BY <1>1 DEF z
  <2> HIDE DEF h
  <2>3. Listed(h, {}) /\ SamePlaces(kk, h) /\ Chained(kk, owner, h, NoThread, first, z)
    BY <1>1, <1>2, <1>3, <2>1, <2>2, InheritIs
  <2> QED
    BY <2>3 DEF z
<1> HIDE DEF h
<1>6. /\ h \in KernelState /\ h.current = c /\ h.prio \in [Thread -> Prios]
      /\ h.q \in [Object -> Seq(Thread)] /\ m \in Object /\ h.q[m] \in Seq(Thread)
      /\ TimersAre(h.vt, h.due) /\ h.due[c] = 0
  BY <1>1, <1>5, KernelIs, MutexAssumption DEF Listed, SamePlaces
<1>7. c \notin Members(h.q[m]) /\ Once(h.q[m]) /\ Ranked(h.prio, h.q[m])
  BY <1>5, <1>6, MutexQueues DEF Listed, QueuesRight
<1>8. PlacedIn(x, h.prio, h.q[m], c)
  BY <1>1, <1>6, PrioInsertIs
<1> HIDE DEF x
<1>9. x \in Seq(Thread) /\ Once(x) /\ Members(x) = Members(h.q[m]) \cup {c} /\ Ranked(h.prio, x)
  BY <1>7, <1>8 DEF PlacedIn
<1>10. e = [h EXCEPT !.q = w]
  BY DEF x
<1>11. w \in [Object -> Seq(Thread)] /\ \A o \in Object : w[o] = IF o = m THEN x ELSE h.q[o]
  BY <1>6, <1>9
<1>12. w = [h.q EXCEPT ![m] = x]
  OBVIOUS
<1> HIDE DEF w, e
<1>13. /\ e \in KernelState /\ SameThreads(h, e) /\ e.q = w /\ e.cnt = h.cnt /\ e.msg = h.msg
       /\ e.realprio = h.realprio /\ e.vt = h.vt /\ e.due = h.due
  BY <1>6, <1>10, <1>11 DEF KernelState, SameThreads
<1>14. Kind(m) = "WTMTX"
  BY MutexAssumption DEF Kind
<1>15. Sleep(h, e, r, "WTMTX")
  <2>1. e.q = [h.q EXCEPT ![m] = x] /\ h.current # Idle /\ h.due[h.current] = 0
    BY <1>1, <1>6, <1>12, <1>13
  <2>2. Once(x) /\ Members(x) = Members(h.q[m]) \cup {h.current} /\ (m \in Mutex => Ranked(h.prio, x))
    BY <1>6, <1>9
  <2>3. Infinite \in Time \cup {Infinite}
    OBVIOUS
  <2> HIDE DEF c
  <2>4. Sleep(h, e, chSchGoSleepTimeoutS(e, Kind(m), Infinite), Kind(m))
    BY <1>5, <1>6, <1>13, <2>1, <2>2, <2>3, SleepQueued
  <2> QED
    BY <1>4, <1>14, <2>4
<1>16. Changed(k, h, "mtx")
  BY <1>5, PlacesChange
<1>17. Counted(e) /\ \A o \in Object : o \in ObjectsOf("mtx") \/ e.q[o] = <<>>
  <2>1. \A s \in Sem : s \in Object /\ s # m
    BY ThreadAssumption, MutexAssumption
  <2> QED
    BY <1>11, <1>13, <1>16, <2>1 DEF Changed, Counted, ObjectsOf
<1>18. Stable(r, [p EXCEPT ![me] = <<"woken">>], "mtx")
  <2> DEFINE y == <<"woken">>
  <2>1. y \in PlacesOf("mtx") /\ y[1] \notin {"user", "more"}
    BY DEF PlacesOf
  <2>2. "WTMTX" \in ViewsOf("mtx") \ Absent
    BY DEF ViewsOf, Absent
  <2> HIDE DEF y
  <2>4. h.current = k.current /\ k.current # Idle
    BY <1>1, <1>6 DEF me
  <2>5. r.due[k.current] = 0
    <3>1. r = chSchGoSleepS(e, "WTMTX")
      BY <1>4 DEF chSchGoSleepTimeoutS
    <3>2. SameRest(e, r)
      <4>1. e.ready # <<>>
        <5>1. e.current = h.current /\ h.current # Idle /\ e.ready = h.ready
          BY <1>13, <2>4 DEF SameThreads
        <5>2. h.ready # <<>>
          BY <1>5, <5>1, <2>4, IdleIsReady
        <5> QED
          BY <5>1, <5>2
      <4>2. "WTMTX" \in States /\ "WTMTX" \notin Runs
        BY DEF States, Runs
      <4> QED
        BY <1>13, <3>1, <4>1, <4>2, GoSleepIs
    <3> QED
      BY <1>1, <1>6, <1>13, <3>2 DEF SameRest, me
  <2>6. Stable(r, [p EXCEPT ![k.current] = y], "mtx")
    BY <1>13, <1>15, <1>16, <1>17, <2>1, <2>2, <2>4, <2>5, SleptAfter
  <2> QED
    BY <2>6 DEF y, me
<1>19. MtxOK(r, owner, mtxlist)
  <2>1. r.q = w /\ r.prio = h.prio /\ r.realprio = h.realprio
    BY <1>13, <1>15 DEF Sleep
  <2>2. \A n \in Mutex : n \in Object /\ Members(h.q[n]) = Members(kk.q[n])
    BY <1>5, MutexAssumption DEF SamePlaces
  <2>3. \A n \in Mutex : Members(r.q[n]) = IF n = m THEN Members(kk.q[n]) \cup {c}
                                            ELSE Members(kk.q[n])
    BY <1>9, <1>11, <2>1, <2>2
  <2>4. Inherits(r, owner)
    <3>1. owner[m] \in Thread /\ Chained(kk, owner, h, NoThread, owner[m], kk.prio[c])
      BY <1>3, <1>5
    <3>2. c \in Thread /\ kk.prio[c] \in Nat /\ h \in KernelState
      BY <1>1, <1>6
    <3>3. Joined(kk, h, r, owner, m, c)
      BY <2>1, <2>3, <3>1, <3>2 DEF Joined
    <3> QED
      BY <3>3, QueuedInherits
  <2>5. Owned(r.q, owner, mtxlist)
    <3>1. \A n \in Mutex : owner[n] = NoThread => r.q[n] = <<>>
      <4> SUFFICES ASSUME NEW n \in Mutex, owner[n] = NoThread
                   PROVE  r.q[n] = <<>>
        OBVIOUS
      <4>1. kk.q[n] = <<>> /\ n # m
        BY <1>2 DEF Owned
      <4>2. Members(r.q[n]) = {}
        BY <2>3, <4>1 DEF Members
      <4>3. r.q[n] \in Seq(Thread)
        BY <1>11, <2>1, MutexAssumption
      <4> QED
        BY <4>2, <4>3, MembersAre
    <3> QED
      BY <1>2, <3>1 DEF Owned
  <2> QED
    BY <2>4, <2>5 DEF MtxOK
<1> QED
  BY <1>18, <1>19

(* A thread takes a mutex that is free: nobody waits for it.                *)
LEMMA OwnRight ==
  ASSUME NEW kk, MtxOK(kk, owner, mtxlist), NEW r, SameMtx(kk, r),
         NEW m \in Mutex, NEW t \in Thread, owner[m] = NoThread, Own(m, t)
  PROVE  MtxOK(r, owner', mtxlist')
<1>1. Owned(r.q, owner, mtxlist) /\ Inherits(r, owner)
  BY SameMtxOK DEF MtxOK
<1>2. /\ owner \in [Mutex -> Thread \cup {NoThread}] /\ mtxlist \in [Thread -> Seq(Mutex)]
      /\ \A u \in Thread : Once(mtxlist[u])
      /\ \A u \in Thread, n \in Mutex : n \in Members(mtxlist[u]) <=> owner[n] = u
      /\ \A n \in Mutex : owner[n] = NoThread => r.q[n] = <<>>
  BY <1>1 DEF Owned
<1>3. NoThread \notin Thread /\ mtxlist[t] \in Seq(Mutex)
  BY <1>2, MutexAssumption
<1> DEFINE s == mtxlist[t]
           x == Stacked(m, s)
           o2 == owner'
           l2 == mtxlist'
<1>4. m \notin Members(s)
  BY <1>2, <1>3
<1>5. x \in Seq(Mutex) /\ Members(x) = Members(s) \cup {m} /\ Once(x)
  BY <1>2, <1>3, <1>4, StackedIs
<1>6. o2 \in [Mutex -> Thread \cup {NoThread}] /\ \A n \in Mutex : o2[n] = IF n = m THEN t ELSE owner[n]
  BY <1>2 DEF Own
<1>7. l2 = [mtxlist EXCEPT ![t] = x]
  BY DEF Own
<1> HIDE DEF x, o2, l2
<1>8. l2 \in [Thread -> Seq(Mutex)] /\ \A u \in Thread : l2[u] = IF u = t THEN x ELSE mtxlist[u]
  BY <1>2, <1>5, <1>7
<1>9. \A u \in Thread, n \in Mutex : n \in Members(l2[u]) <=> o2[n] = u
  <2> SUFFICES ASSUME NEW u \in Thread, NEW n \in Mutex
               PROVE  n \in Members(l2[u]) <=> o2[n] = u
    OBVIOUS
  <2>1. CASE u = t
    <3>1. n \in Members(l2[u]) <=> n = m \/ n \in Members(s)
      BY <1>5, <1>8, <2>1
    <3> QED
      BY <1>2, <1>6, <2>1, <3>1
  <2>2. CASE u # t
    <3>1. l2[u] = mtxlist[u]
      BY <1>8, <2>2
    <3> QED
      BY <1>2, <1>3, <1>6, <2>2, <3>1
  <2> QED
    BY <2>1, <2>2
<1>10. \A u \in Thread : Once(l2[u])
  BY <1>2, <1>5, <1>8
<1>11. Owned(r.q, o2, l2)
  BY <1>2, <1>6, <1>8, <1>9, <1>10 DEF Owned
<1>12. \A u, v \in Thread : WaitsFor(r.q, o2, u, v) <=> WaitsFor(r.q, owner, u, v)
  <2>1. Members(r.q[m]) = {}
    <3>1. r.q[m] = <<>>
      BY <1>2
    <3> QED
      BY <3>1 DEF Members
  <2> QED
    BY <1>3, <1>6, <2>1 DEF WaitsFor
<1>13. Inherits(r, o2)
  BY <1>1, <1>12 DEF Inherits
<1> QED
  BY <1>11, <1>13 DEF MtxOK, o2, l2

(* What a call with mutexes starts from.                                    *)
LEMMA MtxCalled ==
  ASSUME KInv, api = "mtx", Calls
  PROVE  /\ IInv /\ Stable(k, pc, "mtx") /\ Caller(k, pc) /\ me = k.current /\ me # Idle
         /\ me \in Thread /\ Listed(k, {}) /\ HighestCurrent(k)
         /\ MtxOK(k, owner, mtxlist) /\ Changed(k, k, "mtx")
         /\ \A t \in Thread : View(k)[t] \in ViewsOf("mtx")
<1>1. IInv /\ Stable(k, pc, "mtx") /\ MtxOK(k, owner, mtxlist)
  BY DEF KInv, IInv, Stable
<1>2. Caller(k, pc)
  BY <1>1, CallerIs DEF Stable
<1> QED
  BY <1>1, <1>2, StillPlain DEF Caller, Stable, Placed, me

(* chMtxLock keeps the invariant.                                           *)
LEMMA LockRight ==
  ASSUME KInv, api = "mtx", api' = api, UNCHANGED MtxOthers, NEW m \in Mutex, chMtxLock(m)
  PROVE  KInv'
<1>1. Calls
  BY DEF chMtxLock
<1>2. /\ IInv /\ Stable(k, pc, "mtx") /\ Caller(k, pc) /\ me = k.current /\ me # Idle
      /\ me \in Thread /\ MtxOK(k, owner, mtxlist) /\ Changed(k, k, "mtx")
      /\ \A t \in Thread : View(k)[t] \in ViewsOf("mtx")
  BY <1>1, MtxCalled
<1>3. CASE owner[m] = NoThread /\ Own(m, me) /\ UNCHANGED <<k, pc>>
  <2>1. SameMtx(k, k)
    BY DEF SameMtx
  <2>2. MtxOK(k, owner', mtxlist')
    BY <1>2, <1>3, <2>1, OwnRight
  <2>3. Stable(k', pc', "mtx") /\ MtxOK(k', owner', mtxlist')
    BY <1>2, <1>3, <2>2
  <2> QED
    BY <1>2, <2>3, MtxRight
<1>4. CASE owner[m] # NoThread /\ k' = MtxSleepS(k, m) /\ Sleeps(<<"woken">>) /\ UNCHANGED mtxVars
  <2> DEFINE r == MtxSleepS(k, m)
             p == [pc EXCEPT ![me] = <<"woken">>]
  <2>1. k.current = me /\ k.due[me] = 0
    BY <1>2 DEF Caller
  <2>2. r = MtxSleepS(k, m)
    OBVIOUS
  <2> HIDE DEF r
  <2>3. Stable(r, p, "mtx") /\ MtxOK(r, owner, mtxlist)
    BY <1>2, <1>4, <2>1, <2>2, MtxSleepStable
  <2>4. k' = r /\ pc' = p /\ owner' = owner /\ mtxlist' = mtxlist
    BY <1>4, <2>2 DEF Sleeps, mtxVars
  <2> HIDE DEF p
  <2>5. Stable(k', pc', api) /\ MtxOK(k', owner', mtxlist')
    BY <2>3, <2>4
  <2> QED
    BY <1>2, <2>5, MtxRight
<1> QED
  BY <1>3, <1>4 DEF chMtxLock

(* chMtxTryLock keeps the invariant.                                        *)
LEMMA TryLockRight ==
  ASSUME KInv, api = "mtx", api' = api, UNCHANGED MtxOthers, NEW m \in Mutex, chMtxTryLock(m)
  PROVE  KInv'
<1>1. Calls /\ owner[m] = NoThread /\ Own(m, me) /\ k' = k /\ pc' = pc
  BY DEF chMtxTryLock, threadVars
<1>2. IInv /\ Stable(k, pc, "mtx") /\ me \in Thread /\ MtxOK(k, owner, mtxlist)
  BY <1>1, MtxCalled
<1>3. SameMtx(k, k)
  BY DEF SameMtx
<1>4. MtxOK(k, owner', mtxlist')
  BY <1>1, <1>2, <1>3, OwnRight
<1>5. Stable(k', pc', api) /\ MtxOK(k', owner', mtxlist')
  BY <1>1, <1>2, <1>4
<1> QED
  BY <1>2, <1>5, MtxRight

(* The priority that the other mutexes of a thread leave to it.             *)
LEMMA PrioLeftIs ==
  ASSUME Listed(k, {}), MtxOK(k, owner, mtxlist), mtxlist[me] # <<>>,
         NEW m, m = Head(mtxlist[me]), NEW x, x = PrioLeft(k, me, Tail(mtxlist[me]))
  PROVE  m \in Mutex /\ owner[m] = me /\ LeftWith(k, owner, me, {m}, x)
<1> DEFINE rest == Tail(mtxlist[me])
           N == {n \in Members(rest) : k.q[n] # <<>>}
           S == {k.realprio[me]} \cup {k.prio[Head(k.q[n])] : n \in N}
<1>1. me \in Thread /\ k.prio \in [Thread -> Prios] /\ k.realprio \in [Thread -> Prios]
  BY KernelIs DEF Listed, me
<1>2. Owned(k.q, owner, mtxlist)
  BY DEF MtxOK
<1>3. mtxlist[me] \in Seq(Mutex) /\ Once(mtxlist[me])
      /\ \A n \in Mutex : n \in Members(mtxlist[me]) <=> owner[n] = me
  BY <1>1, <1>2 DEF Owned
<1>4. m \in Mutex /\ m \in Members(mtxlist[me]) /\ Members(rest) = Members(mtxlist[me]) \ {m}
      /\ rest \in Seq(Mutex)
  BY <1>3, TailPlaces
<1>5. Members(rest) \subseteq Mutex
  BY <1>4 DEF Members
<1>6. \A n \in Mutex : n \in Members(rest) <=> owner[n] = me /\ n # m
  BY <1>3, <1>4
<1> HIDE DEF rest
<1>7. \A n \in Mutex :
        /\ Members(k.q[n]) \subseteq Thread
        /\ k.q[n] # <<>> => /\ Head(k.q[n]) \in Members(k.q[n])
                            /\ \A u \in Members(k.q[n]) : k.prio[u] <= k.prio[Head(k.q[n])]
  BY MutexQueues
<1>8. \A n \in N : n \in Mutex /\ owner[n] = me /\ n # m /\ k.q[n] # <<>>
  BY <1>5, <1>6
<1>9. S \subseteq Prios /\ S # {}
  BY <1>1, <1>7, <1>8
<1>10. x = MaxOf(S)
  BY DEF PrioLeft, rest
<1> HIDE DEF S, N
<1>11. x \in S /\ \A i \in S : i <= x
  BY <1>9, <1>10, MaxOfIs
<1>12. k.realprio[me] <= x
  BY <1>11 DEF S
<1>13. ASSUME NEW n \in Mutex \ {m}, owner[n] = me, NEW u \in Members(k.q[n])
       PROVE  k.prio[u] <= x
  <2>1. k.q[n] # <<>>
    BY <1>13 DEF Members
  <2>2. n \in N
    BY <1>6, <1>13, <2>1 DEF N
  <2>3. k.prio[Head(k.q[n])] \in S
    BY <2>2 DEF S
  <2>4. k.prio[u] <= k.prio[Head(k.q[n])] /\ k.prio[Head(k.q[n])] <= x
    BY <1>7, <1>11, <1>13, <2>1, <2>3
  <2>5. k.prio[u] \in Nat /\ k.prio[Head(k.q[n])] \in Nat /\ x \in Nat
    <3>1. u \in Thread /\ Head(k.q[n]) \in Thread /\ x \in Prios
      BY <1>7, <1>9, <1>11, <1>13, <2>1
    <3> QED
      BY <1>1, <3>1 DEF Prios
  <2> QED
    BY <2>4, <2>5
<1>14. x = k.realprio[me] \/ \E n \in N : x = k.prio[Head(k.q[n])]
  BY <1>11 DEF S
<1>15. ASSUME NEW n \in N, x = k.prio[Head(k.q[n])]
       PROVE  \E i \in Mutex \ {m} : \E u \in Members(k.q[i]) : owner[i] = me /\ k.prio[u] = x
  <2>1. n \in Mutex \ {m} /\ owner[n] = me /\ Head(k.q[n]) \in Members(k.q[n])
    BY <1>7, <1>8
  <2> QED
    BY <1>15, <2>1
<1>16. x \in Prios
  BY <1>9, <1>11
<1> QED
  BY <1>3, <1>4, <1>12, <1>13, <1>14, <1>15, <1>16 DEF LeftWith

(* A mutex that nobody waits for leaves its owner's priority as it is.      *)
LEMMA NoneLeft ==
  ASSUME Listed(k, {}), MtxOK(k, owner, mtxlist), NEW m \in Mutex, owner[m] = me, k.q[m] = <<>>
  PROVE  LeftWith(k, owner, me, {m}, k.prio[me])
<1>1. me \in Thread /\ k.prio \in [Thread -> Prios]
  BY KernelIs DEF Listed, me
<1>2. /\ k.realprio[me] <= k.prio[me]
      /\ \A u \in Thread : WaitsFor(k.q, owner, u, me) => k.prio[u] <= k.prio[me]
      /\ \/ k.prio[me] = k.realprio[me]
         \/ \E u \in Thread : WaitsFor(k.q, owner, u, me) /\ k.prio[u] = k.prio[me]
  BY <1>1 DEF MtxOK, Inherits
<1>3. \A n \in Mutex : Members(k.q[n]) \subseteq Thread
  BY MutexQueues
<1>4. \A n \in Mutex : \A u \in Members(k.q[n]) : owner[n] = me => k.prio[u] <= k.prio[me]
  BY <1>2, <1>3 DEF WaitsFor
<1>5. Members(k.q[m]) = {}
  BY DEF Members
<1>6. ASSUME NEW u \in Thread, WaitsFor(k.q, owner, u, me), k.prio[u] = k.prio[me]
      PROVE  \E n \in Mutex \ {m} : \E v \in Members(k.q[n]) : owner[n] = me /\ k.prio[v] = k.prio[me]
  <2>1. PICK n \in Mutex : owner[n] = me /\ u \in Members(k.q[n])
    BY <1>6 DEF WaitsFor
  <2>2. n # m
    BY <1>5, <2>1
  <2> QED
    BY <1>6, <2>1, <2>2
<1> QED
  BY <1>1, <1>2, <1>4, <1>6 DEF LeftWith

(* Who gives up a mutex, or the first that waits for it, is the highest.    *)
LEMMA HighestLeft ==
  ASSUME Listed(k, {}), HighestCurrent(k), MtxOK(k, owner, mtxlist),
         NEW m \in Mutex, NEW x, LeftWith(k, owner, me, {m}, x), k.q[m] # <<>>,
         NEW y, y.state = k.state, y.current = me, y.prio = [k.prio EXCEPT ![me] = x]
  PROVE  HighestOf(y, Head(k.q[m]))
<1> DEFINE t == Head(k.q[m])
<1>1. me \in Thread /\ k.prio \in [Thread -> Prios] /\ k.state[me] = "CURRENT" /\ x \in Prios
  BY KernelIs, CurrentRuns DEF Listed, me, LeftWith
<1>2. \A u \in Thread : k.prio[u] \in Nat
  BY KernelIs DEF Listed
<1>3. x \in Nat /\ y.prio[me] = x /\ \A u \in Thread \ {me} : y.prio[u] = k.prio[u]
  BY <1>1 DEF Prios
<1>4. t \in Thread /\ t # me /\ \A u \in Members(k.q[m]) : k.prio[u] <= k.prio[t]
  BY MutexQueues DEF me
<1> HIDE DEF t
<1>5. \A n \in Mutex : Members(k.q[n]) \subseteq Thread
  BY MutexQueues
<1>6. k.prio[me] <= x \/ k.prio[me] <= k.prio[t]
  <2>1. CASE k.prio[me] = k.realprio[me]
    BY <2>1 DEF LeftWith
  <2>2. ASSUME NEW u \in Thread, WaitsFor(k.q, owner, u, me), k.prio[u] = k.prio[me]
        PROVE  k.prio[me] <= x \/ k.prio[me] <= k.prio[t]
    <3>1. PICK n \in Mutex : owner[n] = me /\ u \in Members(k.q[n])
      BY <2>2 DEF WaitsFor
    <3>2. CASE n = m
      BY <1>4, <2>2, <3>1, <3>2
    <3>3. CASE n # m
      BY <2>2, <3>1, <3>3 DEF LeftWith
    <3> QED
      BY <3>2, <3>3
  <2>3. \/ k.prio[me] = k.realprio[me]
        \/ \E u \in Thread : WaitsFor(k.q, owner, u, me) /\ k.prio[u] = k.prio[me]
    BY <1>1 DEF MtxOK, Inherits
  <2> QED
    BY <2>1, <2>2, <2>3
<1>7. ASSUME NEW u \in Thread \ {t}, y.state[u] = "READY"
      PROVE  y.prio[u] <= y.prio[me] \/ y.prio[u] <= y.prio[t]
  <2>1. u # me /\ k.prio[u] <= k.prio[me]
    BY <1>1, <1>7 DEF HighestCurrent, me
  <2>2. y.prio[u] = k.prio[u] /\ y.prio[me] = x /\ y.prio[t] = k.prio[t]
    BY <1>3, <1>4, <2>1
  <2> QED
    BY <1>1, <1>2, <1>3, <1>4, <1>6, <2>1, <2>2
<1> QED
  BY <1>7 DEF HighestOf, t

(* The first mutex of the stack is given to the first that waits for it.    *)
Handed(y, h) ==
  /\ Changed(k, y, "mtx") /\ View(y) = View(k) /\ y.current = me /\ y \in KernelState
  /\ y.q = k.q /\ y.q[h.m] # <<>> /\ h.to = Head(y.q[h.m]) /\ HighestOf(y, h.to)
  /\ h.k \in KernelState /\ SameThreads(y, h.k) /\ h.k.q = [y.q EXCEPT ![h.m] = Tail(y.q[h.m])]
  /\ h.k.cnt = y.cnt /\ h.k.vt = y.vt /\ h.k.due = y.due /\ y.due = k.due
  /\ h.k.realprio = y.realprio

(* The stacks after that.                                                   *)
LEMMA HandedLists ==
  ASSUME Listed(k, {}), MtxOK(k, owner, mtxlist), mtxlist[me] # <<>>,
         NEW m, m = Head(mtxlist[me]), NEW l,
         l = [u \in Thread |-> IF u = me THEN Tail(mtxlist[me])
                               ELSE IF u = To(k, m) THEN Stacked(m, mtxlist[u])
                               ELSE mtxlist[u]]
  PROVE  NewLists(k, mtxlist, l, {m}, me)
<1>1. me \in Thread /\ Owned(k.q, owner, mtxlist)
  BY KernelIs DEF Listed, me, MtxOK
<1>2. /\ mtxlist \in [Thread -> Seq(Mutex)] /\ \A u \in Thread : Once(mtxlist[u])
      /\ \A u \in Thread, n \in Mutex : n \in Members(mtxlist[u]) <=> owner[n] = u
  BY <1>1 DEF Owned
<1> DEFINE s == mtxlist[me]
<1>3. s \in Seq(Mutex) /\ Once(s) /\ s # <<>>
  BY <1>1, <1>2
<1>4. /\ Tail(s) \in Seq(Mutex) /\ Once(Tail(s)) /\ Members(Tail(s)) = Members(s) \ {m}
      /\ m \in Mutex /\ m \in Members(s)
  BY <1>3, TailPlaces
<1>5. owner[m] = me
  BY <1>1, <1>2, <1>4
<1> DEFINE r == Tail(s)
<1> HIDE DEF r
<1>6. \A u \in Thread : l[u] = IF u = me THEN r ELSE IF u = To(k, m) THEN Stacked(m, mtxlist[u])
                                 ELSE mtxlist[u]
  BY DEF r
<1>7. ASSUME NEW u \in Thread
      PROVE  /\ l[u] \in Seq(Mutex) /\ Once(l[u])
             /\ Members(l[u]) = IF u = me THEN Members(mtxlist[me]) \ {m}
                                ELSE Members(mtxlist[u]) \cup {n \in {m} : To(k, n) = u}
  <2>1. CASE u = me
    BY <1>4, <1>6, <2>1 DEF r
  <2>2. CASE u # me /\ u = To(k, m)
    <3> DEFINE z == mtxlist[u]
    <3>1. m \notin Members(z) /\ z \in Seq(Mutex) /\ Once(z)
      BY <1>2, <1>4, <1>5, <2>2
    <3>2. l[u] = Stacked(m, z)
      BY <1>6, <2>2
    <3> HIDE DEF z
    <3>3. l[u] \in Seq(Mutex) /\ Once(l[u]) /\ Members(l[u]) = Members(z) \cup {m}
      BY <1>4, <3>1, <3>2, StackedIs
    <3>4. {n \in {m} : To(k, n) = u} = {m}
      BY <2>2
    <3> QED
      BY <2>2, <3>3, <3>4 DEF z
  <2>3. CASE u # me /\ u # To(k, m)
    <3>1. l[u] = mtxlist[u] /\ {n \in {m} : To(k, n) = u} = {}
      BY <1>6, <2>3
    <3> QED
      BY <1>2, <2>3, <3>1
  <2> QED
    BY <2>1, <2>2, <2>3
<1>8. l \in [Thread -> Seq(Mutex)]
  <2>1. \A u \in Thread : l[u] \in Seq(Mutex)
    BY <1>7
  <2>2. DOMAIN l = Thread /\ l = [u \in Thread |-> l[u]]
    OBVIOUS
  <2> QED
    BY <2>1, <2>2
<1> QED
  BY <1>7, <1>8 DEF NewLists

(* The owners and the priorities after it.                                  *)
LEMMA HandOverIs ==
  ASSUME KInv, api = "mtx", Calls, mtxlist[me] # <<>>, NEW h, h = HandOver
  PROVE  /\ h.m \in Mutex /\ MtxOK(h.k, h.owner, h.list)
         /\ h.to = NoThread => h.k = k
         /\ h.to # NoThread => \E y : Handed(y, h)
<1>1. /\ Stable(k, pc, "mtx") /\ me = k.current /\ me \in Thread /\ Listed(k, {})
      /\ HighestCurrent(k) /\ MtxOK(k, owner, mtxlist) /\ k \in KernelState
  BY MtxCalled DEF Listed
<1>2. Owned(k.q, owner, mtxlist) /\ Inherits(k, owner)
      /\ owner \in [Mutex -> Thread \cup {NoThread}]
  BY <1>1 DEF MtxOK, Owned
<1> DEFINE m == Head(mtxlist[me])
           t == To(k, m)
           o2 == [owner EXCEPT ![m] = t]
           l2 == [u \in Thread |-> IF u = me THEN Tail(mtxlist[me])
                                   ELSE IF u = t THEN Stacked(m, mtxlist[u])
                                   ELSE mtxlist[u]]
           left == PrioLeft(k, me, Tail(mtxlist[me]))
           e == [k EXCEPT !.prio[me] = left, !.q[m] = Tail(@)]
<1>3. /\ h.m = m /\ h.to = t /\ h.owner = o2 /\ h.list = l2
      /\ h.k = IF t = NoThread THEN k ELSE e
  BY Zenon DEF HandOver, To
<1>4. m \in Mutex /\ owner[m] = me /\ LeftWith(k, owner, me, {m}, left)
  BY <1>1, PrioLeftIs
<1>5. NewLists(k, mtxlist, l2, {m}, me)
  BY <1>1, HandedLists
<1>6. NewOwners(k, owner, o2, {m})
  <2>1. \A n \in Mutex : o2[n] = IF n \in {m} THEN To(k, n) ELSE owner[n]
    BY <1>2, <1>4
  <2>2. DOMAIN o2 = Mutex /\ o2 = [n \in Mutex |-> o2[n]]
    BY <1>2
  <2> HIDE DEF o2
  <2> QED
    BY <2>1, <2>2 DEF NewOwners
<1>7. \A x, r : LeftWith(k, owner, me, {m}, x) /\ GivenUp(k, r, {m}, me, x)
                  => MtxOK(r, o2, l2)
  <2> SUFFICES ASSUME NEW x, NEW r, LeftWith(k, owner, me, {m}, x), GivenUp(k, r, {m}, me, x)
               PROVE  MtxOK(r, o2, l2)
    OBVIOUS
  <2> DEFINE M == {m}
  <2>1. M \in SUBSET Mutex /\ \A n \in M : owner[n] = k.current
    BY <1>1, <1>4
  <2>2. /\ LeftWith(k, owner, k.current, M, x) /\ GivenUp(k, r, M, k.current, x)
        /\ NewOwners(k, owner, o2, M) /\ NewLists(k, mtxlist, l2, M, k.current)
    BY <1>1, <1>5, <1>6
  <2> HIDE DEF M, o2, l2
  <2>3. Inherits(r, o2)
    BY <1>1, <1>2, <2>1, <2>2, GivenUpInherits
  <2>4. Owned(r.q, o2, l2)
    BY <1>1, <1>2, <2>1, <2>2, GivenUpOwned
  <2> QED
    BY <2>3, <2>4 DEF MtxOK
<1> HIDE DEF o2, l2
<1>8. k.prio \in [Thread -> Prios] /\ k.q \in [Object -> Seq(Thread)] /\ m \in Object
      /\ NoThread \notin Thread
  BY <1>1, <1>4, KernelIs, MutexAssumption
<1>9. CASE t = NoThread
  <2>1. k.q[m] = <<>>
    <3>1. k.q[m] # <<>> => t \in Thread
      BY <1>1, <1>4, MutexQueues DEF To
    <3> QED
      BY <1>8, <1>9, <3>1
  <2>2. LeftWith(k, owner, me, {m}, k.prio[me])
    BY <1>1, <1>4, <2>1, NoneLeft
  <2>3. GivenUp(k, k, {m}, me, k.prio[me])
    BY <1>8, <2>1 DEF GivenUp
  <2>4. MtxOK(k, o2, l2)
    BY <1>7, <2>2, <2>3
  <2> QED
    BY <1>3, <1>4, <1>9, <2>4
<1>10. CASE t # NoThread
  <2> DEFINE a == [k.prio EXCEPT ![me] = left]
             w == [k.q EXCEPT ![m] = Tail(k.q[m])]
             y == [k EXCEPT !.prio = a]
  <2>1. left \in Prios
    BY <1>4 DEF LeftWith
  <2> HIDE DEF left
  <2>2. k.q[m] # <<>> /\ t = Head(k.q[m])
    BY <1>10 DEF To
  <2>3. Tail(k.q[m]) \in Seq(Thread)
    BY <1>8, <2>2, TailPlaces
  <2>4. a \in [Thread -> Prios] /\ w \in [Object -> Seq(Thread)] /\ a = [k.prio EXCEPT ![k.current] = left]
    BY <1>1, <1>8, <2>1, <2>3
  <2>5. e = [k EXCEPT !.prio = a, !.q = w]
    OBVIOUS
  <2>6. GivenUp(k, e, {m}, me, left)
    <3>1. e.prio = [k.prio EXCEPT ![me] = left] /\ e.realprio = k.realprio /\ e.q = w
      BY <1>1, <2>5 DEF KernelState
    <3>2. \A n \in Mutex : n \in Object
      BY MutexAssumption
    <3>3. \A n \in Mutex : e.q[n] = IF n \in {m} /\ k.q[n] # <<>> THEN Tail(k.q[n]) ELSE k.q[n]
      BY <1>8, <2>2, <3>1, <3>2
    <3> HIDE DEF e
    <3> QED
      BY <3>1, <3>3 DEF GivenUp
  <2>7. w = [k.q EXCEPT ![m] = Tail(k.q[m])]
    OBVIOUS
  <2> HIDE DEF a, w
  <2>8. y.prio = a /\ y.state = k.state /\ y.current = me /\ y.q = k.q /\ Repriced(k, y)
        /\ y.realprio = k.realprio
    BY <1>1, <2>4 DEF Repriced, KernelState
  <2>9. /\ e \in KernelState /\ SameThreads(y, e) /\ e.q = w
        /\ e.cnt = y.cnt /\ e.vt = y.vt /\ e.due = y.due /\ y.due = k.due
        /\ e.realprio = y.realprio
    BY <1>1, <2>4, <2>5, <2>8 DEF SameThreads, KernelState, Repriced
  <2> HIDE DEF y, e
  <2>10. MtxOK(e, o2, l2)
    BY <1>4, <1>7, <2>6
  <2>11. HighestOf(y, Head(k.q[m]))
    <3>1. y.prio = [k.prio EXCEPT ![me] = left]
      BY <1>1, <2>4, <2>8
    <3> QED
      BY <1>1, <1>4, <2>2, <2>8, <3>1, HighestLeft
  <2>12. Changed(k, y, "mtx") /\ View(y) = View(k)
    <3>1. y.prio = [k.prio EXCEPT ![k.current] = left]
      BY <2>4, <2>8
    <3> QED
      BY <1>1, <2>8, <3>1, RepricedChanges
  <2>13. y \in KernelState
    BY <2>8 DEF Repriced
  <2>14. Handed(y, h)
    BY <1>3, <1>10, <2>2, <2>7, <2>8, <2>9, <2>11, <2>12, <2>13 DEF Handed
  <2> QED
    BY <1>3, <1>4, <1>10, <2>10, <2>14
<1> QED
  BY <1>9, <1>10

(* Only the queues of mutexes and condition variables change.               *)
LEMMA HandedCounts ==
  ASSUME NEW h, NEW y, Handed(y, h), h.m \in Mutex
  PROVE  /\ Counted(h.k) /\ TimersAre(h.k.vt, h.k.due)
         /\ \A o \in Object : o \in ObjectsOf("mtx") \/ h.k.q[o] = <<>>
         /\ Listed(y, {}) /\ h.m \in Object
<1>1. /\ Changed(k, y, "mtx") /\ y \in KernelState /\ h.k.q = [y.q EXCEPT ![h.m] = Tail(y.q[h.m])]
      /\ h.k.cnt = y.cnt /\ h.k.vt = y.vt /\ h.k.due = k.due /\ h.k.due = y.due
  BY DEF Handed
<1>2. y.q \in [Object -> Seq(Thread)] /\ \A s \in Sem : s \in Object /\ s # h.m
  BY <1>1, KernelIs, ThreadAssumption, MutexAssumption
<1>3. h.m \in Object
  BY MutexAssumption
<1>4. \A o \in Object : o # h.m => h.k.q[o] = y.q[o]
  BY <1>1, <1>2
<1>5. Counted(h.k)
  BY <1>1, <1>2, <1>4 DEF Changed, Counted
<1>6. \A o \in Object : o \in ObjectsOf("mtx") \/ h.k.q[o] = <<>>
  BY <1>1, <1>4 DEF Changed, ObjectsOf
<1>7. TimersAre(h.k.vt, h.k.due)
  BY <1>1 DEF Changed
<1> QED
  BY <1>1, <1>3, <1>5, <1>6, <1>7 DEF Changed

(* chMtxUnlock keeps the invariant.                                         *)
LEMMA UnlockRight ==
  ASSUME KInv, api = "mtx", api' = api, UNCHANGED MtxOthers, chMtxUnlock
  PROVE  KInv'
<1> DEFINE h == HandOver
           z == chSchWakeupS(h.k, h.to, "OK")
<1>1. /\ Calls /\ mtxlist[me] # <<>> /\ owner' = h.owner /\ mtxlist' = h.list
      /\ k' = IF h.to = NoThread THEN h.k ELSE z
      /\ pc' = pc
  BY DEF chMtxUnlock
<1>2. IInv /\ Stable(k, pc, "mtx")
  BY <1>1, MtxCalled
<1>3. /\ h.m \in Mutex /\ MtxOK(h.k, h.owner, h.list)
      /\ h.to = NoThread => h.k = k
      /\ h.to # NoThread => \E y : Handed(y, h)
  BY <1>1, HandOverIs
<1> HIDE DEF h
<1>4. CASE h.to = NoThread
  BY <1>1, <1>2, <1>3, <1>4, MtxRight
<1>5. CASE h.to # NoThread
  <2>1. PICK y : Handed(y, h)
    BY <1>3, <1>5
  <2>2. /\ Counted(h.k) /\ TimersAre(h.k.vt, h.k.due) /\ Listed(y, {}) /\ h.m \in Object
        /\ \A o \in Object : o \in ObjectsOf("mtx") \/ h.k.q[o] = <<>>
    BY <1>3, <2>1, HandedCounts
  <2>3. /\ Changed(k, y, "mtx") /\ y.q[h.m] # <<>> /\ h.to = Head(y.q[h.m]) /\ HighestOf(y, h.to)
        /\ h.k \in KernelState /\ SameThreads(y, h.k)
        /\ h.k.q = [y.q EXCEPT ![h.m] = Tail(y.q[h.m])] /\ h.k.due = k.due /\ View(y) = View(k)
    BY <2>1 DEF Handed
  <2>4. Awoken(y, h.k, z, h.to, "OK") /\ h.to \in Thread
    <3> DEFINE e == h.k
               m == h.m
               t == h.to
    <3>1. e.q = [y.q EXCEPT ![m] = Tail(y.q[m])] /\ m \in Object /\ y.q[m] # <<>>
          /\ HighestOf(y, Head(y.q[m])) /\ e \in KernelState /\ SameThreads(y, e) /\ t = Head(y.q[m])
      BY <2>2, <2>3
    <3>2. "OK" \in Messages
      BY DEF Messages
    <3> HIDE DEF e, m, t
    <3>3. Leaves(y, e, {}, m, Head(y.q[m])) /\ Awoken(y, e, chSchWakeupS(e, Head(y.q[m]), "OK"), Head(y.q[m]), "OK")
      BY <2>2, <3>1, <3>2, FirstWoken
    <3> QED
      BY <3>1, <3>3 DEF Leaves, e, t
  <2> HIDE DEF z
  <2>5. /\ Listed(z, {}) /\ HighestCurrent(z) /\ SameRest(h.k, z)
        /\ \A u \in Thread : View(z)[u] \in {View(k)[u], "RUNS"}
    BY <2>3, <2>4 DEF Awoken, View
  <2>6. Changed(k, z, "mtx")
    <3>1. Counted(z)
      BY <2>2, <2>5 DEF Counted, SameRest
    <3>2. Frame(k, z, Thread)
      BY <2>3, <2>5 DEF Frame, SameRest
    <3> QED
      BY <2>2, <2>5, <3>1, <3>2 DEF Changed, SameRest
  <2>7. Settles(z, z)
    BY <2>5, SettlesItself
  <2>8. Stable(z, pc, "mtx")
    BY <1>2, <2>6, <2>7, Stays
  <2>9. SameMtx(h.k, z)
    BY <2>5 DEF SameMtx, SameRest
  <2>10. MtxOK(z, h.owner, h.list)
    BY <1>3, <2>9, SameMtxOK
  <2> QED
    BY <1>1, <1>2, <1>5, <2>8, <2>10, MtxRight
<1> QED
  BY <1>4, <1>5

(* A thread that waits for a condition gives up its last mutex.             *)
LEMMA CondWaitRight ==
  ASSUME KInv, api = "mtx", api' = api, UNCHANGED MtxOthers, NEW c \in CondVar,
         NEW time \in Time \cup {Infinite}, chCondWait(c, time)
  PROVE  KInv'
<1> DEFINE h == HandOver
           free == chMtxUnlockS(h)
           r == chSchGoSleepTimeoutS([free EXCEPT !.q[c] = prio_insert(free, @, me)], "WTCOND", time)
           place == <<"cond", h.m>>
<1>1. /\ Calls /\ mtxlist[me] # <<>> /\ owner' = h.owner /\ mtxlist' = h.list
      /\ k' = r /\ Sleeps(place)
  BY DEF chCondWait
<1>2. IInv /\ Stable(k, pc, "mtx") /\ Caller(k, pc) /\ me = k.current /\ me # Idle /\ me \in Thread
      /\ Changed(k, k, "mtx")
  BY <1>1, MtxCalled
<1>3. /\ h.m \in Mutex /\ MtxOK(h.k, h.owner, h.list)
      /\ h.to = NoThread => h.k = k
      /\ h.to # NoThread => \E y : Handed(y, h)
  BY <1>1, HandOverIs
<1> HIDE DEF h
<1>4. Changed(k, free, "mtx") /\ free.current = me /\ free.due = k.due /\ SameMtx(h.k, free)
  <2>1. CASE h.to = NoThread
    BY <1>2, <1>3, <2>1 DEF chMtxUnlockS, SameMtx
  <2>2. CASE h.to # NoThread
    <3>1. PICK y : Handed(y, h)
      BY <1>3, <2>2
    <3>2. /\ Counted(h.k) /\ TimersAre(h.k.vt, h.k.due) /\ Listed(y, {}) /\ h.m \in Object
          /\ \A o \in Object : o \in ObjectsOf("mtx") \/ h.k.q[o] = <<>>
      BY <1>3, <3>1, HandedCounts
    <3>3. /\ y.q[h.m] # <<>> /\ h.to = Head(y.q[h.m]) /\ y.current = me
          /\ h.k \in KernelState /\ SameThreads(y, h.k)
          /\ h.k.q = [y.q EXCEPT ![h.m] = Tail(y.q[h.m])] /\ h.k.due = k.due /\ View(y) = View(k)
      BY <3>1 DEF Handed
    <3>4. free = chSchReadyI(h.k, h.to)
      BY <2>2 DEF chMtxUnlockS
    <3>5. MadeReady(y, h.k, free, {}, h.to)
      <4> DEFINE e == h.k
                 m == h.m
                 t == h.to
      <4>1. e.q = [y.q EXCEPT ![m] = Tail(y.q[m])] /\ m \in Object /\ y.q[m] # <<>>
            /\ e \in KernelState /\ SameThreads(y, e) /\ t = Head(y.q[m])
        BY <3>2, <3>3
      <4> HIDE DEF e, m, t
      <4>2. MadeReady(y, e, chSchReadyI(e, Head(y.q[m])), {}, Head(y.q[m]))
        BY <3>2, <4>1, FirstReady
      <4> QED
        BY <3>4, <4>1, <4>2 DEF e, t
    <3> HIDE DEF free
    <3>6. /\ Listed(free, {}) /\ SameRest(h.k, free) /\ free.current = me
          /\ \A u \in Thread : View(free)[u] \in {View(k)[u], "RUNS"}
      BY <3>3, <3>5 DEF MadeReady, View
    <3>7. Counted(free)
      BY <3>2, <3>6 DEF Counted, SameRest
    <3>8. Frame(k, free, Thread)
      BY <3>3, <3>6 DEF Frame, SameRest
    <3>9. Changed(k, free, "mtx")
      BY <3>2, <3>6, <3>7, <3>8 DEF Changed, SameRest
    <3> QED
      BY <3>3, <3>6, <3>9 DEF SameMtx, SameRest
  <2> QED
    BY <2>1, <2>2
<1> HIDE DEF free
<1> DEFINE x == prio_insert(free, free.q[c], me)
           w == [free.q EXCEPT ![c] = x]
           e == [free EXCEPT !.q[c] = prio_insert(free, @, me)]
<1>5. /\ Listed(free, {}) /\ free \in KernelState /\ TimersAre(free.vt, free.due)
      /\ c \in Object /\ c \notin Mutex /\ Kind(c) = "WTCOND"
      /\ free.q \in [Object -> Seq(Thread)] /\ free.prio \in [Thread -> Prios]
  BY <1>4, KernelIs, MutexAssumption DEF Changed, Listed, Kind
<1>6. me \notin Members(free.q[c]) /\ Once(free.q[c]) /\ free.due[me] = 0
  <2>1. free.state[me] = "CURRENT"
    BY <1>4, <1>5, CurrentRuns
  <2> QED
    BY <1>2, <1>4, <1>5, <2>1 DEF Listed, QueuesRight, Caller
<1>7. PlacedIn(x, free.prio, free.q[c], me)
  BY <1>2, <1>5, PrioInsertIs
<1> HIDE DEF x
<1>8. x \in Seq(Thread) /\ Once(x) /\ Members(x) = Members(free.q[c]) \cup {me}
  BY <1>6, <1>7 DEF PlacedIn
<1>9. e = [free EXCEPT !.q = w] /\ w = [free.q EXCEPT ![c] = x]
  BY DEF x
<1>10. w \in [Object -> Seq(Thread)] /\ \A o \in Object : w[o] = IF o = c THEN x ELSE free.q[o]
  BY <1>5, <1>8
<1> HIDE DEF w
<1>11. r = chSchGoSleepTimeoutS(e, "WTCOND", time)
  OBVIOUS
<1> HIDE DEF e
<1>12. /\ e \in KernelState /\ SameThreads(free, e) /\ e.q = w /\ e.cnt = free.cnt
       /\ e.realprio = free.realprio /\ e.vt = free.vt /\ e.due = free.due
  BY <1>5, <1>9, <1>10 DEF KernelState, SameThreads
<1> HIDE DEF r
<1>13. Sleep(free, e, r, "WTCOND")
  <2>1. e.q = [free.q EXCEPT ![c] = x] /\ free.current # Idle /\ free.due[free.current] = 0
    BY <1>2, <1>4, <1>6, <1>9, <1>12
  <2>2. Once(x) /\ Members(x) = Members(free.q[c]) \cup {free.current}
        /\ (c \in Mutex => Ranked(free.prio, x))
    BY <1>4, <1>5, <1>8
  <2>3. Sleep(free, e, chSchGoSleepTimeoutS(e, Kind(c), time), Kind(c))
    BY <1>5, <1>12, <2>1, <2>2, SleepQueued
  <2> QED
    BY <1>5, <1>11, <2>3
<1>14. Counted(e) /\ \A o \in Object : o \in ObjectsOf("mtx") \/ e.q[o] = <<>>
  <2>1. \A s \in Sem : s \in Object /\ s # c
    BY ThreadAssumption, MutexAssumption
  <2> QED
    BY <1>4, <1>10, <1>12, <2>1 DEF Changed, Counted, ObjectsOf
<1>15. Stable(r, [pc EXCEPT ![me] = place], "mtx")
  <2>1. place \in PlacesOf("mtx") /\ place[1] \notin {"user", "more"}
    BY <1>3 DEF PlacesOf
  <2>2. "WTCOND" \in ViewsOf("mtx") \ Absent /\ "WTCOND" \in Timed
    BY DEF ViewsOf, Absent, Timed
  <2> HIDE DEF place
  <2>3. free.current = k.current /\ k.current # Idle
    BY <1>2, <1>4
  <2>4. Stable(r, [pc EXCEPT ![k.current] = place], "mtx")
    BY <1>2, <1>4, <1>12, <1>13, <1>14, <2>1, <2>2, <2>3, SleptAfter
  <2> QED
    BY <1>2, <2>4
<1>16. SameMtx(h.k, r)
  <2>1. \A m \in Mutex : m \in Object /\ m # c
    BY <1>5, MutexAssumption
  <2> QED
    BY <1>4, <1>10, <1>12, <1>13, <2>1 DEF SameMtx, Sleep
<1>17. MtxOK(r, h.owner, h.list)
  BY <1>3, <1>16, SameMtxOK
<1>18. k' = r /\ pc' = [pc EXCEPT ![me] = place]
  BY <1>1 DEF r, e, Sleeps
<1> QED
  BY <1>1, <1>2, <1>15, <1>17, <1>18, MtxRight

(* A thread that waited for a condition goes on: its mutex is locked for it *)
(* again, unless the wait timed out.                                        *)
LEMMA CondWokenRight ==
  ASSUME KInv, api = "mtx", api' = api, UNCHANGED MtxOthers, CondWoken
  PROVE  KInv'
<1> DEFINE on == AwakeOf(k)
           m == pc[me][2]
           r == MtxSleepS(on, m)
<1>1. pc[me][1] = "cond"
      /\ \/ k' = on /\ Returns /\ UNCHANGED mtxVars
         \/ owner[m] = NoThread /\ k' = on /\ Own(m, me) /\ Returns
         \/ owner[m] # NoThread /\ k' = r /\ Sleeps(<<"woken">>) /\ UNCHANGED mtxVars
  BY DEF CondWoken, GoesOn, Awake, AwakeOf, me
<1>2. /\ IInv /\ Stable(k, pc, "mtx") /\ MtxOK(k, owner, mtxlist) /\ Listed(k, {})
      /\ TimersAre(k.vt, k.due) /\ k \in KernelState
  BY DEF KInv, IInv, Stable, KernelRight, TimersRight, Listed
<1>3. me = k.current /\ me \in Thread
  BY <1>2, CurrentRuns DEF me
<1>4. pc[me] \in PlacesOf("mtx") /\ pc[me] # InUser /\ me # Idle
      /\ \A t \in Thread : View(k)[t] \in ViewsOf("mtx")
  BY <1>1, <1>2, <1>3 DEF Stable, Placed, InUser
<1>5. m \in Mutex
  BY <1>1, <1>4 DEF PlacesOf, InUser
<1>6. Resumed(k, on)
  BY <1>2, AwakeIs
<1> HIDE DEF on, m
<1>7. Changed(k, on, "mtx") /\ Settles(on, on) /\ on.due[me] = 0 /\ View(on) = View(k) /\ on.current = me
  BY <1>2, <1>3, <1>6, ResumedChanges
<1>8. SameMtx(k, on)
  BY <1>6 DEF Resumed, SameThreads, SameMtx
<1>9. Stable(on, [pc EXCEPT ![me] = InUser], "mtx")
  BY <1>2, <1>3, <1>4, <1>6, <1>7, ReturnStable
<1>10. MtxOK(on, owner, mtxlist)
  BY <1>2, <1>8, SameMtxOK
<1>11. CASE k' = on /\ Returns /\ UNCHANGED mtxVars
  <2>1. Stable(k', pc', api) /\ MtxOK(k', owner', mtxlist')
    BY <1>9, <1>10, <1>11 DEF Returns, mtxVars
  <2> QED
    BY <1>2, <2>1, MtxRight
<1>12. CASE owner[m] = NoThread /\ k' = on /\ Own(m, me) /\ Returns
  <2>1. MtxOK(on, owner', mtxlist')
    BY <1>2, <1>3, <1>5, <1>8, <1>12, OwnRight
  <2>2. Stable(k', pc', api) /\ MtxOK(k', owner', mtxlist')
    BY <1>9, <1>12, <2>1 DEF Returns
  <2> QED
    BY <1>2, <2>2, MtxRight
<1>13. CASE owner[m] # NoThread /\ k' = r /\ Sleeps(<<"woken">>) /\ UNCHANGED mtxVars
  <2> DEFINE p == [pc EXCEPT ![me] = <<"woken">>]
  <2>1. r = MtxSleepS(on, m) /\ \A t \in Thread : View(on)[t] \in ViewsOf("mtx")
    BY <1>4, <1>7
  <2>2. k' = r /\ pc' = p /\ owner' = owner /\ mtxlist' = mtxlist
    BY <1>13 DEF Sleeps, mtxVars
  <2> HIDE DEF r
  <2>3. Stable(r, p, "mtx") /\ MtxOK(r, owner, mtxlist)
    BY <1>2, <1>4, <1>5, <1>7, <1>10, <1>13, <2>1, MtxSleepStable
  <2> HIDE DEF p
  <2>4. Stable(k', pc', api) /\ MtxOK(k', owner', mtxlist')
    BY <2>2, <2>3
  <2> QED
    BY <1>2, <2>4, MtxRight
<1> QED
  BY <1>1, <1>11, <1>12, <1>13

(* What changes nothing of the mutexes, up to its reschedule.               *)
LEMMA CondStep ==
  ASSUME KInv, api = "mtx", api' = api, UNCHANGED MtxOthers, UNCHANGED <<pc, mtxVars>>,
         NEW h, Changed(k, h, "mtx"), SameMtx(k, h), NEW r, Settles(h, r), k' = r
  PROVE  KInv'
<1>1. IInv /\ Stable(k, pc, "mtx") /\ MtxOK(k, owner, mtxlist)
  BY DEF KInv, IInv, Stable
<1>2. Stable(r, pc, "mtx")
  BY <1>1, Stays
<1>3. SameMtx(k, r)
  BY DEF Settles, Same, SameRest, SameMtx
<1>4. MtxOK(r, owner, mtxlist)
  BY <1>1, <1>3, SameMtxOK
<1>5. Stable(k', pc', api) /\ MtxOK(k', owner', mtxlist')
  BY <1>2, <1>4 DEF mtxVars
<1> QED
  BY <1>1, <1>5, MtxRight

(* A thread that leaves the queue of a condition leaves the mutexes alone.  *)
OutOfCond(kk, e, c, y) ==
  /\ c \in CondVar /\ e.q = [kk.q EXCEPT ![c] = y] /\ Listed(kk, {}) /\ Counted(kk)
  /\ e.cnt = kk.cnt /\ e.prio = kk.prio /\ e.realprio = kk.realprio
  /\ \A o \in Object : o \in ObjectsOf("mtx") \/ kk.q[o] = <<>>

(* A thread that leaves a condition's queue leaves the mutexes alone.       *)
LEMMA CondLeaves ==
  ASSUME NEW kk, NEW e, NEW c, NEW y, OutOfCond(kk, e, c, y)
  PROVE  /\ Counted(e) /\ SameMtx(kk, e)
         /\ \A o \in Object : o \in ObjectsOf("mtx") \/ e.q[o] = <<>>
<1>0. /\ c \in CondVar /\ e.q = [kk.q EXCEPT ![c] = y] /\ Listed(kk, {}) /\ Counted(kk)
      /\ e.cnt = kk.cnt /\ e.prio = kk.prio /\ e.realprio = kk.realprio
      /\ \A o \in Object : o \in ObjectsOf("mtx") \/ kk.q[o] = <<>>
  BY DEF OutOfCond
<1>1. kk.q \in [Object -> Seq(Thread)] /\ c \in Object /\ c \notin Mutex /\ c \notin Sem
  BY <1>0, KernelIs, MutexAssumption DEF Listed
<1>2. \A o \in Object : o # c => e.q[o] = kk.q[o]
  BY <1>0, <1>1
<1>3. (\A s \in Sem : s \in Object) /\ (\A m \in Mutex : m \in Object)
  BY ThreadAssumption, MutexAssumption
<1>4. Counted(e)
  BY <1>0, <1>1, <1>2, <1>3 DEF Counted
<1>5. SameMtx(kk, e)
  BY <1>0, <1>1, <1>2, <1>3 DEF SameMtx
<1>6. \A o \in Object : o \in ObjectsOf("mtx") \/ e.q[o] = <<>>
  BY <1>0, <1>2 DEF ObjectsOf
<1> QED
  BY <1>4, <1>5, <1>6

(* chCondSignal keeps the invariant.                                        *)
LEMMA CondSignalRight ==
  ASSUME KInv, api = "mtx", api' = api, UNCHANGED MtxOthers, NEW c \in CondVar, chCondSignal(c)
  PROVE  KInv'
<1> DEFINE t == Head(k.q[c])
           y == Tail(k.q[c])
           w == [k.q EXCEPT ![c] = y]
           e == [k EXCEPT !.q[c] = Tail(@)]
           r == chSchWakeupS(e, t, "OK")
<1>1. Calls /\ k.q[c] # <<>> /\ k' = r /\ UNCHANGED <<pc, mtxVars>>
  BY DEF chCondSignal
<1>2. /\ IInv /\ Stable(k, pc, "mtx") /\ Listed(k, {}) /\ HighestCurrent(k) /\ k \in KernelState
      /\ Counted(k) /\ TimersAre(k.vt, k.due)
      /\ \A o \in Object : o \in ObjectsOf("mtx") \/ k.q[o] = <<>>
  BY <1>1, MtxCalled DEF Listed, Caller, Stable, Placed
<1>3. c \in Object /\ k.q \in [Object -> Seq(Thread)]
  BY <1>2, KernelIs, MutexAssumption
<1>4. y \in Seq(Thread)
  BY <1>1, <1>3, TailPlaces
<1>5. w \in [Object -> Seq(Thread)] /\ e = [k EXCEPT !.q = w] /\ w = [k.q EXCEPT ![c] = Tail(k.q[c])]
  BY <1>3, <1>4
<1> HIDE DEF w, e
<1>6. /\ e \in KernelState /\ SameThreads(k, e) /\ e.q = w /\ e.cnt = k.cnt
      /\ e.realprio = k.realprio /\ e.vt = k.vt /\ e.due = k.due /\ e.prio = k.prio
  BY <1>2, <1>5 DEF KernelState, SameThreads
<1>7. HighestOf(k, Head(k.q[c])) /\ "OK" \in Messages
  BY <1>2 DEF HighestCurrent, HighestOf, Messages
<1>8. Leaves(k, e, {}, c, t) /\ Awoken(k, e, r, t, "OK")
  <2>1. e.q = [k.q EXCEPT ![c] = Tail(k.q[c])]
    BY <1>5, <1>6
  <2> QED
    BY <1>1, <1>2, <1>3, <1>6, <1>7, <2>1, FirstWoken
<1>9. Counted(e) /\ SameMtx(k, e) /\ \A o \in Object : o \in ObjectsOf("mtx") \/ e.q[o] = <<>>
  <2>1. OutOfCond(k, e, c, y)
    BY <1>2, <1>5, <1>6 DEF OutOfCond
  <2> QED
    BY <2>1, CondLeaves
<1> HIDE DEF r, t
<1>10. Changed(k, r, "mtx") /\ Settles(r, r)
  <2>1. t \in Thread
    BY <1>8 DEF Leaves
  <2>2. TimersAre(e.vt, e.due)
    BY <1>2, <1>6
  <2> QED
    BY <1>2, <1>6, <1>8, <1>9, <2>1, <2>2, AwokenChanges
<1>11. SameMtx(k, r)
  BY <1>8, <1>9 DEF Awoken, SameRest, SameMtx
<1> QED
  BY <1>1, <1>10, <1>11, CondStep

(* chCondSignalI: the first that waits is ready.                            *)
LEMMA CondSignalIIs ==
  ASSUME NEW p, Stable(k, p, "mtx"), NEW c \in CondVar, NEW h, h = chCondSignalI(k, c)
  PROVE  Changed(k, h, "mtx") /\ SameMtx(k, h)
<1>1. /\ Listed(k, {}) /\ k \in KernelState /\ Counted(k) /\ TimersAre(k.vt, k.due)
      /\ Changed(k, k, "mtx") /\ \A o \in Object : o \in ObjectsOf("mtx") \/ k.q[o] = <<>>
  BY StillPlain DEF Stable, KernelRight, TimersRight, Placed, Listed
<1>2. CASE k.q[c] = <<>>
  <2>1. h = k
    BY <1>2 DEF chCondSignalI
  <2> QED
    BY <1>1, <2>1 DEF SameMtx
<1>3. CASE k.q[c] # <<>>
  <2> DEFINE t == Head(k.q[c])
             y == Tail(k.q[c])
             w == [k.q EXCEPT ![c] = y]
             n == [k.msg EXCEPT ![t] = "OK"]
             e == [k EXCEPT !.q[c] = Tail(@), !.msg[Head(k.q[c])] = "OK"]
  <2>1. c \in Object /\ k.q \in [Object -> Seq(Thread)] /\ k.msg \in [Thread -> Messages]
    BY <1>1, KernelIs, MutexAssumption
  <2>2. y \in Seq(Thread) /\ t \in Thread
    BY <1>3, <2>1, TailPlaces
  <2>3. w \in [Object -> Seq(Thread)] /\ e = [k EXCEPT !.q = w, !.msg = n]
        /\ w = [k.q EXCEPT ![c] = Tail(k.q[c])] /\ n \in [Thread -> Messages]
    BY <2>1, <2>2 DEF Messages
  <2>4. h = chSchReadyI(e, Head(k.q[c]))
    BY <1>3 DEF chCondSignalI
  <2> HIDE DEF w, e, n
  <2>5. /\ e \in KernelState /\ SameThreads(k, e) /\ e.q = w /\ e.cnt = k.cnt
        /\ e.realprio = k.realprio /\ e.vt = k.vt /\ e.due = k.due /\ e.prio = k.prio
    BY <1>1, <2>3 DEF KernelState, SameThreads
  <2>6. MadeReady(k, e, h, {}, t)
    <3>1. e.q = [k.q EXCEPT ![c] = Tail(k.q[c])]
      BY <2>3, <2>5
    <3>2. MadeReady(k, e, chSchReadyI(e, Head(k.q[c])), {}, Head(k.q[c]))
      BY <1>1, <1>3, <2>1, <2>5, <3>1, FirstReady
    <3> QED
      BY <2>4, <3>2
  <2>7. Counted(e) /\ SameMtx(k, e) /\ \A o \in Object : o \in ObjectsOf("mtx") \/ e.q[o] = <<>>
    <3>1. OutOfCond(k, e, c, y)
      BY <1>1, <2>3, <2>5 DEF OutOfCond
    <3> QED
      BY <3>1, CondLeaves
  <2> HIDE DEF t
  <2>8. \A u \in Thread : View(h)[u] \in {View(k)[u], "RUNS"}
    BY <2>6 DEF MadeReady, View
  <2>9. Frame(k, h, Thread)
    BY <2>5, <2>6, <2>8 DEF Frame, MadeReady, SameRest
  <2>10. Counted(h)
    BY <2>6, <2>7 DEF Counted, MadeReady, SameRest
  <2>11. Changed(k, h, "mtx")
    BY <1>1, <2>5, <2>6, <2>7, <2>9, <2>10 DEF Changed, MadeReady, SameRest
  <2> QED
    BY <2>6, <2>7, <2>11 DEF MadeReady, SameRest, SameMtx
<1> QED
  BY <1>2, <1>3

==============================================================================
