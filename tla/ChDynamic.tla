------------------------------ MODULE ChDynamic ------------------------------
(***************************************************************************)
(* Threads of ChibiOS/RT in memory from a heap or a pool (chdynamic.c,     *)
(* chmempools.c, chThdWait and chThdExit): a working area is given back    *)
(* when nobody holds a reference to its thread and the thread has ended.   *)
(* With the registry (chregistry.c) threads are also found by a walk along *)
(* a list of them, which gives the memory of forgotten ones back.          *)
(* The references are counted under the kernel's lock; what follows from   *)
(* the count is done after it, when other threads may have run: every      *)
(* order in which the scheduler could let them run is a behaviour.         *)
(*                                                                         *)
(* The heap gives any of its free areas, see ChHeap.  Static threads, main *)
(* among them, are the end "rlist" of the registry's list.                 *)
(***************************************************************************)
EXTENDS Integers, Sequences, FiniteSets

CONSTANTS
  Holder,        \* threads that create threads and wait for them
  PoolArea,      \* the working areas of the pool
  HeapArea,      \* those that the heap can give
  MaxRefs,       \* bound: references to a thread (255)
  RegistryAnyTime  \* the registry is used even while another thread is
                   \* giving memory back, which is not under the lock

RLIST == "rlist"

ASSUME DynamicAssumption ==
  /\ PoolArea \cap HeapArea = {} /\ RLIST \notin PoolArea \cup HeapArea
  /\ IsFiniteSet(PoolArea) /\ IsFiniteSet(Holder)
  /\ MaxRefs \in Nat \ {0} /\ RegistryAnyTime \in BOOLEAN

Area == PoolArea \cup HeapArea

VARIABLES
  mp_next,       \* the free objects of the pool, the last one freed first
  p_state,       \* [Area -> "NONE" without a thread, "ALIVE", "FINAL"]
  p_refs,        \* [Area -> references to its thread]
  p_waiting,     \* [Area -> holders that sleep until its thread ends]
  useRegistry,   \* CH_USE_REGISTRY
  p_newer, p_older,  \* the registry's list: [Area and "rlist" -> the same]
  doing,         \* [Holder -> <<"idle">>, or where it is in a call]
  has            \* history: [Holder -> [Area -> references it holds]]

registry == <<useRegistry, p_newer, p_older>>
dynVars == <<mp_next, p_state, p_refs, p_waiting, registry, doing, has>>

(* chPoolInit, chPoolLoadArray: all objects are in the pool.               *)
chPoolLoadArray ==
  CHOOSE s \in [1..Cardinality(PoolArea) -> PoolArea] : {s[i] : i \in DOMAIN s} = PoolArea
DynInit ==
  /\ mp_next = chPoolLoadArray
  /\ p_state = [a \in Area |-> "NONE"]
  /\ p_refs = [a \in Area |-> 0] /\ p_waiting = [a \in Area |-> {}]
  /\ useRegistry \in BOOLEAN
  /\ p_newer = [a \in Area \cup {RLIST} |-> RLIST] /\ p_older = p_newer
  /\ doing = [h \in Holder |-> <<"idle">>]
  /\ has = [h \in Holder |-> [a \in Area |-> 0]]

Idles(h) == doing[h] = <<"idle">>
IsAt(h, place) == doing[h][1] = place
Goes(h, place) == doing' = [doing EXCEPT ![h] = place]

------------------------------------------------------------------------------
chPoolAllocI(a) == mp_next # <<>> /\ a = Head(mp_next) /\ mp_next' = Tail(mp_next)

chPoolFreeI(a) == mp_next' = <<a>> \o mp_next

(* Areas that the heap has given: a thread is, or is about to be, there.   *)
Given == {a \in Area : \/ p_state[a] # "NONE"
                       \/ \E h \in Holder : doing[h] = <<"create", a>>}

(* chThdCreateFromHeap, chThdCreateFromMemoryPool: the memory first.       *)
GetArea(h, a) ==
  /\ Idles(h)
  /\ \/ a \in PoolArea /\ chPoolAllocI(a)
     \/ a \in HeapArea \ Given /\ UNCHANGED mp_next
  /\ Goes(h, <<"create", a>>)
  /\ UNCHANGED <<p_state, p_refs, p_waiting, registry, has>>

(* Without free memory the call returns NULL.                              *)
NoArea(h) ==
  /\ Idles(h) /\ (mp_next = <<>> \/ HeapArea \ Given = {})
  /\ UNCHANGED dynVars

(* The list is used by nobody else who is in the middle of a removal.      *)
Alone(h) == RegistryAnyTime \/ \A o \in Holder \ {h} : ~IsAt(o, "remove")

REG_INSERT(a) ==
  /\ p_newer' = [p_newer EXCEPT ![a] = RLIST, ![p_older[RLIST]] = a]
  /\ p_older' = [p_older EXCEPT ![a] = p_older[RLIST], ![RLIST] = a]

Create(h) ==
  /\ IsAt(h, "create") /\ Alone(h)
  /\ LET a == doing[h][2]
     IN /\ p_state' = [p_state EXCEPT ![a] = "ALIVE"]
        /\ p_refs' = [p_refs EXCEPT ![a] = 1]
        /\ has' = [has EXCEPT ![h][a] = 1]
        /\ IF useRegistry THEN REG_INSERT(a) ELSE UNCHANGED <<p_newer, p_older>>
  /\ Goes(h, <<"idle">>)
  /\ UNCHANGED <<mp_next, p_waiting, useRegistry>>

(* The new reference may be for another thread.                            *)
chThdAddRef(h, other, a) ==
  /\ Idles(h) /\ has[h][a] > 0 /\ p_refs[a] < MaxRefs
  /\ p_refs' = [p_refs EXCEPT ![a] = @ + 1]
  /\ has' = [has EXCEPT ![other][a] = @ + 1]
  /\ UNCHANGED <<mp_next, p_state, p_waiting, registry, doing>>

(* chThdRelease: the reference is gone when the lock is released; this     *)
(* thread remembers how many it left.                                      *)
Drop(h, a) ==
  /\ p_refs' = [p_refs EXCEPT ![a] = @ - 1]
  /\ has' = [has EXCEPT ![h][a] = @ - 1]
  /\ Goes(h, <<"release", a, p_refs[a] - 1>>)

chThdRelease(h, a) ==
  /\ Idles(h) /\ has[h][a] > 0
  /\ Drop(h, a)
  /\ UNCHANGED <<mp_next, p_state, p_waiting, registry>>

(* Then it looks at the thread's state, takes the thread out of the        *)
(* registry in two stores, and gives its memory back.                      *)
CountedNow(h, a) == p_refs[a] = 0     \* fault: the count is read again
LeftNone(h, a) == doing[h][3] = 0

LookAtState(h) ==
  /\ IsAt(h, "release")
  /\ LET a == doing[h][2]
     IN \/ /\ LeftNone(h, a) /\ p_state[a] = "FINAL"
           /\ \/ /\ useRegistry /\ Alone(h)
                 /\ p_newer' = [p_newer EXCEPT ![p_older[a]] = p_newer[a]]
                 /\ Goes(h, <<"remove", a>>)
              \/ ~useRegistry /\ Goes(h, <<"free", a>>) /\ UNCHANGED p_newer
        \/ /\ ~(LeftNone(h, a) /\ p_state[a] = "FINAL")
           /\ Goes(h, <<"idle">>)
           /\ UNCHANGED p_newer
  /\ UNCHANGED <<mp_next, p_state, p_refs, p_waiting, useRegistry, p_older, has>>

(* The second store of REG_REMOVE.                                         *)
Remove(h) ==
  /\ IsAt(h, "remove")
  /\ LET a == doing[h][2]
     IN p_older' = [p_older EXCEPT ![p_newer[a]] = p_older[a]] /\ Goes(h, <<"free", a>>)
  /\ UNCHANGED <<mp_next, p_state, p_refs, p_waiting, useRegistry, p_newer, has>>

FreeArea(h) ==
  /\ IsAt(h, "free")
  /\ LET a == doing[h][2]
     IN /\ p_state' = [p_state EXCEPT ![a] = "NONE"]
        /\ IF a \in PoolArea THEN chPoolFreeI(a) ELSE UNCHANGED mp_next
  /\ Goes(h, <<"idle">>)
  /\ UNCHANGED <<p_refs, p_waiting, registry, has>>

(* chThdWait *)
ThreadWait(h, a) ==
  /\ Idles(h) /\ has[h][a] > 0
  /\ p_waiting' = IF p_state[a] = "FINAL" THEN p_waiting
                  ELSE [p_waiting EXCEPT ![a] = @ \cup {h}]
  /\ Goes(h, <<"wait", a>>)
  /\ UNCHANGED <<mp_next, p_state, p_refs, registry, has>>

(* It was woken, or need not sleep, or has the next thread of the registry;*)
(* chThdRelease follows.                                                   *)
WaitDone(h) ==
  /\ IsAt(h, "wait") /\ \A a \in Area : h \notin p_waiting[a]
  /\ Drop(h, doing[h][2])
  /\ UNCHANGED <<mp_next, p_state, p_waiting, registry>>

(* chRegFirstThread gives main; from there, or from a thread it has a      *)
(* reference to, a holder goes to the next one.                            *)
chRegNextThread(h, tp) ==
  /\ useRegistry /\ Idles(h) /\ Alone(h)
  /\ tp # RLIST => has[h][tp] > 0
  /\ LET ntp == p_newer[tp]
     IN \/ /\ ntp # RLIST /\ p_refs[ntp] < MaxRefs
           /\ RegistryAnyTime \/ \A o \in Holder : doing[o] # <<"release", ntp, 0>>
           /\ p_refs' = [p_refs EXCEPT ![ntp] = @ + 1]
           /\ has' = [has EXCEPT ![h][ntp] = @ + 1]
        \/ ntp = RLIST /\ UNCHANGED <<p_refs, has>>
  /\ Goes(h, IF tp = RLIST THEN <<"idle">> ELSE <<"wait", tp>>)
  /\ UNCHANGED <<mp_next, p_state, p_waiting, registry>>

ThreadExits(a) ==
  /\ p_state[a] = "ALIVE"
  /\ p_state' = [p_state EXCEPT ![a] = "FINAL"]
  /\ p_waiting' = [p_waiting EXCEPT ![a] = {}]
  /\ UNCHANGED <<mp_next, p_refs, registry, doing, has>>

DynCalls ==
  \/ \E h \in Holder : NoArea(h) \/ Create(h) \/ WaitDone(h)
  \/ \E h \in Holder : LookAtState(h) \/ Remove(h) \/ FreeArea(h)
  \/ \E h \in Holder, a \in Area : GetArea(h, a) \/ chThdRelease(h, a) \/ ThreadWait(h, a)
  \/ \E h, other \in Holder, a \in Area : chThdAddRef(h, other, a)
  \/ \E h \in Holder, tp \in Area \cup {RLIST} : chRegNextThread(h, tp)
  \/ \E a \in Area : ThreadExits(a)

------------------------------------------------------------------------------
DynTypeOK ==
  /\ mp_next \in Seq(PoolArea)
  /\ p_state \in [Area -> {"NONE", "ALIVE", "FINAL"}] /\ p_refs \in [Area -> 0..MaxRefs]
  /\ p_waiting \in [Area -> SUBSET Holder]

(* Memory is given back once, and only when nobody holds a reference to    *)
(* the thread and no thread runs in it; who waits, or gives up the last    *)
(* reference, never acts on an area that has gone to someone else.         *)
HeldOf(a) == Cardinality({r \in Holder \X (1..MaxRefs) : r[2] <= has[r[1]][a]})
InPool == {mp_next[i] : i \in DOMAIN mp_next}
Ending(a) == {<<"create", a>>, <<"release", a, 0>>, <<"remove", a>>, <<"free", a>>}
NothingFreedInUse ==
  /\ DynTypeOK
  /\ Len(mp_next) = Cardinality(InPool)
  /\ InPool = PoolArea \ Given
  /\ \A a \in Area :
       /\ p_refs[a] = HeldOf(a)
       /\ p_state[a] = "NONE" => p_refs[a] = 0 /\ p_waiting[a] = {}
       /\ Cardinality({h \in Holder : doing[h] \in Ending(a)}) <= 1
       /\ \A h \in Holder : doing[h] \in Ending(a) \ {<<"create", a>>} =>
            p_refs[a] = 0 /\ p_state[a] # "NONE"
       /\ \A h \in Holder : doing[h] = <<"create", a>> => p_state[a] = "NONE"

(* The registry's list, along both pointers, has every thread whose memory *)
(* is not given back: so one that was forgotten can be found.              *)
InRegistry ==
  {a \in Area : p_state[a] # "NONE" /\ ~\E h \in Holder : doing[h] = <<"free", a>>}
RegistryIsWhole ==
  useRegistry /\ (\A h \in Holder : ~IsAt(h, "remove")) =>
    LET n == Cardinality(InRegistry)
        walk[i \in 0..n + 1] == IF i = 0 THEN RLIST ELSE p_newer[walk[i - 1]]
    IN /\ {walk[i] : i \in 1..n} = InRegistry /\ walk[n + 1] = RLIST
       /\ \A i \in 0..n : p_older[walk[i + 1]] = walk[i]

==============================================================================
