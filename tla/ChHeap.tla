-------------------------------- MODULE ChHeap --------------------------------
(***************************************************************************)
(* The memory of ChibiOS/RT: the core, of which blocks are taken and never *)
(* given back (chmemcore.c), and a heap on it (chheap.c): free blocks in   *)
(* the order of their addresses, the first one that fits is given, and a   *)
(* freed block is merged with free ones on both sides.  A walk along the   *)
(* list holds the heap's mutex, so it is one step; the call of the core    *)
(* comes after the mutex is released.                                      *)
(***************************************************************************)
EXTENDS Integers, Sequences, FiniteSets

CONSTANTS
  User,          \* threads that use the heap
  CoreSize,      \* bytes of the core, or of the area a heap was made of
  Header,        \* sizeof(union heap_header)
  BlockSize      \* the sizes that are asked for

(* An area that a heap is made of has room for a header.                   *)
ASSUME HeapAssumption ==
  CoreSize \in Nat /\ Header \in 1..CoreSize /\ BlockSize \subseteq Nat \ {0}

VARIABLES
  provider,      \* h_provider is chCoreAlloc; without, there is only the area
  h_free,        \* the list of free blocks [at, size], size without the header
  nextmem,       \* the first byte of the core that was never given
  asking,        \* [User -> the size it is about to ask the core for, or 0]
  given,         \* history: the heap's blocks in use
  taken          \* history: bytes of the core in other use

heapVars == <<provider, h_free, nextmem, asking, given, taken>>

LIMIT(b) == b.at + Header + b.size
Least(S) == CHOOSE i \in S : \A j \in S : i <= j

(* _core_init, _heap_init; or chHeapInit on an area of its own.            *)
HeapInit ==
  /\ asking = [u \in User |-> 0] /\ given = {} /\ taken = {}
  /\ \/ provider = TRUE /\ h_free = <<>> /\ nextmem = 0
     \/ provider = FALSE /\ nextmem = CoreSize
        /\ h_free = <<[at |-> 0, size |-> CoreSize - Header]>>

------------------------------------------------------------------------------
chCoreStatus == CoreSize - nextmem

(* chCoreAllocI: n bytes, which Use tells of, if there are as many left.   *)
chCoreAllocI(n, used) == n <= chCoreStatus /\ nextmem' = nextmem + n /\ used

chCoreAlloc(n) ==
  /\ chCoreAllocI(n, taken' = taken \cup nextmem..nextmem + n - 1)
  /\ UNCHANGED <<provider, h_free, asking, given>>

(* A rest that could hold no more than a part of a header is given along.  *)
Kept(b, n) ==
  IF b.size < n + Header THEN <<>>
  ELSE <<[at |-> b.at + Header + n, size |-> b.size - Header - n]>>
Cut(b, n) == [b EXCEPT !.size = IF b.size < n + Header THEN @ ELSE n]

chHeapAlloc(u, n) ==
  /\ asking[u] = 0
  /\ LET fits == {i \in DOMAIN h_free : h_free[i].size >= n}
         i == Least(fits)
     IN \/ /\ fits # {}
           /\ h_free' = SubSeq(h_free, 1, i - 1) \o Kept(h_free[i], n)
                        \o SubSeq(h_free, i + 1, Len(h_free))
           /\ given' = given \cup {Cut(h_free[i], n)}
           /\ UNCHANGED asking
        \/ /\ fits = {} /\ provider
           /\ asking' = [asking EXCEPT ![u] = n]
           /\ UNCHANGED <<h_free, given>>
  /\ UNCHANGED <<provider, nextmem, taken>>

(* The heap's mutex is released, and the core is asked for a new block, or *)
(* has none.                                                               *)
AskCore(u) ==
  /\ asking[u] # 0
  /\ \/ chCoreAllocI(asking[u] + Header,
                     given' = given \cup {[at |-> nextmem, size |-> asking[u]]})
     \/ asking[u] + Header > chCoreStatus /\ UNCHANGED <<given, nextmem>>
  /\ asking' = [asking EXCEPT ![u] = 0]
  /\ UNCHANGED <<provider, h_free, taken>>

(* Two neighbours in the list become one if they touch.                    *)
NoHeader(b, c) ==                            \* fault: a header is lost
  IF LIMIT(b) = c.at THEN <<[b EXCEPT !.size = @ + c.size]>> ELSE <<b, c>>
Merge(b, c) ==
  IF LIMIT(b) = c.at THEN <<[b EXCEPT !.size = @ + c.size + Header]>> ELSE <<b, c>>

chHeapFree(b) ==
  /\ b \in given
  /\ given' = given \ {b}
  /\ LET n == Len(h_free)
         i == Least({j \in 0..n : /\ j = 0 \/ b.at > h_free[j].at
                                  /\ j = n \/ b.at < h_free[j + 1].at})
         withNext == IF i = n THEN <<b>>
                     ELSE Merge(b, h_free[i + 1]) \o SubSeq(h_free, i + 2, n)
     IN h_free' = IF i = 0 THEN withNext
                  ELSE SubSeq(h_free, 1, i - 1)
                         \o Merge(h_free[i], Head(withNext)) \o Tail(withNext)
  /\ UNCHANGED <<provider, nextmem, asking, taken>>

HeapCalls ==
  \/ \E u \in User : AskCore(u) \/ \E n \in BlockSize : chHeapAlloc(u, n)
  \/ \E b \in given : chHeapFree(b)
  \/ provider /\ chCoreAlloc(1)

------------------------------------------------------------------------------
(* chHeapStatus: the fragments, and the free bytes in them.                *)
chHeapStatus ==
  LET sum[i \in 0..Len(h_free)] == IF i = 0 THEN 0 ELSE sum[i - 1] + h_free[i].size
  IN [n |-> Len(h_free), size |-> sum[Len(h_free)]]

Block == [at : 0..CoreSize, size : 0..CoreSize]
HeapTypeOK ==
  /\ h_free \in Seq(Block) /\ given \subseteq Block /\ nextmem \in 0..CoreSize
  /\ taken \subseteq 0..CoreSize - 1 /\ asking \in [User -> BlockSize \cup {0}]

(* Every byte is in one block, free or in use, however blocks are cut and  *)
(* merged: no two overlap and none is lost.  Free blocks are in order and  *)
(* do not touch, and chHeapStatus counts what is not in use.               *)
FreeBlocks == {h_free[i] : i \in DOMAIN h_free}
Bytes(b) == b.at..LIMIT(b) - 1
BytesOf(B) == UNION {Bytes(b) : b \in B}
HeapIsWhole ==
  /\ HeapTypeOK
  /\ BytesOf(given \cup FreeBlocks) \cup taken = 0..nextmem - 1
  /\ \A b, c \in given \cup FreeBlocks : b # c => Bytes(b) \cap Bytes(c) = {}
  /\ BytesOf(given \cup FreeBlocks) \cap taken = {}
  /\ given \cap FreeBlocks = {}
  /\ \A i \in 1..Len(h_free) - 1 : LIMIT(h_free[i]) < h_free[i + 1].at
  /\ chHeapStatus.size + chHeapStatus.n * Header
       = nextmem - Cardinality(BytesOf(given)) - Cardinality(taken)

==============================================================================
