------------------------------- MODULE Library -------------------------------
(***************************************************************************)
(* The rest of the ChibiOS_AVR library: its memory management, its dynamic *)
(* threads and its example sketches, and the TimerOne library.  One        *)
(* behaviour is about one of them.                                         *)
(***************************************************************************)
EXTENDS ChHeap, ChDynamic, Sketches, TimerOne

CONSTANT Subject       \* the parts, sketches among them

vars == <<sketchVars, heapVars, dynVars, timerVars>>

Init ==
  /\ \E s \in Subject : SketchInit(s)
  /\ HeapInit /\ (sketch = "heap" \/ provider)
  /\ DynInit /\ (sketch = "dynamic" \/ ~useRegistry) /\ TimerInit

Next ==
  \/ sketch = "heap" /\ HeapCalls /\ UNCHANGED <<sketchVars, dynVars, timerVars>>
  \/ sketch = "dynamic" /\ DynCalls /\ UNCHANGED <<sketchVars, heapVars, timerVars>>
  \/ sketch = "timer" /\ TimerCalls /\ UNCHANGED <<sketchVars, heapVars, dynVars>>
  \/ /\ sketch \notin {"heap", "dynamic", "timer"} /\ SketchNext
     /\ UNCHANGED <<heapVars, dynVars, timerVars>>

Spec == Init /\ [][Next]_vars /\ SketchFairness

------------------------------------------------------------------------------
(* Blocks of the heap and areas of threads are never lost, never given     *)
(* twice and never taken back while in use, and the registry has them all. *)
MemoryIsWhole ==
  HeapIsWhole /\ NothingFreedInUse /\ RegistryIsWhole

==============================================================================
