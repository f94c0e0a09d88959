------------------------------- MODULE MCKernel -------------------------------
(***************************************************************************)
(* Kernel for TLC: main has created one or two threads of the same, a      *)
(* higher or a lower priority; in the group of threads it creates them     *)
(* while the model runs.                                                   *)
(***************************************************************************)
EXTENDS Kernel

CONSTANTS a, b

At(t, p) == [thd |-> t, prio |-> p]
KernelWorkers ==
  [g \in Group |->
     CASE g = "threads" -> <<>>
       [] g \in {"sem", "msg"} -> <<At(a, 2), At(b, 3)>>
       [] g = "mtx" -> <<At(a, 1), At(b, 3)>>
       [] g = "evt" -> <<At(a, 3)>>
       [] OTHER -> <<At(a, 2)>>]
==============================================================================
