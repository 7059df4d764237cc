------------------------- MODULE MCKernelLifecycle -------------------------
(***************************************************************************)
(* TLC instances of KernelLifecycle.  Threads are interchangeable: no      *)
(* action or property names one.                                           *)
(***************************************************************************)
EXTENDS KernelLifecycle, TLC

ThreadSymmetry == Permutations(Thread)
=============================================================================
