-------------------------- MODULE MCManagedService --------------------------
(***************************************************************************)
(* TLC instances of ManagedService.  Workers are interchangeable, and so   *)
(* are principals: no action or property names one.                        *)
(***************************************************************************)
EXTENDS ManagedService, TLC

WorkerSymmetry == Permutations(Worker)
PeerSymmetry == Permutations(Principal)
=============================================================================
