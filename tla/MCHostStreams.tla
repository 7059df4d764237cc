---------------------------- MODULE MCHostStreams ----------------------------
(* HostStreams for TLC: the legs are interchangeable. *)
EXTENDS HostStreams, TLC

Symmetry == Permutations(Op)
=============================================================================
