---------------------------- MODULE MCHostSync ----------------------------
(* Instances of HostSync for TLC. *)
EXTENDS HostSync, TLC

Symmetry == Permutations(Hosts) \cup Permutations(Runners)
=============================================================================
