---------------------------- MODULE MCScanQueue ----------------------------
(***************************************************************************)
(* Instances of ScanQueue for TLC.  Jobs, requests, replicas and goroutines *)
(* are interchangeable.                                                    *)
(***************************************************************************)
EXTENDS ScanQueue, TLC

Symmetry == Permutations(Jobs) \cup Permutations(Callers)
            \cup Permutations(Replicas) \cup Permutations(Slots)

=============================================================================
