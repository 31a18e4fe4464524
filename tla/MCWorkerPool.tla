---------------------------- MODULE MCWorkerPool ----------------------------
(* Small instances of WorkerPool: the bounds are in the cfg files. *)
EXTENDS WorkerPool, TLC

Symmetry == Permutations(Workers) \cup Permutations(Producers)

=============================================================================
