---------------------------- MODULE MCActorQueue ----------------------------
(* Small instances of ActorQueue.  The weights are those of two workers of a
   pool of four or more; the other bounds are in the cfg files. *)
EXTENDS ActorQueue, TLC

CONSTANTS w1, w2, m1, m2

MCWeight == [w \in Workers |-> IF w = w1 THEN -1 ELSE 0]
MCWeightEqual == [w \in Workers |-> 0]

FullSymmetry == Permutations(Messages) \cup Permutations(Workers)

=============================================================================
