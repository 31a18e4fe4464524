-------------------------- MODULE MCCriticalSection --------------------------
(* Constants and symmetry of the runs of CriticalSection. *)
EXTENDS CriticalSection, TLC

CONSTANTS m, c1, c2, r1, r2, r3

Others == Permutations(Co \ {Main})
=============================================================================
