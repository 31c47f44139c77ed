------------------------------ MODULE MCBroadcast ------------------------------
(* A small instance of Broadcast for TLC.                                   *)
EXTENDS Broadcast, TLC

CONSTANTS m1, m2, m3, r1, r2, e1, e2

\* m1 and m2 are created in the same millisecond.
Times == [m \in Members |-> IF m = m3 THEN 2 ELSE 1]

\* Executors and requests only differ in name.
Symmetry == Permutations(Executors) \cup Permutations(Requests)
=============================================================================
