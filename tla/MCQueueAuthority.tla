-------------------------- MODULE MCQueueAuthority --------------------------
(* Instances of QueueAuthority for TLC.                                    *)
EXTENDS QueueAuthority, TLC

CONSTANTS i1, i2

(* The first item is served first.                                         *)
MCPriority == [i \in Items |-> IF i = i1 THEN 0 ELSE 1]

Symmetry == Permutations(Workers)
=============================================================================
