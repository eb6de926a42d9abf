---------------------------- MODULE MCConfigPush ----------------------------
(* ConfigPush for TLC: the replicas are interchangeable, and so are the    *)
(* reconcilers.                                                            *)
EXTENDS ConfigPush, TLC

CONSTANT su   \* the startup loop that gates the reconcilers

GateAll == [w \in Reconcilers |-> su]

Symmetry == Permutations(Reconcilers) \cup Permutations(Replicas)
=============================================================================
