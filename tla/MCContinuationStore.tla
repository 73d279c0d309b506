------------------------ MODULE MCContinuationStore ------------------------
(* Instances of ContinuationStore for TLC. *)
EXTENDS ContinuationStore, TLC

CONSTANTS p1, p2, s1, s2, i1, c1, c2

MCIdentityOf == [t \in Templates |-> i1]

Symmetry == Permutations(Tasks) \cup Permutations(Sandboxes)
=============================================================================
