--------------------------- MODULE MCTemplatePool ---------------------------
(* Small instances of TemplatePool for TLC. *)
EXTENDS TemplatePool, TLC

CONSTANTS p1, p2, s1, s2, e1, e2, w1, w2

\* Environment templates e*, under one key; WarmFork templates w*, under another.
MCKindOf == [t \in Templates |-> IF t \in {e1, e2} THEN Environment ELSE WarmFork]
MCKeyOf == [t \in Templates |-> IF t \in {e1, e2} THEN "env_key" ELSE "wf_key"]
MCKeys == {MCKeyOf[t] : t \in Templates}
MCCreatedAt == [t \in Templates |-> IF t \in {e1, w1} THEN 1 ELSE 2]

TaskSymmetry == Permutations(Tasks)
SandboxSymmetry == Permutations(Sandboxes)
Symmetry == TaskSymmetry \cup SandboxSymmetry
=============================================================================
