------------------------ MODULE MCSandboxLifecycle -------------------------
(* Instances of SandboxLifecycle for TLC. *)
EXTENDS SandboxLifecycle, TLC

CONSTANTS p1, p2

RestoreThenBoot == <<"restore", "boot">>
=============================================================================
