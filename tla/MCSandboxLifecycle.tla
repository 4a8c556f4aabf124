------------------------- MODULE MCSandboxLifecycle -------------------------
(***************************************************************************)
(* SandboxLifecycle for TLC: one call of each kind.                        *)
(***************************************************************************)
EXTENDS SandboxLifecycle

CONSTANTS create, w1, t1
=============================================================================
