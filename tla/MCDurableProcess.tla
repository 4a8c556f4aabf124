-------------------------- MODULE MCDurableProcess --------------------------
(***************************************************************************)
(* DurableProcess for TLC: one handle, whose operations the cfg chooses.   *)
(***************************************************************************)
EXTENDS DurableProcess

CONSTANT p
=============================================================================
