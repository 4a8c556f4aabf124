-------------------------- MODULE MCSSHConnection --------------------------
(***************************************************************************)
(* SSHConnection for TLC: the operations are given by the cfg.             *)
(***************************************************************************)
EXTENDS SSHConnection

CONSTANTS r1, a1, x1, c1, c2, c3
=============================================================================
