--------------------------- MODULE MCNetworkPolicy ---------------------------
(***************************************************************************)
(* NetworkPolicy for TLC: the calls are given by the cfg.                  *)
(***************************************************************************)
EXTENDS NetworkPolicy

CONSTANTS create, t1, u1, others
=============================================================================
