---------------------------- MODULE MCTransfers ----------------------------
(***************************************************************************)
(* Transfers for TLC: a directory of three files.                          *)
(***************************************************************************)
EXTENDS Transfers, TLC

CONSTANTS e1, e2, e3, kept
MCEntries == {e1, e2, e3}
MCSymmetry == Permutations(MCEntries)
=============================================================================
