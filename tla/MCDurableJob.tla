---------------------------- MODULE MCDurableJob ----------------------------
(***************************************************************************)
(* DurableJob for TLC: two submission attempts (so two launch rounds each, *)
(* four possible wrappers), and the signalling shells the cfg gives.       *)
(***************************************************************************)
EXTENDS DurableJob, TLC

CONSTANTS s1, s2, t1, t2, k1, d1, d2
MCSymmetry == Permutations({s1, s2}) \cup Permutations({d1, d2})
=============================================================================
