--------------------------- MODULE MCCredentials ---------------------------
(***************************************************************************)
(* Credentials for TLC: two sandboxes of one client and one of another.    *)
(***************************************************************************)
EXTENDS Credentials, TLC

CONSTANTS o1, o2, o3, c1, c2, w1, k1, k2

MCHome == o1 :> c1 @@ o2 :> c1 @@ o3 :> c2

\* All in one workspace.
MCSpace == o1 :> w1 @@ o2 :> w1 @@ o3 :> w1

MCSymmetry == Permutations({o1, o2}) \cup Permutations({k1, k2})
=============================================================================
