----------------------------- MODULE MCRegistry -----------------------------
(* Storage servers that are started and go down.  Those that do not are alike. *)
EXTENDS Registry, TLC

CONSTANTS s1, s2, s3

ServerSymmetry == Permutations(Server \ Frail)
=============================================================================
