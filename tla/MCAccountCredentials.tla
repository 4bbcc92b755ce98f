-------------------------- MODULE MCAccountCredentials --------------------------
(* Small instance of AccountCredentials for TLC. *)
EXTENDS AccountCredentials, TLC

CONSTANTS b1, b2, u1, k1, k2

Symmetric == Permutations(Browsers) \cup Permutations(Links)
=============================================================================
