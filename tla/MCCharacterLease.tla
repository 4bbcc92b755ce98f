--------------------------- MODULE MCCharacterLease ---------------------------
(* Instances of CharacterLease for TLC. *)
EXTENDS CharacterLease, TLC

CONSTANTS s1, s2, s3, u1, c1

\* One account owns every character.
OneOwner == [c \in Characters |-> u1]

Symmetric == Permutations(Sessions)
=============================================================================
