---------------------------- MODULE MCPairingAuth ----------------------------
(* Instances of PairingAuth for TLC. *)
EXTENDS PairingAuth, TLC

CONSTANTS t1, t2, b1, b2, u1, k1, k2, c1, c2

\* Nothing tells terminals, browsers, tokens or codes apart.
Symmetric ==
  Permutations(Terminals) \cup Permutations(Browsers)
    \cup Permutations(Tokens) \cup Permutations(Codes)
=============================================================================
