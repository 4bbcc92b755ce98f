---------------------------- MODULE MCScriptWorkflow ----------------------------
(* Small instance of ScriptWorkflow for TLC. *)
EXTENDS ScriptWorkflow, TLC

CONSTANTS ann, bob, tale, lore, hall, greeting, prize, typo, n1, n2, hero

OnePlayer == [n \in Connections |-> hero]
OneBundle == lore :> [source |-> prize, target |-> hall]

Symmetric == Permutations(Users) \cup Permutations(Connections)
=============================================================================
