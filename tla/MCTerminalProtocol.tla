--------------------------- MODULE MCTerminalProtocol ---------------------------
(* Small instance of TerminalProtocol for TLC. *)
EXTENDS TerminalProtocol
=============================================================================
