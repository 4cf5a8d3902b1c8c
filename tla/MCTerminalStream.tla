-------------------------- MODULE MCTerminalStream --------------------------
(* Small instances of TerminalStream for TLC.                              *)
EXTENDS TerminalStream
CONSTANTS p1, p2   \* panes
=============================================================================
