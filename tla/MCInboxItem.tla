----------------------------- MODULE MCInboxItem -----------------------------
(* A small instance of InboxItem for TLC.                                   *)
EXTENDS InboxItem
CONSTANTS w1, w2   \* windows
=============================================================================
