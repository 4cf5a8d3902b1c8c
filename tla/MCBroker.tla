------------------------------ MODULE MCBroker ------------------------------
(* Small instances of Broker for TLC.                                      *)
EXTENDS Broker
CONSTANTS p1, p2   \* panes
=============================================================================
