---------------------------- MODULE MCWindowSet ----------------------------
(* A small instance of WindowSet for TLC.                                   *)
EXTENDS WindowSet, TLC
CONSTANTS w1, w2, w3, sh, vi, attacher, worker, mover
Alike == Permutations({w2, w3}) \cup Permutations({sh, vi})
=============================================================================
