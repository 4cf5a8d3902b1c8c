--------------------------- MODULE MCOutputWorker ---------------------------
(* Small instances of OutputWorker for TLC.                                *)
EXTENDS OutputWorker
CONSTANTS i1, i2   \* invocations
=============================================================================
