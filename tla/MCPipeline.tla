----------------------------- MODULE MCPipeline -----------------------------
(* Small instances of Pipeline for TLC.                                    *)
EXTENDS Pipeline
CONSTANTS k1, k2   \* items
=============================================================================
