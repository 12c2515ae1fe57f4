--------------------------- MODULE MCUsagePipeline ---------------------------
(* TLC instances of UsagePipeline.                                           *)
EXTENDS UsagePipeline
=============================================================================
