--------------------------- MODULE MCHybridBenchmark ---------------------------
(* Two runs.                                                               *)
EXTENDS HybridBenchmark
=============================================================================
