---------------------------- MODULE MCBenchmarkSuite ----------------------------
(* One job of each suite, the first and the last with OMPL: what is left   *)
(* of a start that was given up meets a later start of its planner.        *)
EXTENDS BenchmarkSuite
MCPlanners == <<"ompl">>
MCCases == <<"test_1">>
MCProfiles == <<"medium">>
=============================================================================
