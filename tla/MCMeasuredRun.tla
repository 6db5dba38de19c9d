----------------------------- MODULE MCMeasuredRun -----------------------------
(* A measured run with four phases, or a benchmark case.                  *)
EXTENDS MeasuredRun

MCPhases == <<"pre_grasp", "grasp", "release", "return_home">>
MCPlaces == {"pre_grasp", "grasp", "release", "return_home", "start_state", "movement"}
=============================================================================
