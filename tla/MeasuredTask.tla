----------------------------- MODULE MeasuredTask -----------------------------
(***************************************************************************)
(* The process that is measured: the pick-and-place sequence, reduced to   *)
(* its motions, or one case of the simple-motion benchmark. It goes from   *)
(* phase to phase, tries a ladder of goals in each, and publishes the      *)
(* beginning and the end of each phase for the recorders.                  *)
(*                                                                         *)
(* What happens between two phases (gripper, attachments, suppression) is  *)
(* in module PickAndPlace; here it goes well or ends the sequence.         *)
(***************************************************************************)
EXTENDS MotionClient, MetricsTopic

CONSTANTS Phases,            \* the phases of the sequence, in order
          GraspRetries,      \* grasp_retry_count
          MaxPoseRetries,    \* dropoff_max_pose_retries
          HomeCandidates,    \* equivalent joint targets of the home position
          PositionOnly,      \* enable_position_only_fallback
          PrecisionDescent,  \* hybrid_precision_descent_enabled
          MaxHybridRetries   \* bound: retries before hybrid_retry_timeout
ASSUME TaskAssumption ==
  /\ GraspRetries \in Nat \ {0} /\ MaxPoseRetries \in Nat \ {0}
  /\ HomeCandidates \in Nat \ {0} /\ MaxHybridRetries \in Nat
  /\ PositionOnly \in BOOLEAN /\ PrecisionDescent \in BOOLEAN

VARIABLES task,      \* which of the two
          backend,   \* motion_backend, or the planner of the benchmark
          at,        \* number of the phase that is next or under way
          pc,        \* where the thread is in it
          calls,     \* calls of the backend left in the phase
          rungs,     \* goals left in the call
          retries,   \* times a hybrid goal was sent again
          exit       \* exit status of the process

taskVars == <<task, backend, at, pc, calls, rungs, retries, log, exit>>

Steps == IF task = "pick_and_place" THEN Phases ELSE <<"start_state", "movement">>
Phase == Steps[at]

Times(n, x) == [i \in 1..n |-> x]
UpTo(n, s) == SubSeq(s, 1, IF n < Len(s) THEN n ELSE Len(s))

-----------------------------------------------------------------------------
(* The goals of one call of a backend. Each orientation, the one asked for *)
(* and the present one if it is known and another, is tried with a strict  *)
(* and a relaxed tolerance.                                                *)
PoseRungs(sources) ==
  (IF sources = 2 THEN <<"strict", "relaxed", "strict", "relaxed">> ELSE <<"strict", "relaxed">>)
    \o (IF PositionOnly THEN <<"position_only">> ELSE <<>>)

Rungs(call, sources) ==
  CASE call = "pose"   -> IF backend = "curobo" THEN Times(sources, "direct") ELSE PoseRungs(sources)
    [] call = "direct" -> Times(sources, "direct")
    [] call = "home"   -> IF backend = "moveit" THEN <<"home">> ELSE Times(HomeCandidates, "direct_home")
    [] OTHER           -> <<call>>   \* a call that is one goal

Precise == backend = "hybrid" /\ PrecisionDescent

(* The ladder of the release: the attempts are cut to the number           *)
(* configured, or the last one is repeated up to it.                       *)
ReleaseCalls(sources) ==
  IF backend = "curobo" THEN UpTo(MaxPoseRetries, Times(sources, "pose"))
  ELSE IF Precise THEN UpTo(MaxPoseRetries, Times(sources, "direct"))
  ELSE LET specs == <<"strict", "relaxed">> \o Times(sources - 1, "relaxed")
       IN UpTo(MaxPoseRetries, specs \o Times(MaxPoseRetries, "relaxed"))

(* The calls of a phase; of a case of the benchmark the goal is given by   *)
(* its joints or by its pose.                                              *)
JointGoal == CASE backend = "curobo" -> "direct_joint"
               [] backend = "hybrid" -> "hybrid_joint"
               [] OTHER -> "joint"
PoseGoal == CASE backend = "curobo" -> "direct_pose"
              [] backend = "hybrid" -> "hybrid_pose"
              [] OTHER -> "pose_goal"
BenchmarkCalls(p) ==
  IF p = "start_state" THEN {<<JointGoal>>} ELSE {<<JointGoal>>, <<PoseGoal>>}

Calls(p) ==
  CASE p = "pre_grasp"    -> {<<"pose", "pose">>}
    [] p = "grasp"        -> {Times(GraspRetries, IF Precise THEN "direct" ELSE "pose")}
    [] p = "release"      -> {ReleaseCalls(sources) : sources \in {1, 2}}
    [] p = "post_release_retreat" -> {<<IF Precise THEN "direct" ELSE "pose">>}
    [] p = "return_home"  -> {<<"home">>}
    [] p \in {"start_state", "movement"} -> BenchmarkCalls(p)
    [] OTHER -> {<<"pose">>}

-----------------------------------------------------------------------------
TaskTypeOK ==
  /\ ClientTypeOK
  /\ task \in {"pick_and_place", "simple_motion"}
  /\ backend \in {"moveit", "hybrid", "curobo"}
  /\ at \in 1..(Len(Steps) + 1)
  /\ pc \in {"off", "ready", "between", "moving", "observing", "failed", "ended"}
  /\ calls \in Seq({"pose", "home"} \cup Modes) /\ rungs \in Seq(Modes)
  /\ retries \in 0..MaxHybridRetries
  /\ \A i \in DOMAIN log : log[i].ev \in {"start", "end", "setup_failed"} /\ log[i].phase \in Places
  /\ exit \in {"none", "0", "1", "124"}

TaskInit ==
  /\ task \in {"pick_and_place", "simple_motion"}
  /\ arm \in {Away} \cup (IF task = "simple_motion" THEN {"start_state"} ELSE {})
  /\ ClientInit
  /\ backend \in {"moveit", "hybrid", "curobo"}
  /\ at = 1 /\ pc = "off" /\ calls = <<>> /\ rungs = <<>> /\ retries = 0
  /\ log = <<>> /\ exit = "none"

Running == exit = "none"

(* The servers are there, or the sequence waits for the timeout of the     *)
(* run, or the benchmark reports that its setup failed.                    *)
SetupFails ==
  /\ pc' = "failed"
  /\ IF task = "simple_motion"
     THEN Publish(Event("setup_failed", "movement", FALSE))
     ELSE UNCHANGED log

BecomeReady ==
  /\ Running /\ pc = "ready"
  /\ \/ pc' = "between" /\ UNCHANGED log
     \/ SetupFails
  /\ UNCHANGED <<clientVars, task, backend, at, calls, rungs, retries, exit>>

(* Something between two phases fails. There is nothing between the        *)
(* approach and the grasp, nor between the way to the drop and the release. *)
AbortBetween ==
  /\ Running /\ pc = "between"
  /\ task = "pick_and_place" /\ Phase \notin {"grasp", "release"}
  /\ pc' = "failed"
  /\ UNCHANGED <<clientVars, task, backend, at, calls, rungs, retries, log, exit>>

(* The way to the start state of a benchmark is not measured.              *)
StartPhase ==
  /\ Running /\ pc = "between"
  /\ pc' = "moving" /\ calls' \in Calls(Phase) /\ rungs' = <<>> /\ retries' = 0
  /\ IF Phase = "start_state" THEN UNCHANGED log ELSE Publish(Event("start", Phase, FALSE))
  /\ UNCHANGED <<clientVars, task, backend, at, exit>>

NextCall ==
  /\ Running /\ pc = "moving" /\ wait = "idle"
  /\ rungs = <<>> /\ calls # <<>>
  /\ \E sources \in {1, 2} : rungs' = Rungs(Head(calls), sources)
  /\ calls' = Tail(calls)
  /\ UNCHANGED <<clientVars, task, backend, at, pc, retries, log, exit>>

SendGoal ==
  /\ Running /\ pc = "moving" /\ rungs # <<>>
  /\ Ask(Phase, Head(rungs))
  /\ UNCHANGED taskVars

PhaseSucceeds ==
  /\ at' = at + 1
  /\ pc' = IF at = Len(Steps) THEN "ended" ELSE "between"
  /\ IF Phase = "start_state" THEN UNCHANGED log ELSE Publish(Event("end", Phase, TRUE))

PhaseFails ==
  /\ Running /\ pc = "moving" /\ wait = "idle"
  /\ rungs = <<>> /\ calls = <<>>
  /\ IF Phase = "start_state" THEN SetupFails
     ELSE pc' = "failed" /\ Publish(Event("end", Phase, FALSE))
  /\ UNCHANGED <<clientVars, task, backend, at, calls, rungs, retries, exit>>

(* A joint target of the benchmark that is reached already needs no goal.  *)
SkipMotion ==
  /\ Running /\ pc = "moving" /\ wait = "idle" /\ rungs # <<>>
  /\ Head(rungs) \in {"joint", "hybrid_joint", "direct_joint"} /\ arm = Phase
  /\ PhaseSucceeds
  /\ rungs' = <<>> /\ calls' = <<>>
  /\ UNCHANGED <<clientVars, task, backend, retries, exit>>

TakeYes ==
  /\ Running /\ pc = "moving" /\ Done /\ answer = "yes"
  /\ PhaseSucceeds
  /\ rungs' = <<>> /\ calls' = <<>>
  /\ UNCHANGED <<arm, reached, abandoned, task, backend, retries, exit>>

(* The next goal of the ladder. Once a way home is planned and not         *)
(* followed to its end, no other is planned.                               *)
TakeNo ==
  /\ Running /\ pc = "moving" /\ Done /\ answer # "yes"
  /\ rungs' = IF Head(rungs) = "direct_home" /\ answer # "no plan" THEN <<>> ELSE Tail(rungs)
  /\ UNCHANGED <<arm, reached, abandoned, task, backend, at, pc, calls, retries, log, exit>>

(* A joint goal of hybrid planning whose planning failed: the benchmark    *)
(* watches the arm, which may still arrive, and then tries again.          *)
Observe ==
  /\ Running /\ pc = "moving" /\ Done /\ answer = "failed"
  /\ task = "simple_motion" /\ Head(rungs) = "hybrid_joint"
  /\ pc' = "observing"
  /\ UNCHANGED <<arm, reached, abandoned, task, backend, at, calls, rungs, retries, log, exit>>

ArmArrives ==
  /\ pc = "observing"
  /\ arm' = Phase /\ reached' = reached \cup {Phase}
  /\ UNCHANGED <<wait, goal, answer, abandoned, taskVars>>

(* Mutant of EndObservation: the time for retries is not looked at.        *)
EndObservationRetries ==
  /\ Running /\ pc = "observing"
  /\ IF arm = Phase
     THEN PhaseSucceeds /\ rungs' = <<>> /\ calls' = <<>> /\ UNCHANGED retries
     ELSE /\ pc' = "moving" /\ retries' = retries + 1
          /\ UNCHANGED <<at, log, calls, rungs>>
  /\ UNCHANGED <<clientVars, task, backend, exit>>
EndObservation ==
  /\ Running /\ pc = "observing"
  /\ IF arm = Phase
     THEN PhaseSucceeds /\ rungs' = <<>> /\ calls' = <<>> /\ UNCHANGED retries
     ELSE /\ pc' = "moving"
          /\ \/ retries < MaxHybridRetries /\ retries' = retries + 1 /\ UNCHANGED rungs
             \/ rungs' = Tail(rungs) /\ UNCHANGED retries
          /\ UNCHANGED <<at, log, calls>>
  /\ UNCHANGED <<clientVars, task, backend, exit>>

(* The previous planner is restored and the process exits. A sequence that *)
(* failed does not: it waits to be stopped from outside.                   *)
EndProcess ==
  /\ Running
  /\ \/ pc = "ended" /\ exit' = "0"
     \/ pc = "failed" /\ task = "simple_motion" /\ exit' = "1"
  /\ UNCHANGED <<clientVars, task, backend, at, pc, calls, rungs, retries, log>>

(* The timeout around the run ends the process wherever it is.             *)
TimeoutKills ==
  /\ Running /\ pc # "off"
  /\ exit' = "124"
  /\ Forget /\ calls' = <<>> /\ rungs' = <<>>
  /\ UNCHANGED <<arm, reached, abandoned, task, backend, at, pc, retries, log>>

Drive == \/ BecomeReady \/ AbortBetween \/ StartPhase \/ NextCall \/ SendGoal \/ PhaseFails
         \/ SkipMotion \/ TakeYes \/ TakeNo \/ Observe \/ EndObservation
         \/ EndProcess
(* What the server does after the end of the process is not followed.      *)
Motion == Running /\ (Waiting \/ Server) /\ UNCHANGED taskVars
=============================================================================
