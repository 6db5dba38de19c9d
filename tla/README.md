# A verification development for RITA-SIM

RITA-SIM drives a simulated UR arm with a Robotiq gripper (Isaac Sim) through
three motion backends, MoveIt, cuRobo (`curobo_ros`) and MoveIt Hybrid Planning
with a cuRobo MPC as local planner, in a pick-and-place scenario. The program is
a set of ROS 2 nodes that only talk through topics, services and actions, and
its own core logic is about one question: **do all the planners have the right
picture of the world?** Every object of the simulation exists several times: as
a pose in TF, as a collision object of MoveIt's planning scene, as an obstacle
in cuRobo's world, in the collision worlds of two cuRobo solvers, as spheres on
the robot in cuRobo and cuMotion, as an attached body in MoveIt, and in the
simulated gripper. Different processes change these copies by asynchronous
messages. This development models the four places where they are kept in step,
two where that picture is used (a motion under hybrid planning, whose path is
watched while it is followed, and the sessions of several clients with one
planner), and the benchmarks that report how the backends compare: one measured
run, the benchmark with an obstacle, and the suite that starts the planners for
every run and kills them after it. Beside them stand a few algorithms whose
results the state machines only use: the cuboids of a mesh, what cameras tell,
the spheres of a carried object, the order of joint values.

Paths below are relative to `src/src/`. `C` is `ur_robotiq_moveit_config/scripts`
and `K` is `curobo_ros/curobo_ros/core`.

## 1. Inventory

### 1.1 Components, their state and what makes them correct

| component | state | operations | correct when |
|---|---|---|---|
| Environment collision publisher, `C/isaac_urdf_collision_publisher.py` | `suppressed_ids`, `published`, `_last_add_time`, `_last_published_poses` | a timer tick publishes ADD/MOVE diffs; a subscription obeys `suppress:`, `unsuppress:`, `clear` | a suppressed object leaves the scene and stays out; every other one is eventually there at its pose |
| Pick-and-place workflow, `C/pick_and_place/*.py` | the phase; `_target_object_suppressed`, `_attached_object_id`, `_cumotion_object_attached`, the tracker's `_attached` and `_collisions_disabled`; `sequence_success`, `sequence_failed` | thirty phases of `_execute`, each with its own abort path; cleanup; `finally` | the target is never carried twice; every representation is undone on every path; one verdict |
| cuRobo world bridge, `C/curobo/curobo_world_bridge.py` | `published_signatures`, `_inflight_operations`, `suppressed_frames` | a timer tick polls futures, then sends REMOVE, ADD and MOVE requests | what it believes published is published; the planner catches up |
| Obstacle manager, `K/obstacle_manager.py`, `K/ros_service_manager.py` | `world_cfg` and the index of objects | `add_object`, `remove_object`, `update_object_poses`, `get_obstacles`, ... | an answer says what happened; the cuboids of a mesh fill it wherever it is |
| World synchronization, `K/unified_planner_node.py`, `K/config_wrapper_motion.py`, `planners/mpc_planner.py` | `_world_state_version`, `_pending_world_version`, the version of each solver, `_mpc_execution_active`, the hybrid session, `_mpc_robot_geometry_dirty` | record, stage, apply; set up a planner; plan; step; execute; hand off | a solver recorded at a version has loaded it; staged updates arrive; nobody solves in a stale world |
| Robot model manager, `K/robot_model_manager.py` | attached spheres, disabled link collisions | `attach_object`, `set_link_collision` | agrees with what the tracker believes |
| Hybrid move action bridge, `C/hybrid_move_action_bridge.py` | one goal, one hybrid goal, the latest global solution | accept, dispatch, cancel, translate the result | the answer tells what the robot did |
| Hybrid planning plugins, `curobo_hybrid_planning_plugins/src` | goal index, stall and failure counters, the wait for a new trajectory | one local step; sample; plan globally | ends; gives up, replans or succeeds |
| MPC step service: sentinel, streaming, controllers (`K/unified_planner_node.py`) | baseline version, streaks, active controller | check the path ahead, stream, switch controllers | blocked paths are reported |
| Planner backends of pick-and-place, `C/pick_and_place/backend_*.py`, `move_group_ops.py`, `controller_execution.py` | `_active_planner_type`, the saved planner | select and restore a planner, plan, execute | a move uses the planner and the plan it asked for; the previous planner is restored |
| Trajectory planners and execution action, `curobo_ros/planners`, `K/unified_planner_node.py` | the current planner; a plan and a cancel flag for each; `is_goal_active`, `latest_goal_from_topic`; one controller goal handle | plan, execute, follow live goals, hand off, cancel | what is executed was planned for it; every execution ends, and says how |
| Robot context, `curobo_ros/robot` | a strategy; one command and its progress | take a command, send it, stop, select a strategy | whoever watches the progress watches its own command |
| RViz panel, `curobo_rviz/src/curobo_rviz.cpp` | its planner, trajectory, goal handles, tracking, buttons | select, plan, execute, track, stop | tracks only what it executes |
| Measured task: the motions of the workflow, or a case of `C/simple_motion_benchmark.py` | the phase, the goals left in its ladder, the future it waits for | send a goal, wait with a deadline, try the next; publish the start and the end of each phase | the arm stands where the phase says |
| Recorders, `scripts/recorders/*.py` (in `src/`, beside `src/src/`) | the open phase, the segments, the failed phase | follow the events, print when a file says so | what is printed was published |
| Runner of a measured run, `scripts/pick_and_place_scenario.py`, `scripts/recorders/*_recorder.py` | two recorder processes, the stop files, the row | launch, wait for the task, stop and collect, write the row | ends; flatters no planner; blames the right phase |
| Obstacle benchmark, `C/hybrid_obstacle_benchmark.py`, `C/hybrid_benchmark/*.py` | the record of the active run, the event of the first plan, the thread that spawns the wall | bring the arm to its start, send the measured goal, spawn the wall when the arm is near, judge the record | what is recorded belongs to the run; a run that passes has reacted to its wall |
| Suite and start of the stacks, `scripts/benchmark_suite.py`, `test_stack.py`, `*_scenario.py`, `combine_benchmark_results.py`, `test.sh`, `control.sh`, `startup_scripts/*.sh` (in `src/`), the launch files | the processes, the logs, the rows | reset, kill, start, wait until ready, run, count, stop | a run is measured on the planner started for it; nothing is left behind; success means rows |
| Cameras and robot segmentation, `curobo_ros/cameras`, `K/robot_segmentation.py` | the last cloud, image and joints; the grids in `world_cfg` | take a cloud or an image; cut the robot out; tell the voxels | what is seen is where it is, and nothing else |
| cuMotion node, human skeleton publishers, joint-state filter, home bootstrap, previews | | | |
| Drivers and controllers (Robotiq, UR, Cartesian controllers) | | | third-party, vendored |

### 1.2 Interactions

```
             /environment_collision/control (suppress, unsuppress, clear)
  workflow ----------------------------+-----------------------------+
   |  |  ^                             v                             v
   |  |  | get_planning_scene   collision publisher             world bridge
   |  |  |                             | /planning_scene             | add, remove, move
   |  |  |                             v                             v  (async services)
   |  |  +---------------------- planning scene                obstacle manager
   |  +--- attach/detach diffs ------->|  (move_group)                | request_world_update
   |                                                                 v
   +--- attach_object, set_link_collision (async, timeout) --> unified planner
   +--- cuMotion attach goals, gripper action                  MotionGen | MPC
   +--- move requests --> hybrid bridge --> hybrid planning --> mpc_step, plan

  workflow or benchmark -- start, end, setup failed --> trajectory, joint recorders
   ^ started under `timeout`                              ^ stop file   | segments
   +------------------------- runner ---------------------+ <-----------+ --> row

  suite -> job -> stop, kill, restart controllers, play, start planner, wait -> runner
                         | docker exec -d                    ^ services, log
                         +--> script --> ros2 launch --> nodes
```

### 1.3 The hard behaviours

- **Order across channels.** A suppress command, the diffs already published and
  the queries that verify the suppression travel separately.
- **Loss and restart.** `/planning_scene` has a bounded history; `move_group`,
  the publisher and the bridge can be restarted separately, and each keeps only
  in memory what it believes of the other.
- **Timeouts and late answers.** Every request of the workflow has a timeout,
  after which the server may still execute it.
- **Partial failure.** The workflow has more than thirty ways to stop in the
  middle, each with its own list of what to undo.
- **Concurrency of requests.** The bridge keeps several ADDs and a MOVE in
  flight and looks at their answers in a later tick.
- **Concurrency of threads.** The planner node's services have callback groups
  of their own under a multi-threaded executor. `_world_update_lock` protects the
  versions, but not a load of a solver's world.
- **Two ends of one session.** The local solver and the step service each believe
  to know whether an MPC session goes on. Calls that were given up are served
  later, and a reset, a cancellation by another client or a blocked path ends it
  on one side first.
- **Several clients, one planner.** Selecting, planning and executing are separate
  requests, each answered from whatever is current at its moment.
- **Processes nobody waits for.** A recorder may subscribe after the task has
  begun, print before it has heard the end, remove the file that was to stop it, or
  hang; the task may be killed by its `timeout` in the middle of a phase.
- **Planners that come and go.** A planner is started in the background and
  killed by patterns of names. A killed one answers for a while, and the next may be
  taken for ready because of it.
- **Liveness.** Staged updates, full batches and skipped ticks must not lose an
  update for good; a hold must end, and so must every execution.

`PROJECT.json` lists every hazard at its line, with the property that covers it
or the reason why none does.

## 2. Modules

| module | models | composes |
|---|---|---|
| `ObjectVisibility` | abstract: what a publisher of obstacles promises | |
| `EnvironmentCollision` | the publisher, its two topics, the planning scene's world | refines `ObjectVisibility` |
| `PickAndPlace` | the workflow thread and all representations of its target | `EnvironmentCollision` by `INSTANCE`, with the target as its only object, and a short view of the world bridge |
| `ObstacleStore` | abstract: obstacles and their one publisher, if requests took no time | |
| `WorldBridge` | the bridge's tick and the obstacle manager serving it | refines `ObstacleStore` |
| `WorldSync` | the versions, solvers and threads of the unified planner | |
| `HybridMpc` | the sampler, the local solver and the step and reset services it drives | |
| `HybridExecution` | the bridge, the global planner and (external) the hybrid planning manager, for one goal | extends `HybridMpc` |
| `RobotContext` | the robot context with its emulator: command, progress, stop, strategy | |
| `UnifiedPlanner` | the services to select a planner, plan and execute, and (external) the arm with its controllers | extends `RobotContext` |
| `PlannerSession` | the cuRobo backend and the RViz panel as its clients | extends `UnifiedPlanner` |
| `MotionClient` | one motion of a thread: request, acceptance, result and their deadlines, and (external) the server and the arm | |
| `MetricsTopic` | the events of a measured task | |
| `MeasuredTask` | the phases and ladders of goals of the workflow and of the simple-motion benchmark | extends `MotionClient`, `MetricsTopic` |
| `MetricsRecorder` | the recorders of the trajectory and of the joints | extends `MetricsTopic` |
| `MeasuredRun` | the runner | extends `MeasuredTask`, `MetricsRecorder` |
| `HybridBenchmark` | the benchmark with an obstacle: its main thread and the thread that spawns the wall, and (external) the planner's obstacle services and the MoveGroup server | |
| `PlannerStack` | what is launched, what the kill finds, what the readiness checks ask; processes that start and end | |
| `BenchmarkSuite` | the jobs and runs of the suite | extends `PlannerStack` |
| `Space` | points and poses with integer coordinates | |
| `MeshCuboids` | the cuboids of a mesh and the obstacle manager's lists | extends `Space`; checked beside `WorldSync` |
| `Perception` | voxel grids from clouds, the depth image without the robot, the voxels that are shown | extends `Space`; checked beside `PlannerSession` |
| `AttachmentSpheres` | the spheres of a carried object | extends `Space`; extended, beside `PickAndPlace`, by `MCPickAndPlace` |
| `JointOrder` | joint values by name, commands of MPC, equivalent angles | checked beside `HybridExecution` |
| `*_proofs` | theorems about the module of that name; in `PickAndPlace_proofs` also about `AttachmentSpheres`, in `WorldSync_proofs` about `MeshCuboids`, in `HybridExecution_proofs` about `JointOrder`, in `MeasuredRun_proofs` about `BenchmarkSuite`, in `PlannerSession_proofs` about `Perception` | |
| `MC*` | instances for TLC | |

A definition whose comment begins with "Mutant of" is a plausible mistake in
another definition. No behaviour uses it: it is there to show that a property
can tell the right code from the wrong one.

### 2.1 EnvironmentCollision

| code | model |
|---|---|
| `_on_control_command`, `_publish_remove` | `OnControlCommand`, split by `OnSuppress`, `OnUnsuppress`, `Forget` |
| `publish_poses` (needs_add, skip of suppressed objects, `_pose_changed`, one diff per tick) | `PublishPoses`, `TickDiff`, `NeedsAdd` |
| the two topics | the sequences `control` and `topic` |
| `move_group` | `ApplyDiff`, `RestartMoveGroup` (external) |
| a history that is full | `LoseOldest` |

`published` and `_last_add_time` always have the same keys, so one variable
stands for both. The 2 s of `_readd_interval_sec` become the set `due` of a tick.
The set `located` is what TF happens to know at a tick, and a pose is a model
value, equal up to the tolerance of `_pose_changed`. Geometry, colours and the
loading of files are left out.

### 2.2 PickAndPlace

`pc` is the phase of `_execute`; each phase is an action named after it. A phase
that can fail has a disjunct for each failure, which leads to the cleanup that
the code lists there. The abort paths run subsets of the same five steps, always
in the same order: `todo` is that subset, and `CleanupOrder` the order.
`_abort_sequence` comes last on some paths and the failure is recorded first on
others: `CleanThenFail` and `FailThenClean`.

A request may also never be sent, and one that is sent has four outcomes: done,
refused, done but answered as a failure, timed out. One
that timed out goes to `lateAttach`, `lateLinks` or `lateCumotion`, from where
the server may serve it at any time, in order. A query of the planning scene
that times out reads as absence, as `_get_world_collision_object` has it; this
is a configuration (`queriesFail`), because two properties depend on it.

Motion planning and the gripper are abstracted to their outcome. cuRobo's
obstacle list has one entry for the target, which the bridge adds and removes
(`BridgeCommand`, `BridgeReconcile`). Its concurrency is the subject of
`WorldBridge`. The first phase may find the target suppressed by an earlier run,
except in `FreshSpec`, which the run about abort paths uses. A verification of presence
may time out too when queries fail, although the target is there (`NotVerified`).

### 2.3 WorldBridge

| code | model |
|---|---|
| `publish_objects` | `PublishObjects`: poll, then one REMOVE, or ADDs and a MOVE batch, or the fallback REMOVE |
| services of the planner not ready | `PollOnly`; MOVE updates not offered: `PublishObjects(FALSE)` |
| `_poll_inflight_operations` | `Polled`, `Learned` |
| `_on_control_command` | `OnControlCommand` |
| `add_object`, `remove_object`, `update_object_poses` | `ServeAdd`, `RefuseAdd`, `ServeRemove`, `ServeMove` |
| the process | `RestartBridge` |

A request is a record of what it wants each obstacle to become and of its
answer. An operation leaves `inflight` in the tick that sees its answer. In one
place the model allows more than the code: the bridge takes the first stale
obstacle in the order of names and goes through the others in the order of a
dictionary, the model takes any. A restarted bridge waits `startup_delay_sec`
before its first tick, so `RestartBridge` requires that the planner has served
what the old process sent. Geometry changes at a restart only, since the bridge
loads it in its constructor. An ADD that is refused for its dimensions, its type or
its mesh (`RefuseAdd`) changes neither side, so the bridge asks again; what a failed
voxelization leaves in the lists (section 6) has no place in this model.

### 2.4 WorldSync

`content` counts the changes of `world_cfg`, so it identifies a state of the
obstacles, and `loaded[s]` is the content the collision world of solver `s` has
been filled from, 0 while it is cleared. The threads are the obstacle services
(one callback group), each planning callback (`PlanThreads`), the hybrid MPC
step and the execution action. `_sync_*_world_to_version` takes two steps,
`SyncRead` (check the version, `clear_cache`, read the obstacles) and
`SyncWrite` (`update_world`, record), with any other thread in between, because
the lock is released there. `job` is the call a thread is in; its target is kept
while the thread solves.

`raced` is a history variable. It is set when two loads of one solver overlap,
when an MPC solver is dropped under a load, and when the obstacles change while
a new MPC solver is being built. Nothing in the code excludes these cases. When
they happen, a solver may end up recorded at a version it has not loaded. The
properties about what is loaded hold until then, and this is how they are
stated. Making a load atomic per solver would remove `raced` from them.

Not in the model: the numerical work of the solvers, the sentinel, streaming and
controllers; the IK world and the camera obstacles; the choice of a planner other
than classic at startup (another one warms MPC up first). A load does not fail: an
exception of `update_world` after `clear_cache` (`K/unified_planner_node.py:807`, 820)
would leave an empty world behind the version recorded before. The ground plane is
added once, by the first warmup (`Ground = 1`), or is in the configuration
(`Ground = 0`).

### 2.5 HybridMpc and HybridExecution

| code | model |
|---|---|
| `mpc_step_callback` | `BeginStep` (synchronize, begin a session), then `RefreshFails`, `EndForBlockedPath` or `Solve`; `StepFails` for its other failures |
| `_check_hybrid_path_sentinel` | `PathBlocked` |
| `mpc_reset_callback`, `cancel_callback` of another client | `ServeReset`, `ForeignCancel` |
| `LookaheadSampler` | `Samples`, `SentinelWindow`, `Take` |
| `CuroboMpcLocalSolver::solve` | `Hold`, `RequestStep`, then `Stuck`, `Invalidated` or `Commanded` |
| `reset`, `callReset` | `EndLocal`, `EndReset` |
| the subscription of the trajectory | `Hear` for the solver, `Take` for the sampler |
| `CuroboGlobalPlanner::plan` | `PlanSucceeds`, `PlanFails` |
| `execute_callback` of the bridge | `Dispatch`, `PlanOnly`, `Sent`, `PassCancel`, `Finish` |

A path is the direct one, on one waypoint of which the obstacle may appear, or a
detour. A request carries the window that has to be free and the version its
path was planned in. The service takes two steps because an obstacle may appear
between the synchronization and the check; a session that begins keeps updates
staged (`ChangeWorld`). A request that the solver gave up stays in `requests`,
and its answer reaches nobody. `_hybrid_mpc_lock` orders steps and resets but
does not say in which order, so `ServeReset` may come before a step that waits.
An answer also records, for the properties, whether MPC knew the window to be
blocked and whether the path is older than the session. `SentinelWindow` is as long as
the number of waypoints allows: the limits of time and of joint distance, which may
end it earlier (`lookahead_sampler.cpp:246`), and the empty window of a sentinel that is
off are left out. The property speaks of the window that was sent, so a shorter one is
less to be watched. With them the run is beyond its time.

### 2.6 UnifiedPlanner and PlannerSession

| code | model |
|---|---|
| `set_planner_callback`, `generate_trajectory_callback` | `ServeSetPlanner`, `BeginPlanning`, `EndPlanning` |
| `execute_callback`, `execute_planned_trajectory_via_controller` | `BeginExecution`, `SendPlan`, `RegisterGoal`, `TakeResult`, `EndContext` |
| `MPCPlanner.execute`, `_execute_mpc_classic_handoff` | `Iterate`, `Step`, `HandOff` |
| `_plan_trajectory` of the planners, `_extract_goal_pose` | `Outcomes`: what can come of a pose, or of joint positions |
| `cancel_callback`, `cancel_active_controller_goal` | `Canceled`, `ArmGoalToCancel` |
| `set_command`, `send_trajectrory`, `stop_robot`, `_execute_trajectory` | `Given`, `Sent`, `Halted`, `RunEmulator` |
| `set_robot_strategy_callback` | `SwitchStrategy` |
| `CuroboMotionBackend` | `Capture`, `StartMove`, `Ensure`, `PlannerSet`, `RequestPlan`, `PlanAnswered`, `Submit`, `SendArmGoal`, ..., `Restore`; a wait that times out is `GiveUp` |
| the panel | `SelectPlanner`, `Generate`, `Send`, `Stop`, and its callbacks |

A plan is identified by the client it was made for ("old" for an earlier one,
"live" for a goal taken from the marker), since the question is whose plan is
executed. `disturbed`, `overtaken` and `foreign` are history variables. The first
and the last say that another client, or a call that was given up, reached the
planner since the backend selected one, or since its session began; `overtaken`
says that an execution of another client, which began before, took the robot
context, or the classic planner in a handoff of MPC, with a plan that is not the
backend's. Nothing in the planner prevents that,
and the properties are about what a client may rely on until then. Where the action
of the arm is not there, `SinglePlanner.execute` sends the command of the robot
context and watches its progress. There is one command for all planners, which each
plan and each step of MPC replaces: `replaced` says that this happened while the
emulator moved, since a shorter command then is an error. A new strategy has no
command; which one it is makes no difference otherwise. An execution is
`Stranded` when the context it watches has come to rest without an end. The panel
may also ask for a type that no planner has (`Unavailable`). The arm is
external: a later goal preempts the one before, a goal ends with its controller,
and a cancelled goal answers with error code 0. `RegisterGoal` has the answers accepted
and rejected. The third outcome, no answer in 5 s (`K/unified_planner_node.py:1564`),
is left out: the execution ends as for a rejected goal, but the controller may follow that
goal later, and nobody can cancel it.

### 2.7 MeasuredRun and what it extends

| code | model |
|---|---|
| `_send_move_group_goal`, `execute_arm_joint_trajectory`, `_send_move_group_joint_goal`, ... | `Ask`, `PlanArrives`, `ResponseArrives`, `ResultArrives`, `DeadlinePasses` |
| `_move_to_pose`, `move_to_home` and the like | `Rungs`: the goals that one call of a backend tries |
| `_move_to_release_pose_with_retries` | `ReleaseCalls` |
| `_start_metrics_phase`, `_finish_metrics_phase`, `_fail_metrics_phase`; `run_case` | `StartPhase`, `PhaseSucceeds`, `PhaseFails`, `SetupFails` |
| `_send_hybrid_goal`, `_wait_for_hybrid_retry_observation` | `Observe`, `EndObservation` |
| `timeout` around the task | `TimeoutKills` |
| `on_metrics_event`, `start_phase`, `finish_phase` of the two recorders | `OnEvent`, `Open`, `Close` |
| `start_ros_json_recorder`, `stop_ros_json_recorder` | `Boot`, `Subscribe`, `Stop`, `Collected` |
| `start_run`, `finish_run`, `csv_row` | `StartRun`, `TaskSeen`, `CollectTrajectory`, `CollectJoint`, `WriteRow` |

`Places` names positions of the arm by the phase that leads there. A goal is a
place, a mode and what the server makes of it. The goals of a call are a sequence,
and the actions take its head. Whether the present orientation is known and
another than the one asked for (`sources`), and how a server decides, are
choices. What happens between two phases is in `PickAndPlace`; here it goes well
or ends the sequence (`AbortBetween`). A recorder reads `log` from where the
end of it was when it subscribed, and `lost` records for the properties that there
was something before that, or left when it stopped. A stop file may be there from
an earlier run. The server is not followed after the task has ended, since the
recorders' segments no longer depend on it. `abandoned` is a history variable: a
goal was given up on its deadline while the server had it, and the arm may move
on its own from then on. `reached` keeps the places where the arm has stood. A
recorder that is killed has ended (`Collected`); in the code its output is awaited once
more, and if that takes 5 s an exception ends the run without a row
(`src/scripts/recorders/pick_and_place_recorder.py:243`, `simple_motion_recorder.py:259`).

### 2.8 HybridBenchmark

| code | model |
|---|---|
| `run_single_benchmark` | `BeginRuns`, `Cleared`, `Settled`, `GoalOver`, `Join`, `NextRun` |
| `_spawn_obstacle_on_clearance_trigger` | the steps of `spawner`: `PlanSeen`, `Resolve`, `Check`, `Look`, `Added`, `Spawned`; how long each may last in `Lasts` |
| `_call_add_obstacle`, `_call_remove_obstacle` | `Call`, and `Lose` when the answer comes too late |
| `_on_global_solution`, `_on_hybrid_mpc_telemetry`, `_on_collision_spheres` | actions of the same names |
| `create_run_record`, `summarize_run`, `validate_result` | `NoRecord`, `Report`, `Passed` |

Time matters in one place: the thread is told to stop and joined for 12 s, and
`RunsDoNotMix` depends on no step of it lasting longer. So a step that began
before the stop has the time left that the timeouts of its calls add up to, in
quarters of a second (`late`). The settle time of a second after the goal to the
start is taken to be enough for its plans and telemetry to arrive (`Settled`).

### 2.9 PlannerStack and BenchmarkSuite

| code | model |
|---|---|
| launch files | `Nodes` by kind of stack, and who offers which service (`Provider`) |
| `kill_processes`, `cleanup_stale_ros_stack`, the patterns of the start scripts | `Patterns`, `Hit`, `Kill`; `Leftovers`, `Seen` |
| `docker compose exec -d`, the start scripts | `AskFor`, then `ScriptRuns`, `Launch` or `ScriptFails` |
| the `*_READY_CMD` of `test_stack.py` | `Answers`, `RosReady`; asked in two steps, `LookForServers` and `ReadLog` |
| `prepare_*_run`, `*_sequence` | `StopSimulation` to `StartPlanner`, `Attempt`, `AfterRun`, `EndJobStop`, `EndJobKill` |
| `run_*_suite`, `run_selected_suites` | `Jobs`, `NextJob` |
| `combine_benchmark_results.py` | `rows`: which runs the tables call a success |

A stack is a script, then a process that launches and its nodes. A node that was
told to end goes on answering until it does, and even one that is coming up may do so
after that. Servers end one by one; the others, for which nobody asks, with the last
of them. `late` marks a stack that a kill passed by because nothing of it was
running yet. The logs keep, for the properties, whether a line was written by a
planner that was to end. The three preparations are one sequence of actions,
since they take the same steps; the only one with a second try is the simple
motion's. The simulation is not followed: its commands are a file that may be
replaced or removed unread, and no check looks at what became of it. A restart of
the controllers kills in their container only, so it reaches no other stack (`KillRos`).

### 2.10 Algorithms

Four modules have operators and no state. What they compute is the same at every
state, so their properties are checked for all inputs of a set, in a state that
uses them.

| module | code | left out |
|---|---|---|
| `MeshCuboids` | `MeshBloxilization`, `add_object`, `update_object_poses`, `remove_object`, `get_obstacles` | colours, files, a voxelization that fails and leaves the mesh in the list |
| `Perception` | `pointcloud_callback`, `callback_depth_map`, `get_voxel_grid`, `create_voxel_grid_marker`, the loading of cameras | the extrinsics of a point cloud, which the code does not apply; the pose (the low corner) and the sizes in metres with which `update_world_config` gives a grid to cuRobo, which are the same for each cloud, and its exceptions: what is checked is where voxels are in the grid; the segmentation compares the image and the spheres as they come, in frames that may differ |
| `AttachmentSpheres` | `sphere_builder.py`, `_build_sphere_data`, the spheres of the tracker | inflation, the least sizes and diameter (1 µm, 0.1 mm); the middle of a mesh is cut to whole units, everything else is an exact fraction |
| `JointOrder` | `get_live_joint_pose`, `_joint_state_msg_to_ordered_dict`, `_extract_first_valid_ordered_command`, `_scale_stream_command`, `normalize_periodic_joint_targets`, the candidates for home | durations |

A solid is a set of cells, a pose is a place and a quarter turn, a joint value is
an integer or `NotFinite`. Lists keep their order and may lack names or have
other ones, since this is what the properties are about.

## 3. Runs

Deadlock is checked in every run except those where the program may come to
rest: the sequence of PickAndPlace ends, so do the one goal of HybridExecution,
the session of PlannerSession, the run of MeasuredRun and the two benchmarks. States are distinct states, times are for two
workers.

| run | instance | states | shows |
|---|---|---|---|
| `environment` | two objects, two poses, one restart, one lost diff | 686 112, 118 s | `GoneStaysGone`, `SceneCatchesUp`, `SuppressionTakesHold`, and the publisher implements `ObjectVisibility` |
| `pick_and_place` | all four ways to launch, with and without failing queries | 451 990, 77 s | `SceneOwnership`, `NeverCarriedTwice`, `SuccessMeansReleased`, `EndsAndRestores`; for objects of one and two parts `CarriedIsTheTarget` |
| `abort_leaves_suppressed` | cuMotion, nothing suppressed at first | violated | see section 6 |
| `query_failure_verifies` | | violated | see section 6 |
| `world_bridge` | two objects, one of two geometries; two poses; two ADD slots, batches of one; one restart | 348 400, 147 s | `BeliefIsTrue`, `CatchesUp`, and the bridge implements `ObstacleStore` |
| `world_sync` | one planning callback, the ground and one change by a service | 1 180 174, 55 s | `VersionsInOrder`, `SyncedMeansLoaded`, `SolvesKnowTheWorld`, `SolversCatchUp`; for any part of a cube of eight cells and larger solids, in four turns, `MeshesKeepTheirCuboids` |
| `hybrid_execution` | a path of three waypoints, blocked on its last; one failure or fault, one change, two plans | 1 873 203, 195 s | `SessionsAgree`, `CommandsAreWatched`, `PreemptedHasEnded`, `HoldEnds`; for three joints, named in any order with a fourth, `CommandsReachTheirJoints` |
| `planner_session` | one move of the backend with MPC, one click of the panel, two executions, one fault | 1 314 269, 190 s | `SelectionsHold`, `MovesFollowTheirPlan`, `TrackingHasExecution`, `ExecutionsEnd`; for two clouds, six pixels and three cameras `CamerasTellTheWorld` |
| `planner_session_cancel` | the same | violated | see section 6 |
| `measured_run` | a sequence of four phases with any backend, or a case of the benchmark; two recorders | 853 827, 52 s | `RowNeverFlatters`, `RecordersTellTheRun`, `StandsWhereItThinks`, `RunsEnd` |
| `hybrid_benchmark` | two runs, one call given up, one invalidation of another cause | 691 352, 30 s | `RunsDoNotMix`, `PassMeansReaction`, `RunsAreReported` |
| `benchmark_suite` | one job of each suite, the first and the last with OMPL, the hybrid planner between them | 448 362, 129 s | `MeasuredOnOwnStack`, `SuiteEnds` |

The runs of `EnvironmentCollision`, `PickAndPlace`, `WorldSync` and `MeasuredRun` check
the type invariant too; those of the other modules are proved (section 5). Some properties are the
conjunction of two that are stated, and where it applies proved, separately:
`EndsAndRestores`, `CatchesUp`, `SessionsAgree`, `SelectionsHold`,
`RecordersTellTheRun`.

**Bounds.** `MaxControl`, `MaxTopic`: messages under way in the model of a
topic. Two commands with three diffs let a command overtake an ADD and be
overtaken by one. `PickAndPlace` has four commands, as many as one sequence can
send, so the workflow is never held up by the bound. `MaxRestarts`, `MaxLost`: one of each is
enough for a process to believe something false of the other, and the
repair does not count how often it happened. In `world_bridge` there are more
obstacles than ADD slots and than places in a MOVE batch, so both limits are
met. `MaxContent = 3` is the initial configuration, the ground and one change,
which suffices because the records only compare versions: MotionGen starts one
version behind MPC, and the change makes both late. In `hybrid_execution` the obstacle is on
the last waypoint, so it is in the window from the first step and also at the end
of the path, beyond which nothing is checked; a failure or a fault can come at any
place but not twice, as the code counts neither. One change is enough to end a
path, two plans to replan it. In `planner_session` MPC is the planner that holds goals, has a
session on the arm and hands over, so the backend uses it; joint targets go to
another planner. One click at the right moment is what the properties are
about, and two executions are the backend's and the panel's. The four phases of
`measured_run` have the four kinds of ladder: the approach (two calls), the grasp
(repeated), the release (cut to a number of attempts) and the way home (planned
once); the other phases have the ladder of a move by pose. `MaxHybridRetries`
stands for the time in which a hybrid goal is sent again, and `MaxLag`
keeps the task at most two events ahead of a recorder that is subscribed, so a
recorder can stop with the end of a phase and the start of the next unread; how
far one is behind that has not subscribed is not bounded. `hybrid_benchmark` has
two runs, as what one leaves behind can only be found by the next, and one of each
disturbance. In `benchmark_suite` a stack is started while
at most one other, with at most one server, is left of the ones that were to end
(`MaxLingering`): one is enough to be taken for the new one. Waits that end before
anything was launched happen in the first job (`MaxSlow`), so that what they leave
behind is there in the others, of which the last has the same planner. The safety
properties of all of these modules are proved for every value of them (section 5).

**Properties with a precondition.** `NeverCarriedTwice` excludes failing queries
for the planning scene because of the finding of section 6, and promises nothing
outright of the world of cuRobo under hybrid planning: the suppression is verified in the planning
scene only (`C/pick_and_place/planning_scene_ops.py:213`), but spheres are attached in
cuRobo too (`C/pick_and_place/workflow.py:871`). There the target may be both an obstacle and part
of the robot, until the bridge has handled the suppression it was sent, and that
is what the property says (`BridgeWillWithhold`); the run reaches such states. `HiddenLeaves`
excludes restarts of the bridge, which forget what is suppressed.
`CommandsAreWatched` excludes paths that are older than their session, for which
the sentinel has no baseline. `SessionsAgree` holds
until a call is given up or another client cancels, `PreemptedHasEnded` for goals
that were accepted; the properties of `PlannerSession` hold until a foreign
request is served. `MovesFollowTheirPlan` also needs that no execution of the panel
overtook the backend: with two clicks, two iterations of MPC and a query that fails,
which one run cannot hold, TLC finds an execution of the panel that MPC hands over to
the classic planner, in the place of the plan that the backend has just got from it.
The attempt to prove the property without this led there. Further, `ExecutionsEnd` excepts an execution whose robot context was
stopped, replaced or failed under it (section 6).
`RecordersTellTheRun` speaks of recorders that missed
nothing, `StandsWhereItThinks` of runs without a goal that was given up while the
server had it. `RowNeverFlatters` needs neither.
In `HybridBenchmark` the wall is out of the benchmark's hands once a call was given
up (`lost`), and a pass proves nothing of a wall if the path was invalid for another
reason (`foreign`); that a record belongs to its run needs neither.
`MeasuredOnOwnStack` and `SuiteEnds` except stacks that no pattern
found (`late`), and the line in the log speaks for OMPL and cuMotion only.
`ShownCatchesUp` speaks of objects that come to rest: while they keep moving, a
MOVE batch always begins with the same obstacles. `MeshesKeepTheirCuboids` excepts
a mesh that is turned when it is added and whose centre is not its origin: its voxels
are turned about the one, the mesh about the other. `CarriedIsTheTarget` asks
that an object is filled for boxes only: thin cylinders and small spheres are filled
barely. `CamerasTellTheWorld` knows that an empty cloud keeps the last grid.
The runs reach states on both
sides of each of them.

## 4. Fairness

- *EnvironmentCollision.* Weak fairness of the control subscription and of
  `move_group`'s reading: both are executors that keep spinning. For each object,
  strong fairness of a tick that ADDs it (`PublishAdd`): every object has a clock of
  its own in `_last_add_time`, and TF locates each in some tick after 2 s. No tick
  needs to ADD all of them. Strong, because a suppression disables this tick, and
  the bound on the topic does where the real publisher overwrites the history.
- *PickAndPlace.* Weak fairness of the thread, since each of its waits has a
  timeout, and of every other process. The thread's choices between success and
  failure are not fair: `EndsAndRestores` holds whatever fails.
- *WorldBridge.* Weak fairness of the tick while the services are ready, and of
  the planner answering the requests for each obstacle; strong fairness of its
  accepting an ADD, for each obstacle: a refusal may come any number of times but not
  for good, else the bridge would ask for ever. A planner that
  dies with a request unanswered is a hazard the model does not contain.
- *WorldSync.* Weak fairness of each load, of the obstacle services and of the
  end of each callback. In addition both solvers keep being asked
  for: trajectories with MotionGen are requested again and again (strong
  fairness, the callback may be busy with MPC) and so are hybrid steps. This is an
  assumption about clients, and it is what `SolversCatchUp` means: an update is
  staged until somebody uses the solver, since the code has no timer for it.
  Nothing is assumed of the execution action, which may stay in
  its loop or never start.
- *HybridExecution.* Weak fairness of the bridge's thread, of the manager, of the
  global planner, of both subscriptions, of the services and of the local planner:
  each is a thread that goes on while it has something to do. Plans and steps may
  fail or succeed as they like: `HoldEnds` has the end of the goal as one of its
  outcomes.
- *PlannerSession.* Weak fairness of the services, of the backend's thread, of the
  end of a motion of the arm, of the emulator's thread, of the panel's callback for a result, and of each execution's thread (`Executes`).
  The user need not do anything.
- *MeasuredRun.* Weak fairness of the runner, whose waits all have deadlines, and
  of `timeout`, which ends the task in the end. Nothing of the task, the servers,
  the arm or the recorders.
- *HybridBenchmark.* Weak fairness of the main thread and of the spawning thread, whose
  waits have timeouts, of the node's callbacks, and of the planner serving each
  call in the end. Nothing of the MoveGroup server: a goal without a result
  ends with its deadline.
- *BenchmarkSuite.* Weak fairness of the suite and strong fairness of the deadline of
  its wait for a planner: a wait looks at the servers and reads the log in turn,
  so the deadline is not checked at each of its steps, but it is checked again
  and again. Weak fairness of the scripts that were asked for, and of processes
  that were told to end. None that a planner comes up.

## 5. Theorems

For every value of the constants, by tlapm with its SMT, Zenon and LS4 backends.
The assumptions are the ones the modules name: `AbsentAssumption`,
`FrameAssumption`, `LimitsAssumption`, `NamesAssumption`, `ValuesAssumption`,
`ThreadsAssumption`, `GroundAssumption`, `BoundAssumption`, `PlacesAssumption`,
`RecorderAssumption`, `RunAssumption`, `SuiteAssumption`, `FloorAssumption`, `TurnAssumption`,
`FiniteAssumption`, and those on the clients and
bounds of `UnifiedPlanner` and `PlannerSession`. They say that special
values are distinct from ordinary ones, that names are finitely many and that
bounds are numbers. `RunAssumption` also says that the phases of a sequence are
different, and that none is the "start_state" of a benchmark's case, as in
`PICK_AND_PLACE_PHASES` (`src/scripts/recorders/pick_and_place_recorder.py:36`):
a recorder keeps its segments by the name of the phase.

**EnvironmentCollision.** `TypeCorrect`, `SuppressionWins`,
`GoneObjectsStayGone`, `ImplementsObjectVisibility`. The invariant is
`TypeOK /\ DiffsOK /\ SuppressionTakesHold`. `DiffsOK` (a diff names an object at
most once, and lacks a pose exactly if it removes it) is needed because
`ApplyDiff` chooses the update of an object in a diff. `SuppressionTakesHold` is
inductive with it: a tick mentions no suppressed object, and the command that
suppresses one appends its REMOVE behind whatever ADDs are waiting. The proof
treats a step as an append to, or a removal from, the topic, and has a lemma for
each. The refinement maps a diff to its publication: `shown` is what the scene
will show once the topic is empty, so applying a diff is a stutter, a suppress is
`Hide`, a tick is `Show` and a restart of `move_group` is `Forget`. An overwritten
REMOVE does break the promise, so `Shown` is empty from the first loss on: losing
a diff is a `Forget` of everything, and nothing is promised afterwards.

**PickAndPlace.** `TypeCorrect`, `SceneOwned`, `SuccessReleases`,
`NeverCarriedAsObstacle`, for every way to
launch the node and any number of grasps, from the assumptions on the constants
that TLC evaluates in the runs. The sequence is a line of phases with an abort
path from nearly each of them, and the invariant says by phase what the
thread has asked for: `Route` (which phases and beliefs belong to which
backend), `Ownership` (while the target is attached it is withheld, and a
cleanup that starts with it attached has the detachment among its steps) and `Releasing`
(on the straight way, what the thread does not believe attached is free, in the
server and in every late request). It speaks of what the publisher and MoveIt
*will* come to, so that handling a message changes nothing (`CommandHandled`,
`DiffHandled`), and a phase changes it by the message it sends
(`CommandTold`, `DiffSent`). The phases that only wait are one lemma
(`WalksKeep`), and so are those that fail (`FailKeeps`) and the steps of the
cleanup (`CleanupKeeps`). The types of the environment come
from the proof of `EnvironmentCollision`. `NeverCarriedAsObstacle` (the property
`NeverCarriedTwice`) says when the planning scene has handled a suppression. Its
invariant `Seen` has three stages by phase: before the suppression nothing on its way
removes the target (`Unasked`), after it a command or its REMOVE is on its way, with
nothing behind it that shows the target (`Asked`), and once the absence was verified
there is neither (`Withheld`). An answer that the target is absent therefore means that
the REMOVE has been applied, because before that the scene has it, and every diff
that could show it again was ahead of the REMOVE. A query that fails breaks this
step, and the theorem has the exception that the property states. Of cuRobo under
hybrid planning nobody asks, and `Seen` has for it only what the thread knows: the last
command sent to the bridge is the suppression, or it has been carried out (`BridgeTold`).

*AttachmentSpheres*, which says what the robot carries meanwhile, has theorems for objects of any
number of shapes, of any size, in any place and quarter turn, and for any diameter and numbers of
spheres. `GridCountsAreCapped`: a grid has a cell along each axis and no more cells than its
budget; each round takes a cell from an axis that has two at least, because the budget is
one at least, and there are as many rounds as cells along the three axes. `SpheresFillTheirObject`:
there are spheres when there is a shape, and no more than allowed; each has its
centre in a shape; every point of every box, whatever its denominator, is in one of them
unless some were left out; those of a single sphere do not protrude. The argument for a box goes
axis by axis: a point between the faces is at most half a cell from one of the evenly spaced centres
(`AxisCovered`), the radius is the diagonal of half a cell, so the sphere around the cell that is
nearest on all three axes has the point (`BoxFills`), and a pose changes no distance
(`FramedGap`). For a single sphere the converse holds: a point of any of the spheres is in it. The
code compares sums of roots and the model their squares; that the test with squares is the one that
is meant follows from the inequality of Cauchy (`StaysWithin`, `FittingIsInside`). A try has all of
this whatever diameter it aims at, and a stride through its list takes elements of it, so neither
the number of the try nor the stride matters.
That a scene or a file gives shapes in the first place, the box of a mesh included, is
`SceneGivesSpecs`; that a file that says what the scene says gives the same ones, `FileSaysTheSame`.
The property `CarriedIsTheTarget` follows for the objects of the run (`CarriedIsItsSpheres`). The
proof could not be had of the model as it was, which cut sizes of cells and radii to
integers and so filled a box only up to rounding: its lengths are now exact fractions.

**WorldBridge.** `BridgeTypeCorrect`, `OneRequestAtATime`, `BeliefStaysTrue`,
`NothingMissing`. The invariant adds to the properties `RequestsSound` (an
ADD is in flight only for what is believed unpublished, anything else only for
what is believed published, and only an ADD is ever refused or answered with "exists") and `OwnGeometry`
(before a restart a MOVE leaves the geometry it wanted). The belief in question
is `Polled`, what the bridge will believe after looking at its answers. Serving a
request changes the world and the answer together, so it keeps `Polled` true; a
tick replaces the signatures by `Polled` and drops what was answered, so `Polled`
stays what it was; the new requests have no answer and do not matter to it. That
no two operations concern the same obstacle is needed at each of the three
places, and follows because a tick adds and moves only obstacles which are not
in flight, a remove waits for everything, and everything waits for a remove.

`ImplementsStoreOfObstacles` puts `Polled` to the use it suggests: it is what the
publisher knows in an abstract store in which requests take no time. Serving an ADD
is `Add`, serving a REMOVE is `Remove`, serving a MOVE moves all of its batch at once, a
restart is `Forget`; a tick, however much it reads and asks for, and everything else
stutters. So neither the delay of a request nor that of reading its answer can be
observed in the obstacles. The refinement needs more than the invariant's being true
of the states: that the requests a tick makes have no answer, and that no two of them
concern the same obstacle, before and after the step.

**WorldSync.** `TypeCorrect`, `VersionsStayInOrder`, `RecordsAreTrue`,
`RequestsKnowTheWorld`, for any number of planning callbacks and of changes. The
invariant adds `HeldVersions` (nobody holds a version that has not been
given out), `FreeThreads` (a thread synchronizes only where it waits),
`OneWriter` (until something raced, a solver has one writer at most, and what it
is about to write is newer than its target and than the record) and `SetUp` (a
request beyond its setup has its solver recorded at its target, or is about to).
`OneWriter` is what makes `SyncedMeansLoaded` inductive, and together with `SetUp`
it gives `SolvesKnowTheWorld`.

*MeshCuboids*, which is what the contents of the world are made of, has theorems over data
instead of states. `CubesPartitionTheVoxels`: whatever voxels are occupied, in a grid of
whatever shape, each is in exactly one of the cubes and no cube has another. A cube of a
level is the disjoint union of eight of the level below, and a cube that is left out is
covered by larger ones; a voxel that no cube had would have a largest level on
which a block has it, and that block is taken. `ListsStayConsistent`: `Consistent` (all that
is listed is found, under one name each; a cuboid of a mesh is where the pose of the
mesh puts its offset; none is without its mesh) is kept by every operation of the manager,
and so holds after any number of them in any order. `MeshesLeaveNothing` and
`PartsStayTogether` follow from it. `CuboidsFollowTheirMesh` is the property of the run,
for any mesh in any consistent store, among any other objects: turning and shifting
are bijections of the lattice that take a cube of cells to a cube of cells, so the
cuboids fill the moved mesh as they filled it before. Its hypotheses are those of the
lattice: cells have odd coordinates, poses and centres are even, so that a moved cell is a
cell; a mesh is up to 32 voxels wide, as `PowerOfTwo` goes no further, and its
voxels are one cell wide, so that none is missed or added. `CuboidsAreKept` says of this
what the run checks. The other theorems need neither of the last two.

**HybridExecution.** `ExecutionTypeCorrect`, `SessionsStayInStep`, `SentinelWatches`, `PreemptedGoalHasEnded`. None of the
properties is inductive, because each speaks of the moment at which an answer is
used. Three strengthenings carry them there. `Turns`: while no call was given
up, the solver and the step service take turns, so that one request is out or its
answer is there, a command was answered by a service with a session and a reset
by one without. `Versions`: nothing carries a version that has not been given
out, and a direct path that was planned in the present version was planned
without the obstacle, so it can be blocked only for a session that is newer than
the path. `BridgeLeads`: a goal that was not sent has no counterpart in the hybrid
planning manager, and a preempted one has ended there. A step of the node, of the
solver or of the others has a lemma each, and the facts the classes share
(`SharedKept`) are proved once.

*JointOrder*, whose operators take joint values from one list into another, has
theorems for any set of joints, any order, any values and any length of a turn that is
even. `ReadingsKeepTheirJoints`: a vector
that is made of a message says of each joint what the message said.
`CommandsKeepTheirJoints`: what is streamed has a finite value for each joint of the
controller and moves it toward what one of the solutions, the same for all joints and
rows, wants of that joint, and not beyond. `TrajectoriesEndAtRest`: its points are in the
order of time and the last is at rest. `TargetsKeepTheirAngles`: a target is the
one that was asked for but for whole turns of joints that turn, and so is each
that is tried for home (`CandidatesAreHome`), of which the nearest angles, joint by joint,
make the least sum of all choices (`NearestHomeIsNear`). `GoalsStartWhereTheRobotIs`: a goal
starts with the known joints of its group, each under its name. `HomeIsVerified`: the check
after a motion home has nothing to say when the target that was chosen is reached, and is
silent only at home or whole turns from it. They ask that a message or an order names no
joint twice, as the code does that makes a dictionary of it. The property
`CommandsReachTheirJoints` follows for the data of the run (`CommandsReachJoints`), from the
assumptions that a turn is even (`TurnAssumption`) and that what is not finite is no number
(`FiniteAssumption`).

**MeasuredRun.** `RowIsHonest`, `ArmStandsWhereItThinks`, `RecordingsAreRight` and
`MeasuredTypes`, for any list of different phases, numbers of attempts and bounds. The
invariant of the first follows a success on its way: from the arm to the result, the
answer, the event, the segment and the row. At each station what is told is true of the
places the arm has reached, and these only grow (`Onward`), so that what is late or
lost at one station does no harm at the next. The second needs to know of a goal that
ended well, and of an answer that says yes, that the arm is still there (`ArmAtGoal`),
which holds because no goal is under way between two phases. The third
(`RecordersTellTheRun`) numbers the events: the k-th measured phase begins with event
2k - 1 and ends with event 2k, and each but the last succeeded. So where
the task is tells how long the log is (`Told`), and how far a recorder has read tells
what it holds (`RecorderTells`). Two recorders that missed nothing have read the same
log to its end, so they hold the same phases, and the first without a success is
the one that failed. The types follow from the ladders: a goal is taken from one that
is not empty (`Typing`).

**BenchmarkSuite.** `RunsAreMeasuredOnTheirStack` (the property `MeasuredOnOwnStack`) and
`SuiteTypeCorrect`, for any lists of planners, cases and profiles, any number of runs and of
stacks. The invariant `SuiteInv` says by phase what there is: every stack but the
two that were started for the job was told to end wherever it is running, unless it was
passed by (`RestIsSettled`), for which the patterns have to find each process of each kind of
stack, and a stack that is coming up has nothing that a later kill would miss. A line in the log that
is younger than the truncation was written by the planner of the job, or by one that was to
end and is marked so (`SpeaksForItself`). The attempt to prove the property as it
stood before led to two corrections. It claimed that the planner is there for as long as
a run is measured, which is false when an earlier start of OMPL that was given up says that
it is ready, the run is let go on its word, and the start script of the job truncates the
log only then; TLC finds it once two jobs have OMPL, and the
property speaks of the moment at which a run is let go. And the wait for a planner
can look and read for ever under weak fairness alone (section 4).

**HybridBenchmark.** `RunsStayApart`, `PassesMeanReactions` and `BenchmarkTypeCorrect`,
for any number of runs. The invariant is `Holding`. `ThreadsHold` is an argument about
time: a thread that was told to stop has at most 45 quarters of a second left in the
calls and waits before it, depending on the step it is in (`LatestAt`), and the join
waits for 48; so the only thread alive is that of the run. `MotionHolds` numbers the
goals in the order in which they are sent and says that the server has them in this
order, so that once the start of a run is reached nothing older moves, and what the
topics still say is of the measured goal when the record opens. `WallsHold` allows,
while no call was given up, one call at a time: the one that somebody waits for. With
these, `RecordHolds` is what `RunsDoNotMix` says of the record, and `ReactionsHold`
follows what was said of the path back to the wall of the run: invalid before it was
planned again.

**PlannerSession.** `SelectionsAreKept`, `PlansAreFollowed`, `TrackingIsOwned` and
`SessionTypeCorrect`, for any set of executions, any planner for poses and any
number of moves, attempts, clicks, iterations and faults. None of the properties is inductive: the backend looks at an answer
long after it was given, and the panel and late calls come between. `AsksHold`: the
backend waits for one call at most, of the kind of the place where it waits.
`BeliefHolds`: until it is disturbed, the planner it selected is the current one, a plan
that is being made for it is made by that planner, and the answer names it. `OriginalHolds`:
until a foreign selection, the current planner is the one that the backend knows, or the one
whose selection was answered and not yet seen. `OwnersHold`: an execution of the
backend is the one it waits for, and the panel waits for its own ones. `PlanHolds`: what
the planner and the robot context hold for the backend is its plan or a live goal, and so
is what its execution carries, at each stage of the arm, of the robot context, of
the loop of MPC and of the handoff (`Follows`). An operation of the planner can touch what
any client has, so each class of steps (services, executions, backend, panel, arm) has a
lemma for each part of the invariant.

*Perception*, which is what cameras tell that planner, has theorems over data like those of
`MeshCuboids`, for integer coordinates and any grid, any clouds, images, robots
and configurations. `DisplayTellsTheWorld`: the array that `get_voxel_grid` flattens and
`create_voxel_grid_marker` reads with the axes named in the opposite order means the same
voxels to both, as long as the first and the third size are equal (`get_voxel_grid` makes
all three equal); the argument is that a number below the product of the sizes has one
quotient and remainder for each axis (`Numbered`). `CloudsAreTheWorld`: after two
clouds of a camera, in a list of grids whose names differ, its grid has the distances of the last cloud with
a finite point, which are positive where points are, and the grids of other cameras stay;
a point that lies below the grid by less than a voxel is the only one that marks a voxel
it is not in (`Marks`). `FreeKeepsItsDistance` is about the grid of the graphics card.
`RobotIsTakenOut`: a pixel of the image without the robot shows a depth of the image, there
or one pixel on, whose point does not touch the robot. `SegmentationUsesTheLatest` is
an induction over any sequence of images, joints, infos and ticks: what the node holds is of
the last event of each kind, so a tick never publishes an older image or an older
robot. `CamerasComeInOrder`, for cameras with distinct names: those that are set up are the known ones of a prefix of the
configuration. `FramesAreWhereTheyAre`: what a frame shows, turned back from the pose of its
camera, is what was seen. The property `CamerasTellTheWorld` follows for the data of the run
(`CamerasAreTrusted`). The proofs led to two corrections of the model: the alternatives of
`AddCamera` overlapped, so that TLC took the first and a proof could take neither, and
a segmentation that has not heard of the joints takes the robot to be at home, not absent.

**Data.** What an operator computes for every input is an induction, and the
induction theorems of the library cannot be applied to an operator here. They are not
needed: with the least element of a non-empty set of numbers (`WellFoundedInduction`
gives it without an operator), a statement about all numbers is proved by its least
counterexample (`LeastExists` and its uses). What does stand in the way is
a fold of the community modules, about which nothing can be said. So the operators
that are proved about are stated without one where the order of their steps
does not matter, and as recursive functions where it does: `ExtractCubes` takes of each level what the larger ones leave,
`Merged` is a recursive function of the level, `CamerasAfter` and `NodeAfter` are of the
number of cameras and events so far, `KnownNames` of the names so far and `SumOf` of the
joints that are summed. `capped` is of the cells given up so far, `aim` of the tries and
`joined` of the lists so far; that such a function exists at all is a lemma (`StepwiseExists`).

**Only model-checked.** The liveness properties (`SceneCatchesUp`, `EndsAndRestores`,
`CatchesUp`, `SolversCatchUp`, `HoldEnds`, `ExecutionsEnd`, `RunsEnd`, `RunsAreReported`, `SuiteEnds`), because
the prover does not deal with fairness and ENABLED. Conversely,
`OneRequestAtATime`, `NothingMissing`, and the types of `WorldBridge`, `HybridExecution`,
`HybridBenchmark`, `BenchmarkSuite` and `PlannerSession` are proved and not checked by a run
of their own.

## 6. What the code does against its own word

1. *`abort_leaves_suppressed`.* `_set_environment_object_suppressed` publishes
   the command and then verifies it; if the verification times out, the workflow
   aborts with `_target_object_suppressed` still false, so nothing takes the
   command back (`C/pick_and_place/workflow.py:714`). The run begins with nothing suppressed, so
   the suppression that stays is the sequence's own: its command is published, the
   verification times out while the publisher has not handled it, the cleanup has nothing to
   restore, and the sequence is over with the command still to be handled.
2. *`query_failure_verifies`.* `_get_world_collision_object` answers None for
   an absent object and for a query that failed, and the wait for its
   disappearance accepts that (`C/pick_and_place/planning_scene_ops.py:169`).
3. *`planner_session_cancel`.* `SinglePlanner.execute` promises False for what was
   cancelled. A cancelled goal of the controller answers with error code 0, whose
   name is SUCCESSFUL, and neither its status nor the cancellation of the execution is
   seen, so the execution succeeds (`K/unified_planner_node.py:1592`). The panel's Stop after
   a handoff is one way to get there.

Observed while modelling, without a run of their own:

- Under hybrid planning the target is attached in MoveIt and in cuRobo, but only the
  planning scene is asked whether it has gone from the world
  (`C/pick_and_place/planning_scene_ops.py:213`): cuRobo may plan with it as an obstacle
  in its own gripper for as long as the bridge is behind (section 3).
- A mesh is in the list of meshes before its voxels are computed. If that fails, the ADD
  is refused and the mesh stays; its name is not taken, so each try of the bridge
  appends it again (`K/obstacle_manager.py:222`).
- A stale obstacle with an unknown signature is to be removed and added again.
  With MOVE updates it is moved instead, and its old geometry is taken for current
  from then on (`C/curobo/curobo_world_bridge.py:778`). `BeliefIsTrue` says what is
  true after a restart for that reason.
- Updates are said to be only staged while MPC executes, but the test and the
  load are not atomic, so a session may start in between
  (`K/unified_planner_node.py:835`). `raced` stands for it.
- The robot context follows whatever it was given last, by any planner. An execution
  that watches it succeeds without a motion if the context was stopped before, because
  its command is empty then and counts as done (`curobo_ros/robot/emulator_strategy.py:49`).
  It never ends if the context is stopped while it watches: the progress goes back to
  0, and after a handoff only MPC, the current planner, is told
  (`K/unified_planner_node.py:2595`). `Stranded` stands for it.
- An exception while the robot context is given a plan answers that planning failed,
  although the planner holds the new plan (`planners/single_planner.py:220`).
- The readiness check of cuRobo asks for any server of that name, not for one
  (`scripts/test_stack.py:38`). A planner that was told to end may answer it for
  the one that was started, and the run begins before its own planner is there. OMPL and
  cuMotion are checked in a log that the start script truncates, and `MeasuredOnOwnStack`
  says this of them only. The script may do so late: a start of OMPL that was given up
  in an earlier job can write its line before that, and the run begins on it.
- `start_ompl_planner.sh` is not among the patterns of the kill
  (`control.sh:136`), unlike the other three: a start that was given up while it
  still moves the arm home goes on.
- The rates of `combine_benchmark_results.py` are over the rows there are: a job
  that was given up, or a run of the obstacle benchmark that was killed, does not
  lower them. The exit status of the suite does tell.
- In `test.sh` (105, 122, 139) the pattern of the `pkill` after a failed run
  occurs in the command line of the shell that runs it, so the shell may end by
  the signal and the exit status be 143 instead of the one it reports.

## 7. Not modelled, and why

- *The cuMotion node* is MoveIt's plugin patched at build time; what it reads of
  the world is the planning scene that `EnvironmentCollision` publishes.
- *Skeleton publishers*: numerical work on single frames, with no state that
  outlives a callback. Of cameras and segmentation, `Perception` has what is
  computed, and not the nodes' start and their parameters.
- *The search inside the planners* (MotionGen, the MPC optimiser, MoveIt's own
  hybrid manager): outside `src/`, or numerical. `UnifiedPlanner` and `HybridMpc`
  have the dispatch, the world they solve against and how they end.
- *Strategies of the robot context for real robots and the ghost, joint state filter, home bootstrap, preview and marker
  helpers*: one-shot or stateless conversions.
- *Benchmarks and recorders*: durations, distances, clearances and memory are
  data. The recorder of the TCP keeps only the points of the last phase, since it
  begins anew with each. What is computed from the rows
  is statistics. The row of a run whose trajectory recorder was killed
  blames the first phase: the model has this, and no property asks for more.
- *Cartesian motions* of the MoveIt backend, and the rest of its helpers that
  build messages.
- *The Robotiq and UR drivers, descriptions, Cartesian controllers, servo*:
  vendored.

## 8. Plan

Written so far, in this order: `EnvironmentCollision` with its abstract
specification, the workflow on top of it, the other planner's side of the same
story (`WorldBridge`), what becomes of an obstacle inside the planner
(`WorldSync`), a motion under hybrid planning (`HybridExecution` over
`HybridMpc`), the choice of the planner around each motion
(`PlannerSession` over `UnifiedPlanner`), the run that measures it all
(`MeasuredRun`), the benchmark with an obstacle (`HybridBenchmark`), the suite
around them (`BenchmarkSuite` over `PlannerStack`), and the algorithms beside them.
Their safety properties are proved, and so are the two refinements and what is checked of the algorithms. To come:

1. `WorldBridge`: a restart of the planner, with futures that are never done.
2. The home bootstrap before each launch, which moves the arm while earlier
   controllers may still be there.
