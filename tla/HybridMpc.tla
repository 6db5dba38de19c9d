------------------------------ MODULE HybridMpc ------------------------------
(***************************************************************************)
(* The local half of hybrid planning: the sampler and the solver that      *)
(* MoveIt's local planner loads, and the step and reset services of the    *)
(* unified planner that they drive.                                        *)
(*                                                                         *)
(* Each iteration of the local planner samples a target and a window of    *)
(* waypoints from the path it follows, and asks the step service for one   *)
(* command.  The service keeps a session of its own, checks the window     *)
(* against the obstacles, and may call the path invalid; the solver then   *)
(* holds until another path has been published.  A request the solver no   *)
(* longer waits for is still served, and one lock orders the services, in  *)
(* no particular order.                                                    *)
(***************************************************************************)
EXTENDS Integers, Sequences, FiniteSetsExt

CONSTANTS Last,              \* the last waypoint of a path, whose first is 0
          Lookahead,         \* lookahead_waypoints
          Window,            \* hybrid_path_sentinel_max_waypoints
          BlockedAt,         \* the waypoint of the direct path the obstacle is on
          InfeasibleSteps,   \* mpc_infeasible_abort_steps
          StallSteps,        \* hybrid_mpc_stall_steps
          MaxFaults          \* bound: failures and faults together
ASSUME PathAssumption == Last \in Nat \ {0} /\ Lookahead \in Nat /\ Window \in Nat \ {0} /\ BlockedAt \in 0..Last
ASSUME StepsAssumption == InfeasibleSteps \in Nat \ {0} /\ StallSteps \in Nat \ {0}
ASSUME FaultsAssumption == MaxFaults \in Nat

VARIABLES obstacle,    \* the obstacle is among the planner's obstacles
          version,     \* _world_state_version
          mpcWorld,    \* the obstacle is in the collision world of MPC
          node,        \* the session of the step service, _hybrid_mpc_*
          controller,  \* the active controller
          requests,    \* step requests that are not answered yet, in order
          stepAt,      \* how far the step service is with the first of them
          resets,      \* reset requests that are not answered yet
          answer,      \* the answer to the request the solver waits for
          local,       \* the local planner has a goal
          path,        \* reference_trajectory_ and progress_waypoint_index_ of the sampler
          solver,      \* the solver: active_, the version it waits for
          heard,       \* global_trajectory_version_
          feedback,    \* what the local planner has told the manager last
          failures,    \* calls and switches that failed
          faults,      \* calls that were given up, cancellations by another client
          restored     \* the last reset was answered, and with success

world == <<obstacle, version, mpcWorld>>
service == <<node, controller, requests, stepAt, resets, answer>>
localPlanner == <<local, path, solver, heard, feedback, restored>>
mpcVars == <<world, service, localPlanner, failures, faults>>

NoVersion == -1
Unmeasured == -1      \* _hybrid_mpc_best_error is None
NoPath == [route |-> "none", known |-> NoVersion, progress |-> 0]
NoAnswer == [kind |-> "none", blocked |-> FALSE, old |-> FALSE]
Later(i, n) == IF i + n < Last THEN i + n ELSE Last
Blocks(r) == r.route = "direct" /\ BlockedAt \in r.window

Disturbable == failures + faults < MaxFaults
Failure == Disturbable /\ failures' = failures + 1
Fault == Disturbable /\ faults' = faults + 1

(* The state of a session that is not active.                              *)
Cleared(n) ==
  [n EXCEPT !.session = FALSE, !.baseline = NoVersion, !.force = FALSE,
            !.infeasible = 0, !.stall = Unmeasured]

MpcInit ==
  /\ obstacle = FALSE /\ version = 0 /\ mpcWorld = FALSE
  /\ node = [session |-> FALSE, baseline |-> NoVersion, force |-> FALSE,
             forceVersion |-> NoVersion, infeasible |-> 0, stall |-> Unmeasured]
  /\ controller = "trajectory"
  /\ requests = <<>> /\ stepAt = "idle" /\ resets = 0 /\ answer = NoAnswer
  /\ local = FALSE /\ path = NoPath
  /\ solver = [at |-> "idle", active |-> FALSE, waiting |-> FALSE, invalidated |-> 0]
  /\ heard = 0 /\ feedback = "none" /\ failures = 0 /\ faults = 0 /\ restored = TRUE

-----------------------------------------------------------------------------
(* A change of the obstacles takes a version, and is only staged while a   *)
(* session executes.                                                       *)
ChangeWorld(there) ==
  /\ obstacle' = there
  /\ version' = version + 1
  /\ mpcWorld' = IF node.session THEN mpcWorld ELSE there

(* _switch_controllers: nothing to do, done, or not known to be done.      *)
Switched(to) == controller' = to
SwitchFails(to) == controller # to /\ controller' \in {controller, to}

-----------------------------------------------------------------------------
(* mpc_step_callback, under _hybrid_mpc_lock.  The answer reaches the      *)
(* solver if it is the last request that is answered and it still waits.   *)
(* It records whether MPC knows the window to be blocked, and whether the  *)
(* path is older than the session, which was not told to check it anyhow.  *)
Request == Head(requests)
Reply(kind) ==
  /\ requests' = Tail(requests)
  /\ stepAt' = "idle"
  /\ answer' = IF solver.at = "stepping" /\ Len(requests) = 1
               THEN [kind |-> kind, blocked |-> mpcWorld' /\ Blocks(Request), old |-> Request.known < node.baseline /\ ~ node.force] ELSE answer

(* No joint state, or an exception: the session stays as it is.            *)
StepFails ==
  /\ requests # <<>>
  /\ Failure
  /\ UNCHANGED world
  /\ Reply("failed")
  /\ UNCHANGED <<node, controller, resets, localPlanner, faults>>

(* MPC is synchronized; a session is begun, if the request may.            *)
BeginStep ==
  /\ stepAt = "idle" /\ requests # <<>>
  /\ mpcWorld' = obstacle
  /\ \/ /\ node.session
        /\ stepAt' = "refresh"
        /\ UNCHANGED <<node, controller, requests, answer, failures>>
     \/ /\ ~ node.session /\ Request.init
        /\ Switched("stream")
        /\ node' = [node EXCEPT !.session = TRUE, !.infeasible = 0, !.stall = Unmeasured,
                                !.baseline = version]
        /\ stepAt' = "refresh"
        /\ UNCHANGED <<requests, answer, failures>>
     \/ /\ ~ node.session
        /\ IF Request.init THEN SwitchFails("stream") /\ Failure ELSE UNCHANGED <<controller, failures>>
        /\ Reply("failed")
        /\ UNCHANGED node
  /\ UNCHANGED <<obstacle, version, resets, localPlanner, faults>>

(* refresh_hybrid_goal: another target restarts the counters, and MPC is   *)
(* synchronized once more.                                                 *)
Refreshed(n, changed) == IF changed THEN [n EXCEPT !.infeasible = 0, !.stall = Unmeasured] ELSE n

RefreshFails ==
  /\ stepAt = "refresh"
  /\ node' = Cleared(node)
  /\ Failure
  /\ UNCHANGED world
  /\ Reply("failed")
  /\ UNCHANGED <<controller, resets, localPlanner, faults>>

(* _check_hybrid_path_sentinel.  A blocked path ends the session; the next *)
(* one then checks at once, if the first waypoint of the window was free,  *)
(* once for each version.                                                  *)
(* Mutant of PathBlocked: a check that was asked for is forgotten.         *)
PathBlockedUnforced == version > node.baseline /\ obstacle /\ Blocks(Request)
PathBlocked == (node.force \/ version > node.baseline) /\ obstacle /\ Blocks(Request)
EndForBlockedPath ==
  /\ stepAt = "refresh" /\ PathBlocked
  /\ mpcWorld' = obstacle
  /\ node' = IF BlockedAt # Min(Request.window) /\ node.forceVersion # version
             THEN [Cleared(node) EXCEPT !.force = TRUE, !.forceVersion = version]
             ELSE Cleared(node)
  /\ Reply("invalidated")
  /\ UNCHANGED <<obstacle, version, controller, resets, localPlanner, failures, faults>>

(* The two counters after a step that is feasible or not, and that         *)
(* improves on the best error or not.                                      *)
Counted(n, feasible, improves) ==
  [n EXCEPT !.infeasible = IF feasible THEN 0 ELSE Min({@ + 1, InfeasibleSteps}),
            !.stall = IF @ = Unmeasured \/ improves THEN 0 ELSE Min({@ + 1, StallSteps})]

(* One step of the solver, near the goal or not.  Too many infeasible ones *)
(* or too many without progress end the session; their command is not used.*)
Solve ==
  /\ stepAt = "refresh" /\ ~ PathBlocked
  /\ mpcWorld' = obstacle
  /\ \E changed, feasible, improves \in BOOLEAN, error \in {"reached", "near", "far"} :
       LET n == Counted(Refreshed(node, changed), feasible, improves)
           invalid == error # "reached" /\ (n.infeasible = InfeasibleSteps \/ (n.stall = StallSteps /\ error = "far"))
       IN /\ node' = [IF invalid THEN Cleared(n) ELSE n EXCEPT !.force = FALSE]
          /\ Reply(IF invalid THEN "invalidated" ELSE "command")
  /\ UNCHANGED <<obstacle, version, controller, resets, localPlanner, failures, faults>>

StepService == StepFails \/ BeginStep \/ RefreshFails \/ EndForBlockedPath \/ Solve

(* Mutant of ServeReset: the controller is restored, the session kept.    *)
ServeResetKeepingSession ==
  /\ stepAt = "idle" /\ resets > 0
  /\ resets' = resets - 1
  /\ node' = [node EXCEPT !.force = FALSE]
  /\ \E ok \in BOOLEAN :
       /\ IF ok THEN Switched("trajectory") /\ UNCHANGED failures ELSE SwitchFails("trajectory") /\ Failure
       /\ answer' = IF solver.at = "resetting" /\ resets = 1
                    THEN [NoAnswer EXCEPT !.kind = IF ok THEN "command" ELSE "failed"] ELSE answer
  /\ UNCHANGED <<world, requests, stepAt, localPlanner, faults>>
(* mpc_reset_callback.                                                     *)
ServeReset ==
  /\ stepAt = "idle" /\ resets > 0
  /\ resets' = resets - 1
  /\ node' = Cleared(node)
  /\ \E ok \in BOOLEAN :
       /\ IF ok THEN Switched("trajectory") /\ UNCHANGED failures ELSE SwitchFails("trajectory") /\ Failure
       /\ answer' = IF solver.at = "resetting" /\ resets = 1
                    THEN [NoAnswer EXCEPT !.kind = IF ok THEN "command" ELSE "failed"] ELSE answer
  /\ UNCHANGED <<world, requests, stepAt, localPlanner, faults>>

(* cancel_callback of the execution action, for the goal of another        *)
(* client: it ends the session too.                                        *)
ForeignCancel ==
  /\ stepAt = "idle"
  /\ Fault
  /\ node' = Cleared(node)
  /\ UNCHANGED <<world, controller, requests, stepAt, resets, answer, localPlanner, failures>>

-----------------------------------------------------------------------------
(* The local planner: one iteration at a time, when it has a path.         *)
Iterating == local /\ path.route # "none" /\ solver.at = "idle" /\ feedback = "none"

(* getLocalTrajectory: the waypoint the robot is at, a target no farther   *)
(* than the lookahead and the distance allow, and the waypoints that have  *)
(* to be free: a number of them from the progress on, without the target.  *)
Nearest == {path.progress, Later(path.progress, 1)}
SentinelWindow(progress, target) ==
  {i \in progress..Last : i # target /\ Cardinality((progress..i) \ {target}) < Window}
Samples(near, close) ==
  LET progress == IF close /\ near < Last THEN near + 1 ELSE near IN
  {[progress |-> progress, window |-> SentinelWindow(progress, target)] :
     target \in progress..Later(progress, Lookahead)}

(* waitingForUpdatedGlobalTrajectory.                                      *)
Waiting == solver.waiting /\ heard <= solver.invalidated

(* solve: hold while the path is the one that was invalidated, or ask for  *)
(* a step.                                                                 *)
Hold ==
  /\ Iterating /\ Waiting
  /\ solver' = [solver EXCEPT !.active = FALSE]
  /\ UNCHANGED <<world, service, local, path, heard, feedback, failures, faults, restored>>

RequestStep ==
  /\ Iterating /\ ~ Waiting
  /\ Len(requests) <= MaxFaults
  /\ \E near \in Nearest, close \in BOOLEAN :
     \E s \in Samples(near, close) :
       /\ path' = [path EXCEPT !.progress = s.progress]
       /\ requests' = Append(requests, [init |-> ~ solver.active, route |-> path.route,
                        known |-> path.known, window |-> s.window])
  /\ solver' = [solver EXCEPT !.at = "stepping", !.waiting = FALSE]
  /\ UNCHANGED <<world, node, controller, stepAt, resets, answer, local, heard, feedback,
                 failures, faults, restored>>

(* The solver is stuck: no robot state, no answer in time, or a failure.   *)
Stuck ==
  /\ \/ Iterating /\ Failure /\ UNCHANGED faults
     \/ solver.at = "stepping" /\ answer.kind = "failed" /\ UNCHANGED <<failures, faults>>
     \/ solver.at = "stepping" /\ answer.kind = "none" /\ Fault /\ UNCHANGED failures
  /\ solver' = [solver EXCEPT !.at = "idle", !.active = FALSE]
  /\ answer' = NoAnswer
  /\ feedback' = "stuck"
  /\ UNCHANGED <<world, node, controller, requests, stepAt, resets, local, path, heard, restored>>

(* Mutant of Invalidated: the trajectory waited for is the one there is.   *)
InvalidatedForget ==
  /\ solver.at = "stepping" /\ answer.kind = "invalidated"
  /\ solver' = [solver EXCEPT !.at = "idle", !.active = FALSE, !.waiting = TRUE, !.invalidated = heard + 1]
  /\ answer' = NoAnswer
  /\ feedback' = "collision"
  /\ UNCHANGED <<world, node, controller, requests, stepAt, resets, local, path, heard, failures, faults, restored>>
(* markWaitingForUpdatedGlobalTrajectory.                                  *)
Invalidated ==
  /\ solver.at = "stepping" /\ answer.kind = "invalidated"
  /\ solver' = [solver EXCEPT !.at = "idle", !.active = FALSE, !.waiting = TRUE, !.invalidated = heard]
  /\ answer' = NoAnswer
  /\ feedback' = "collision"
  /\ UNCHANGED <<world, node, controller, requests, stepAt, resets, local, path, heard, failures, faults, restored>>

(* The command goes to the streaming controller.                           *)
Commanded ==
  /\ solver.at = "stepping" /\ answer.kind = "command"
  /\ solver' = [solver EXCEPT !.at = "idle", !.active = TRUE]
  /\ answer' = NoAnswer
  /\ UNCHANGED <<world, node, controller, requests, stepAt, resets, local, path, heard, feedback, failures, faults, restored>>

(* At the end of the path, or cancelled, the local planner resets the      *)
(* sampler and the solver, which resets the session.                       *)
EndLocal(outcome) ==
  /\ local /\ solver.at = "idle" /\ feedback = "none"
  /\ local' = FALSE /\ path' = NoPath
  /\ feedback' = outcome
  /\ solver' = [solver EXCEPT !.at = "resetting"]
  /\ resets' = resets + 1
  /\ restored' = FALSE
  /\ UNCHANGED <<world, node, controller, requests, stepAt, answer, heard, failures, faults>>

Arrive == Iterating /\ path.progress = Last /\ EndLocal("done")

EndReset ==
  /\ solver.at = "resetting"
  /\ \/ answer.kind # "none" /\ UNCHANGED <<failures, faults>>
     \/ answer.kind = "none" /\ Fault /\ UNCHANGED failures
  /\ restored' = (answer.kind = "command")
  /\ solver' = [solver EXCEPT !.at = "idle", !.active = FALSE, !.waiting = FALSE]
  /\ answer' = NoAnswer
  /\ UNCHANGED <<world, node, controller, requests, stepAt, resets, local, path, heard, feedback>>

LocalPlanner == Hold \/ RequestStep \/ Stuck \/ Invalidated \/ Commanded \/ Arrive \/ EndReset

-----------------------------------------------------------------------------
(* A trajectory is published: the solver counts it and the sampler takes   *)
(* it, each when its own subscription is served.                           *)
Hear ==
  /\ heard' = heard + 1
  /\ UNCHANGED <<world, service, local, path, solver, feedback, failures, faults, restored>>

Take(route, known) ==
  /\ path' = [NoPath EXCEPT !.route = route, !.known = known]
  /\ UNCHANGED <<world, service, local, solver, heard, feedback, failures, faults, restored>>
=============================================================================
