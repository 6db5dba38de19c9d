---------------------------- MODULE PlannerSession ----------------------------
(***************************************************************************)
(* Two clients of the unified planner.  The cuRobo backend of the pick-and-*)
(* place workflow and of the motion benchmark remembers the planner that   *)
(* was active, makes its moves with the planners it needs and restores the *)
(* first one at the end.  The panel of RViz selects planners, plans,       *)
(* executes and stops as its user likes, and lets MPC follow a marker.     *)
(* Neither knows of the other.                                             *)
(***************************************************************************)
EXTENDS UnifiedPlanner

CONSTANTS PosePlanner,  \* curobo_planner_type, the planner for poses
          MaxMoves,     \* bound: moves of the backend
          MaxAttempts,  \* orientations, and joint targets, that are tried
          MaxClicks     \* bound: what the user of the panel does
ASSUME SessionAssumption == PosePlanner \in Planners /\ MaxMoves \in Nat /\ MaxAttempts \in Nat \ {0} /\ MaxClicks \in Nat
ASSUME ClientsAssumption == Clients = {"backend", "panel"}

VARIABLES backend,   \* the backend: what it does, the move, the planner it believes active
          panel,     \* the panel: its planner, trajectory, tracking, handles and buttons
          moves,     \* moves the backend has begun
          clicks,    \* what the user has done
          disturbed, \* another client planned, selected or stopped, or a late call was served, since the backend selected a planner
          overtaken, \* an execution of another client gave away what the backend was to follow, since then
          foreign    \* the same for the selection of a planner, since the session began

sessionVars == <<backend, panel, moves, clicks, disturbed, overtaken, foreign>>
vars == <<plannerVars, sessionVars>>

Unknown == "unknown"

Init ==
  /\ PlannerInit
  /\ backend = [at |-> "new", known |-> Unknown, original |-> Unknown, wanted |-> "classic",
                attempt |-> 0, targets |-> 1, execution |-> None, planned |-> None, followed |-> "none", refreshed |-> TRUE, verdict |-> "none"]
  /\ panel = [call |-> "none", planner |-> current, selects |-> None, trajectory |-> IF current = "mpc" THEN "none" ELSE "old", tracking |-> FALSE, waiting |-> {}, handle |-> None,
              arm |-> "none", canSend |-> TRUE, canStop |-> FALSE]
  /\ moves = 0 /\ clicks = 0 /\ disturbed = FALSE /\ overtaken = FALSE /\ foreign = FALSE

-----------------------------------------------------------------------------
(* The backend.                                                            *)
Answered(c) == answers[c].result # "none"
Forget(c) == answers' = [answers EXCEPT ![c] = NoAnswer]
Aged == [p \in Planners |-> IF planned[p] = "backend" THEN "old" ELSE planned[p]]

(* _refresh_active_planner_state; it may fail, and the cache stays.        *)
(* Mutant of Refreshed: the cache is trusted.                              *)
RefreshedNever == IF backend.known = Unknown THEN ActivePlanner ELSE backend.known
Refreshed == ActivePlanner

(* wait_until_ready: the planner to restore.                               *)
Capture ==
  /\ backend.at = "new"
  /\ \/ backend' = [backend EXCEPT !.at = "idle", !.known = ActivePlanner, !.original = ActivePlanner] /\ Fine
     \/ backend' = [backend EXCEPT !.at = "idle"] /\ Fault
  /\ UNCHANGED <<node, answers, arm, context, panel, moves, clicks, disturbed, overtaken, foreign>>

(* move_to_pose, move_to_home: the orientations, or the joint targets that *)
(* are equivalent, of which there is one at least.                         *)
Targets == 1..MaxAttempts
StartMove ==
  /\ backend.at = "idle" /\ moves < MaxMoves
  /\ moves' = moves + 1
  /\ \E wanted \in {PosePlanner, "joint_space"}, targets \in Targets :
       backend' = [backend EXCEPT !.at = "select", !.wanted = wanted, !.attempt = 1, !.targets = targets, !.verdict = "none", !.followed = "none"]
  /\ UNCHANGED <<plannerVars, panel, clicks, disturbed, overtaken, foreign>>

(* _ensure_planner_type.                                                   *)
Ensure ==
  /\ backend.at = "select"
  /\ planned' = Aged
  /\ context' = [context EXCEPT !.command = IF @ = "backend" THEN "old" ELSE @]
  /\ disturbed' = FALSE /\ overtaken' = FALSE
  /\ \E fails \in BOOLEAN :
       LET known == IF fails THEN backend.known ELSE Refreshed
           b == [backend EXCEPT !.known = known, !.refreshed = ~ fails, !.planned = None]
       IN /\ IF fails THEN Fault ELSE Fine
          /\ IF known = backend.wanted
             THEN backend' = [b EXCEPT !.at = "prepare"] /\ UNCHANGED requests
             ELSE backend' = [b EXCEPT !.at = "setting"] /\ Call("backend", "set", backend.wanted, "none")
  /\ UNCHANGED <<current, flagged, mpcActive, live, executions, handle, answers, arm, panel, moves, clicks, foreign>>

(* What follows an attempt that fails: another orientation or joint target *)
(* if there is one, or the end of the move.                                *)
Retry(b) ==
  IF b.attempt < b.targets THEN [b EXCEPT !.at = "select", !.attempt = @ + 1]
  ELSE [b EXCEPT !.at = "idle", !.verdict = "failed"]
(* A joint target that was planned is the last.                            *)
ExecutionFailed(b) == IF b.wanted = "joint_space" THEN [b EXCEPT !.at = "idle", !.verdict = "failed"] ELSE Retry(b)

PlannerSet ==
  /\ backend.at \in {"setting", "restoring"} /\ Answered("backend")
  /\ Forget("backend")
  /\ LET ok == answers["backend"].result = "ok" IN
     backend' = IF backend.at = "restoring"
                THEN [backend EXCEPT !.at = "done", !.known = IF ok THEN backend.original ELSE @, !.verdict = IF ok THEN "restored" ELSE "failed"]
                ELSE IF ok THEN [backend EXCEPT !.at = "prepare", !.known = backend.wanted] ELSE Retry(backend)
  /\ UNCHANGED <<node, arm, context, faults, panel, moves, clicks, disturbed, overtaken, foreign>>

(* _plan_pose, _plan_joint_target: the joint state, and the request.       *)
GoalOf(wanted) == IF wanted = "joint_space" THEN "joints" ELSE "pose"
RequestPlan ==
  /\ backend.at = "prepare"
  /\ \/ Call("backend", "generate", None, GoalOf(backend.wanted)) /\ backend' = [backend EXCEPT !.at = "planning"] /\ Fine
     \/ backend' = Retry(backend) /\ Fault /\ UNCHANGED requests
  /\ UNCHANGED <<current, planned, flagged, mpcActive, live, executions, handle, answers, arm, context, panel, moves, clicks, disturbed, overtaken, foreign>>

(* An answer without a trajectory is a failure, unless MPC is believed to  *)
(* be active.                                                              *)
(* Mutant of Usable: the outcome of planning is not looked at.             *)
UsableAlways(a) == backend.known = "mpc" \/ a.planner \in Trajectory
Usable(a) == a.result = "ok" /\ (backend.known = "mpc" \/ a.planner \in Trajectory)
PlanAnswered ==
  /\ backend.at = "planning" /\ Answered("backend")
  /\ Forget("backend")
  /\ LET a == answers["backend"]
         b == [backend EXCEPT !.planned = a.planner] IN
     backend' = IF ~ Usable(a) THEN Retry(b)
                ELSE [b EXCEPT !.at = IF backend.known = "mpc" THEN "submit" ELSE "switch"]
  /\ UNCHANGED <<node, arm, context, faults, panel, moves, clicks, disturbed, overtaken, foreign>>

(* An answer that takes too long; the call is served later.                *)
GiveUp ==
  /\ backend.at \in {"setting", "planning", "restoring"} /\ ~ Answered("backend")
  /\ Fault
  /\ GiveUpCall("backend")
  /\ backend' = IF backend.at = "restoring" THEN [backend EXCEPT !.at = "done", !.verdict = "failed"] ELSE Retry(backend)
  /\ UNCHANGED <<current, planned, flagged, mpcActive, live, executions, handle, answers, arm, context, panel, moves, clicks, disturbed, overtaken, foreign>>

(* _execute_active_planner.                                                *)
Submit ==
  /\ backend.at = "submit"
  /\ FreeExecutions # {}
  /\ executions' = Accepted(NewExecution, "backend")
  /\ backend' = [backend EXCEPT !.at = "executing", !.execution = NewExecution]
  /\ UNCHANGED <<current, planned, flagged, mpcActive, live, requests, handle, answers, arm, context, faults, panel, moves, clicks, disturbed, overtaken, foreign>>

Arrived(b, follows) == [b EXCEPT !.at = "idle", !.verdict = "success", !.followed = follows, !.execution = None]
ExecutionEnded ==
  LET e == backend.execution IN
  /\ backend.at = "executing"
  /\ \/ /\ executions[e].at = "done"
        /\ backend' = IF executions[e].ok THEN Arrived(backend, executions[e].follows)
                      ELSE ExecutionFailed([backend EXCEPT !.execution = None])
        /\ executions' = [executions EXCEPT ![e] = NoExecution]
        /\ Fine
     \/ /\ executions[e].at # "done"
        /\ backend' = ExecutionFailed([backend EXCEPT !.execution = None])
        /\ executions' = [executions EXCEPT ![e].by = Nobody]
        /\ Fault
  /\ UNCHANGED <<current, planned, flagged, mpcActive, live, requests, handle, answers, arm, context, panel, moves, clicks, disturbed, overtaken, foreign>>

(* _activate_trajectory_execution_controller and                           *)
(* execute_arm_joint_trajectory, with the trajectory of the answer.        *)
SendTrajectory ==
  /\ backend.at = "switch"
  /\ \/ SwitchTo("trajectory") /\ backend' = [backend EXCEPT !.at = "send"] /\ Fine
     \/ SwitchFails("trajectory") /\ backend' = ExecutionFailed(backend)
  /\ UNCHANGED <<node, answers, context, panel, moves, clicks, disturbed, overtaken, foreign>>
SendArmGoal ==
  /\ backend.at = "send"
  /\ SendToArm("backend")
  /\ backend' = [backend EXCEPT !.at = "moving"]
  /\ UNCHANGED <<node, answers, controller, context, faults, panel, moves, clicks, disturbed, overtaken, foreign>>
ArmGoalEnded ==
  /\ backend.at = "moving"
  /\ \/ /\ ~ Moving("backend")
        /\ backend' = IF Succeeded(motions["backend"]) THEN Arrived(backend, "backend") ELSE ExecutionFailed(backend)
        /\ motions' = [motions EXCEPT !["backend"] = "none"]
        /\ Fine
     \/ Moving("backend") /\ Fault /\ backend' = ExecutionFailed(backend) /\ UNCHANGED motions
  /\ UNCHANGED <<node, answers, controller, context, panel, moves, clicks, disturbed, overtaken, foreign>>

(* restore_previous_planner.                                               *)
Restore ==
  /\ backend.at = "idle"
  /\ IF backend.original = Unknown \/ backend.known = backend.original
     THEN backend' = [backend EXCEPT !.at = "done", !.verdict = "restored"] /\ UNCHANGED requests
     ELSE backend' = [backend EXCEPT !.at = "restoring"] /\ Call("backend", "set", backend.original, "none")
  /\ UNCHANGED <<current, planned, flagged, mpcActive, live, executions, handle, answers, arm, context, faults, panel, moves, clicks, disturbed, overtaken, foreign>>

Backend ==
  \/ Capture \/ StartMove \/ Ensure \/ PlannerSet \/ RequestPlan \/ PlanAnswered \/ GiveUp
  \/ Submit \/ ExecutionEnded \/ SendTrajectory \/ SendArmGoal \/ ArmGoalEnded \/ Restore

-----------------------------------------------------------------------------
(* The panel.  Its user waits for the answer of a call before the next one,*)
(* and sends one trajectory to the arm at a time.                          *)
Click == clicks < MaxClicks /\ clicks' = clicks + 1
Sending(p) == [p EXCEPT !.canSend = FALSE, !.canStop = TRUE]
Resting(p) == [p EXCEPT !.canSend = TRUE, !.canStop = FALSE]

(* on_comboBoxTrajectoryType_currentIndexChanged.                          *)
SelectPlanner ==
  /\ panel.call = "none" /\ Click
  /\ \E p \in {"classic", "mpc", Unavailable} :
       /\ Call("panel", "set", p, "none")
       /\ panel' = [panel EXCEPT !.call = "set", !.selects = p]
  /\ UNCHANGED <<current, planned, flagged, mpcActive, live, executions, handle, answers, arm, context, faults, backend, moves, disturbed, overtaken, foreign>>

(* on_comboBoxRobotStrategy_currentTextChanged: the call, which the planner*)
(* serves at once.                                                         *)
SelectStrategy ==
  /\ panel.call = "none" /\ Click
  /\ SwitchStrategy /\ disturbed' = TRUE
  /\ UNCHANGED <<node, answers, arm, faults, backend, panel, moves, overtaken, foreign>>

(* on_generateTrajectory_clicked, on_generateAndSend_clicked.              *)
Generate ==
  /\ panel.call = "none" /\ Click
  /\ Call("panel", "generate", None, "pose")
  /\ \/ panel.canSend /\ panel' = [panel EXCEPT !.call = "generate"]
     \/ panel.arm = "none" /\ panel' = [panel EXCEPT !.call = IF panel.planner = "mpc" THEN "track" ELSE "generate and send"]
  /\ UNCHANGED <<current, planned, flagged, mpcActive, live, executions, handle, answers, arm, context, faults, backend, moves, disturbed, overtaken, foreign>>

(* The answers to both calls.                                              *)
TakeAnswer ==
  /\ panel.call \in {"set", "generate", "generate and send", "track"} /\ Answered("panel")
  /\ Forget("panel")
  /\ LET ok == answers["panel"].result = "ok"
         trajectory == IF ok /\ answers["panel"].planner \in Trajectory THEN "panel" ELSE "none"
     IN panel' = CASE panel.call = "set" -> [panel EXCEPT !.call = "none", !.planner = IF ok THEN panel.selects ELSE @, !.selects = None]
                   [] panel.call = "generate" -> [panel EXCEPT !.call = "none", !.trajectory = trajectory]
                   [] panel.call = "generate and send" -> [panel EXCEPT !.call = IF trajectory = "none" THEN "none" ELSE "activate", !.trajectory = trajectory]
                   [] panel.call = "track" -> [panel EXCEPT !.call = IF ok THEN "start" ELSE "none", !.tracking = @ \/ ok]
  /\ UNCHANGED <<node, arm, context, faults, backend, moves, clicks, disturbed, overtaken, foreign>>

(* on_sendTrajectory_clicked.                                              *)
Send ==
  /\ panel.call = "none" /\ panel.canSend /\ Click
  /\ \/ panel.planner # "mpc" /\ panel.trajectory # "none" /\ panel.arm = "none" /\ panel' = [panel EXCEPT !.call = "activate"]
     \/ panel.planner = "mpc" /\ panel' = [panel EXCEPT !.call = "start"]
  /\ UNCHANGED <<plannerVars, backend, moves, disturbed, overtaken, foreign>>

(* The goal of the marker is published, and the execution action called.   *)
StartExecution ==
  /\ panel.call = "start"
  /\ TakeLiveGoal
  /\ FreeExecutions # {}
  /\ executions' = Accepted(NewExecution, "panel")
  /\ panel' = [Sending(panel) EXCEPT !.call = "none", !.waiting = @ \cup {NewExecution}]
  /\ UNCHANGED <<current, planned, flagged, mpcActive, requests, handle, answers, arm, context, faults, backend, moves, clicks, disturbed, overtaken, foreign>>

(* publishMpcGoal.                                                         *)
PublishGoal ==
  /\ panel.tracking
  /\ TakeLiveGoal
  /\ UNCHANGED <<current, planned, flagged, mpcActive, requests, executions, handle, answers, arm, context, faults, sessionVars>>

(* goal_response_callback; result_callback.                                *)
HoldExecution ==
  /\ \E e \in panel.waiting : panel.handle # e /\ panel' = [panel EXCEPT !.handle = e]
  /\ UNCHANGED <<plannerVars, backend, moves, clicks, disturbed, overtaken, foreign>>
(* Mutant of Reported: the timer goes on.                                  *)
ReportedTracking(e) == [Resting(panel) EXCEPT !.waiting = @ \ {e}, !.handle = IF @ = e THEN None ELSE @]
Reported(e) == [Resting(panel) EXCEPT !.tracking = FALSE, !.waiting = @ \ {e}, !.handle = IF @ = e THEN None ELSE @]
ExecutionReported ==
  /\ \E e \in panel.waiting :
       /\ executions[e].at = "done"
       /\ panel' = Reported(e)
       /\ executions' = [executions EXCEPT ![e] = NoExecution]
  /\ UNCHANGED <<current, planned, flagged, mpcActive, live, requests, handle, answers, arm, context, faults, backend, moves, clicks, disturbed, overtaken, foreign>>

(* executeGeneratedTrajectory, activateTrajectoryController.               *)
Activate ==
  /\ panel.call = "activate"
  /\ \/ SwitchTo("trajectory") /\ Fine /\ panel' = [panel EXCEPT !.call = "send"]
     \/ SwitchFails("trajectory") /\ panel' = [panel EXCEPT !.call = "none"]
  /\ UNCHANGED <<node, answers, context, backend, moves, clicks, disturbed, overtaken, foreign>>
MoveArm ==
  /\ panel.call = "send"
  /\ SendToArm("panel")
  /\ panel' = [Sending(panel) EXCEPT !.call = "none", !.arm = "sent"]
  /\ UNCHANGED <<node, answers, controller, context, faults, backend, moves, clicks, disturbed, overtaken, foreign>>

(* controller_goal_response_callback; controller_result_callback.          *)
HoldArmGoal ==
  /\ panel.arm = "sent"
  /\ panel' = IF motions["panel"] = "rejected" THEN [Resting(panel) EXCEPT !.arm = "none"] ELSE [panel EXCEPT !.arm = "held"]
  /\ UNCHANGED <<plannerVars, backend, moves, clicks, disturbed, overtaken, foreign>>
ArmGoalReported ==
  /\ panel.arm = "held" /\ ~ Moving("panel")
  /\ panel' = [Resting(panel) EXCEPT !.arm = "none"]
  /\ motions' = [motions EXCEPT !["panel"] = "none"]
  /\ UNCHANGED <<node, answers, controller, context, faults, backend, moves, clicks, disturbed, overtaken, foreign>>

(* on_stopRobot_clicked: the goals whose handles are known are cancelled.  *)
(* The button rests then until something is sent.                          *)
Stop ==
  /\ panel.canStop /\ panel.call # "generate"
  /\ LET e == panel.handle
         cancels == e # None /\ InProgress(e)
         stopped == (IF cancels THEN ArmGoalToCancel ELSE {}) \cup (IF panel.arm = "held" THEN {"panel"} ELSE {})
     IN /\ IF cancels THEN Canceled(e) ELSE UNCHANGED <<node, controller, context>>
        /\ disturbed' = (disturbed \/ cancels)
        /\ motions' = [g \in Goals |-> IF Moving(g) /\ g \in stopped THEN "canceled" ELSE motions[g]]
  /\ panel' = [Resting(panel) EXCEPT !.tracking = FALSE]
  /\ UNCHANGED <<answers, faults, backend, moves, clicks, overtaken, foreign>>

PanelCallbacks == TakeAnswer \/ StartExecution \/ PublishGoal \/ HoldExecution \/ ExecutionReported
                  \/ Activate \/ MoveArm \/ HoldArmGoal \/ ArmGoalReported
User == SelectPlanner \/ SelectStrategy \/ Generate \/ Send \/ Stop

-----------------------------------------------------------------------------
(* What another client, or a call that was given up, does to the planner.  *)
Meddles(r) == r.late \/ r.by # "backend"
Served == requests \ requests'
Services ==
  /\ PlannerServices
  /\ disturbed' = (disturbed \/ \E r \in Served : Meddles(r))
  /\ foreign' = (foreign \/ \E r \in Served : r.kind = "set" /\ (Meddles(r) \/ faults' # faults))
  /\ UNCHANGED <<backend, panel, moves, clicks, overtaken>>

(* What an execution of another client does to what the backend holds: it  *)
(* stops the robot context, or gives it, or the classic planner that takes *)
(* over from MPC, what is not of the backend and is not a live goal.       *)
Overtakes(e) ==
  /\ executions[e].by # "backend"
  /\ \/ context'.command \notin {context.command, "backend", "live"}
     \/ planned'["classic"] \notin {planned["classic"], "backend", "live"}
Executes(e) ==
  /\ Execution(e)
  /\ overtaken' = (overtaken \/ Overtakes(e))
  /\ UNCHANGED <<backend, panel, moves, clicks, disturbed, foreign>>

Next ==
  \/ Services \/ Backend \/ PanelCallbacks \/ User
  \/ \E e \in Executions : Executes(e)
  \/ (ArmEnds \/ EmulatorMoves) /\ UNCHANGED sessionVars

(* The threads of the planner, the controllers and the backend go on; the  *)
(* user need not.                                                          *)
Fairness ==
  /\ WF_vars(Services) /\ WF_vars(Backend) /\ WF_vars(ArmEnds /\ UNCHANGED sessionVars)
  /\ WF_vars(EmulatorMoves /\ UNCHANGED sessionVars)
  /\ WF_vars(ExecutionReported)
  /\ \A e \in Executions : WF_vars(Executes(e))

Spec == Init /\ [][Next]_vars /\ Fairness

-----------------------------------------------------------------------------
(* Type correctness.                                                       *)
TypeOK ==
  /\ PlannerTypeOK
  /\ backend.wanted \in Planners /\ backend.attempt \in 0..backend.targets /\ backend.targets \in Targets
  /\ backend.known \in Planners \cup {Unknown} /\ backend.original \in Planners \cup {Unknown}
  /\ backend.followed \in Plans
  /\ panel.waiting \subseteq Executions /\ panel.handle \in Executions \cup {None}
  /\ moves \in 0..MaxMoves /\ clicks \in 0..MaxClicks

(* The backend moves the robot with the planner the move asks for, whoever *)
(* selected another one before, unless the query of the active planner     *)
(* failed or another client was served after it.                           *)
PlannedAsRequested ==
  backend.at \in {"submit", "executing", "switch", "send", "moving"} /\ backend.refreshed /\ ~ disturbed
    => backend.planned = backend.wanted

(* A move that succeeds has followed the plan made for it, and not one that*)
(* the planner still held from before, unless another client planned,      *)
(* selected or stopped meanwhile, or an execution of it took the robot     *)
(* context or the classic planner; a live goal may take its place.         *)
MovesFollowTheirPlan ==
  backend.verdict = "success" /\ ~ disturbed /\ ~ overtaken => backend.followed \in {"backend", "live"}

(* When the backend reports that it restored the planner, it did, unless   *)
(* somebody else selected one, a call was late or a selection half done.   *)
RestoredMeansOriginal ==
  backend.verdict = "restored" /\ ~ foreign /\ backend.original # Unknown => current = backend.original

(* The planner is the one that the backend believes to be active.          *)
SelectionsHold == PlannedAsRequested /\ RestoredMeansOriginal

(* The panel publishes live goals only while an execution of its own has   *)
(* not been reported: they would move the goal of another client.          *)
TrackingHasExecution == panel.tracking => panel.waiting # {} \/ panel.call = "start"

(* Every execution that begins ends, whatever is cancelled, preempted or   *)
(* switched meanwhile, unless it watches a robot context that was stopped, *)
(* replaced or failed under it: that one never completes.                  *)
ExecutionsEnd == \A e \in Executions : InProgress(e) ~> ~ InProgress(e) \/ Stranded(e)

(* SinglePlanner.execute is "True if execution completed successfully,     *)
(* False if cancelled or error": an execution whose motion was cancelled   *)
(* does not end as a success.                                              *)
CancelledIsNotSuccess ==
  [][\A e \in Executions :
       executions[e].at = "running" /\ motions[e] = "canceled" /\ executions'[e].at = "done" => ~ executions'[e].ok]_vars
=============================================================================
