--------------------------- MODULE HybridExecution ---------------------------
(***************************************************************************)
(* A motion under hybrid planning: the bridge that turns a MoveGroup goal  *)
(* into a goal of the hybrid planning manager, the manager with its global *)
(* planner, and the local planner of HybridMpc, while an obstacle is added *)
(* to the world and removed from it.                                       *)
(*                                                                         *)
(* The manager and its event logic are MoveIt's: a global plan at the      *)
(* beginning and after each feedback of the local planner, the end of the  *)
(* goal with the end of the local planner or with a plan that fails, after *)
(* which the local planner goes on.                                        *)
(***************************************************************************)
EXTENDS HybridMpc

CONSTANTS MaxPlans,     \* bound: global plans that succeed
          MaxChanges    \* bound: changes of the obstacle
ASSUME BoundsAssumption == MaxPlans \in Nat /\ MaxChanges \in Nat

VARIABLES bridge,    \* execute_callback for the goal
          hybrid,    \* the goal of the manager
          planning,  \* the global plans that are asked for
          plans,     \* number of plans made
          message    \* the trajectory last published and who has not taken it yet

execVars == <<bridge, hybrid, planning, plans, message>>
vars == <<mpcVars, execVars>>

Readers == {"solver", "sampler"}
NoMessage == [route |-> "none", known |-> NoVersion, to |-> {}]

Init ==
  /\ MpcInit
  /\ bridge = [at |-> "received", cancel |-> FALSE, verdict |-> "none"]
  /\ hybrid = "none"
  /\ planning = "none" /\ plans = 0
  /\ message = NoMessage

-----------------------------------------------------------------------------
(* The obstacle services.                                                  *)
ChangeObstacle ==
  /\ version < MaxChanges
  /\ ChangeWorld(~ obstacle)
  /\ UNCHANGED <<service, localPlanner, failures, faults, execVars>>

(* The client of the bridge cancels its goal.                              *)
CancelGoal ==
  /\ bridge.at # "done" /\ ~ bridge.cancel
  /\ bridge' = [bridge EXCEPT !.cancel = TRUE]
  /\ UNCHANGED <<mpcVars, hybrid, planning, plans, message>>

-----------------------------------------------------------------------------
(* The bridge: execute_callback, up to send_goal_async, or the failure     *)
(* when there is no group or no manager.                                   *)
Dispatch ==
  /\ bridge.at = "received"
  /\ \/ bridge' = [bridge EXCEPT !.at = "sending"] /\ hybrid' = "sent"
     \/ bridge' = [bridge EXCEPT !.at = "done", !.verdict = "failed"] /\ UNCHANGED hybrid
  /\ UNCHANGED <<mpcVars, planning, plans, message>>

(* A goal that is only to be planned goes to the planning service, and     *)
(* nothing is executed.                                                    *)
PlanOnly ==
  /\ bridge.at = "received"
  /\ bridge' = [bridge EXCEPT !.at = "planning"]
  /\ UNCHANGED <<mpcVars, hybrid, planning, plans, message>>
EndPlanOnly ==
  /\ bridge.at = "planning"
  /\ \E verdict \in IF bridge.cancel THEN {"preempted"} ELSE {"success", "failed"} :
       bridge' = [bridge EXCEPT !.at = "done", !.verdict = verdict]
  /\ UNCHANGED <<mpcVars, hybrid, planning, plans, message>>

(* The goal was cancelled while it was sent, or rejected, or accepted.     *)
Sent ==
  /\ bridge.at = "sending"
  /\ hybrid # "sent" \/ bridge.cancel
  /\ bridge' = IF bridge.cancel THEN [bridge EXCEPT !.at = "done", !.verdict = "preempted before dispatch"]
               ELSE IF hybrid = "rejected" THEN [bridge EXCEPT !.at = "done", !.verdict = "failed"]
               ELSE [bridge EXCEPT !.at = "running"]
  /\ UNCHANGED <<mpcVars, hybrid, planning, plans, message>>

(* A cancellation is passed on once.                                       *)
PassCancel ==
  /\ bridge.at = "running" /\ bridge.cancel
  /\ bridge' = [bridge EXCEPT !.at = "canceling"]
  /\ hybrid' = IF hybrid = "executing" THEN "canceling" ELSE hybrid
  /\ UNCHANGED <<mpcVars, planning, plans, message>>

(* The result: a cancellation that has been asked for overrides it.        *)
Ended == hybrid \in {"succeeded", "failed", "canceled"}
Outcome == IF bridge.cancel THEN "preempted" ELSE IF hybrid = "succeeded" THEN "success" ELSE "failed"
(* Mutant of Finish: a cancelled goal does not wait for its result.        *)
FinishAtOnce ==
  /\ bridge.at \in {"running", "canceling"} /\ (Ended \/ bridge.cancel)
  /\ bridge' = [bridge EXCEPT !.at = "done", !.verdict = Outcome]
  /\ UNCHANGED <<mpcVars, hybrid, planning, plans, message>>
Finish ==
  /\ bridge.at \in {"running", "canceling"} /\ Ended
  /\ bridge' = [bridge EXCEPT !.at = "done", !.verdict = Outcome]
  /\ UNCHANGED <<mpcVars, hybrid, planning, plans, message>>

Bridge == Dispatch \/ PlanOnly \/ EndPlanOnly \/ Sent \/ PassCancel \/ Finish

-----------------------------------------------------------------------------
(* The hybrid planning manager.                                            *)
Executing == hybrid \in {"executing", "canceling"}

Accept ==
  /\ hybrid = "sent"
  /\ \/ hybrid' = "executing" /\ planning' = "once"
     \/ hybrid' = "rejected" /\ UNCHANGED planning
  /\ UNCHANGED <<mpcVars, bridge, plans, message>>

(* CuroboGlobalPlanner::plan solves against the obstacles of one moment.   *)
(* It succeeds and is published, and the local planner started; or it      *)
(* fails, with the goal.                                                   *)
PlanSucceeds ==
  /\ planning # "none" /\ Executing
  /\ plans < MaxPlans /\ message.to = {}
  /\ plans' = plans + 1
  /\ message' = [route |-> IF obstacle THEN "detour" ELSE "direct", known |-> version, to |-> Readers]
  /\ local' = TRUE
  /\ planning' = IF planning = "twice" THEN "once" ELSE "none"
  /\ UNCHANGED <<world, service, path, solver, heard, feedback, failures, faults, restored, bridge, hybrid>>

PlanFails ==
  /\ planning # "none"
  /\ hybrid' = IF Executing THEN "failed" ELSE hybrid
  /\ planning' = "none"
  /\ UNCHANGED <<mpcVars, bridge, plans, message>>

(* The subscriptions of the trajectory, each in its own time.              *)
Delivered(r) ==
  /\ r \in message.to
  /\ message' = IF message.to = {r} THEN NoMessage ELSE [message EXCEPT !.to = @ \ {r}]
ToSolver ==
  /\ Delivered("solver")
  /\ Hear
  /\ UNCHANGED <<bridge, hybrid, planning, plans>>
ToSampler ==
  /\ Delivered("sampler")
  /\ Take(message.route, message.known)
  /\ UNCHANGED <<bridge, hybrid, planning, plans>>
Deliver == ToSolver \/ ToSampler

(* A cancelled goal ends when the local planner has ended.                 *)
CancelLocal == hybrid = "canceling" /\ EndLocal("canceled") /\ UNCHANGED execVars
CancelUnstarted ==
  /\ hybrid = "canceling" /\ ~ local /\ feedback = "none"
  /\ hybrid' = "canceled" /\ planning' = "none"
  /\ UNCHANGED <<mpcVars, bridge, plans, message>>

(* What the local planner reports: another plan is asked for, or the goal  *)
(* ends.  Without a goal nothing happens.                                  *)
React ==
  /\ feedback # "none"
  /\ feedback' = "none"
  /\ IF feedback \in {"stuck", "collision"}
     THEN /\ planning' = IF ~ Executing THEN planning
                         ELSE IF planning = "none" THEN "once" ELSE "twice"
          /\ UNCHANGED hybrid
     ELSE /\ hybrid' = IF ~ Executing THEN hybrid ELSE IF feedback = "done" THEN "succeeded" ELSE "canceled"
          /\ UNCHANGED planning
  /\ UNCHANGED <<world, service, local, path, solver, heard, failures, faults, restored, bridge, plans, message>>

Plan == PlanSucceeds \/ PlanFails
Manager == Accept \/ CancelLocal \/ CancelUnstarted \/ React

-----------------------------------------------------------------------------
Service == (StepService \/ ServeReset) /\ UNCHANGED execVars
Local == LocalPlanner /\ UNCHANGED execVars

Next ==
  \/ ChangeObstacle \/ CancelGoal
  \/ Bridge \/ Manager \/ Plan \/ Deliver
  \/ Service \/ Local
  \/ ForeignCancel /\ UNCHANGED execVars

(* Each thread goes on when it can: the thread of the bridge, the          *)
(* services, the executors of the manager, the global and the local        *)
(* planner.                                                                *)
Fairness ==
  /\ WF_vars(Bridge) /\ WF_vars(Manager) /\ WF_vars(Plan) /\ WF_vars(Deliver)
  /\ WF_vars(Service) /\ WF_vars(Local)

Spec == Init /\ [][Next]_vars /\ Fairness

-----------------------------------------------------------------------------
(* Type correctness.                                                       *)
Routes == {"none", "direct", "detour"}
Kinds == {"none", "failed", "invalidated", "command"}
TypeOK ==
  /\ obstacle \in BOOLEAN /\ version \in Nat /\ mpcWorld \in BOOLEAN
  /\ node.session \in BOOLEAN /\ node.force \in BOOLEAN
  /\ node.baseline \in {NoVersion} \cup 0..version /\ node.forceVersion \in {NoVersion} \cup 0..version
  /\ node.infeasible \in 0..InfeasibleSteps /\ node.stall \in {Unmeasured} \cup 0..StallSteps
  /\ controller \in {"trajectory", "stream"}
  /\ stepAt \in {"idle", "refresh"} /\ stepAt # "idle" => requests # <<>>
  /\ resets \in Nat /\ answer.kind \in Kinds /\ answer.blocked \in BOOLEAN
  /\ local \in BOOLEAN /\ path.route \in Routes /\ path.progress \in 0..Last
  /\ solver.at \in {"idle", "stepping", "resetting"} /\ solver.invalidated \in 0..heard
  /\ feedback \in {"none", "stuck", "collision", "done", "canceled"}
  /\ failures + faults \in 0..MaxFaults /\ plans \in 0..MaxPlans /\ heard \in 0..plans
  /\ message.to \subseteq Readers
  /\ planning \in {"none", "once", "twice"}

(* A solver that believes its session goes on does have one in the step    *)
(* service, unless a call was given up or another client cancelled: its    *)
(* next request may not begin a session.                                   *)
ActiveMeansSession ==
  solver.active /\ solver.at = "idle" /\ faults = 0 => node.session

(* When a local goal is over and its reset was answered, no session is     *)
(* left and the trajectory controller drives the robot, whatever requests  *)
(* were served on the way.                                                 *)
ResetEndsSession ==
  ~ local /\ solver.at = "idle" /\ restored /\ faults = 0 => ~ node.session /\ controller = "trajectory"

(* The two ends of the MPC session agree that it goes on, or is over.      *)
SessionsAgree == ActiveMeansSession /\ ResetEndsSession

(* No command follows a window that MPC knows to be blocked, except on a   *)
(* path that is planned before the session began: a session takes its      *)
(* baseline when it begins, and checks only what changed after it.         *)
CommandsAreWatched == answer.kind = "command" /\ answer.blocked => answer.old

(* A goal that the bridge reports as preempted after it was accepted does  *)
(* not execute any longer.                                                 *)
PreemptedHasEnded == bridge.verdict = "preempted" => ~ Executing

(* A solver that holds after an invalidation goes on, or its goal ends.    *)
HoldEnds == solver.waiting /\ local ~> ~ solver.waiting \/ ~ local \/ ~ Executing

=============================================================================
