---------------------------- MODULE UnifiedPlanner ----------------------------
(***************************************************************************)
(* The services of the unified planner that select a planner, plan with it *)
(* and execute what it holds, as its clients meet them.  Each callback has *)
(* a thread of its own: a planner is selected while another client plans   *)
(* or while an earlier motion goes on, and an execution follows whatever   *)
(* the planner holds that is current at that moment.                       *)
(*                                                                         *)
(* The arm and the switch of its controllers belong to ros2_control: one   *)
(* trajectory goal moves the arm, a later one preempts it, and a goal that *)
(* is cancelled answers with error code 0.  Where the action of the arm is *)
(* not there, the robot context takes its place.                           *)
(***************************************************************************)
EXTENDS Integers, FiniteSets, RobotContext

CONSTANTS Clients,        \* who calls the planner
          Executions,     \* goals of the execution action that exist at once
          MaxIterations,  \* max_mpc_iterations
          MaxFaults       \* bound: failures of callbacks, calls that are given up
ASSUME IterationsAssumption == MaxIterations \in Nat \ {0}
ASSUME PlannerFaultsAssumption == MaxFaults \in Nat

VARIABLES current,      \* the type of _current_planner
          planned,      \* whose plan each planner holds: planned_trajectory, goal_buffer
          flagged,      \* planners whose _cancelled is set
          mpcActive,    \* is_goal_active of the MPC planner
          live,         \* latest_goal_from_topic
          requests,     \* calls of set_planner and generate_trajectory to be answered
          answers,      \* the answer a client waits for
          executions,   \* goals of the execution action
          handle,       \* _active_controller_goal_handle
          controller,   \* the active controller
          motions,      \* goals of the controller's trajectory action
          faults        \* callbacks that failed, calls that were given up

node == <<current, planned, flagged, mpcActive, live, requests, executions, handle>>
arm == <<controller, motions>>
plannerVars == <<node, answers, arm, context, faults>>

Trajectory == {"classic", "joint_space"}
Planners == Trajectory \cup {"mpc"}
Unavailable == "batch"     \* a type of SetPlanner that no planner has
Plans == Clients \cup {"none", "live", "old"}
Nobody == "nobody"
None == "none"
NoAnswer == [result |-> "none", planner |-> None]
NoExecution == [at |-> "none", by |-> Nobody, planner |-> None, follows |-> "none", steps |-> 0, ok |-> FALSE]
Goals == Executions \cup Clients
InProgress(e) == executions[e].at \notin {"none", "done"}

Fault == faults < MaxFaults /\ faults' = faults + 1
Fine == UNCHANGED faults

(* The planner runs before this session: MPC may be selected already, and  *)
(* hold the goal of an earlier plan.                                       *)
PlannerInit ==
  /\ current \in {"classic", "mpc"}
  /\ \E before \in {"none", "old"} :
       planned = [p \in Planners |-> IF p = "mpc" /\ current = "mpc" THEN before ELSE "none"]
  /\ flagged = {} /\ mpcActive = FALSE /\ live = FALSE
  /\ requests = {} /\ answers = [c \in Clients |-> NoAnswer]
  /\ executions = [e \in Executions |-> NoExecution] /\ handle = None
  /\ ContextInit(planned["mpc"])
  /\ controller = "trajectory" /\ motions = [g \in Goals |-> "none"]
  /\ faults = 0

-----------------------------------------------------------------------------
(* The arm: a trajectory goal is taken, which preempts the one before, or  *)
(* rejected while another controller is active; it ends.                   *)
Moving(g) == motions[g] = "running"
Taken(g) == [h \in Goals |-> IF h = g THEN "running" ELSE IF Moving(h) THEN "failed" ELSE motions[h]]
Stopped(result) == [h \in Goals |-> IF Moving(h) THEN result ELSE motions[h]]
SendToArm(g) == motions' = IF controller = "trajectory" THEN Taken(g) ELSE [motions EXCEPT ![g] = "rejected"]

ArmEnds ==
  /\ \E g \in Goals, result \in {"success", "failed"} :
       Moving(g) /\ motions' = [motions EXCEPT ![g] = result]
  /\ UNCHANGED <<node, answers, controller, context, faults>>
EmulatorMoves == RunEmulator /\ UNCHANGED <<node, answers, arm, faults>>

(* _switch_controllers; a goal that moves the arm ends with its controller.*)
SwitchTo(c) ==
  /\ controller' = c
  /\ motions' = IF c = "stream" THEN Stopped("failed") ELSE motions
SwitchFails(c) == Fault /\ (SwitchTo(c) \/ UNCHANGED arm)

-----------------------------------------------------------------------------
(* A call, and its answer if the client still waits.  A plan is asked for  *)
(* with a pose or with the positions of the joints.                        *)
Call(c, kind, p, goal) ==
  requests' = requests \cup {[kind |-> kind, by |-> c, planner |-> p, goal |-> goal, begun |-> FALSE, late |-> FALSE]}
GiveUpCall(c) == requests' = {[r EXCEPT !.late = @ \/ r.by = c] : r \in requests}
Answer(r, ok, p) ==
  /\ requests' = requests \ {r}
  /\ answers' = IF r.late THEN answers
                ELSE [answers EXCEPT ![r.by] = [result |-> IF ok THEN "ok" ELSE "failed", planner |-> p]]

(* get_planners_callback: what a client is told.                           *)
ActivePlanner == current

(* set_planner_callback: the planner is switched, and then set up; when    *)
(* that fails the switch stays.  A type that no planner has is refused.    *)
Switch(p) == p \in Planners /\ current' = p
ServeSetPlanner ==
  /\ \E r \in requests : r.kind = "set" /\
       \/ Switch(r.planner) /\ Answer(r, TRUE, r.planner) /\ Fine
       \/ Switch(r.planner) /\ Answer(r, FALSE, r.planner) /\ Fault
       \/ r.planner = Unavailable /\ Answer(r, FALSE, current) /\ Fine /\ UNCHANGED current
  /\ UNCHANGED <<planned, flagged, mpcActive, live, executions, handle, arm, context>>

(* generate_trajectory_callback plans with the planner that was current    *)
(* when it began, and one request at a time.                               *)
BeginPlanning ==
  /\ \A r \in requests : ~ r.begun
  /\ \E r \in requests :
       /\ r.kind = "generate"
       /\ requests' = (requests \ {r}) \cup {[r EXCEPT !.begun = TRUE, !.planner = current]}
  /\ UNCHANGED <<current, planned, flagged, mpcActive, live, executions, handle, answers, arm, context, faults>>

(* _plan_trajectory of each planner, and the goal of MPC: what can come of *)
(* a goal.  A planner that was not meant for it may take it all the same:  *)
(* a request without a pose holds one of zeros.                            *)
ClassicPlan(goal) == {"planned", "failed"}
JointSpacePlan(goal) == IF goal = "joints" THEN {"planned", "failed"} ELSE {"refused"}
MpcPlan(goal) == {"planned", "failed"}
Outcomes(p, goal) ==
  CASE p = "classic" -> ClassicPlan(goal) [] p = "joint_space" -> JointSpacePlan(goal) [] p = "mpc" -> MpcPlan(goal)

(* SinglePlanner.plan and MPCPlanner.plan: the planner holds the plan from *)
(* now on, and then the robot context shows it.  MPC has a goal again.     *)
SetActiveGoal(whose) == planned' = [planned EXCEPT !["mpc"] = whose] /\ mpcActive' = TRUE
Hold(p, whose) == IF p = "mpc" THEN SetActiveGoal(whose)
                  ELSE planned' = [planned EXCEPT ![p] = whose] /\ UNCHANGED mpcActive

(* A plan that fails, or is rejected before it was tried, leaves what the  *)
(* planner held; an exception may also come after the plan was taken.      *)
EndPlanning ==
  /\ \E r \in requests :
       LET whose == IF r.late THEN "old" ELSE r.by IN
       /\ r.begun
       /\ \/ /\ "planned" \in Outcomes(r.planner, r.goal)
             /\ Hold(r.planner, whose)
             /\ \/ Answer(r, TRUE, r.planner) /\ context' = Given(whose) /\ Fine
                \/ Answer(r, FALSE, r.planner) /\ context' \in {context, Given(whose)} /\ Fault
          \/ /\ Answer(r, FALSE, r.planner)
             /\ IF Outcomes(r.planner, r.goal) = {"refused"} THEN Fine ELSE Fault
             /\ UNCHANGED <<planned, mpcActive, context>>
  /\ UNCHANGED <<current, flagged, live, executions, handle, arm>>

(* mpc_goal_callback.  The message is published and taken at once: the     *)
(* goal waits for the MPC thread in any case.  One that is close to the    *)
(* last is ignored.                                                        *)
TakeLiveGoal == live' \in {live, live \/ current = "mpc"}

-----------------------------------------------------------------------------
(* The execution action: execute_callback and what it calls.               *)
Become(e, at) == executions' = [executions EXCEPT ![e].at = at]
Ended(e, ok) ==
  executions' = [executions EXCEPT ![e] = IF @.by = Nobody THEN NoExecution ELSE [@ EXCEPT !.at = "done", !.ok = ok]]

(* Goals have fresh names: one that is free is as good as another.         *)
FreeExecutions == {e \in Executions : executions[e].at = "none"}
NewExecution == CHOOSE e \in FreeExecutions : TRUE
Accepted(e, c) == [executions EXCEPT ![e] = [NoExecution EXCEPT !.at = "accepted", !.by = c]]

(* MPCPlanner.execute: without a goal it ends, and the streaming controller*)
(* has to be active before the loop.                                       *)
StartLoop(e) ==
  \/ /\ planned["mpc"] # "none" /\ SwitchTo("stream")
     /\ executions' = [executions EXCEPT ![e].at = "loop", ![e].planner = "mpc", ![e].follows = planned["mpc"]]
  \/ planned["mpc"] = "none" /\ Ended(e, FALSE) /\ UNCHANGED arm
BeginExecution(e) ==
  /\ executions[e].at = "accepted"
  /\ \/ /\ current # "mpc" /\ SwitchTo("trajectory") /\ Fine
        /\ executions' = [executions EXCEPT ![e].at = "starting", ![e].planner = current]
     \/ current = "mpc" /\ StartLoop(e) /\ Fine
     \/ Ended(e, FALSE) /\ SwitchFails(IF current = "mpc" THEN "stream" ELSE "trajectory")
  /\ UNCHANGED <<current, planned, flagged, mpcActive, live, requests, handle, answers, context>>

(* SinglePlanner.execute: the goal is sent to the arm, or the robot context*)
(* follows what it was given last when the action of the arm is not there. *)
SendPlan(e) ==
  /\ executions[e].at = "starting"
  /\ LET p == executions[e].planner IN
     /\ flagged' = IF planned[p] = "none" THEN flagged ELSE flagged \ {p}
     /\ \/ planned[p] = "none" /\ Ended(e, FALSE) /\ UNCHANGED <<arm, context>> /\ Fine
        \/ /\ planned[p] # "none"
           /\ executions' = [executions EXCEPT ![e].at = "sent", ![e].follows = planned[p]]
           /\ SendToArm(e)
           /\ Fine /\ UNCHANGED <<controller, context>>
        \/ /\ planned[p] # "none"
           /\ executions' = [executions EXCEPT ![e].at = "context"]
           /\ context' = Sent
           /\ Fault /\ UNCHANGED arm
  /\ UNCHANGED <<current, planned, mpcActive, live, requests, handle, answers>>

(* The goal was accepted, and can be cancelled from now on; or rejected.   *)
RegisterGoal(e) ==
  /\ executions[e].at = "sent"
  /\ IF motions[e] = "rejected" THEN Ended(e, FALSE) /\ UNCHANGED handle
     ELSE Become(e, "running") /\ handle' = e
  /\ UNCHANGED <<current, planned, flagged, mpcActive, live, requests, answers, arm, context, faults>>

(* The result: error code 0 is a success.  The handle is dropped, whose    *)
(* ever it is by now.                                                      *)
Succeeded(result) == result \in {"success", "canceled"}
TakeResult(e) ==
  /\ executions[e].at = "running" /\ ~ Moving(e)
  /\ Ended(e, Succeeded(motions[e]))
  /\ handle' = None
  /\ motions' = [motions EXCEPT ![e] = "none"]
  /\ UNCHANGED <<current, planned, flagged, mpcActive, live, requests, answers, controller, context, faults>>

(* The loop that watches the robot context ends when that has come to the  *)
(* end, whoever sent it there, or when the planner was told to cancel.     *)
EndContext(e) ==
  /\ executions[e].at = "context"
  /\ \/ executions[e].planner \in flagged /\ Ended(e, FALSE) /\ Fine /\ UNCHANGED context
     \/ /\ executions[e].planner \notin flagged /\ context.at = "done"
        /\ executions' = [executions EXCEPT ![e] = IF @.by = Nobody THEN NoExecution
                            ELSE [@ EXCEPT !.at = "done", !.ok = TRUE, !.follows = context.command]]
        /\ Fine /\ UNCHANGED context
     \/ Ended(e, FALSE) /\ context' = Halted /\ Fault
  /\ UNCHANGED <<current, planned, flagged, mpcActive, live, requests, handle, answers, arm>>
Stranded(e) == executions[e].at = "context" /\ context.at \in {"rest", "stopped", "error"}

-----------------------------------------------------------------------------
(* MPCPlanner.execute: each iteration looks at is_goal_active, takes a live*)
(* goal, which makes the goal active again, and solves one step.  What it  *)
(* finds goes to the controller, and to the robot context.                 *)
Iterate(e) ==
  /\ executions[e].at = "loop"
  /\ IF mpcActive THEN Become(e, "body") ELSE Ended(e, FALSE)
  /\ UNCHANGED <<current, planned, flagged, mpcActive, live, requests, handle, answers, arm, context, faults>>

Followed(e) == IF live THEN "live" ELSE planned["mpc"]
TakeGoal(e) ==
  /\ live' = FALSE
  /\ IF live THEN SetActiveGoal("live") ELSE UNCHANGED <<planned, mpcActive>>

(* Mutant of Counted: an iteration does not count.                         *)
CountedNever(e) == [executions EXCEPT ![e].at = "loop", ![e].follows = Followed(e)]
(* Another one: it goes one iteration beyond the limit.                    *)
CountedBeyond(e) ==
  IF executions[e].steps < MaxIterations
  THEN [executions EXCEPT ![e].at = "loop", ![e].steps = @ + 1, ![e].follows = Followed(e)]
  ELSE [executions EXCEPT ![e] = IF @.by = Nobody THEN NoExecution ELSE [@ EXCEPT !.at = "done"]]
Counted(e) ==
  IF executions[e].steps + 1 < MaxIterations
  THEN [executions EXCEPT ![e].at = "loop", ![e].steps = @ + 1, ![e].follows = Followed(e)]
  ELSE [executions EXCEPT ![e] = IF @.by = Nobody THEN NoExecution ELSE [@ EXCEPT !.at = "done"]]
Converged(e) ==
  [executions EXCEPT ![e] = IF @.by = Nobody THEN NoExecution
                            ELSE [@ EXCEPT !.at = "done", !.ok = TRUE, !.follows = Followed(e)]]
NearGoal(e) == [executions EXCEPT ![e].at = "handoff", ![e].follows = Followed(e)]
Streamed(e) == context' = Given(Followed(e))
Step(e) ==
  /\ executions[e].at = "body"
  /\ \/ /\ TakeGoal(e)
        /\ \/ executions' \in {Counted(e), Converged(e), NearGoal(e)} /\ Streamed(e) /\ Fine
           \/ Ended(e, FALSE) /\ Streamed(e) /\ Fault                         \* infeasible
           \/ Ended(e, FALSE) /\ context' \in {context, Halted} /\ Fault       \* no command, exception
     \/ Ended(e, FALSE) /\ Fault /\ UNCHANGED <<planned, mpcActive, live, context>>  \* no joint state
  /\ UNCHANGED <<current, flagged, requests, handle, answers, arm>>

(* _execute_mpc_classic_handoff: the classic planner plans the rest to the *)
(* latest goal, in the place of what it held, and executes it.             *)
HandoffGoal == IF live THEN "live" ELSE planned["mpc"]
HandOff(e) ==
  /\ executions[e].at = "handoff"
  /\ \/ /\ planned' = [planned EXCEPT !["classic"] = HandoffGoal]
        /\ context' = Given(HandoffGoal)
        /\ \/ /\ SwitchTo("trajectory") /\ Fine
              /\ executions' = [executions EXCEPT ![e].at = "starting", ![e].planner = "classic"]
           \/ SwitchFails("trajectory") /\ Ended(e, FALSE)
     \/ Ended(e, FALSE) /\ Fault /\ UNCHANGED <<planned, arm, context>>
  /\ UNCHANGED <<current, flagged, mpcActive, live, requests, handle, answers>>

(* cancel_callback: the robot context stops, the planner that is current is*)
(* told, and the arm, when a goal of it is known.                          *)
ArmGoalToCancel == {handle} \ {None}
Canceled(e) ==
  /\ InProgress(e)
  /\ context' = Halted
  /\ flagged' = IF current \in Trajectory THEN flagged \cup {current} ELSE flagged
  /\ mpcActive' = (mpcActive /\ current # "mpc")
  /\ UNCHANGED <<current, planned, live, requests, executions, handle, controller>>

Execution(e) ==
  \/ BeginExecution(e) \/ SendPlan(e) \/ RegisterGoal(e) \/ TakeResult(e) \/ EndContext(e)
  \/ Iterate(e) \/ Step(e) \/ HandOff(e)
PlannerServices == ServeSetPlanner \/ BeginPlanning \/ EndPlanning

PlannerTypeOK ==
  /\ current \in Planners /\ planned \in [Planners -> Plans] /\ flagged \subseteq Trajectory
  /\ mpcActive \in BOOLEAN /\ live \in BOOLEAN
  /\ \A r \in requests : r.kind \in {"set", "generate"} /\ r.by \in Clients /\ r.planner \in Planners \cup {None, Unavailable} /\ r.goal \in {"none", "pose", "joints"}
  /\ \A e \in Executions : executions[e].planner \in Planners \cup {None} /\ executions[e].steps \in 0..MaxIterations - 1
  /\ handle \in Executions \cup {None} /\ controller \in {"trajectory", "stream"}
  /\ motions \in [Goals -> {"none", "running", "success", "failed", "canceled", "rejected"}]
  /\ Cardinality({g \in Goals : Moving(g)}) <= 1
  /\ context.command \in Plans /\ context.at \in {"rest", "running", "done", "stopped", "error"}
  /\ faults \in 0..MaxFaults
=============================================================================
