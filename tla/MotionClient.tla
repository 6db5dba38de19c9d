----------------------------- MODULE MotionClient -----------------------------
(***************************************************************************)
(* One motion at a time: how the thread of a pick-and-place sequence or of *)
(* a benchmark asks for a motion and waits for its end, with a deadline on *)
(* every wait, and the server that moves the arm.                          *)
(*                                                                         *)
(* A goal whose deadline passes is given up but not cancelled: the server  *)
(* may go on with it. Server, controllers and arm are external.            *)
(***************************************************************************)
EXTENDS Naturals

CONSTANTS Places,    \* where a motion can lead: the name of its phase
          Away,      \* anywhere else
          NoGoal
ASSUME PlacesAssumption == Away \notin Places

VARIABLES wait,       \* what the thread waits for
          goal,       \* its last goal, as the server has it
          answer,     \* what the wait ended with
          arm,        \* where the arm stands
          reached,    \* history: the places where it has stood
          abandoned   \* history: a goal was given up while the server had it

clientVars == <<wait, goal, answer, arm, reached, abandoned>>

\* Direct modes plan with cuRobo first and send a trajectory to the controller;
\* the others send a request to MoveGroup or to the hybrid planning manager.
DirectModes == {"direct", "direct_home", "direct_joint", "direct_pose"}
MoveGroupModes == {"strict", "relaxed", "position_only", "home"}
BenchmarkModes == {"joint", "pose_goal", "hybrid_joint", "hybrid_pose"}
Modes == DirectModes \cup MoveGroupModes \cup BenchmarkModes
\* The benchmark takes such a motion that failed for done if the joints match.
CheckedModes == {"joint", "hybrid_joint"}

GoalStates == {"planning", "sent", "running", "rejected", "ok", "failed", "given up"}

ClientTypeOK ==
  /\ wait \in {"idle", "plan", "response", "result", "answered"}
  /\ goal \in [to : Places, mode : Modes, st : GoalStates] \cup {NoGoal}
  /\ answer \in {"none", "yes", "no plan", "no", "failed"}
  /\ arm \in Places \cup {Away}
  /\ reached \in SUBSET Places
  /\ abandoned \in BOOLEAN

ClientInit ==
  /\ wait = "idle" /\ goal = NoGoal /\ answer = "none"
  /\ reached = {arm} \ {Away} /\ abandoned = FALSE

-----------------------------------------------------------------------------
(* The thread asks for a motion: send_goal_async, or a call of the planner *)
(* whose trajectory will be sent.                                          *)
Ask(place, mode) ==
  /\ wait = "idle"
  /\ wait' = IF mode \in DirectModes THEN "plan" ELSE "response"
  /\ goal' = [to |-> place, mode |-> mode, st |-> IF mode \in DirectModes THEN "planning" ELSE "sent"]
  /\ answer' = "none"
  /\ UNCHANGED <<arm, reached, abandoned>>

Answer(a) == wait' = "answered" /\ answer' = a

(* The answer of the planner, or none in time, or a controller that is not *)
(* switched on: without a trajectory nothing is sent.                      *)
PlanArrives ==
  /\ wait = "plan"
  /\ \/ wait' = "response" /\ goal' = [goal EXCEPT !.st = "sent"] /\ UNCHANGED answer
     \/ Answer("no plan") /\ goal' = [goal EXCEPT !.st = "rejected"]
  /\ UNCHANGED <<arm, reached, abandoned>>

(* Mutant of ResponseArrives: an accepted goal is taken for a motion.      *)
ResponseArrivesSatisfied ==
  /\ wait = "response" /\ goal.st # "sent"
  /\ Answer(IF goal.st = "rejected" THEN "no" ELSE "yes")
  /\ UNCHANGED <<goal, arm, reached, abandoned>>
(* The answer to the request: rejected, or accepted and the result is      *)
(* asked for.                                                              *)
ResponseArrives ==
  /\ wait = "response" /\ goal.st # "sent"
  /\ \/ goal.st = "rejected" /\ Answer("no")
     \/ goal.st # "rejected" /\ wait' = "result" /\ UNCHANGED answer
  /\ UNCHANGED <<goal, arm, reached, abandoned>>

(* Mutant of ResultArrives: the error code is not looked at.               *)
ResultArrivesBlindly ==
  /\ wait = "result" /\ goal.st \in {"ok", "failed"}
  /\ Answer("yes")
  /\ UNCHANGED <<goal, arm, reached, abandoned>>
(* The result: success, or failure, unless the mode looks at the joints.   *)
ResultArrives ==
  /\ wait = "result"
  /\ \/ goal.st = "ok" /\ Answer("yes")
     \/ /\ goal.st = "failed"
        /\ Answer(IF goal.mode \in CheckedModes /\ arm = goal.to THEN "yes" ELSE "failed")
  /\ UNCHANGED <<goal, arm, reached, abandoned>>

(* The deadline passes first. Nobody tells the server.                     *)
DeadlinePasses ==
  /\ wait \in {"response", "result"}
  /\ Answer("no")
  /\ abandoned' = (abandoned \/ goal.st \in {"sent", "running"})
  /\ goal' = [goal EXCEPT !.st = "given up"]
  /\ UNCHANGED <<arm, reached>>

(* The thread has its answer and drops the future.                         *)
Forget == wait' = "idle" /\ goal' = NoGoal /\ answer' = "none"
Done == wait = "answered" /\ Forget

-----------------------------------------------------------------------------
(* The server: it accepts a goal or not, and ends it; a motion that fails  *)
(* may have moved the arm, even to the end.                                *)
ServerTakes ==
  /\ goal # NoGoal /\ goal.st = "sent"
  /\ \E st \in {"running", "rejected"} : goal' = [goal EXCEPT !.st = st]
  /\ UNCHANGED <<wait, answer, arm, reached, abandoned>>

ServerEnds ==
  /\ goal # NoGoal /\ goal.st = "running"
  /\ \/ goal' = [goal EXCEPT !.st = "ok"] /\ arm' = goal.to
     \/ goal' = [goal EXCEPT !.st = "failed"] /\ arm' \in {arm, Away, goal.to}
  /\ reached' = IF arm' = goal.to THEN reached \cup {goal.to} ELSE reached
  /\ UNCHANGED <<wait, answer, abandoned>>

(* A goal that was given up moves the arm.                                 *)
AbandonedGoalMoves ==
  /\ abandoned
  /\ arm' = Away
  /\ UNCHANGED <<wait, goal, answer, reached, abandoned>>

Server == ServerTakes \/ ServerEnds \/ AbandonedGoalMoves
Waiting == PlanArrives \/ ResponseArrives \/ ResultArrives \/ DeadlinePasses
=============================================================================
