----------------------------- MODULE RobotContext -----------------------------
(***************************************************************************)
(* The robot context of the unified planner, with the emulator as its      *)
(* strategy.  Every planner gives it what it plans, so that it can be seen,*)
(* and an execution that finds no action of the arm has it move.  There is *)
(* one command for all of them: the emulator reads it point by point while *)
(* it moves, and whoever watches the progress does not know whose it is.   *)
(***************************************************************************)
VARIABLE context   \* the command of the robot strategy, and its progress

(* EmulatorStrategy.__init__: nothing is commanded and nothing progresses. *)
Fresh == [command |-> "none", at |-> "rest", replaced |-> FALSE]

(* RobotContext.__init__, and what a planner has given it since.           *)
ContextInit(whose) == context = [Fresh EXCEPT !.command = whose]

(* set_command: the command is replaced, also while the emulator moves.    *)
Given(whose) == [context EXCEPT !.command = whose, !.replaced = context.at = "running"]

(* send_trajectrory: an earlier motion ends for the new one; without a     *)
(* command the progress is complete at once.                               *)
Sent == IF context.command = "none" THEN [context EXCEPT !.at = "done"]
        ELSE [context EXCEPT !.at = "running", !.replaced = FALSE]

(* stop_robot: the command is dropped and the progress goes back to 0.     *)
Halted == [Fresh EXCEPT !.at = "stopped"]

(* _execute_trajectory: to the end, or beyond the end of a command that was*)
(* replaced by a shorter one, which is an error.                           *)
RunEmulator ==
  /\ context.at = "running"
  /\ \/ context' = [context EXCEPT !.at = "done", !.replaced = FALSE]
     \/ context.replaced /\ context' = [context EXCEPT !.at = "error", !.replaced = FALSE]

(* set_robot_strategy_callback: the strategy is stopped, and the one that  *)
(* select_strategy makes takes its place, if there is one of that name; the*)
(* strategy that is selected already goes on.                              *)
Selected == {Fresh, Halted}
SwitchStrategy == context' \in Selected \cup {context}
=============================================================================
