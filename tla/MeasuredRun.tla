----------------------------- MODULE MeasuredRun -----------------------------
(***************************************************************************)
(* One measured run: the runner starts the recorders and the task, waits   *)
(* for its end, stops the recorders one after the other and writes a row.  *)
(***************************************************************************)
EXTENDS MeasuredTask, MetricsRecorder

ASSUME RunAssumption ==
  /\ Phases \in Seq(Places) /\ Len(Phases) > 0
  /\ \A i \in DOMAIN Phases :
       Phases[i] # "start_state" /\ \A j \in DOMAIN Phases : Phases[i] = Phases[j] => i = j
  /\ {"start_state", "movement"} \subseteq Places
  /\ Recorded = Places

VARIABLES stage,     \* what the runner does
          late,      \* the run took longer than the runner allows
          row,       \* per phase: "true", "false" or ""
          verdict    \* the run counts as a success

runnerVars == <<stage, late, row, verdict>>
vars == <<clientVars, taskVars, recorderVars, runnerVars>>

Stages == {"idle", "measuring", "stopping trajectory", "stopping joint", "writing", "done"}
Blank == [p \in Places |-> ""]

TypeOK ==
  /\ TaskTypeOK /\ RecorderTypeOK
  /\ stage \in Stages /\ late \in BOOLEAN /\ verdict \in BOOLEAN
  /\ row \in [Places -> {"true", "false", ""}]

Init ==
  /\ TaskInit /\ RecorderInit
  /\ stage = "idle" /\ late = FALSE /\ row = Blank /\ verdict = FALSE

-----------------------------------------------------------------------------
(* The recorders are launched and given half a second; the task starts     *)
(* whether they are ready or not.                                          *)
StartRun ==
  /\ stage = "idle"
  /\ stage' = "measuring" /\ pc' = "ready"
  /\ rec' = [r \in Recorders |-> [Idle EXCEPT !.st = "launched"]]
  /\ UNCHANGED <<clientVars, task, backend, at, calls, rungs, retries, log, exit,
                 stopFile, late, row, verdict>>

(* The task has ended. Only pick and place looks at the clock as well.     *)
TaskSeen ==
  /\ stage = "measuring" /\ exit # "none"
  /\ stage' = "stopping trajectory"
  /\ late' \in (IF task = "pick_and_place" THEN BOOLEAN ELSE {FALSE})
  /\ stopFile' = [stopFile EXCEPT !["trajectory"] = TRUE]
  /\ UNCHANGED <<clientVars, taskVars, rec, row, verdict>>

(* Mutant of Collected: the output is waited for without a deadline.       *)
CollectedPatiently(r) == rec[r].st = "stopped" /\ UNCHANGED rec
(* A recorder has printed and ended, or has not within ten seconds.        *)
Collected(r) ==
  \/ rec[r].st = "stopped" /\ UNCHANGED rec
  \/ rec[r].st # "stopped" /\ rec' = [rec EXCEPT ![r] = [Idle EXCEPT !.st = "killed"]]

CollectTrajectory ==
  /\ stage = "stopping trajectory" /\ Collected("trajectory")
  /\ stage' = "stopping joint"
  /\ stopFile' = [stopFile EXCEPT !["joint"] = TRUE]
  /\ UNCHANGED <<clientVars, taskVars, late, row, verdict>>

CollectJoint ==
  /\ stage = "stopping joint" /\ Collected("joint")
  /\ stage' = "writing"
  /\ UNCHANGED <<clientVars, taskVars, stopFile, late, row, verdict>>

(* What the trajectory recorder printed; nothing if it was killed.         *)
Printed == rec["trajectory"].st = "stopped"
Segments == IF Printed THEN rec["trajectory"].segs ELSE Idle.segs
AllSucceeded ==
  /\ \E p \in Places : Segments[p] # "none"
  /\ \A p \in Places : Segments[p] # "false"

RunSuccess ==
  /\ exit = "0"
  /\ IF task = "pick_and_place" THEN ~late ELSE AllSucceeded

FirstIncompletePhase ==
  LET incomplete == {i \in DOMAIN Phases : Segments[Phases[i]] # "true"}
  IN IF incomplete = {} THEN None
     ELSE Phases[CHOOSE i \in incomplete : \A j \in incomplete : i <= j]

(* Mutant of FailedPhase: only a phase the recorder saw fail is named.     *)
FailedPhaseRecorded ==
  IF Printed /\ task # "simple_motion" THEN rec["trajectory"].failed ELSE None
FailedPhase ==
  LET failed == IF Printed THEN rec["trajectory"].failed ELSE None
  IN IF task = "simple_motion" THEN None
     ELSE IF failed = None /\ ~RunSuccess THEN FirstIncompletePhase ELSE failed

WriteRow ==
  /\ stage = "writing"
  /\ stage' = "done" /\ verdict' = RunSuccess
  /\ row' = [p \in Places |-> IF Segments[p] # "none" THEN Segments[p]
                             ELSE IF p = FailedPhase THEN "false" ELSE ""]
  /\ UNCHANGED <<clientVars, taskVars, recorderVars, late>>

Runner == StartRun \/ TaskSeen \/ CollectTrajectory \/ CollectJoint \/ WriteRow

-----------------------------------------------------------------------------
(* MaxLag bounds how far the task is ahead of a recorder.                  *)
TaskStep == /\ (KeepsUp /\ Drive) \/ Motion \/ ArmArrives \/ TimeoutKills
            /\ UNCHANGED <<recorderVars, runnerVars>>
RecorderStep == Record /\ UNCHANGED <<clientVars, task, backend, at, pc, calls, rungs,
                                      retries, exit, runnerVars>>

Next == TaskStep \/ RecorderStep \/ Runner

(* The runner is not stopped, and `timeout` ends the task whatever it and  *)
(* the arm do. Nothing is assumed of the recorders.                        *)
Fairness ==
  /\ WF_vars(Runner)
  /\ WF_vars(TimeoutKills /\ UNCHANGED <<recorderVars, runnerVars>>)

Spec == Init /\ [][Next]_vars /\ Fairness

-----------------------------------------------------------------------------
Finished == stage = "done"
Complete(r) == rec[r].st = "stopped" /\ ~rec[r].lost

(* A phase that the table calls a success has been one: the arm came to    *)
(* its place, whatever events were lost, whenever the timeout struck and   *)
(* however late an answer was. A run that counts as a success exited with  *)
(* 0 and, of a benchmark, was recorded.                                    *)
RowNeverFlatters ==
  Finished =>
    /\ \A p \in Places : row[p] = "true" => p \in reached
    /\ verdict => /\ exit = "0"
                  /\ task = "simple_motion" => row["movement"] = "true"

(* When the recorder of the trajectory missed nothing, the row of a        *)
(* pick-and-place run tells how far it came: the phases before the one     *)
(* where it ended succeeded, that one alone failed, and the later ones are *)
(* blank, also when the sequence stopped between two phases.               *)
RowBlamesTheFailure ==
  (Finished /\ task = "pick_and_place" /\ Complete("trajectory")) =>
    \A i \in DOMAIN Steps : row[Steps[i]] = CASE i < at -> "true"
                                              [] i = at -> "false"
                                              [] OTHER -> ""

(* Two recorders that missed nothing have segments for the same phases, so *)
(* a row never has the outcome of a phase without its joint movement.      *)
RecordersAgree ==
  (Complete("trajectory") /\ Complete("joint")) =>
    \A p \in Places : (rec["trajectory"].segs[p] = "none") = (rec["joint"].segs[p] = "none")

(* Of recorders that missed nothing, the row and the segments are right.   *)
RecordersTellTheRun == RowBlamesTheFailure /\ RecordersAgree

(* Unless a goal was given up on its deadline while the server had it, the *)
(* arm stands where the phase that was just finished leads when the next   *)
(* one is started or the gripper is closed or opened.                      *)
StandsWhereItThinks ==
  (~abandoned /\ pc \in {"between", "ended"} /\ at > 1) => arm = Steps[at - 1]

(* A run ends and leaves a row, though a failed sequence never exits, no   *)
(* server need answer, and a recorder that starts late removes the file    *)
(* that would have stopped it.                                             *)
RunsEnd == (stage = "measuring") ~> Finished
=============================================================================
