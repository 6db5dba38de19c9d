--------------------------- MODULE MetricsRecorder ---------------------------
(***************************************************************************)
(* The recorders of a measured run: processes that are started beside the  *)
(* task, follow the events it publishes and print what they saw when a     *)
(* file tells them to stop. Nobody waits for a recorder to be subscribed,  *)
(* and the events published before are gone.                               *)
(***************************************************************************)
EXTENDS Naturals, MetricsTopic

CONSTANTS Recorded,   \* the phases that can be recorded
          None,
          MaxLag      \* bound: events a recorder that is subscribed can be behind
ASSUME RecorderAssumption == None \notin Recorded /\ MaxLag \in Nat \ {0}

Recorders == {"trajectory", "joint"}

VARIABLES rec,        \* the recorders
          stopFile    \* the file that stops each one

recorderVars == <<rec, stopFile>>

Process == {"none", "launched", "booting", "running", "stopped", "killed"}
Idle == [st |-> "none", cursor |-> 0, lost |-> FALSE, open |-> None,
         segs |-> [p \in Recorded |-> "none"], failed |-> None]

RecorderTypeOK ==
  /\ rec \in [Recorders -> [st : Process, cursor : Nat, lost : BOOLEAN,
                            open : Recorded \cup {None},
                            segs : [Recorded -> {"none", "true", "false"}],
                            failed : Recorded \cup {None}]]
  /\ stopFile \in [Recorders -> BOOLEAN]
  /\ \A r \in Recorders : rec[r].cursor <= Len(log)

RecorderInit ==
  /\ rec = [r \in Recorders |-> Idle]
  /\ \E left \in BOOLEAN : stopFile = [r \in Recorders |-> left]   \* by an earlier run

-----------------------------------------------------------------------------
(* What a recorder makes of an event. The first phase that failed stays    *)
(* the failed one.                                                         *)
Close(m, result) ==
  [m EXCEPT !.open = None, !.segs[m.open] = result,
            !.failed = IF result = "false" /\ @ = None THEN m.open ELSE @]

Open(m, p) == [m EXCEPT !.open = p]

(* Of the trajectory: an open phase is interrupted by the start of another *)
(* one, a repeated start is ignored, and an end without a start is a       *)
(* segment of its own.                                                     *)
TrajectoryStart(m, p) ==
  IF m.open = p THEN m
  ELSE Open(IF m.open = None THEN m ELSE Close(m, "false"), p)

TrajectoryEnd(m, p, ok) ==
  IF m.open \notin {p, None} THEN m
  ELSE Close(Open(m, p), IF ok THEN "true" ELSE "false")

(* Of the joints: only how far they moved, whatever the outcome.           *)
JointStart(m, p) == Open(IF m.open = None THEN m ELSE Close(m, "true"), p)
JointEnd(m, p) == IF m.open = p THEN Close(m, "true") ELSE m

SetupFailed(m, p) == [m EXCEPT !.failed = p]

OnEvent(r, m, e) ==
  CASE e.ev = "start" -> IF r = "trajectory" THEN TrajectoryStart(m, e.phase)
                                             ELSE JointStart(m, e.phase)
    [] e.ev = "end" -> IF r = "trajectory" THEN TrajectoryEnd(m, e.phase, e.ok)
                                           ELSE JointEnd(m, e.phase)
    [] OTHER -> IF r = "trajectory" THEN SetupFailed(m, e.phase) ELSE m

(* The phase that is open when the recorder stops.                         *)
OnStop(r, m) ==
  IF m.open = None THEN m ELSE Close(m, IF r = "trajectory" THEN "false" ELSE "true")

-----------------------------------------------------------------------------
(* The shell of the recorder removes the stop file, then starts the node.  *)
Boot(r) ==
  /\ rec[r].st = "launched"
  /\ rec' = [rec EXCEPT ![r].st = "booting"]
  /\ stopFile' = [stopFile EXCEPT ![r] = FALSE]
  /\ UNCHANGED log

Subscribe(r) ==
  /\ rec[r].st = "booting"
  /\ rec' = [rec EXCEPT ![r].st = "running", ![r].cursor = Len(log), ![r].lost = Len(log) > 0]
  /\ UNCHANGED <<log, stopFile>>

Deliver(r) ==
  /\ rec[r].st = "running" /\ rec[r].cursor < Len(log)
  /\ LET m == [rec[r] EXCEPT !.cursor = @ + 1]
     IN rec' = [rec EXCEPT ![r] = OnEvent(r, m, log[m.cursor])]
  /\ UNCHANGED <<log, stopFile>>

(* It sees the file, goes on for half a second, which need not be enough   *)
(* for what is under way, and prints.                                      *)
Stop(r) ==
  /\ rec[r].st = "running" /\ stopFile[r]
  /\ LET m == [rec[r] EXCEPT !.st = "stopped", !.lost = @ \/ rec[r].cursor < Len(log)]
     IN rec' = [rec EXCEPT ![r] = OnStop(r, m)]
  /\ UNCHANGED <<log, stopFile>>

Record == \E r \in Recorders : Boot(r) \/ Subscribe(r) \/ Deliver(r) \/ Stop(r)

KeepsUp == \A r \in Recorders : rec[r].st = "running" => Len(log) - rec[r].cursor < MaxLag
=============================================================================
