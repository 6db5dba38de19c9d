---------------------------- MODULE HybridBenchmark ----------------------------
(***************************************************************************)
(* The obstacle benchmark of hybrid planning.  A run brings the arm to its *)
(* start, sends the goal that is measured, and lets a thread put a wall    *)
(* before the arm as soon as it is near: the path must become invalid and  *)
(* be planned again.  The runs share the planner, which may be slow, the   *)
(* topics that say what happened, one record, one event and the name of    *)
(* the wall.                                                               *)
(***************************************************************************)
EXTENDS Naturals, Sequences, SequencesExt

CONSTANTS MaxRuns,    \* --runs
          MaxLost,    \* bound: calls of the planner whose answer comes too late
          MaxForeign  \* bound: plans of a goal that are not asked for because of the wall
ASSUME BoundsAssumption == MaxRuns \in Nat \ {0} /\ MaxLost \in Nat /\ MaxForeign \in Nat

VARIABLES main,      \* run_single_benchmark: where it is, its run, how its goal ended
          spawner,   \* the thread of each run: where it is, its plan, whether it was told
                     \* to stop, and how long after that its step may still last
          record,    \* _active_run
          ready,     \* _global_plan_ready_event
          verdict,   \* what each run is reported as
          calls,     \* calls on their way to the planner
          answers,   \* answers on their way back
          wall,      \* the run whose wall the planner has
          marker,    \* the run whose wall is shown
          goals,     \* goals on their way to the MoveGroup server
          moving,    \* the goal it executes, whether its path is invalid, how often it was
          ended,     \* the last goal that ended, and whether it succeeded
          solutions, \* /global_trajectory
          telemetry, \* hybrid_mpc_telemetry
          lost,      \* calls that were given up
          foreign,   \* runs whose path became invalid although no wall was there
          reaction   \* what the wall of each run has led to

benchmark == <<main, spawner, record, ready, verdict>>
planner == <<calls, answers, wall>>
motion == <<goals, moving, ended>>
topics == <<solutions, telemetry>>
ghosts == <<lost, foreign, reaction>>
vars == <<benchmark, planner, marker, motion, topics, ghosts>>

Runs == 1..MaxRuns
None == 0
Leftover == MaxRuns + 1   \* of a process that was killed
NoGoal == <<None, "none">>
NoRecord == [run |-> None, plans |-> <<>>, reference |-> NoGoal, planned |-> None, spawned |-> None,
             invalidated |-> {}, sampling |-> FALSE, near |-> FALSE]

(* In quarters of a second: how long a step of the thread lasts when the   *)
(* planner and the service for forward kinematics are as slow as they may: *)
(* the slice of a wait, five calls with 0.75 s for the service and 1 s for *)
(* the answer, the period of the poll, and the timeouts of the add and of  *)
(* the measurement.                                                        *)
Lasts(step) ==
  CASE step = "plan" -> 1 [] step = "resolve" -> 35 [] step = "look" -> 1
    [] step = "adding" -> 40 [] step = "measure" -> 4 [] OTHER -> 0
(* Mutant of JoinTimeout: the timeout of the add.                          *)
JoinTimeoutOfAdd == 40
JoinTimeout == 48

Ended == [at |-> "done", plan |-> NoGoal, stop |-> FALSE, late |-> 0]
Unfinished == [goal |-> NoGoal, ok |-> FALSE]

Init ==
  /\ main = [at |-> "new", run |-> None, ok |-> FALSE]
  /\ spawner = [r \in Runs |-> [at |-> "none", plan |-> NoGoal, stop |-> FALSE, late |-> 0]]
  /\ record = NoRecord /\ ready = FALSE
  /\ verdict = [r \in Runs |-> "none"]
  /\ calls = {} /\ answers = {}
  /\ wall \in {None, Leftover} /\ marker = wall
  /\ goals = <<>> /\ moving = [goal |-> NoGoal, hit |-> FALSE, hits |-> 0] /\ ended = Unfinished
  /\ solutions = <<>> /\ telemetry = <<>>
  /\ lost = 0 /\ foreign = {}
  /\ reaction = [r \in Runs |-> "none"]

-----------------------------------------------------------------------------
(* The main thread.                                                        *)
Call(kind, r, when) == [kind |-> kind, run |-> r, when |-> when]
Lose == lost < MaxLost /\ lost' = lost + 1
Hide == marker' = None
Show(r) == marker' = r
Goal(m) == <<m.run, IF m.at = "starting" THEN "start" ELSE "measured">>

(* _clear_obstacle: a call to remove the wall, and its end.                *)
Clear(m, when) ==
  /\ main' = [m EXCEPT !.at = when]
  /\ calls' = calls \cup {Call("remove", m.run, when)}

(* wait_until_ready                                                        *)
BeginRuns ==
  /\ main.at = "new"
  /\ \/ Clear([main EXCEPT !.run = 1], "clear")
     \/ main' = [main EXCEPT !.at = "done"] /\ UNCHANGED calls
  /\ UNCHANGED <<spawner, record, ready, verdict, answers, wall, marker, motion, topics, ghosts>>

(* What a run reports.  A run whose start failed has no record.            *)
(* Mutant of Passed: the number of plans is taken for a sign of the wall.  *)
PassedOnReplan == main.ok /\ record.spawned # None /\ Len(record.plans) > 1
Passed == main.ok /\ record.spawned # None /\ record.invalidated # {} /\ Len(record.plans) > 1
Report == IF Passed THEN "pass" ELSE "fail"

(* The outcome of the removal is not looked at.                            *)
Cleared ==
  LET call == Call("remove", main.run, main.at) IN
  /\ main.at \in {"clear", "clearFailed", "clearAfter"}
  /\ \/ /\ [call |-> call, ok |-> TRUE] \in answers
        /\ answers' = answers \ {[call |-> call, ok |-> TRUE]}
        /\ UNCHANGED lost
     \/ call \in calls /\ Lose /\ UNCHANGED answers
  /\ Hide
  /\ IF main.at = "clear"
     THEN /\ goals' = Append(goals, <<main.run, "start">>)
          /\ main' = [main EXCEPT !.at = "starting"]
          /\ UNCHANGED <<record, ready, verdict>>
     ELSE /\ verdict' = [verdict EXCEPT ![main.run] = Report]
          /\ record' = NoRecord /\ ready' = FALSE
          /\ main' = [main EXCEPT !.at = "next"]
          /\ UNCHANGED goals
  /\ UNCHANGED <<spawner, calls, wall, moving, ended, topics, foreign, reaction>>

(* Mutant of Stopped: the thread is not told if the motion failed.         *)
StoppedOnSuccess(s, ok) == IF ok /\ s # Ended THEN [s EXCEPT !.stop = TRUE, !.late = Lasts(s.at)] ELSE s
Stopped(s, ok) == IF s # Ended THEN [s EXCEPT !.stop = TRUE, !.late = Lasts(s.at)] ELSE s

Reached(goal) == ended = [goal |-> goal, ok |-> TRUE]

(* The goal ended, or was not accepted or did not end in time; the first   *)
(* one leads to the measured goal, the second to the end of the thread.    *)
GoalOver ==
  /\ main.at \in {"starting", "moving"}
  /\ \E ok \in BOOLEAN :
       /\ ok => Reached(Goal(main))
       /\ IF main.at = "moving"
          THEN /\ main' = [main EXCEPT !.at = "join", !.ok = ok]
               /\ spawner' = [spawner EXCEPT ![main.run] = Stopped(@, ok)]
               /\ record' = [record EXCEPT !.sampling = FALSE]
               /\ UNCHANGED calls
          ELSE /\ IF ok THEN main' = [main EXCEPT !.at = "settle"] /\ UNCHANGED calls
                  ELSE Clear([main EXCEPT !.ok = FALSE], "clearFailed")
               /\ UNCHANGED <<spawner, record>>
  /\ ended' = Unfinished
  /\ UNCHANGED <<ready, verdict, answers, wall, marker, goals, moving, topics, ghosts>>

(* What was said of the goal before has arrived after a second: the        *)
(* assumption of the settle time on the topics.                            *)
(* Mutant of Settled: nobody waits for it.                                 *)
SettledAtOnce == TRUE
Settled == solutions = <<>> /\ telemetry = <<>>
(* _start_run_record; the thread is started before the goal is sent.       *)
Measure ==
  /\ main.at = "settle" /\ Settled
  /\ main' = [main EXCEPT !.at = "moving"]
  /\ record' = [NoRecord EXCEPT !.run = main.run, !.sampling = TRUE] /\ ready' = FALSE
  /\ spawner' = [spawner EXCEPT ![main.run].at = "plan"]
  /\ goals' = Append(goals, <<main.run, "measured">>)
  /\ UNCHANGED <<verdict, planner, marker, moving, ended, topics, ghosts>>

(* The join gives up only if the thread may last longer than its timeout.  *)
Join ==
  /\ main.at = "join"
  /\ spawner[main.run].at = "done" \/ spawner[main.run].late > JoinTimeout
  /\ Clear(main, "clearAfter")
  /\ UNCHANGED <<spawner, record, ready, verdict, answers, wall, marker, motion, topics, ghosts>>

NextRun ==
  /\ main.at = "next"
  /\ IF main.run < MaxRuns
     THEN Clear([main EXCEPT !.run = @ + 1, !.ok = FALSE], "clear")
     ELSE main' = [main EXCEPT !.at = "done"] /\ UNCHANGED calls
  /\ UNCHANGED <<spawner, record, ready, verdict, answers, wall, marker, motion, topics, ghosts>>

-----------------------------------------------------------------------------
(* The thread of a run: _spawn_obstacle_on_clearance_trigger.              *)
Step(s, next) ==
  IF next = "done" THEN Ended ELSE [s EXCEPT !.at = next, !.late = IF s.stop THEN @ + Lasts(next) ELSE 0]
Recording == record.run # None
Thread(r) == spawner[r].at
Goes(r, next) == spawner' = [spawner EXCEPT ![r] = Step(@, next)]

(* _wait_for_initial_global_plan: of the active record, or none in time.   *)
PlanSeen(r) ==
  /\ Thread(r) = "plan"
  /\ \/ /\ ready /\ record.reference # NoGoal
        /\ spawner' = [spawner EXCEPT ![r] = [Step(@, "resolve") EXCEPT !.plan = record.reference]]
     \/ Goes(r, "done")
  /\ UNCHANGED <<main, record, ready, verdict, planner, marker, motion, topics, ghosts>>

(* resolve_obstacle_placement, which fails if a call for forward           *)
(* kinematics does, or if the path is too short or stands still.           *)
Resolve(r) ==
  /\ Thread(r) = "resolve"
  /\ \/ Goes(r, "check") /\ record' = IF Recording THEN [record EXCEPT !.planned = r] ELSE record
     \/ Goes(r, "done") /\ UNCHANGED record
  /\ UNCHANGED <<main, ready, verdict, planner, marker, motion, topics, ghosts>>

Check(r) ==
  /\ Thread(r) = "check"
  /\ Goes(r, IF spawner[r].stop THEN "done" ELSE "look")
  /\ UNCHANGED <<main, record, ready, verdict, planner, marker, motion, topics, ghosts>>

(* _measure_current_robot_clearance, of a sample that may be too old.      *)
Look(r) ==
  /\ Thread(r) = "look"
  /\ \/ record.near /\ Goes(r, "adding") /\ calls' = calls \cup {Call("add", r, "adding")}
     \/ Goes(r, "check") /\ UNCHANGED calls
  /\ UNCHANGED <<main, record, ready, verdict, answers, wall, marker, motion, topics, ghosts>>

(* A wall that was added is measured before it is recorded.                *)
Added(r) ==
  LET call == Call("add", r, "adding") IN
  /\ Thread(r) = "adding"
  /\ \/ \E ok \in BOOLEAN :
          /\ [call |-> call, ok |-> ok] \in answers
          /\ answers' = answers \ {[call |-> call, ok |-> ok]}
          /\ Goes(r, IF ok THEN "measure" ELSE "done")
          /\ IF ok THEN UNCHANGED marker ELSE Hide
          /\ UNCHANGED lost
     \/ call \in calls /\ Lose /\ Hide /\ Goes(r, "done") /\ UNCHANGED answers
  /\ UNCHANGED <<main, record, ready, verdict, calls, wall, motion, topics, foreign, reaction>>

Spawned(r) ==
  /\ Thread(r) = "measure"
  /\ Goes(r, "done")
  /\ record' = IF Recording THEN [record EXCEPT !.spawned = r] ELSE record
  /\ Show(r)
  /\ UNCHANGED <<main, ready, verdict, planner, motion, topics, ghosts>>

-----------------------------------------------------------------------------
(* The callbacks of the node.  Of the plans two are enough to be counted,  *)
(* and the first one is the reference.                                     *)
Planned(rec, goal) ==
  [rec EXCEPT !.plans = IF Len(@) < 2 THEN Append(@, goal) ELSE @,
              !.reference = IF @ = NoGoal THEN goal ELSE @]
OnGlobalSolution ==
  /\ solutions # <<>>
  /\ solutions' = Tail(solutions)
  /\ IF Recording
     THEN record' = Planned(record, Head(solutions)) /\ ready' = (ready \/ record.reference = NoGoal)
     ELSE UNCHANGED <<record, ready>>
  /\ UNCHANGED <<main, spawner, verdict, planner, marker, motion, telemetry, ghosts>>

PathInvalidated(rec, goal) == [rec EXCEPT !.invalidated = @ \cup {goal}]
OnTelemetry ==
  /\ telemetry # <<>>
  /\ telemetry' = Tail(telemetry)
  /\ record' = IF Recording THEN PathInvalidated(record, Head(telemetry)) ELSE record
  /\ UNCHANGED <<main, spawner, ready, verdict, planner, marker, motion, solutions, ghosts>>

(* The spheres of the robot, against the wall as it is planned: the arm    *)
(* comes near.  That it is still far is the other outcome of Look.         *)
Sampling == record.sampling /\ record.planned # None
OnCollisionSpheres ==
  /\ Sampling
  /\ ~ record.near /\ record' = [record EXCEPT !.near = TRUE]
  /\ UNCHANGED <<main, spawner, ready, verdict, planner, marker, motion, topics, ghosts>>

-----------------------------------------------------------------------------
(* The planner serves one call at a time, in any order.  A name is added   *)
(* once, and removing what is not there succeeds for the benchmark.        *)
Awaited(c) ==
  IF c.kind = "add" THEN Thread(c.run) = "adding" ELSE main.run = c.run /\ main.at = c.when
Serve(c) ==
  /\ c \in calls
  /\ calls' = calls \ {c}
  /\ \E ok \in BOOLEAN :
       /\ c.kind = "add" => (ok => wall = None)
       /\ c.kind = "remove" => ok
       /\ wall' = IF c.kind = "remove" THEN None ELSE IF ok THEN c.run ELSE wall
       /\ answers' = IF Awaited(c) THEN answers \cup {[call |-> c, ok |-> ok]} ELSE answers
  /\ UNCHANGED <<benchmark, marker, motion, topics, ghosts>>

(* The MoveGroup server: a goal replaces the one before.  Its path is      *)
(* published, or it ends without one.                                      *)
Still == [goal |-> NoGoal, hit |-> FALSE, hits |-> 0]
Accept ==
  /\ goals # <<>>
  /\ goals' = Tail(goals)
  /\ \/ /\ moving' = [Still EXCEPT !.goal = Head(goals)]
        /\ solutions' = Append(solutions, Head(goals))
        /\ UNCHANGED ended
     \/ moving' = Still /\ ended' = [goal |-> Head(goals), ok |-> FALSE] /\ UNCHANGED solutions
  /\ UNCHANGED <<benchmark, planner, marker, telemetry, ghosts>>

(* The wall makes the path invalid, or MPC makes no progress, or something *)
(* else that moves is in the way.                                          *)
Invalidate ==
  LET r == moving.goal[1] IN
  /\ moving.goal # NoGoal /\ ~ moving.hit /\ moving.hits < 1 + MaxForeign
  /\ moving' = [moving EXCEPT !.hit = TRUE, !.hits = @ + 1]
  /\ telemetry' = Append(telemetry, moving.goal)
  /\ IF wall # None
     THEN /\ reaction' = IF wall = r /\ reaction[r] = "none" THEN [reaction EXCEPT ![r] = "invalidated"] ELSE reaction
          /\ UNCHANGED foreign
     ELSE r \notin foreign /\ foreign' = foreign \cup {r} /\ UNCHANGED reaction
  /\ UNCHANGED <<benchmark, planner, marker, goals, ended, solutions, lost>>

Replan ==
  LET r == moving.goal[1] IN
  /\ moving.hit
  /\ moving' = [moving EXCEPT !.hit = FALSE]
  /\ solutions' = Append(solutions, moving.goal)
  /\ reaction' = IF reaction[r] = "invalidated" THEN [reaction EXCEPT ![r] = "replanned"] ELSE reaction
  /\ UNCHANGED <<benchmark, planner, marker, goals, ended, telemetry, lost, foreign>>

(* The local planner is stuck, and asks for another plan.                  *)
Stuck ==
  /\ moving.goal # NoGoal /\ ~ moving.hit /\ moving.hits < 1 + MaxForeign
  /\ moving' = [moving EXCEPT !.hits = @ + 1]
  /\ solutions' = Append(solutions, moving.goal)
  /\ UNCHANGED <<benchmark, planner, marker, goals, ended, telemetry, ghosts>>

EndMotion ==
  /\ moving.goal # NoGoal
  /\ \E ok \in BOOLEAN :
       /\ ok => ~ moving.hit
       /\ ended' = [goal |-> moving.goal, ok |-> ok]
  /\ moving' = Still
  /\ UNCHANGED <<benchmark, planner, marker, goals, topics, ghosts>>

-----------------------------------------------------------------------------
MainStep == BeginRuns \/ Cleared \/ GoalOver \/ Measure \/ Join \/ NextRun
ThreadStep(r) == PlanSeen(r) \/ Resolve(r) \/ Check(r) \/ Look(r) \/ Added(r) \/ Spawned(r)
Callback == OnGlobalSolution \/ OnTelemetry
Next ==
  \/ MainStep
  \/ \E r \in Runs : ThreadStep(r)
  \/ Callback \/ OnCollisionSpheres
  \/ \E c \in calls : Serve(c)
  \/ Accept \/ Invalidate \/ Replan \/ Stuck \/ EndMotion

(* The threads run, messages arrive, the planner serves its calls, and the *)
(* waits have timeouts.                                                    *)
Fairness ==
  /\ WF_vars(MainStep) /\ WF_vars(Callback)
  /\ \A r \in Runs : WF_vars(ThreadStep(r))
  /\ WF_vars(\E c \in calls : Serve(c))
Spec == Init /\ [][Next]_vars /\ Fairness

-----------------------------------------------------------------------------
GoalIds == {NoGoal} \cup (Runs \X {"start", "measured"})
TypeOK ==
  /\ main.at \in {"new", "clear", "starting", "settle", "moving", "join", "clearAfter", "clearFailed", "next", "done"}
  /\ main.run \in 0..MaxRuns /\ main.ok \in BOOLEAN
  /\ \A r \in Runs : /\ Thread(r) \in {"none", "plan", "resolve", "check", "look", "adding", "measure", "done"}
                     /\ spawner[r].plan \in GoalIds /\ spawner[r].late <= JoinTimeout
  /\ record.run \in 0..MaxRuns /\ record.reference \in GoalIds /\ Range(record.plans) \subseteq GoalIds
  /\ wall \in 0..Leftover /\ marker \in 0..Leftover
  /\ moving.goal \in GoalIds /\ ended.goal \in GoalIds
  /\ \A c \in calls : c.run \in Runs /\ c.kind \in {"add", "remove"}

(* What the record of a run holds was said of its own goal and done by its *)
(* own thread, which has taken its own plan, and no thread outlives its    *)
(* run.  If every call was answered in time no wall, and no marker, is     *)
(* left when a run begins to move or ends.                                 *)
Own(goal) == goal \in {NoGoal, <<main.run, "measured">>}
RunsDoNotMix ==
  /\ \A i \in DOMAIN record.plans : Own(record.plans[i])
  /\ \A goal \in record.invalidated : Own(goal)
  /\ record.planned \in {None, record.run} /\ record.spawned \in {None, record.run}
  /\ \A r \in Runs :
       /\ Thread(r) \notin {"none", "done"} => r = main.run /\ Own(spawner[r].plan)
       /\ main.at \in {"clearAfter", "next"} => Thread(r) \in {"none", "done"}
  /\ lost = 0 /\ main.at \in {"starting", "settle", "next"} => wall = None /\ marker = None

(* A run that passes has shown what it is for: its own wall made the path  *)
(* invalid, and then it was planned again; unless the path was invalid     *)
(* without it already, or a call of the benchmark was served too late.     *)
PassMeansReaction ==
  \A r \in Runs : verdict[r] = "pass" => \/ reaction[r] = "replanned"
                                        \/ r \in foreign \/ lost > 0

(* Every run is reported, however slow planner and server are, and no      *)
(* thread stays behind.                                                    *)
RunsAreReported == <>(main.at = "done" /\ \A r \in Runs : Thread(r) \in {"none", "done"})

=============================================================================
