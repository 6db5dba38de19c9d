------------------------- MODULE HybridBenchmark_proofs -------------------------
(***************************************************************************)
(* Why the runs of the obstacle benchmark do not mix, whatever the planner *)
(* and the server do in between, and why a run that passes has shown a     *)
(* reaction to its own wall.                                               *)
(*                                                                         *)
(* The thread of a run has ended when the run does: once it is told to     *)
(* stop it can go through at most 45 quarters of a second of calls and     *)
(* waits, and the join waits for 48.  So the record that is open belongs   *)
(* to the run of the only thread that is alive.  The goals are sent one    *)
(* after the other, and a goal that replaces another one is a later one:   *)
(* once the start of a run was reached nothing older is on its way, and    *)
(* what the topics still say of it is heard before the record opens.       *)
(***************************************************************************)
EXTENDS HybridBenchmark, TLAPS

Places == {"new", "clear", "starting", "settle", "moving", "join", "clearAfter", "clearFailed",
           "next", "done"}
Steps == {"none", "plan", "resolve", "check", "look", "adding", "measure", "done"}
SentGoals == Runs \X {"start", "measured"}
Clearing == {"clear", "clearFailed", "clearAfter"}
CallIds == [kind : {"add"}, run : Runs, when : {"adding"}]
           \cup [kind : {"remove"}, run : Runs, when : Clearing]

(* The values of the variables.                                            *)
ThreadStates == [at : Steps, plan : GoalIds, stop : BOOLEAN, late : Nat]
Records == [run : 0..MaxRuns, plans : Seq(GoalIds), reference : GoalIds, planned : 0..MaxRuns,
            spawned : 0..MaxRuns, invalidated : SUBSET GoalIds, sampling : BOOLEAN, near : BOOLEAN]
BenchmarkTypes ==
  /\ main \in [at : Places, run : 0..MaxRuns, ok : BOOLEAN]
  /\ main.at \notin {"new", "done"} => main.run \in Runs
  /\ main.at = "new" => main.run = 0
  /\ spawner \in [Runs -> ThreadStates]
  /\ record \in Records /\ ready \in BOOLEAN
  /\ verdict \in [Runs -> {"none", "pass", "fail"}]
PlannerTypes ==
  /\ calls \subseteq CallIds /\ answers \subseteq [call : CallIds, ok : BOOLEAN]
  /\ wall \in 0..Leftover /\ marker \in 0..Leftover
MotionTypes ==
  /\ goals \in Seq(SentGoals)
  /\ moving \in [goal : GoalIds, hit : BOOLEAN, hits : Nat]
  /\ moving.hit => moving.goal # NoGoal
  /\ ended \in [goal : GoalIds, ok : BOOLEAN]
  /\ solutions \in Seq(SentGoals) /\ telemetry \in Seq(SentGoals)
GhostTypes ==
  /\ lost \in Nat /\ foreign \subseteq Runs
  /\ reaction \in [Runs -> {"none", "invalidated", "replanned"}]
Types == BenchmarkTypes /\ PlannerTypes /\ MotionTypes /\ GhostTypes

(* The record is open, and the run has begun to measure.                   *)
Open == main.at \in {"moving", "join", "clearAfter"}
Begun(r) ==
  \/ r < main.run
  \/ r = main.run /\ main.at \in {"moving", "join", "clearAfter", "next", "done"}
Measured == <<main.run, "measured">>

(* A thread lives no longer than its run, and is in time.                  *)
LatestAt(step) ==
  CASE step = "plan" -> 1 [] step = "resolve" -> 36 [] step = "check" -> 36
    [] step = "look" -> 1 [] step = "adding" -> 41 [] step = "measure" -> 45 [] OTHER -> 0
Punctual(s) == s.late <= IF s.stop THEN LatestAt(s.at) ELSE 0
Alive(r) == Thread(r) \notin {"none", "done"}
ThreadHolds(r) ==
  /\ Alive(r) => r = main.run /\ main.at \in {"moving", "join"} /\ Own(spawner[r].plan)
  /\ Thread(r) # "none" => Begun(r)
  /\ Thread(r) = "none" => spawner[r].plan = NoGoal
  /\ Thread(r) = "done" => spawner[r] = Ended
  /\ spawner[r].stop => r = main.run /\ main.at = "join"
  /\ Punctual(spawner[r])
ThreadsHold ==
  /\ \A r \in Runs : ThreadHolds(r)
  /\ main.at \in {"moving", "join"} => Thread(main.run) # "none"

(* The record is that of the run.                                          *)
RecordHolds ==
  IF Open
  THEN /\ record.run = main.run /\ Own(record.reference)
       /\ \A i \in DOMAIN record.plans : Own(record.plans[i])
       /\ \A goal \in record.invalidated : Own(goal)
       /\ record.planned \in {None, main.run} /\ record.spawned \in {None, main.run}
  ELSE record = NoRecord

(* The goals in the order in which they are sent.                          *)
Number(goal) == IF goal = NoGoal THEN 0 ELSE 2 * goal[1] - (IF goal[2] = "start" THEN 1 ELSE 0)
Sent == IF main.at \in {"new", "clear"} THEN 2 * main.run - 2
        ELSE IF main.at \in {"starting", "settle", "clearFailed"} THEN 2 * main.run - 1 ELSE 2 * main.run
InOrder(queue, now, last, sent) ==
  /\ \A i \in DOMAIN queue :
       Number(queue[i]) <= sent /\ Number(now) < Number(queue[i]) /\ Number(last) < Number(queue[i])
  /\ \A i, j \in DOMAIN queue : i < j => Number(queue[i]) < Number(queue[j])
  /\ now # NoGoal => Number(now) <= sent /\ Number(last) < Number(now)
  /\ last # NoGoal => Number(last) <= sent
GoalsInOrder == InOrder(goals, moving.goal, ended.goal, Sent)

(* What moves, and what is said of it, when the record opens and is open.  *)
Idle == goals = <<>> /\ moving.goal = NoGoal
OnlyMeasured(q) == \A i \in DOMAIN q : q[i] = Measured
MotionHolds ==
  /\ GoalsInOrder
  /\ main.at = "settle" => Idle
  /\ Open => /\ moving.goal \in {NoGoal, Measured} /\ OnlyMeasured(goals)
             /\ OnlyMeasured(solutions) /\ OnlyMeasured(telemetry)

(* The wall of a run is added by its thread.  While every call was         *)
(* answered in time there is one at most, the one somebody waits for, and  *)
(* no wall but that of the run.                                            *)
Due ==
  IF main.at \in Clearing THEN {Call("remove", main.run, main.at)}
  ELSE IF main.at \in {"moving", "join"} /\ Thread(main.run) = "adding"
       THEN {Call("add", main.run, "adding")}
  ELSE {}
InTime ==
  /\ calls \subseteq Due
  /\ \A a, b \in answers : a = b
  /\ \A a \in answers : a.call \in Due /\ calls = {} /\ (main.at \in Clearing => wall = None)
  /\ main.at \in {"starting", "settle", "next"} => wall = None /\ marker = None
  /\ Open => wall \in {None, main.run}
WallsHold ==
  /\ wall \in Runs => Begun(wall)
  /\ \A c \in calls : c.kind = "add" => Begun(c.run)
  /\ lost = 0 => InTime

(* What has become of the path of the run.                                 *)
ReactionsHold ==
  /\ \A r \in Runs : reaction[r] # "none" => Begun(r)
  /\ main.ok => main.at \in {"join", "clearAfter", "next", "done"}
  /\ Open /\ main.ok => Idle
  /\ Open /\ reaction[main.run] = "invalidated" =>
       \/ moving.hit
       \/ Idle /\ ended # [goal |-> Measured, ok |-> TRUE] /\ ~ main.ok
  /\ Open /\ lost = 0 /\ main.run \notin foreign /\ (telemetry # <<>> \/ record.invalidated # {})
       => reaction[main.run] # "none"

Holding ==
  /\ Types /\ ThreadsHold /\ RecordHolds /\ MotionHolds /\ WallsHold /\ ReactionsHold
  /\ PassMeansReaction
-----------------------------------------------------------------------------
(* The values.                                                             *)
LEMMA Small ==
  /\ MaxRuns \in Nat /\ MaxRuns >= 1
  /\ \A r \in Runs : /\ r \in Nat /\ r >= 1 /\ r <= MaxRuns
                     /\ r \in 0..MaxRuns /\ r \in 0..Leftover /\ r # None /\ r # Leftover
  /\ None \in 0..MaxRuns /\ None \in 0..Leftover /\ None \notin Runs
  /\ Leftover \notin Runs /\ Leftover # None
BY BoundsAssumption DEF Runs, None, Leftover

LEMMA GoalFacts ==
  /\ NoGoal \in GoalIds
  /\ \A g \in SentGoals : g \in GoalIds /\ g # NoGoal
  /\ \A g \in GoalIds : g # NoGoal => g \in SentGoals
  /\ \A g \in SentGoals : g[1] \in Runs /\ g[2] \in {"start", "measured"} /\ g = <<g[1], g[2]>>
  /\ \A r \in Runs : <<r, "start">> \in SentGoals /\ <<r, "measured">> \in SentGoals
BY Small DEF GoalIds, SentGoals, NoGoal

LEMMA StepTyped ==
  ASSUME NEW s \in ThreadStates, NEW next \in Steps
  PROVE  Step(s, next) \in ThreadStates
<1>1. Lasts(next) \in Nat
  BY DEF Lasts, Steps
<1>2. Ended \in ThreadStates
  BY GoalFacts DEF Ended, ThreadStates, Steps
<1>3. CASE next # "done"
  <2>1. Step(s, next) = [at |-> next, plan |-> s.plan, stop |-> s.stop,
                        late |-> IF s.stop THEN s.late + Lasts(next) ELSE 0]
    BY <1>3 DEF Step, ThreadStates
  <2>2. s.late + Lasts(next) \in Nat /\ s.plan \in GoalIds /\ s.stop \in BOOLEAN
    BY <1>1 DEF ThreadStates
  <2> QED
    BY <2>1, <2>2 DEF ThreadStates
<1> QED
  BY <1>2, <1>3 DEF Step

LEMMA StoppedTyped ==
  ASSUME NEW s \in ThreadStates, NEW ok
  PROVE  Stopped(s, ok) \in ThreadStates
<1>1. Lasts(s.at) \in Nat
  BY DEF Lasts, Steps, ThreadStates
<1> QED
  BY <1>1 DEF Stopped, ThreadStates

LEMMA FirstTyped ==
  ASSUME NEW S, NEW q \in Seq(S), q # <<>>
  PROVE  Head(q) \in S /\ Tail(q) \in Seq(S)
OBVIOUS

LEMMA AppendTyped ==
  ASSUME NEW S, NEW q \in Seq(S), NEW x \in S
  PROVE  Append(q, x) \in Seq(S)
OBVIOUS

LEMMA SentTyped ==
  ASSUME NEW q \in Seq(SentGoals), NEW goal \in SentGoals
  PROVE  Append(q, goal) \in Seq(SentGoals)
BY AppendTyped

LEMMA CallTyped ==
  ASSUME NEW r \in Runs
  PROVE  /\ Call("add", r, "adding") \in CallIds
         /\ \A when \in Clearing : Call("remove", r, when) \in CallIds
BY DEF Call, CallIds

LEMMA NoRecordTyped == NoRecord \in Records
BY GoalFacts, Small DEF NoRecord, Records

(* The step of a thread, seen from outside.                                *)
LEMMA GoesTyped ==
  ASSUME Types, NEW r \in Runs, NEW next \in Steps, Goes(r, next)
  PROVE  spawner' \in [Runs -> ThreadStates]
BY StepTyped DEF Goes, Types, BenchmarkTypes

LEMMA MainTyped ==
  ASSUME Types, MainStep
  PROVE  Types'
<1> USE Small, GoalFacts
<1>1. CASE BeginRuns
  <2>1. 1 \in Runs
    BY DEF Runs
  <2>2. /\ main' \in [at : Places, run : 0..MaxRuns, ok : BOOLEAN]
        /\ (main.at \notin {"new", "done"} => main.run \in Runs)' /\ main'.at # "new"
    BY <1>1, <2>1 DEF BeginRuns, Clear, Types, BenchmarkTypes, Places
  <2>3. calls' \subseteq CallIds
    <3>1. CASE Clear([main EXCEPT !.run = 1], "clear")
      <4>1. [main EXCEPT !.run = 1].run = 1
        BY DEF Types, BenchmarkTypes
      <4> QED
        BY <3>1, <2>1, <4>1, CallTyped DEF Clear, Types, PlannerTypes, Clearing
    <3> QED
      BY <1>1, <3>1 DEF BeginRuns, Types, PlannerTypes
  <2> QED
    BY <1>1, <2>2, <2>3 DEF BeginRuns, Types, BenchmarkTypes, PlannerTypes, MotionTypes,
       GhostTypes, topics, motion, ghosts
<1>2. CASE Cleared
  <2>0. main.run \in Runs
    BY <1>2 DEF Cleared, Types, BenchmarkTypes
  <2>1. /\ main' \in [at : Places, run : 0..MaxRuns, ok : BOOLEAN]
        /\ (main.at \notin {"new", "done"} => main.run \in Runs)' /\ main'.at # "new"
    BY <1>2, <2>0 DEF Cleared, Types, BenchmarkTypes, Places
  <2>2. record' \in Records /\ ready' \in BOOLEAN
    BY <1>2, NoRecordTyped DEF Cleared, Types, BenchmarkTypes
  <2>3. verdict' \in [Runs -> {"none", "pass", "fail"}]
    BY <1>2 DEF Cleared, Types, BenchmarkTypes, Report
  <2>4. answers' \subseteq answers /\ lost' \in Nat /\ marker' \in 0..Leftover
    BY <1>2 DEF Cleared, Types, PlannerTypes, GhostTypes, Lose, Hide
  <2>5. goals' \in Seq(SentGoals)
    <3>1. UNCHANGED goals \/ goals' = Append(goals, <<main.run, "start">>)
      BY <1>2 DEF Cleared
    <3>2. <<main.run, "start">> \in SentGoals
      BY <2>0
    <3> QED
      BY <3>1, <3>2, SentTyped DEF Types, MotionTypes
  <2> QED
    BY <1>2, <2>1, <2>2, <2>3, <2>4, <2>5 DEF Cleared, Types, BenchmarkTypes, PlannerTypes,
       MotionTypes, GhostTypes, topics
<1>3. CASE GoalOver
  <2>0. main.run \in Runs
    BY <1>3 DEF GoalOver, Types, BenchmarkTypes
  <2>1. /\ main' \in [at : Places, run : 0..MaxRuns, ok : BOOLEAN]
        /\ (main.at \notin {"new", "done"} => main.run \in Runs)' /\ main'.at # "new"
    <3>1. \/ \E ok \in BOOLEAN : main' = [main EXCEPT !.at = "join", !.ok = ok]
          \/ main' = [main EXCEPT !.at = "settle"]
          \/ main' = [[main EXCEPT !.ok = FALSE] EXCEPT !.at = "clearFailed"]
      BY <1>3 DEF GoalOver, Clear
    <3> QED
      BY <2>0, <3>1 DEF Types, BenchmarkTypes, Places
  <2>2. record' \in Records
    BY <1>3 DEF GoalOver, Types, BenchmarkTypes, Records
  <2>3. spawner' \in [Runs -> ThreadStates]
    BY <1>3, <2>0, StoppedTyped DEF GoalOver, Types, BenchmarkTypes
  <2>4. calls' \subseteq CallIds
    <3>1. \/ UNCHANGED calls
          \/ calls' = calls \cup {Call("remove", [main EXCEPT !.ok = FALSE].run, "clearFailed")}
      BY <1>3 DEF GoalOver, Clear
    <3>2. [main EXCEPT !.ok = FALSE].run = main.run
      BY DEF Types, BenchmarkTypes
    <3> QED
      BY <2>0, <3>1, <3>2, CallTyped DEF Types, PlannerTypes, Clearing
  <2>5. ended' \in [goal : GoalIds, ok : BOOLEAN]
    BY <1>3 DEF GoalOver, Unfinished
  <2> QED
    BY <1>3, <2>1, <2>2, <2>3, <2>4, <2>5 DEF GoalOver, Types, BenchmarkTypes, PlannerTypes,
       MotionTypes, GhostTypes, topics, ghosts
<1>4. CASE Measure
  <2>0. main.run \in Runs
    BY <1>4 DEF Measure, Types, BenchmarkTypes
  <2>1. /\ main' \in [at : Places, run : 0..MaxRuns, ok : BOOLEAN]
        /\ (main.at \notin {"new", "done"} => main.run \in Runs)' /\ main'.at # "new"
    BY <1>4, <2>0 DEF Measure, Types, BenchmarkTypes, Places
  <2>2. record' \in Records /\ ready' \in BOOLEAN
    BY <1>4, <2>0, NoRecordTyped DEF Measure, Types, BenchmarkTypes, Records
  <2>3. spawner' \in [Runs -> ThreadStates]
    BY <1>4 DEF Measure, Types, BenchmarkTypes, ThreadStates, Steps
  <2>4. goals' \in Seq(SentGoals)
    BY <1>4, <2>0, SentTyped DEF Measure, Types, MotionTypes
  <2> QED
    BY <1>4, <2>1, <2>2, <2>3, <2>4 DEF Measure, Types, BenchmarkTypes, PlannerTypes, MotionTypes,
       GhostTypes, topics, planner, ghosts
<1>5. CASE Join
  <2>0. main.run \in Runs
    BY <1>5 DEF Join, Types, BenchmarkTypes
  <2>1. /\ main' \in [at : Places, run : 0..MaxRuns, ok : BOOLEAN]
        /\ (main.at \notin {"new", "done"} => main.run \in Runs)' /\ main'.at # "new"
    BY <1>5, <2>0 DEF Join, Clear, Types, BenchmarkTypes, Places
  <2>2. calls' \subseteq CallIds
    BY <1>5, <2>0, CallTyped DEF Join, Clear, Types, PlannerTypes, Clearing
  <2> QED
    BY <1>5, <2>1, <2>2 DEF Join, Types, BenchmarkTypes, PlannerTypes, MotionTypes, GhostTypes,
       topics, motion, ghosts
<1>6. CASE NextRun
  <2>0. main.run \in Runs
    BY <1>6 DEF NextRun, Types, BenchmarkTypes
  <2>1. CASE main.run < MaxRuns
    <3>1. main.run + 1 \in Runs /\ [main EXCEPT !.run = @ + 1, !.ok = FALSE].run = main.run + 1
      BY <2>0, <2>1 DEF Runs, Types, BenchmarkTypes
    <3>2. /\ main' \in [at : Places, run : 0..MaxRuns, ok : BOOLEAN]
          /\ (main.at \notin {"new", "done"} => main.run \in Runs)' /\ main'.at # "new"
      <4>1. main' = [at |-> "clear", run |-> main.run + 1, ok |-> FALSE]
        BY <1>6, <2>1 DEF NextRun, Clear, Types, BenchmarkTypes
      <4> QED
        BY <3>1, <4>1 DEF Places
    <3>3. calls' \subseteq CallIds
      BY <1>6, <2>1, <3>1, CallTyped DEF NextRun, Clear, Types, PlannerTypes, Clearing
    <3> QED
      BY <1>6, <3>2, <3>3 DEF NextRun, Types, BenchmarkTypes, PlannerTypes, MotionTypes,
         GhostTypes, topics, motion, ghosts
  <2>2. CASE ~ main.run < MaxRuns
    <3>1. /\ main' \in [at : Places, run : 0..MaxRuns, ok : BOOLEAN]
          /\ (main.at \notin {"new", "done"} => main.run \in Runs)' /\ main'.at # "new"
      BY <1>6, <2>2 DEF NextRun, Types, BenchmarkTypes, Places
    <3> QED
      BY <1>6, <2>2, <3>1 DEF NextRun, Types, BenchmarkTypes, PlannerTypes, MotionTypes,
         GhostTypes, topics, motion, ghosts
  <2> QED
    BY <2>1, <2>2
<1> QED
  BY <1>1, <1>2, <1>3, <1>4, <1>5, <1>6 DEF MainStep

LEMMA ThreadTyped ==
  ASSUME Types, NEW r \in Runs, ThreadStep(r)
  PROVE  Types'
<1> USE Small, GoalFacts
<1>1. CASE PlanSeen(r)
  <2>1. CASE Goes(r, "done")
    BY <1>1, <2>1, GoesTyped DEF PlanSeen, Types, BenchmarkTypes, PlannerTypes, MotionTypes,
       GhostTypes, planner, motion, topics, ghosts, Steps
  <2>2. CASE spawner' = [spawner EXCEPT ![r] = [Step(@, "resolve") EXCEPT !.plan = record.reference]]
    <3>1. Step(spawner[r], "resolve") \in ThreadStates /\ record.reference \in GoalIds
      BY StepTyped DEF Types, BenchmarkTypes, Records, Steps
    <3>2. [Step(spawner[r], "resolve") EXCEPT !.plan = record.reference] \in ThreadStates
      BY <3>1 DEF ThreadStates
    <3>3. spawner' \in [Runs -> ThreadStates]
      BY <2>2, <3>2 DEF Types, BenchmarkTypes
    <3> QED
      BY <1>1, <3>3 DEF PlanSeen, Types, BenchmarkTypes, PlannerTypes, MotionTypes, GhostTypes,
         planner, motion, topics, ghosts
  <2> QED
    BY <1>1, <2>1, <2>2 DEF PlanSeen
<1>2. CASE Resolve(r)
  <2>1. spawner' \in [Runs -> ThreadStates]
    BY <1>2, GoesTyped DEF Resolve, Steps
  <2>2. record' \in Records
    <3>1. (UNCHANGED record) \/ record' = [record EXCEPT !.planned = r]
      BY <1>2 DEF Resolve
    <3>2. r \in 0..MaxRuns
      OBVIOUS
    <3> QED
      BY <3>1, <3>2 DEF Types, BenchmarkTypes, Records
  <2> QED
    BY <1>2, <2>1, <2>2 DEF Resolve, Types, BenchmarkTypes, PlannerTypes, MotionTypes, GhostTypes,
       planner, motion, topics, ghosts
<1>3. CASE Check(r)
  <2>1. spawner' \in [Runs -> ThreadStates]
    BY <1>3, GoesTyped DEF Check, Steps
  <2> QED
    BY <1>3, <2>1 DEF Check, Types, BenchmarkTypes, PlannerTypes, MotionTypes, GhostTypes, planner,
       motion, topics, ghosts
<1>4. CASE Look(r)
  <2>1. spawner' \in [Runs -> ThreadStates]
    BY <1>4, GoesTyped DEF Look, Steps
  <2>2. calls' \subseteq CallIds
    BY <1>4, CallTyped DEF Look, Types, PlannerTypes
  <2> QED
    BY <1>4, <2>1, <2>2 DEF Look, Types, BenchmarkTypes, PlannerTypes, MotionTypes, GhostTypes,
       planner, motion, topics, ghosts
<1>5. CASE Added(r)
  <2>1. spawner' \in [Runs -> ThreadStates]
    <3>1. \E next \in Steps : Goes(r, next)
      BY <1>5 DEF Added, Steps
    <3> QED
      BY <3>1, GoesTyped
  <2>2. answers' \subseteq answers /\ marker' \in 0..Leftover /\ lost' \in Nat
    <3>1. answers' \subseteq answers
      BY <1>5 DEF Added
    <3>2. UNCHANGED marker \/ marker' = None
      BY <1>5 DEF Added, Hide
    <3>3. UNCHANGED lost \/ lost' = lost + 1
      BY <1>5 DEF Added, Lose
    <3> QED
      BY <3>1, <3>2, <3>3 DEF Types, PlannerTypes, GhostTypes
  <2> QED
    BY <1>5, <2>1, <2>2 DEF Added, Types, BenchmarkTypes, PlannerTypes, MotionTypes, GhostTypes,
       motion, topics
<1>6. CASE Spawned(r)
  <2>1. spawner' \in [Runs -> ThreadStates]
    BY <1>6, GoesTyped DEF Spawned, Steps
  <2>2. record' \in Records
    <3>1. (UNCHANGED record) \/ record' = [record EXCEPT !.spawned = r]
      BY <1>6 DEF Spawned
    <3>2. r \in 0..MaxRuns
      OBVIOUS
    <3> QED
      BY <3>1, <3>2 DEF Types, BenchmarkTypes, Records
  <2>3. marker' \in 0..Leftover
    BY <1>6 DEF Spawned, Show
  <2> QED
    BY <1>6, <2>1, <2>2, <2>3 DEF Spawned, Types, BenchmarkTypes, PlannerTypes, MotionTypes,
       GhostTypes, planner, motion, topics, ghosts
<1> QED
  BY <1>1, <1>2, <1>3, <1>4, <1>5, <1>6 DEF ThreadStep

LEMMA HearingTyped ==
  ASSUME Types, Callback \/ OnCollisionSpheres
  PROVE  Types'
<1> USE Small, GoalFacts
<1>1. CASE OnGlobalSolution
  <2>1. Head(solutions) \in SentGoals /\ solutions' \in Seq(SentGoals)
    BY <1>1, FirstTyped DEF OnGlobalSolution, Types, MotionTypes
  <2>2. record' \in Records /\ ready' \in BOOLEAN
    <3>1. CASE ~ Recording
      BY <1>1, <3>1 DEF OnGlobalSolution, Types, BenchmarkTypes
    <3>2. CASE Recording
      <4>1. Head(solutions) \in GoalIds
        BY <2>1
      <4>2. Append(record.plans, Head(solutions)) \in Seq(GoalIds)
        BY <4>1, AppendTyped DEF Types, BenchmarkTypes, Records
      <4>3. Planned(record, Head(solutions)) \in Records
        BY <4>1, <4>2 DEF Planned, Types, BenchmarkTypes, Records
      <4> QED
        BY <1>1, <3>2, <4>3 DEF OnGlobalSolution, Types, BenchmarkTypes
    <3> QED
      BY <3>1, <3>2
  <2> QED
    BY <1>1, <2>1, <2>2 DEF OnGlobalSolution, Types, BenchmarkTypes, PlannerTypes, MotionTypes,
       GhostTypes, planner, motion, ghosts
<1>2. CASE OnTelemetry
  <2>1. Head(telemetry) \in SentGoals /\ telemetry' \in Seq(SentGoals)
    BY <1>2, FirstTyped DEF OnTelemetry, Types, MotionTypes
  <2>2. record' \in Records
    <3>1. PathInvalidated(record, Head(telemetry)) \in Records
      <4>1. record.invalidated \cup {Head(telemetry)} \in SUBSET GoalIds
        BY <2>1 DEF Types, BenchmarkTypes, Records
      <4> QED
        BY <4>1 DEF PathInvalidated, Types, BenchmarkTypes, Records
    <3> QED
      BY <1>2, <3>1 DEF OnTelemetry, Types, BenchmarkTypes
  <2> QED
    BY <1>2, <2>1, <2>2 DEF OnTelemetry, Types, BenchmarkTypes, PlannerTypes, MotionTypes,
       GhostTypes, planner, motion, ghosts
<1>3. CASE OnCollisionSpheres
  <2>1. record' \in Records
    BY <1>3 DEF OnCollisionSpheres, Types, BenchmarkTypes, Records
  <2> QED
    BY <1>3, <2>1 DEF OnCollisionSpheres, Types, BenchmarkTypes, PlannerTypes, MotionTypes,
       GhostTypes, planner, motion, ghosts, topics
<1> QED
  BY <1>1, <1>2, <1>3 DEF Callback

LEMMA ServeTyped ==
  ASSUME Types, NEW c \in calls, Serve(c)
  PROVE  Types'
<1>1. c \in CallIds /\ c.run \in Runs
  BY DEF Types, PlannerTypes, CallIds
<1>2. PICK ok \in BOOLEAN : /\ wall' = IF c.kind = "remove" THEN None ELSE IF ok THEN c.run ELSE wall
                            /\ answers' = IF Awaited(c) THEN answers \cup {[call |-> c, ok |-> ok]} ELSE answers
  BY DEF Serve
<1>3. wall' \in 0..Leftover
  BY <1>1, <1>2, Small DEF Types, PlannerTypes
<1>4. answers' \subseteq [call : CallIds, ok : BOOLEAN]
  BY <1>1, <1>2 DEF Types, PlannerTypes
<1> QED
  BY <1>3, <1>4 DEF Serve, Types, BenchmarkTypes, PlannerTypes, MotionTypes, GhostTypes, benchmark,
     motion, topics, ghosts

ServerStep == Accept \/ Invalidate \/ Replan \/ Stuck \/ EndMotion
LEMMA ServerTyped ==
  ASSUME Types, ServerStep
  PROVE  Types'
<1> USE Small, GoalFacts
<1>0. Still \in [goal : GoalIds, hit : BOOLEAN, hits : Nat] /\ ~ Still.hit
  BY DEF Still
<1>1. CASE Accept
  <2>1. Head(goals) \in SentGoals /\ goals' \in Seq(SentGoals)
    BY <1>1, FirstTyped DEF Accept, Types, MotionTypes
  <2>2. /\ moving' \in [goal : GoalIds, hit : BOOLEAN, hits : Nat]
        /\ (moving'.hit => moving'.goal # NoGoal)
    BY <1>1, <1>0, <2>1 DEF Accept, Still
  <2>3. ended' \in [goal : GoalIds, ok : BOOLEAN]
    <3>1. UNCHANGED ended \/ ended' = [goal |-> Head(goals), ok |-> FALSE]
      BY <1>1 DEF Accept
    <3>2. [goal |-> Head(goals), ok |-> FALSE] \in [goal : GoalIds, ok : BOOLEAN]
      BY <2>1
    <3> QED
      BY <3>1, <3>2 DEF Types, MotionTypes
  <2>4. solutions' \in Seq(SentGoals)
    <3>1. UNCHANGED solutions \/ solutions' = Append(solutions, Head(goals))
      BY <1>1 DEF Accept
    <3> QED
      BY <2>1, <3>1, SentTyped DEF Types, MotionTypes
  <2> QED
    BY <1>1, <2>1, <2>2, <2>3, <2>4 DEF Accept, Types, BenchmarkTypes, PlannerTypes, MotionTypes,
       GhostTypes, planner, benchmark, ghosts
<1>2. CASE Invalidate
  <2>1. moving.goal \in SentGoals /\ moving.goal[1] \in Runs
    BY <1>2 DEF Invalidate, Types, MotionTypes
  <2>2. /\ moving' \in [goal : GoalIds, hit : BOOLEAN, hits : Nat]
        /\ (moving'.hit => moving'.goal # NoGoal)
    <3>1. moving' = [goal |-> moving.goal, hit |-> TRUE, hits |-> moving.hits + 1]
      BY <1>2 DEF Invalidate, Types, MotionTypes
    <3> QED
      BY <1>2, <2>1, <3>1 DEF Types, MotionTypes
  <2>3. telemetry' \in Seq(SentGoals)
    BY <1>2, <2>1, SentTyped DEF Invalidate, Types, MotionTypes
  <2>4. foreign' \subseteq Runs /\ reaction' \in [Runs -> {"none", "invalidated", "replanned"}]
    BY <1>2, <2>1 DEF Invalidate, Types, GhostTypes
  <2> QED
    BY <1>2, <2>2, <2>3, <2>4 DEF Invalidate, Types, BenchmarkTypes, PlannerTypes, MotionTypes,
       GhostTypes, planner, benchmark
<1>3. CASE Replan
  <2>1. moving.goal \in SentGoals
    BY <1>3 DEF Replan, Types, MotionTypes
  <2>2. moving' \in [goal : GoalIds, hit : BOOLEAN, hits : Nat] /\ ~ moving'.hit
    BY <1>3 DEF Replan, Types, MotionTypes
  <2>3. solutions' \in Seq(SentGoals)
    BY <1>3, <2>1, SentTyped DEF Replan, Types, MotionTypes
  <2>4. reaction' \in [Runs -> {"none", "invalidated", "replanned"}]
    BY <1>3 DEF Replan, Types, GhostTypes
  <2> QED
    BY <1>3, <2>2, <2>3, <2>4 DEF Replan, Types, BenchmarkTypes, PlannerTypes, MotionTypes,
       GhostTypes, planner, benchmark
<1>4. CASE Stuck
  <2>1. moving.goal \in SentGoals
    BY <1>4 DEF Stuck, Types, MotionTypes
  <2>2. moving' \in [goal : GoalIds, hit : BOOLEAN, hits : Nat] /\ ~ moving'.hit
    <3>1. moving' = [goal |-> moving.goal, hit |-> FALSE, hits |-> moving.hits + 1]
      BY <1>4 DEF Stuck, Types, MotionTypes
    <3> QED
      BY <3>1 DEF Types, MotionTypes
  <2>3. solutions' \in Seq(SentGoals)
    BY <1>4, <2>1, SentTyped DEF Stuck, Types, MotionTypes
  <2> QED
    BY <1>4, <2>2, <2>3 DEF Stuck, Types, BenchmarkTypes, PlannerTypes, MotionTypes, GhostTypes,
       planner, benchmark, ghosts
<1>5. CASE EndMotion
  BY <1>5, <1>0 DEF EndMotion, Types, BenchmarkTypes, PlannerTypes, MotionTypes, GhostTypes,
     planner, benchmark, ghosts, topics
<1> QED
  BY <1>1, <1>2, <1>3, <1>4, <1>5 DEF ServerStep

LEMMA TypesKept ==
  ASSUME Types, [Next]_vars
  PROVE  Types'
<1>1. CASE UNCHANGED vars
  BY <1>1 DEF vars, benchmark, planner, motion, topics, ghosts, Types, BenchmarkTypes,
     PlannerTypes, MotionTypes, GhostTypes
<1> QED
  BY <1>1, MainTyped, ThreadTyped, HearingTyped, ServeTyped, ServerTyped DEF Next, ServerStep,
     Callback

-----------------------------------------------------------------------------
(* The threads.                                                            *)
Leads(s, next) ==
  \/ s.at = "plan" /\ next = "resolve"
  \/ s.at = "resolve" /\ next = "check"
  \/ s.at = "check" /\ next = "look" /\ ~ s.stop
  \/ s.at = "look" /\ next \in {"check", "adding"}
  \/ s.at = "adding" /\ next = "measure"
  \/ next = "done"

LEMMA StepHolds ==
  ASSUME NEW s \in ThreadStates, NEW next \in Steps, Punctual(s), Leads(s, next)
  PROVE  /\ Step(s, next).at = next /\ Punctual(Step(s, next))
         /\ next = "done" => Step(s, next) = Ended
         /\ next # "done" => Step(s, next).plan = s.plan
         /\ Step(s, next).stop => s.stop
<1>1. CASE next = "done"
  BY <1>1 DEF Step, Ended, Punctual, NoGoal, LatestAt
<1>2. CASE next # "done"
  <2>1. Step(s, next) = [at |-> next, plan |-> s.plan, stop |-> s.stop,
                        late |-> IF s.stop THEN s.late + Lasts(next) ELSE 0]
    BY <1>2 DEF Step, ThreadStates
  <2>2. s.late \in Nat /\ s.late <= IF s.stop THEN LatestAt(s.at) ELSE 0
    BY DEF Punctual, ThreadStates
  <2>3. s.stop => s.late + Lasts(next) <= LatestAt(next)
    BY <1>2, <2>2 DEF Leads, LatestAt, Lasts
  <2> QED
    BY <1>2, <2>1, <2>3 DEF Punctual
<1> QED
  BY <1>1, <1>2

(* What a step of a thread leads to.                                       *)
Becomes(r, s) ==
  /\ s \in ThreadStates /\ s.at # "none" /\ Punctual(s)
  /\ s.at = "done" => s = Ended
  /\ s.at # "done" => Own(s.plan)
  /\ s.stop => spawner[r].stop
  /\ spawner' = [spawner EXCEPT ![r] = s]

LEMMA GoesHolds ==
  ASSUME Types, ThreadsHold, NEW r \in Runs, Alive(r), NEW next \in Steps, next # "none",
         Leads(spawner[r], next), Goes(r, next)
  PROVE  Becomes(r, Step(spawner[r], next))
<1>1. spawner[r] \in ThreadStates /\ Punctual(spawner[r]) /\ Own(spawner[r].plan)
  BY DEF Types, BenchmarkTypes, ThreadsHold, ThreadHolds
<1>2. Step(spawner[r], next) \in ThreadStates
  BY <1>1, StepTyped
<1> QED
  BY <1>1, <1>2, StepHolds DEF Becomes, Goes

LEMMA ThreadMoves ==
  ASSUME Types, ThreadsHold, RecordHolds, NEW r \in Runs, ThreadStep(r)
  PROVE  /\ UNCHANGED main /\ Alive(r) /\ r = main.run /\ main.at \in {"moving", "join"}
         /\ \E s : Becomes(r, s)
<1>1. UNCHANGED main
  BY DEF ThreadStep, PlanSeen, Resolve, Check, Look, Added, Spawned
<1>2. Alive(r)
  BY DEF Alive, ThreadStep, PlanSeen, Resolve, Check, Look, Added, Spawned
<1>3. r = main.run /\ main.at \in {"moving", "join"}
  BY <1>2 DEF ThreadsHold, ThreadHolds
<1> DEFINE Found == \E s : Becomes(r, s)
<1>4. ASSUME NEW next \in Steps, next # "none", Leads(spawner[r], next), Goes(r, next)
      PROVE  Found
  BY <1>2, <1>4, GoesHolds
<1>11. ASSUME NEW s, Becomes(r, s)
       PROVE  Found
  BY <1>11
<1> HIDE DEF Found
<1> SUFFICES Found
  BY <1>1, <1>2, <1>3 DEF Found
<1>5. CASE PlanSeen(r)
  <2>1. CASE Goes(r, "done")
    BY <2>1, <1>4 DEF Leads, Steps
  <2>2. CASE spawner' = [spawner EXCEPT ![r] = [Step(@, "resolve") EXCEPT !.plan = record.reference]]
    <3> DEFINE t == Step(spawner[r], "resolve")
               u == [t EXCEPT !.plan = record.reference]
    <3>1. /\ spawner[r] \in ThreadStates /\ Punctual(spawner[r]) /\ Leads(spawner[r], "resolve")
          /\ "resolve" \in Steps
      BY <1>5 DEF Types, BenchmarkTypes, ThreadsHold, ThreadHolds, Leads, PlanSeen, Thread, Steps
    <3>2. t \in ThreadStates /\ t.at = "resolve" /\ Punctual(t) /\ (t.stop => spawner[r].stop)
      BY <3>1, StepHolds, StepTyped
    <3>3. Own(record.reference) /\ record.reference \in GoalIds
      BY <1>3 DEF RecordHolds, Open, Types, BenchmarkTypes, Records
    <3>4. spawner' = [spawner EXCEPT ![r] = u]
      BY <2>2
    <3> HIDE DEF t
    <3>5. u = [at |-> "resolve", plan |-> record.reference, stop |-> t.stop, late |-> t.late]
      BY <3>2 DEF ThreadStates
    <3>6. u \in ThreadStates /\ Punctual(u)
      BY <3>2, <3>3, <3>5 DEF ThreadStates, Punctual
    <3>7. Becomes(r, u)
      BY <3>2, <3>3, <3>4, <3>5, <3>6 DEF Becomes
    <3> QED
      BY <3>7, <1>11
  <2> QED
    BY <1>5, <2>1, <2>2 DEF PlanSeen
<1>6. CASE Resolve(r)
  BY <1>6, <1>4 DEF Resolve, Leads, Steps, Thread
<1>7. CASE Check(r)
  BY <1>7, <1>4 DEF Check, Leads, Steps, Thread
<1>8. CASE Look(r)
  BY <1>8, <1>4 DEF Look, Leads, Steps, Thread
<1>9. CASE Added(r)
  BY <1>9, <1>4 DEF Added, Leads, Steps, Thread
<1>10. CASE Spawned(r)
  BY <1>10, <1>4 DEF Spawned, Leads, Steps, Thread
<1> QED
  BY <1>5, <1>6, <1>7, <1>8, <1>9, <1>10 DEF ThreadStep

(* The threads when the main thread goes on.                               *)
LEMMA ThreadsBesideMain ==
  ASSUME Types, ThreadsHold, MainStep
  PROVE  ThreadsHold'
<1>0. \A r \in Runs : spawner[r] \in ThreadStates
  BY DEF Types, BenchmarkTypes
<1>1. CASE BeginRuns
  <2>1. UNCHANGED spawner /\ main.at = "new" /\ main'.at \in {"clear", "done"}
    BY <1>1 DEF BeginRuns, Clear, Types, BenchmarkTypes
  <2>2. \A r \in Runs : Thread(r) \in {"none", "done"} /\ ~ spawner[r].stop /\ (Begun(r) => Begun(r)')
    <3>1. main.run = 0 /\ main'.run \in {1, 0}
      BY <1>1 DEF BeginRuns, Clear, Types, BenchmarkTypes
    <3> QED
      BY <2>1, <3>1, Small DEF ThreadsHold, ThreadHolds, Alive, Begun
  <2> QED
    BY <2>1, <2>2 DEF ThreadsHold, ThreadHolds, Alive, Thread, Punctual
<1>2. CASE Cleared
  <2>1. /\ UNCHANGED <<spawner, main.run>> /\ ~ (main.at \in {"moving", "join"})
        /\ main'.at \in {"starting", "next"}
    BY <1>2 DEF Cleared, Types, BenchmarkTypes
  <2>2. \A r \in Runs : Begun(r) => Begun(r)'
    BY <1>2 DEF Cleared, Begun, Types, BenchmarkTypes
  <2> QED
    BY <2>1, <2>2 DEF ThreadsHold, ThreadHolds, Alive, Thread, Punctual, Own
<1>3. CASE GoalOver
  <2>0. main.run \in Runs /\ UNCHANGED main.run
    BY <1>3 DEF GoalOver, Clear, Types, BenchmarkTypes
  <2>1. CASE main.at = "moving"
    <3>1. main'.at = "join" /\ \E ok \in BOOLEAN : spawner' = [spawner EXCEPT ![main.run] = Stopped(@, ok)]
      BY <1>3, <2>1 DEF GoalOver, Types, BenchmarkTypes
    <3>2. \A r \in Runs : Begun(r)' <=> Begun(r)
      BY <2>0, <2>1, <3>1 DEF Begun
    <3> DEFINE s == spawner[main.run]
    <3>3. /\ s \in ThreadStates /\ s.at # "none" /\ (s.at = "done" => s = Ended) /\ Punctual(s)
          /\ (Alive(main.run) => Own(s.plan))
      BY <1>0, <2>0, <2>1 DEF ThreadsHold, ThreadHolds, Thread
    <3>4. \A ok : LET t == Stopped(s, ok) IN
             t.at = s.at /\ t.plan = s.plan /\ Punctual(t) /\ (s = Ended => t = s)
      <4>1. CASE s = Ended
        BY <4>1, <3>3 DEF Stopped
      <4>2. CASE s # Ended
        <5>1. \A ok : Stopped(s, ok) = [at |-> s.at, plan |-> s.plan, stop |-> TRUE, late |-> Lasts(s.at)]
          BY <4>2, <3>3 DEF Stopped, ThreadStates
        <5>2. Lasts(s.at) <= LatestAt(s.at)
          BY <3>3 DEF Lasts, LatestAt, ThreadStates, Steps
        <5> QED
          BY <4>2, <5>1, <5>2 DEF Punctual
      <4> QED
        BY <4>1, <4>2
    <3>5. \A r \in Runs : r # main.run => UNCHANGED spawner[r]
      BY <3>1 DEF Types, BenchmarkTypes
    <3>6. \E ok : spawner'[main.run] = Stopped(s, ok)
      BY <2>0, <3>1 DEF Types, BenchmarkTypes
    <3>7. /\ spawner'[main.run].at = s.at /\ spawner'[main.run].plan = s.plan /\ Punctual(spawner'[main.run])
          /\ s = Ended => spawner'[main.run] = s
      BY <3>4, <3>6
    <3> HIDE DEF s
    <3>8. \A r \in Runs : r # main.run => ThreadHolds(r)'
      BY <2>0, <2>1, <3>1, <3>2, <3>5 DEF ThreadsHold, ThreadHolds, Alive, Thread, Punctual, Own
    <3>9. ThreadHolds(main.run)'
      BY <2>0, <2>1, <3>1, <3>2, <3>3, <3>7 DEF ThreadsHold, ThreadHolds, Alive, Thread, Punctual,
         Own, s
    <3>10. (main.at \in {"moving", "join"} => Thread(main.run) # "none")'
      BY <2>0, <3>3, <3>7 DEF Thread
    <3> QED
      BY <2>0, <3>8, <3>9, <3>10 DEF ThreadsHold
  <2>2. CASE main.at = "starting"
    <3>1. UNCHANGED spawner /\ main'.at \in {"settle", "clearFailed"}
      BY <1>3, <2>2 DEF GoalOver, Clear, Types, BenchmarkTypes
    <3>2. \A r \in Runs : Begun(r) => Begun(r)'
      BY <2>0, <2>2, <3>1 DEF Begun
    <3> QED
      BY <2>0, <2>2, <3>1, <3>2 DEF ThreadsHold, ThreadHolds, Alive, Thread, Punctual, Own
  <2> QED
    BY <1>3, <2>1, <2>2 DEF GoalOver
<1>4. CASE Measure
  <2>0. main.run \in Runs /\ UNCHANGED main.run /\ main.at = "settle" /\ main'.at = "moving"
    BY <1>4 DEF Measure, Types, BenchmarkTypes
  <2>1. Thread(main.run) = "none" /\ ~ spawner[main.run].stop
    BY <2>0 DEF ThreadsHold, ThreadHolds, Begun, Types, BenchmarkTypes
  <2>2. \A r \in Runs : Begun(r) => Begun(r)'
    BY <2>0 DEF Begun
  <2>3. \A r \in Runs : r # main.run => UNCHANGED spawner[r]
    BY <1>4 DEF Measure, Types, BenchmarkTypes
  <2>4. \A r \in Runs : r # main.run => ThreadHolds(r)'
    BY <2>0, <2>2, <2>3 DEF ThreadsHold, ThreadHolds, Alive, Thread, Punctual, Own
  <2>5. spawner'[main.run] = [at |-> "plan", plan |-> NoGoal, stop |-> FALSE, late |-> spawner[main.run].late]
    BY <1>0, <1>4, <2>0, <2>1 DEF Measure, Types, BenchmarkTypes, ThreadsHold, ThreadHolds, Thread,
       ThreadStates
  <2>6. ThreadHolds(main.run)'
    BY <2>0, <2>1, <2>5 DEF ThreadsHold, ThreadHolds, Alive, Thread, Punctual, Own, Begun
  <2> QED
    BY <2>0, <2>4, <2>5, <2>6 DEF ThreadsHold, Thread
<1>5. CASE Join
  <2>0. /\ main.run \in Runs /\ UNCHANGED <<spawner, main.run>> /\ main.at = "join"
        /\ main'.at = "clearAfter"
    BY <1>5 DEF Join, Clear, Types, BenchmarkTypes
  <2>1. Thread(main.run) = "done"
    <3>1. spawner[main.run].late <= 45
      BY <1>0, <2>0 DEF ThreadsHold, ThreadHolds, Punctual, LatestAt, ThreadStates
    <3> QED
      BY <1>0, <1>5, <2>0, <3>1 DEF Join, JoinTimeout, Thread, ThreadStates
  <2>2. \A r \in Runs : Begun(r) <=> Begun(r)'
    BY <2>0 DEF Begun
  <2>3. ~ Ended.stop
    BY DEF Ended
  <2>4. \A r \in Runs : Thread(r) \in {"none", "done"} /\ ~ spawner[r].stop
    BY <2>0, <2>1, <2>3 DEF ThreadsHold, ThreadHolds, Alive
  <2> QED
    BY <2>0, <2>2, <2>4 DEF ThreadsHold, ThreadHolds, Alive, Thread, Punctual
<1>6. CASE NextRun
  <2>0. /\ main.run \in Runs /\ UNCHANGED spawner /\ main.at = "next" /\ main'.at \in {"clear", "done"}
        /\ main'.run = IF main'.at = "done" THEN main.run ELSE main.run + 1
    BY <1>6 DEF NextRun, Clear, Types, BenchmarkTypes
  <2>1. \A r \in Runs : Begun(r) => Begun(r)'
    BY <2>0, Small DEF Begun
  <2> QED
    BY <2>0, <2>1 DEF ThreadsHold, ThreadHolds, Alive, Thread, Punctual, Own
<1> QED
  BY <1>1, <1>2, <1>3, <1>4, <1>5, <1>6 DEF MainStep

LEMMA ThreadsKept ==
  ASSUME Types, ThreadsHold, RecordHolds, [Next]_vars
  PROVE  ThreadsHold'
<1>1. ASSUME NEW r \in Runs, ThreadStep(r)
      PROVE  ThreadsHold'
  <2>1. UNCHANGED main /\ Alive(r) /\ r = main.run /\ main.at \in {"moving", "join"}
    BY <1>1, ThreadMoves
  <2>2. PICK s : Becomes(r, s)
    BY <1>1, ThreadMoves
  <2>3. spawner'[r] = s /\ \A q \in Runs : q # r => UNCHANGED spawner[q]
    BY <2>2 DEF Becomes, Types, BenchmarkTypes
  <2>4. \A q \in Runs : Begun(q) <=> Begun(q)'
    BY <2>1 DEF Begun
  <2>5. \A q \in Runs : q # r => ThreadHolds(q)'
    BY <2>1, <2>3, <2>4 DEF ThreadsHold, ThreadHolds, Alive, Thread, Punctual, Own
  <2>6. ThreadHolds(r)'
    BY <2>1, <2>2, <2>3, <2>4 DEF Becomes, ThreadsHold, ThreadHolds, Alive, Thread, Punctual, Own
  <2> QED
    BY <2>1, <2>2, <2>3, <2>5, <2>6 DEF Becomes, ThreadsHold, Thread
<1>2. CASE UNCHANGED <<main, spawner>>
  BY <1>2 DEF ThreadsHold, ThreadHolds, Alive, Thread, Punctual, Own, Begun
<1>3. CASE UNCHANGED vars
  BY <1>2, <1>3 DEF vars, benchmark
<1>4. Callback \/ OnCollisionSpheres \/ ServerStep \/ (\E c \in calls : Serve(c)) => UNCHANGED <<main, spawner>>
  BY DEF Callback, OnGlobalSolution, OnTelemetry, OnCollisionSpheres, ServerStep, Accept,
     Invalidate, Replan, Stuck, EndMotion, Serve, benchmark
<1> QED
  BY <1>1, <1>2, <1>3, <1>4, ThreadsBesideMain DEF Next, ServerStep, Callback

-----------------------------------------------------------------------------
(* The order of the goals.                                                 *)
LEMMA Numbers ==
  /\ Number(NoGoal) = 0
  /\ \A g \in GoalIds : Number(g) \in Nat /\ (g # NoGoal => Number(g) >= 1)
  /\ \A g \in SentGoals : Number(g) \in Nat /\ Number(g) >= 1
  /\ \A r \in Runs : Number(<<r, "start">>) = 2 * r - 1 /\ Number(<<r, "measured">>) = 2 * r
<1>1. Number(NoGoal) = 0
  BY DEF Number
<1>2. \A r \in Runs : /\ <<r, "start">> # NoGoal /\ <<r, "measured">> # NoGoal
                      /\ Number(<<r, "start">>) = 2 * r - 1 /\ Number(<<r, "measured">>) = 2 * r
  <2> SUFFICES ASSUME NEW r \in Runs
               PROVE  /\ <<r, "start">> # NoGoal /\ <<r, "measured">> # NoGoal
                      /\ Number(<<r, "start">>) = 2 * r - 1 /\ Number(<<r, "measured">>) = 2 * r
    OBVIOUS
  <2>1. r \in Int
    BY Small
  <2>2. <<r, "start">> # NoGoal /\ <<r, "measured">> # NoGoal
    BY GoalFacts
  <2>3. /\ <<r, "start">>[1] = r /\ <<r, "start">>[2] = "start" /\ <<r, "measured">>[1] = r
        /\ <<r, "measured">>[2] = "measured"
    OBVIOUS
  <2>4. Number(<<r, "start">>) = 2 * r - 1
    BY <2>2, <2>3 DEF Number
  <2>5. Number(<<r, "measured">>) = 2 * r - 0 /\ 2 * r - 0 = 2 * r
    BY <2>1, <2>2, <2>3 DEF Number
  <2> QED
    BY <2>2, <2>4, <2>5
<1>3. \A g \in SentGoals : Number(g) \in Nat /\ Number(g) >= 1
  <2> SUFFICES ASSUME NEW g \in SentGoals
               PROVE  Number(g) \in Nat /\ Number(g) >= 1
    OBVIOUS
  <2>1. PICK r \in Runs : g \in {<<r, "start">>, <<r, "measured">>}
    BY DEF SentGoals
  <2>2. r \in Nat /\ r >= 1
    BY Small
  <2> QED
    <3>1. Number(g) \in {2 * r - 1, 2 * r}
      BY <1>2, <2>1
    <3> QED
      BY <2>2, <3>1
<1> QED
  BY <1>1, <1>2, <1>3, GoalFacts

LEMMA OrderLater ==
  ASSUME NEW queue \in Seq(SentGoals), NEW now \in GoalIds, NEW last \in GoalIds, NEW sent \in Int,
         NEW later \in Int, sent <= later, InOrder(queue, now, last, sent)
  PROVE  InOrder(queue, now, last, later) /\ InOrder(queue, now, NoGoal, later)
<1>1. \A i \in DOMAIN queue : Number(queue[i]) \in Nat /\ Number(queue[i]) >= 1
  BY Numbers
<1> QED
  BY <1>1, Numbers DEF InOrder

LEMMA OrderSends ==
  ASSUME NEW queue \in Seq(SentGoals), NEW now \in GoalIds, NEW last \in GoalIds, NEW sent \in Int,
         NEW goal \in SentGoals, NEW later \in Int, sent < Number(goal), Number(goal) <= later, 
         InOrder(queue, now, last, sent)
  PROVE  InOrder(Append(queue, goal), now, last, later)
<1> DEFINE q == Append(queue, goal)
<1>1. q \in Seq(SentGoals) /\ Len(q) = Len(queue) + 1 /\ DOMAIN q = 1 .. Len(queue) + 1 /\ DOMAIN queue = 1 .. Len(queue)
      /\ (\A i \in DOMAIN queue : q[i] = queue[i]) /\ q[Len(queue) + 1] = goal /\ Len(queue) \in Nat
  OBVIOUS
<1>2. \A i \in DOMAIN queue : Number(queue[i]) \in Nat /\ Number(queue[i]) < Number(goal)
  BY Numbers DEF InOrder
<1>3. /\ Number(now) < Number(goal) /\ Number(last) < Number(goal) /\ Number(now) \in Nat
      /\ Number(last) \in Nat
  BY Numbers DEF InOrder
<1>4. Number(goal) \in Nat
  BY Numbers
<1>5. \A i \in DOMAIN q : i \in DOMAIN queue \/ i = Len(queue) + 1
  BY <1>1
<1>6. \A i \in DOMAIN queue : i \in Nat /\ i <= Len(queue)
  BY <1>1
<1> HIDE DEF q
<1>7. \A i \in DOMAIN q : Number(q[i]) <= later /\ Number(now) < Number(q[i]) /\ Number(last) < Number(q[i])
  BY <1>1, <1>2, <1>3, <1>4, <1>5 DEF InOrder
<1>8. \A i, j \in DOMAIN q : i < j => Number(q[i]) < Number(q[j])
  BY <1>1, <1>2, <1>4, <1>5, <1>6 DEF InOrder
<1>9. /\ (now # NoGoal => Number(now) <= later /\ Number(last) < Number(now))
      /\ (last # NoGoal => Number(last) <= later)
  BY <1>3, <1>4 DEF InOrder
<1> QED
  BY <1>7, <1>8, <1>9 DEF InOrder, q

LEMMA OrderTakes ==
  ASSUME NEW queue \in Seq(SentGoals), queue # <<>>, NEW now \in GoalIds, NEW last \in GoalIds, NEW sent \in Int,
         InOrder(queue, now, last, sent)
  PROVE  InOrder(Tail(queue), Head(queue), last, sent) /\ InOrder(Tail(queue), NoGoal, Head(queue), sent)
<1> DEFINE q == Tail(queue)
           h == Head(queue)
<1>1. q \in Seq(SentGoals) /\ (\A i \in DOMAIN q : i + 1 \in DOMAIN queue /\ q[i] = queue[i + 1] /\ i \in Nat /\ i >= 1)
      /\ h \in SentGoals /\ 1 \in DOMAIN queue /\ h = queue[1]
  OBVIOUS
<1> HIDE DEF q, h
<1>2. \A i \in DOMAIN queue : Number(queue[i]) \in Nat /\ Number(queue[i]) >= 1
  BY Numbers
<1>3. \A i \in DOMAIN q : Number(h) < Number(q[i]) /\ Number(last) < Number(q[i]) /\ Number(q[i]) <= sent /\ 0 < Number(q[i])
  BY <1>1, <1>2, Numbers DEF InOrder
<1>4. \A i, j \in DOMAIN q : i < j => Number(q[i]) < Number(q[j])
  BY <1>1 DEF InOrder
<1>5. Number(h) <= sent /\ Number(last) < Number(h)
  BY <1>1 DEF InOrder
<1> QED
  BY <1>3, <1>4, <1>5, Numbers DEF InOrder, q, h

LEMMA OrderEnds ==
  ASSUME NEW queue \in Seq(SentGoals), NEW now \in GoalIds, NEW last \in GoalIds, NEW sent \in Int,
         InOrder(queue, now, last, sent)
  PROVE  InOrder(queue, NoGoal, now, sent)
<1>1. \A i \in DOMAIN queue : Number(queue[i]) \in Nat /\ Number(queue[i]) >= 1
  BY Numbers
<1> QED
  BY <1>1, Numbers DEF InOrder

(* Nothing is on its way once the last goal has ended.                     *)
LEMMA OrderLast ==
  ASSUME NEW queue \in Seq(SentGoals), NEW now \in GoalIds, NEW last \in GoalIds, NEW sent \in Int,
         Number(last) = sent, last # NoGoal, InOrder(queue, now, last, sent)
  PROVE  queue = <<>> /\ now = NoGoal
<1>1. \A i \in DOMAIN queue : FALSE
  BY Numbers DEF InOrder
<1>2. Len(queue) = 0
  BY <1>1
<1> QED
  BY <1>2, Numbers DEF InOrder

(* How the main thread goes on.                                            *)
LEMMA MainGoes ==
  ASSUME Types, MainStep
  PROVE  \/ /\ BeginRuns /\ main.run = 0 /\ main'.run \in {0, 1} /\ main'.ok = main.ok
            /\ main'.at = IF main'.run = 1 THEN "clear" ELSE "done"
         \/ /\ main.run \in Runs /\ main'.run = main.run
            /\ \/ /\ Cleared /\ main.at = "clear" /\ main'.at = "starting" /\ main'.ok = main.ok
                  /\ goals' = Append(goals, <<main.run, "start">>)
               \/ /\ Cleared /\ main.at \in {"clearFailed", "clearAfter"} /\ main'.at = "next"
                  /\ UNCHANGED goals /\ main'.ok = main.ok
               \/ /\ GoalOver /\ main.at = "starting" /\ main'.at = "settle" /\ main'.ok = main.ok
                  /\ ended = [goal |-> <<main.run, "start">>, ok |-> TRUE]
               \/ GoalOver /\ main.at = "starting" /\ main'.at = "clearFailed" /\ main'.ok = FALSE
               \/ /\ GoalOver /\ main.at = "moving" /\ main'.at = "join"
                  /\ main'.ok => ended = [goal |-> <<main.run, "measured">>, ok |-> TRUE]
               \/ Measure /\ main.at = "settle" /\ main'.at = "moving" /\ main'.ok = main.ok
               \/ Join /\ main.at = "join" /\ main'.at = "clearAfter" /\ main'.ok = main.ok
               \/ NextRun /\ main.at = "next" /\ main'.at = "done" /\ main'.ok = main.ok
         \/ /\ NextRun /\ main.run \in Runs /\ main.at = "next" /\ main'.at = "clear"
            /\ main'.run = main.run + 1 /\ main'.run \in Runs /\ main'.ok = FALSE
<1>0. main.at # "new" /\ main.at # "done" => main.run \in Runs
  BY DEF Types, BenchmarkTypes
<1>1. CASE BeginRuns
  <2>1. main.run = 0
    BY <1>1 DEF BeginRuns, Types, BenchmarkTypes
  <2>2. \/ main' = [[main EXCEPT !.run = 1] EXCEPT !.at = "clear"]
        \/ main' = [main EXCEPT !.at = "done"]
    BY <1>1 DEF BeginRuns, Clear
  <2>3. \/ main' = [at |-> "clear", run |-> 1, ok |-> main.ok]
        \/ main' = [at |-> "done", run |-> main.run, ok |-> main.ok]
    BY <2>2 DEF Types, BenchmarkTypes
  <2> QED
    BY <1>1, <2>1, <2>3
<1>2. CASE Cleared
  BY <1>0, <1>2 DEF Cleared, Types, BenchmarkTypes
<1>3. CASE GoalOver
  <2>1. main.run \in Runs
    BY <1>0, <1>3 DEF GoalOver
  <2>2. CASE main.at = "moving"
    <3>1. PICK ok \in BOOLEAN : (ok => Reached(Goal(main))) /\ main' = [main EXCEPT !.at = "join", !.ok = ok]
      BY <1>3, <2>2 DEF GoalOver
    <3>2. main'.at = "join" /\ main'.ok = ok /\ main'.run = main.run
      BY <3>1 DEF Types, BenchmarkTypes
    <3> QED
      BY <1>3, <2>1, <2>2, <3>1, <3>2 DEF Reached, Goal
  <2>3. CASE main.at = "starting"
    <3>1. PICK ok \in BOOLEAN : (ok => Reached(Goal(main))) /\ main' = IF ok THEN [main EXCEPT !.at = "settle"] ELSE [[main EXCEPT !.ok = FALSE] EXCEPT !.at = "clearFailed"]
      BY <1>3, <2>3 DEF GoalOver, Clear
    <3>2. /\ main'.at = (IF ok THEN "settle" ELSE "clearFailed")
          /\ main'.ok = (IF ok THEN main.ok ELSE FALSE) /\ main'.run = main.run
      BY <3>1 DEF Types, BenchmarkTypes
    <3> QED
      <4>1. Goal(main) = <<main.run, "start">>
        BY <2>3 DEF Goal
      <4>2. CASE ok
        BY <1>3, <2>1, <2>3, <3>1, <3>2, <4>1, <4>2 DEF Reached
      <4>3. CASE ~ ok
        BY <1>3, <2>1, <2>3, <3>2, <4>3
      <4> QED
        BY <4>2, <4>3
  <2> QED
    BY <1>3, <2>2, <2>3 DEF GoalOver
<1>4. CASE Measure
  BY <1>0, <1>4 DEF Measure, Types, BenchmarkTypes
<1>5. CASE Join
  BY <1>0, <1>5 DEF Join, Clear, Types, BenchmarkTypes
<1>6. CASE NextRun
  <2>1. main.run \in Runs /\ main.at = "next"
    BY <1>0, <1>6 DEF NextRun
  <2>2. CASE main.run < MaxRuns
    <3>1. main' = [at |-> "clear", run |-> main.run + 1, ok |-> FALSE]
      BY <1>6, <2>2 DEF NextRun, Clear, Types, BenchmarkTypes
    <3>2. main.run + 1 \in Runs
      BY <2>1, <2>2, Small DEF Runs
    <3> QED
      BY <1>6, <2>1, <3>1, <3>2
  <2>3. CASE ~ main.run < MaxRuns
    BY <1>6, <2>1, <2>3 DEF NextRun, Types, BenchmarkTypes
  <2> QED
    BY <2>2, <2>3
<1> QED
  BY <1>1, <1>2, <1>3, <1>4, <1>5, <1>6 DEF MainStep

LEMMA SentTypes ==
  ASSUME Types
  PROVE  /\ goals \in Seq(SentGoals) /\ moving.goal \in GoalIds /\ ended.goal \in GoalIds /\ Sent \in Int
         /\ main.run \in 0..MaxRuns /\ main.run \in Int
<1>1. main.run \in Int /\ 2 * main.run \in Int
  BY Small DEF Types, BenchmarkTypes
<1> QED
  BY <1>1 DEF Types, BenchmarkTypes, MotionTypes, Sent

LEMMA MotionBesideMain ==
  ASSUME Types, Types', RecordHolds, MotionHolds, MainStep
  PROVE  MotionHolds'
<1>0. /\ goals \in Seq(SentGoals) /\ moving.goal \in GoalIds /\ ended.goal \in GoalIds /\ Sent \in Int /\ Sent' \in Int
      /\ InOrder(goals, moving.goal, ended.goal, Sent) /\ main.run \in Int
  <2>1. main'.run \in Int /\ 2 * main'.run \in Int
    BY Small DEF Types, BenchmarkTypes
  <2>2. Sent' \in Int
    BY <2>1 DEF Sent
  <2> QED
    BY <2>2, SentTypes DEF MotionHolds, GoalsInOrder
<1>1. CASE /\ BeginRuns /\ main.run = 0 /\ main'.run \in {0, 1}
           /\ main'.at = (IF main'.run = 1 THEN "clear" ELSE "done")
  <2>1. UNCHANGED <<goals, moving, ended>> /\ main.at = "new"
    BY <1>1 DEF BeginRuns, motion
  <2>2. Sent <= Sent'
    BY <1>1, <2>1 DEF Sent
  <2>3. GoalsInOrder'
    BY <1>0, <2>1, <2>2, OrderLater DEF GoalsInOrder
  <2> QED
    BY <1>1, <2>3 DEF MotionHolds, Open
<1>2. CASE /\ Cleared /\ main'.run = main.run /\ main.run \in Runs /\ main.at = "clear"
           /\ main'.at = "starting" /\ goals' = Append(goals, <<main.run, "start">>)
  <2>1. UNCHANGED <<moving, ended>>
    BY <1>2 DEF Cleared
  <2>2. /\ Sent = 2 * main.run - 2 /\ Sent' = 2 * main.run - 1
        /\ Number(<<main.run, "start">>) = 2 * main.run - 1
    BY <1>2, Numbers DEF Sent
  <2>3. <<main.run, "start">> \in SentGoals
    BY <1>2, GoalFacts
  <2>4. GoalsInOrder'
    BY <1>0, <1>2, <2>1, <2>2, <2>3, OrderSends DEF GoalsInOrder
  <2> QED
    BY <1>2, <2>4 DEF MotionHolds, Open
<1>3. CASE /\ Cleared /\ main'.run = main.run /\ main.at \in {"clearFailed", "clearAfter"}
           /\ main'.at = "next" /\ UNCHANGED goals
  <2>1. UNCHANGED <<moving, ended>>
    BY <1>3 DEF Cleared
  <2>2. Sent <= Sent'
    BY <1>0, <1>3 DEF Sent
  <2>3. GoalsInOrder'
    BY <1>0, <1>3, <2>1, <2>2, OrderLater DEF GoalsInOrder
  <2> QED
    BY <1>3, <2>3 DEF MotionHolds, Open
<1>4. CASE GoalOver /\ main'.run = main.run
  <2>1. /\ UNCHANGED <<goals, moving, solutions, telemetry>> /\ ended' = Unfinished
        /\ ended'.goal = NoGoal
    BY <1>4 DEF GoalOver, topics, Unfinished
  <2>2. \/ main.at = "starting" /\ main'.at \in {"settle", "clearFailed"}
        \/ main.at = "moving" /\ main'.at = "join"
    BY <1>4 DEF GoalOver, Clear, Types, BenchmarkTypes
  <2>3. Sent = Sent'
    BY <1>4, <2>2 DEF Sent
  <2>4. GoalsInOrder'
    BY <1>0, <2>1, <2>3, OrderLater DEF GoalsInOrder
  <2>5. CASE main'.at = "settle"
    <3>1. /\ main.run \in Runs /\ main.at = "starting"
          /\ ended = [goal |-> <<main.run, "start">>, ok |-> TRUE]
      BY <1>4, <2>2, <2>5, MainGoes DEF MainStep, Measure, NextRun, Join, Cleared, BeginRuns
    <3>2. Number(ended.goal) = Sent /\ ended.goal # NoGoal
      BY <3>1, Numbers, GoalFacts DEF Sent
    <3>3. Idle'
      BY <1>0, <2>1, <3>2, OrderLast DEF Idle
    <3> QED
      BY <2>4, <2>5, <3>3 DEF MotionHolds, Open
  <2>6. CASE main'.at # "settle"
    BY <1>4, <2>1, <2>2, <2>4, <2>6 DEF MotionHolds, Open, OnlyMeasured, Measured
  <2> QED
    BY <2>5, <2>6
<1>5. CASE /\ Measure /\ main'.run = main.run /\ main.run \in Runs /\ main.at = "settle"
           /\ main'.at = "moving"
  <2>1. /\ UNCHANGED <<moving, ended, solutions, telemetry>> /\ solutions = <<>>
        /\ telemetry = <<>> /\ goals' = Append(goals, Measured)
    BY <1>5 DEF Measure, topics, Settled, Measured
  <2>2. Sent = 2 * main.run - 1 /\ Sent' = 2 * main.run /\ Number(Measured) = 2 * main.run
    BY <1>5, Numbers DEF Sent, Measured
  <2>3. Measured \in SentGoals /\ UNCHANGED Measured
    BY <1>5, GoalFacts DEF Measured
  <2>4. GoalsInOrder'
    BY <1>0, <1>5, <2>1, <2>2, <2>3, OrderSends DEF GoalsInOrder
  <2>5. goals = <<>> /\ moving.goal = NoGoal
    BY <1>5 DEF MotionHolds, Idle
  <2>6. goals' = <<Measured>>
    BY <2>1, <2>5
  <2>7. OnlyMeasured(goals)' /\ OnlyMeasured(solutions)' /\ OnlyMeasured(telemetry)'
    BY <2>1, <2>3, <2>6 DEF OnlyMeasured
  <2> QED
    BY <1>5, <2>1, <2>4, <2>5, <2>7 DEF MotionHolds, Open
<1>6. CASE Join /\ main'.run = main.run /\ main.at = "join" /\ main'.at = "clearAfter"
  <2>1. UNCHANGED <<goals, moving, ended, solutions, telemetry>>
    BY <1>6 DEF Join, motion, topics
  <2>2. Sent = Sent' /\ Open /\ UNCHANGED Measured
    BY <1>6 DEF Sent, Open, Measured
  <2> QED
    BY <1>6, <2>1, <2>2 DEF MotionHolds, GoalsInOrder, OnlyMeasured, Measured
<1>7. CASE NextRun /\ main.at = "next" /\ main'.at \in {"clear", "done"} /\ main'.run = IF main'.at = "clear" THEN main.run + 1 ELSE main.run
  <2>1. UNCHANGED <<goals, moving, ended>>
    BY <1>7 DEF NextRun, motion
  <2>2. Sent = Sent'
    BY <1>0, <1>7 DEF Sent
  <2>3. GoalsInOrder'
    BY <1>0, <2>1, <2>2 DEF GoalsInOrder
  <2> QED
    BY <1>7, <2>3 DEF MotionHolds, Open
<1> QED
  BY <1>1, <1>2, <1>3, <1>4, <1>5, <1>6, <1>7, MainGoes

LEMMA MotionBesideServer ==
  ASSUME Types, Types', MotionHolds, ServerStep
  PROVE  MotionHolds'
<1>0. /\ goals \in Seq(SentGoals) /\ moving.goal \in GoalIds /\ ended.goal \in GoalIds /\ Sent \in Int
      /\ InOrder(goals, moving.goal, ended.goal, Sent) /\ NoGoal \in GoalIds
      /\ solutions \in Seq(SentGoals) /\ telemetry \in Seq(SentGoals)
  BY SentTypes, GoalFacts DEF MotionHolds, GoalsInOrder, Types, MotionTypes
<1>1. UNCHANGED main
  BY DEF ServerStep, Accept, Invalidate, Replan, Stuck, EndMotion, benchmark
<1>2. UNCHANGED <<Sent, Measured, Open>>
  BY <1>1 DEF Sent, Measured, Open
<1>3. ASSUME NEW q \in Seq(SentGoals), NEW g, OnlyMeasured(q), g = Measured
      PROVE  \A i \in DOMAIN Append(q, g) : Append(q, g)[i] = Measured
  BY <1>3 DEF OnlyMeasured
<1>4. ASSUME NEW q \in Seq(SentGoals), OnlyMeasured(q), q # <<>>
      PROVE  Head(q) = Measured /\ \A i \in DOMAIN Tail(q) : Tail(q)[i] = Measured
  BY <1>4 DEF OnlyMeasured
<1>5. CASE Accept
  <2>1. goals # <<>> /\ goals' = Tail(goals) /\ UNCHANGED telemetry
    BY <1>5 DEF Accept
  <2>2. \/ moving'.goal = Head(goals) /\ UNCHANGED ended /\ solutions' = Append(solutions, Head(goals))
        \/ moving'.goal = NoGoal /\ ended'.goal = Head(goals) /\ UNCHANGED solutions
    BY <1>5 DEF Accept, Still
  <2>3. GoalsInOrder'
    BY <1>0, <1>2, <2>1, <2>2, OrderTakes DEF GoalsInOrder
  <2>4. (main.at = "settle" => Idle)'
    BY <1>1, <2>1 DEF MotionHolds, Idle
  <2>5. CASE Open
    <3>1. Head(goals) = Measured /\ OnlyMeasured(goals)'
      BY <1>0, <1>2, <1>4, <2>1, <2>5 DEF MotionHolds, OnlyMeasured
    <3>2. OnlyMeasured(solutions)'
      BY <1>0, <1>2, <1>3, <2>2, <2>5, <3>1 DEF MotionHolds, OnlyMeasured
    <3>3. OnlyMeasured(telemetry)'
      BY <1>2, <2>1, <2>5 DEF MotionHolds, OnlyMeasured
    <3> QED
      BY <1>2, <2>2, <2>3, <2>4, <3>1, <3>2, <3>3 DEF MotionHolds
  <2> QED
    BY <1>2, <2>3, <2>4, <2>5 DEF MotionHolds
<1>6. CASE EndMotion
  <2>1. /\ UNCHANGED <<goals, solutions, telemetry>> /\ moving'.goal = NoGoal
        /\ ended'.goal = moving.goal
    BY <1>6 DEF EndMotion, topics, Still
  <2>2. GoalsInOrder'
    BY <1>0, <1>2, <2>1, OrderEnds DEF GoalsInOrder
  <2> QED
    BY <1>1, <1>2, <2>1, <2>2 DEF MotionHolds, Idle, OnlyMeasured
<1>7. CASE Invalidate \/ Replan \/ Stuck
  <2>1. UNCHANGED <<goals, ended>> /\ moving'.goal = moving.goal /\ moving.goal # NoGoal
    BY <1>7 DEF Invalidate, Replan, Stuck, Types, MotionTypes
  <2>2. /\ (UNCHANGED solutions) \/ solutions' = Append(solutions, moving.goal)
        /\ (UNCHANGED telemetry) \/ telemetry' = Append(telemetry, moving.goal)
    BY <1>7 DEF Invalidate, Replan, Stuck
  <2>3. GoalsInOrder'
    BY <1>2, <2>1 DEF MotionHolds, GoalsInOrder
  <2>4. Open => OnlyMeasured(solutions)' /\ OnlyMeasured(telemetry)'
    <3> SUFFICES ASSUME Open
                 PROVE  OnlyMeasured(solutions)' /\ OnlyMeasured(telemetry)'
      OBVIOUS
    <3>1. moving.goal = Measured /\ OnlyMeasured(solutions) /\ OnlyMeasured(telemetry)
      BY <2>1 DEF MotionHolds
    <3>2. OnlyMeasured(solutions)'
      <4>1. CASE UNCHANGED solutions
        BY <1>2, <3>1, <4>1 DEF OnlyMeasured
      <4>2. CASE solutions' = Append(solutions, moving.goal)
        BY <1>0, <1>2, <1>3, <3>1, <4>2 DEF OnlyMeasured
      <4> QED
        BY <2>2, <4>1, <4>2
    <3>3. OnlyMeasured(telemetry)'
      <4>1. CASE UNCHANGED telemetry
        BY <1>2, <3>1, <4>1 DEF OnlyMeasured
      <4>2. CASE telemetry' = Append(telemetry, moving.goal)
        BY <1>0, <1>2, <1>3, <3>1, <4>2 DEF OnlyMeasured
      <4> QED
        BY <2>2, <4>1, <4>2
    <3> QED
      BY <3>2, <3>3
  <2> QED
    BY <1>1, <1>2, <2>1, <2>3, <2>4 DEF MotionHolds, Idle, OnlyMeasured
<1> QED
  BY <1>5, <1>6, <1>7 DEF ServerStep

LEMMA MotionKept ==
  ASSUME Types, RecordHolds, MotionHolds, [Next]_vars
  PROVE  MotionHolds'
<1>0. Types'
  BY TypesKept
<1>1. CASE UNCHANGED <<main, goals, moving, ended, solutions, telemetry>>
  BY <1>1 DEF MotionHolds, GoalsInOrder, Sent, Idle, Open, OnlyMeasured, Measured
<1>2. ASSUME NEW r \in Runs, ThreadStep(r)
      PROVE  MotionHolds'
  BY <1>1, <1>2 DEF ThreadStep, PlanSeen, Resolve, Check, Look, Added, Spawned, motion, topics
<1>3. CASE Callback \/ OnCollisionSpheres
  <2>1. UNCHANGED <<main, goals, moving, ended>>
    BY <1>3 DEF Callback, OnGlobalSolution, OnTelemetry, OnCollisionSpheres, motion
  <2>2. /\ (UNCHANGED solutions) \/ (solutions # <<>> /\ solutions' = Tail(solutions))
        /\ (UNCHANGED telemetry) \/ (telemetry # <<>> /\ telemetry' = Tail(telemetry))
    BY <1>3 DEF Callback, OnGlobalSolution, OnTelemetry, OnCollisionSpheres, topics
  <2>3. solutions \in Seq(SentGoals) /\ telemetry \in Seq(SentGoals)
    BY DEF Types, MotionTypes
  <2>4. Open => OnlyMeasured(solutions)' /\ OnlyMeasured(telemetry)'
    <3> SUFFICES ASSUME Open
                 PROVE  OnlyMeasured(solutions)' /\ OnlyMeasured(telemetry)'
      OBVIOUS
    <3>1. OnlyMeasured(solutions) /\ OnlyMeasured(telemetry) /\ UNCHANGED Measured
      BY <2>1 DEF MotionHolds, Measured
    <3>2. OnlyMeasured(solutions)'
      BY <2>2, <2>3, <3>1 DEF OnlyMeasured
    <3>3. OnlyMeasured(telemetry)'
      BY <2>2, <2>3, <3>1 DEF OnlyMeasured
    <3> QED
      BY <3>2, <3>3
  <2> QED
    BY <2>1, <2>4 DEF MotionHolds, GoalsInOrder, Sent, Idle, Open, OnlyMeasured, Measured
<1>4. ASSUME NEW c \in calls, Serve(c)
      PROVE  MotionHolds'
  BY <1>1, <1>4 DEF Serve, benchmark, motion, topics
<1>5. CASE UNCHANGED vars
  BY <1>1, <1>5 DEF vars, benchmark, motion, topics
<1> QED
  BY <1>0, <1>2, <1>3, <1>4, <1>5, MotionBesideMain, MotionBesideServer DEF Next, ServerStep,
     Callback

-----------------------------------------------------------------------------
(* The record.                                                             *)
LEMMA RecordBesideMain ==
  ASSUME Types, RecordHolds, MainStep
  PROVE  RecordHolds'
<1>1. CASE ~ Open /\ ~ Open' /\ (UNCHANGED record \/ record' = NoRecord)
  BY <1>1 DEF RecordHolds
<1>2. CASE Open /\ ~ Open' /\ record' = NoRecord
  BY <1>2 DEF RecordHolds
<1>3. CASE Measure /\ main'.run = main.run /\ main'.at = "moving"
  <2>1. record' = [NoRecord EXCEPT !.run = main.run, !.sampling = TRUE]
    BY <1>3 DEF Measure
  <2>2. /\ record'.run = main.run /\ record'.plans = <<>> /\ record'.reference = NoGoal /\ record'.planned = None
        /\ record'.spawned = None /\ record'.invalidated = {}
    BY <2>1 DEF NoRecord
  <2>3. DOMAIN record'.plans = {}
    BY <2>2
  <2> QED
    BY <1>3, <2>2, <2>3 DEF RecordHolds, Open, Own
<1>4. CASE /\ Open /\ Open' /\ main'.run = main.run
           /\ (UNCHANGED record \/ record' = [record EXCEPT !.sampling = FALSE])
  <2>1. /\ record'.run = record.run /\ record'.plans = record.plans /\ record'.reference = record.reference
        /\ record'.planned = record.planned /\ record'.spawned = record.spawned /\ record'.invalidated = record.invalidated
    BY <1>4 DEF Types, BenchmarkTypes, Records
  <2> QED
    BY <1>4, <2>1 DEF RecordHolds, Own
<1> QED
  <2>1. CASE BeginRuns
    BY <1>1, <2>1 DEF BeginRuns, Clear, Open, Types, BenchmarkTypes
  <2>2. CASE Cleared
    BY <1>1, <1>2, <2>2 DEF Cleared, Open, Types, BenchmarkTypes
  <2>3. CASE GoalOver
    <3>1. \/ main.at = "starting" /\ main'.at \in {"settle", "clearFailed"} /\ UNCHANGED record
          \/ main.at = "moving" /\ main'.at = "join" /\ main'.run = main.run /\ record' = [record EXCEPT !.sampling = FALSE]
      BY <2>3 DEF GoalOver, Clear, Types, BenchmarkTypes
    <3> QED
      BY <1>1, <1>4, <3>1 DEF Open
  <2>4. CASE Measure
    BY <1>3, <2>4 DEF Measure, Types, BenchmarkTypes
  <2>5. CASE Join
    BY <1>4, <2>5 DEF Join, Clear, Open, Types, BenchmarkTypes
  <2>6. CASE NextRun
    BY <1>1, <2>6 DEF NextRun, Clear, Open, Types, BenchmarkTypes
  <2> QED
    BY <2>1, <2>2, <2>3, <2>4, <2>5, <2>6 DEF MainStep

LEMMA RecordKept ==
  ASSUME Types, ThreadsHold, RecordHolds, MotionHolds, [Next]_vars
  PROVE  RecordHolds'
<1>1. CASE UNCHANGED <<main, record>>
  BY <1>1 DEF RecordHolds, Open, Own
<1>2. ASSUME NEW r \in Runs, ThreadStep(r)
      PROVE  RecordHolds'
  <2>1. UNCHANGED main /\ r = main.run /\ Open
    BY <1>2, ThreadMoves DEF Open
  <2>2. \/ UNCHANGED record
        \/ record' = [record EXCEPT !.planned = r]
        \/ record' = [record EXCEPT !.spawned = r]
    BY <1>2 DEF ThreadStep, PlanSeen, Resolve, Check, Look, Added, Spawned
  <2>3. /\ record'.run = record.run /\ record'.plans = record.plans /\ record'.reference = record.reference
        /\ record'.planned \in {record.planned, r} /\ record'.spawned \in {record.spawned, r} /\ record'.invalidated = record.invalidated
    BY <2>2 DEF Types, BenchmarkTypes, Records
  <2> QED
    BY <2>1, <2>3 DEF RecordHolds, Open, Own
<1>3. ASSUME UNCHANGED main, ~ Recording, UNCHANGED record
      PROVE  RecordHolds'
  BY <1>1, <1>3
<1>4. ASSUME Recording, OnGlobalSolution \/ OnTelemetry
      PROVE  RecordHolds'
  <2>0. Open /\ record.run = main.run
    BY <1>4 DEF Recording, RecordHolds, NoRecord
  <2>1. CASE OnGlobalSolution
    <3>1. UNCHANGED main /\ record' = Planned(record, Head(solutions)) /\ Head(solutions) = Measured
      BY <1>4, <2>0, <2>1, FirstTyped DEF OnGlobalSolution, MotionHolds, OnlyMeasured, Types,
         MotionTypes
    <3>2. /\ record'.run = record.run /\ record'.planned = record.planned /\ record'.spawned = record.spawned
          /\ record'.invalidated = record.invalidated /\ record'.reference \in {record.reference, Measured}
          /\ record'.plans \in {record.plans, Append(record.plans, Measured)}
      BY <3>1 DEF Planned, Types, BenchmarkTypes, Records
    <3>3. \A i \in DOMAIN record'.plans : Own(record'.plans[i])
      <4>1. \A i \in DOMAIN record.plans : Own(record.plans[i])
        BY <2>0 DEF RecordHolds
      <4>2. record.plans \in Seq(GoalIds)
        BY DEF Types, BenchmarkTypes, Records
      <4>3. Own(Measured)
        BY DEF Own, Measured
      <4> QED
        BY <3>2, <4>1, <4>2, <4>3
    <3> QED
      BY <2>0, <3>1, <3>2, <3>3 DEF RecordHolds, Open, Own, Measured
  <2>2. CASE OnTelemetry
    <3>1. /\ UNCHANGED main /\ record' = PathInvalidated(record, Head(telemetry))
          /\ Head(telemetry) = Measured
      BY <1>4, <2>0, <2>2, FirstTyped DEF OnTelemetry, MotionHolds, OnlyMeasured, Types, MotionTypes
    <3>2. /\ record'.run = record.run /\ record'.planned = record.planned /\ record'.spawned = record.spawned
          /\ record'.invalidated = record.invalidated \cup {Measured} /\ record'.reference = record.reference /\ record'.plans = record.plans
      BY <3>1 DEF PathInvalidated, Types, BenchmarkTypes, Records
    <3> QED
      BY <2>0, <3>1, <3>2 DEF RecordHolds, Open, Own, Measured
  <2> QED
    BY <1>4, <2>1, <2>2
<1>5. CASE OnGlobalSolution \/ OnTelemetry
  BY <1>3, <1>4, <1>5 DEF OnGlobalSolution, OnTelemetry
<1>6. CASE OnCollisionSpheres
  <2>0. Open /\ UNCHANGED main
    BY <1>6 DEF OnCollisionSpheres, Sampling, RecordHolds, NoRecord
  <2>1. /\ record'.run = record.run /\ record'.plans = record.plans /\ record'.reference = record.reference
        /\ record'.planned = record.planned /\ record'.spawned = record.spawned /\ record'.invalidated = record.invalidated
    BY <1>6 DEF OnCollisionSpheres, Types, BenchmarkTypes, Records
  <2> QED
    BY <2>0, <2>1 DEF RecordHolds, Open, Own
<1>7. CASE ServerStep \/ (\E c \in calls : Serve(c)) \/ UNCHANGED vars
  BY <1>1, <1>7 DEF ServerStep, Accept, Invalidate, Replan, Stuck, EndMotion, Serve, benchmark, vars
<1> QED
  BY <1>2, <1>5, <1>6, <1>7, RecordBesideMain DEF Next, ServerStep, Callback

-----------------------------------------------------------------------------
(* The wall, and the calls for it.                                         *)
LEMMA BegunStays ==
  ASSUME Types, ThreadsHold, RecordHolds, [Next]_vars, NEW r \in Runs, Begun(r)
  PROVE  Begun(r)'
<1>0. main.run \in Int /\ r \in Nat /\ r >= 1
  BY Small DEF Types, BenchmarkTypes
<1>1. CASE UNCHANGED main
  BY <1>1 DEF Begun
<1>2. CASE MainStep
  <2>1. \/ main.run = 0
        \/ main'.run = main.run + 1
        \/ main'.run = main.run /\ main'.at \in {"moving", "join", "clearAfter", "next", "done"}
        \/ main'.run = main.run /\ main.at \notin {"moving", "join", "clearAfter", "next", "done"}
    BY <1>2, MainGoes
  <2> QED
    BY <1>0, <2>1 DEF Begun
<1>3. ASSUME NEW q \in Runs, ThreadStep(q)
      PROVE  UNCHANGED main
  BY <1>3, ThreadMoves
<1>4. Callback \/ OnCollisionSpheres \/ ServerStep \/ (\E c \in calls : Serve(c)) \/ UNCHANGED vars => UNCHANGED main
  BY DEF Callback, OnGlobalSolution, OnTelemetry, OnCollisionSpheres, ServerStep, Accept,
     Invalidate, Replan, Stuck, EndMotion, Serve, benchmark, vars
<1> QED
  BY <1>1, <1>2, <1>3, <1>4 DEF Next, ServerStep, Callback

(* Nothing is on its way to the planner, or back, that nobody waits for.   *)
LEMMA QuietOutside ==
  ASSUME InTime, Due = {}
  PROVE  calls = {} /\ answers = {}
BY DEF InTime

LEMMA CallKinds ==
  \A r, when : /\ Call("remove", r, when).kind = "remove"
               /\ Call("add", r, when).kind = "add" /\ Call("add", r, when).run = r
BY DEF Call

LEMMA WallsBesideMain ==
  ASSUME Types, ThreadsHold, RecordHolds, WallsHold, MainStep
  PROVE  WallsHold'
<1>0. \A r \in Runs : Begun(r) => Begun(r)'
  BY BegunStays DEF Next
<1>1. UNCHANGED wall
  BY DEF MainStep, BeginRuns, Cleared, GoalOver, Measure, Join, NextRun, planner
<1>2. (wall \in Runs => Begun(wall))'
  BY <1>0, <1>1 DEF WallsHold
<1>3. \A c \in calls' : c \in calls \/ c = Call("remove", main'.run, main'.at)
  BY DEF MainStep, BeginRuns, Cleared, GoalOver, Measure, Join, NextRun, planner, Clear, Types,
     BenchmarkTypes
<1>4. \A c \in calls' : c.kind = "add" => Begun(c.run)'
  <2>1. \A c \in calls : c.run \in Runs
    BY DEF Types, PlannerTypes, CallIds
  <2> QED
    BY <1>0, <1>3, <2>1, CallKinds DEF WallsHold
<1>5. ASSUME lost' = 0
      PROVE  InTime'
  <2>1. lost = 0
    <3>1. UNCHANGED lost \/ lost' = lost + 1
      BY DEF MainStep, BeginRuns, Cleared, GoalOver, Measure, Join, NextRun, ghosts, Lose
    <3> QED
      BY <1>5, <3>1 DEF Types, GhostTypes
  <2>2. InTime
    BY <2>1 DEF WallsHold
  (* A step that begins to clear finds nothing on its way.                 *)
  <2>3. ASSUME calls = {}, answers = {}, UNCHANGED answers, main'.at \in {"clear", "clearFailed"},
               calls' = {Call("remove", main'.run, main'.at)}
        PROVE  InTime'
    BY <2>3 DEF InTime, Due, Clearing, Open
  <2>4. CASE BeginRuns
    <3>1. main.at = "new" /\ UNCHANGED answers
      BY <2>4 DEF BeginRuns
    <3>2. calls = {} /\ answers = {}
      BY <2>2, <3>1, QuietOutside DEF Due, Clearing
    <3>3. \/ main'.at = "clear" /\ calls' = {Call("remove", main'.run, main'.at)}
          \/ main'.at = "done" /\ calls' = {}
      BY <2>4, <3>2 DEF BeginRuns, Clear, Types, BenchmarkTypes
    <3> QED
      BY <2>3, <3>1, <3>2, <3>3 DEF InTime, Due, Clearing, Open
  <2>5. CASE Cleared
    <3>1. /\ main.at \in Clearing /\ main'.at \in {"starting", "next"}
          /\ UNCHANGED <<calls, wall>> /\ marker' = None
      BY <2>5 DEF Cleared, Clearing, Hide, Types, BenchmarkTypes
    <3>2. PICK a \in answers : answers' = answers \ {a}
      <4>1. ~ Lose
        BY <1>5, <2>1 DEF Lose
      <4> DEFINE known == [call |-> Call("remove", main.run, main.at), ok |-> TRUE]
      <4>2. known \in answers /\ answers' = answers \ {known}
        BY <2>5, <4>1 DEF Cleared
      <4> QED
        BY <4>2
    <3>3. answers' = {} /\ calls' = {} /\ wall' = None
      BY <2>2, <3>1, <3>2 DEF InTime
    <3> QED
      BY <3>1, <3>3 DEF InTime, Due, Clearing, Open
  <2>6. CASE GoalOver
    <3>1. UNCHANGED <<answers, wall, marker>>
      BY <2>6 DEF GoalOver
    <3>2. CASE main.at = "starting"
      <4>1. calls = {} /\ answers = {} /\ wall = None /\ marker = None
        BY <2>2, <3>2, QuietOutside DEF Due, Clearing, InTime
      <4>2. \/ main'.at = "settle" /\ calls' = {}
            \/ main'.at = "clearFailed" /\ calls' = {Call("remove", main'.run, main'.at)}
        BY <2>6, <3>2, <4>1 DEF GoalOver, Clear, Types, BenchmarkTypes
      <4> QED
        BY <2>3, <3>1, <4>1, <4>2 DEF InTime, Due, Clearing, Open
    <3>3. CASE main.at = "moving"
      <4>1. UNCHANGED <<calls, main.run>> /\ main'.at = "join"
        BY <2>6, <3>3 DEF GoalOver, Types, BenchmarkTypes
      <4>2. UNCHANGED Thread(main.run)
        <5>1. PICK ok \in BOOLEAN : spawner' = [spawner EXCEPT ![main.run] = Stopped(@, ok)]
          BY <2>6, <3>3 DEF GoalOver
        <5>2. main.run \in Runs /\ spawner[main.run] \in ThreadStates
          BY <3>3 DEF Types, BenchmarkTypes
        <5>3. spawner'[main.run] = Stopped(spawner[main.run], ok)
          BY <5>1, <5>2 DEF Types, BenchmarkTypes
        <5>4. Stopped(spawner[main.run], ok).at = spawner[main.run].at
          BY <5>2 DEF Stopped, ThreadStates
        <5> QED
          BY <4>1, <5>3, <5>4 DEF Thread
      <4>3. UNCHANGED Due
        BY <3>3, <4>1, <4>2 DEF Due, Clearing
      <4> QED
        BY <2>2, <3>1, <3>3, <4>1, <4>3 DEF InTime, Clearing, Open
    <3> QED
      BY <2>6, <3>2, <3>3 DEF GoalOver
  <2>7. CASE Measure
    <3>1. main.at = "settle" /\ main'.at = "moving" /\ UNCHANGED <<calls, answers, wall>>
      BY <2>7 DEF Measure, planner, Types, BenchmarkTypes
    <3>2. calls = {} /\ answers = {} /\ wall = None
      BY <2>2, <3>1, QuietOutside DEF Due, Clearing, InTime
    <3> QED
      BY <3>1, <3>2 DEF InTime, Clearing, Open
  <2>8. CASE Join
    <3>1. /\ main.at = "join" /\ UNCHANGED answers /\ main'.at = "clearAfter"
          /\ main'.run = main.run /\ main.run \in Runs
      BY <2>8 DEF Join, Clear, Types, BenchmarkTypes
    <3>2. ~ Alive(main.run)
      <4>1. ThreadsHold'
        BY ThreadsBesideMain
      <4>2. UNCHANGED spawner
        BY <2>8 DEF Join
      <4> QED
        BY <3>1, <4>1, <4>2 DEF ThreadsHold, ThreadHolds, Alive, Thread
    <3>3. calls = {} /\ answers = {}
      BY <2>2, <3>1, <3>2, QuietOutside DEF Due, Clearing, Alive
    <3>4. calls' = {Call("remove", main'.run, main'.at)}
      BY <2>8, <3>1, <3>3 DEF Join, Clear
    <3>5. wall \in {None, main.run}
      BY <2>2, <3>1 DEF InTime, Open
    <3> QED
      BY <1>1, <3>1, <3>3, <3>4, <3>5 DEF InTime, Due, Clearing, Open
  <2>9. CASE NextRun
    <3>1. main.at = "next" /\ UNCHANGED answers
      BY <2>9 DEF NextRun
    <3>2. calls = {} /\ answers = {}
      BY <2>2, <3>1, QuietOutside DEF Due, Clearing
    <3>3. \/ main'.at = "clear" /\ calls' = {Call("remove", main'.run, main'.at)}
          \/ main'.at = "done" /\ calls' = {}
      <4>1. main'.at = "clear" => main'.run = [main EXCEPT !.run = @ + 1, !.ok = FALSE].run
        BY <2>9 DEF NextRun, Clear, Types, BenchmarkTypes
      <4> QED
        BY <2>9, <3>2, <4>1 DEF NextRun, Clear, Types, BenchmarkTypes
    <3> QED
      BY <2>3, <3>1, <3>2, <3>3 DEF InTime, Due, Clearing, Open
  <2> QED
    BY <2>4, <2>5, <2>6, <2>7, <2>8, <2>9 DEF MainStep
<1> QED
  BY <1>2, <1>4, <1>5 DEF WallsHold

LEMMA WallsBesideThread ==
  ASSUME Types, ThreadsHold, RecordHolds, WallsHold, NEW r \in Runs, ThreadStep(r)
  PROVE  WallsHold'
<1>0. UNCHANGED main /\ r = main.run /\ main.at \in {"moving", "join"} /\ Open
  BY ThreadMoves DEF Open
<1>1. UNCHANGED wall
  BY DEF ThreadStep, PlanSeen, Resolve, Check, Look, Added, Spawned, planner
<1>2. \A c \in calls' : c \in calls \/ c = Call("add", r, "adding")
  BY DEF ThreadStep, PlanSeen, Resolve, Check, Look, Added, Spawned, planner
<1>3. (wall \in Runs => Begun(wall))' /\ \A c \in calls' : c.kind = "add" => Begun(c.run)'
  BY <1>0, <1>1, <1>2, CallKinds DEF WallsHold, Begun
<1>4. ASSUME lost' = 0
      PROVE  InTime'
  <2>1. lost = 0
    <3>1. UNCHANGED lost \/ lost' = lost + 1
      BY DEF ThreadStep, PlanSeen, Resolve, Check, Look, Added, Spawned, ghosts, Lose
    <3> QED
      BY <1>4, <3>1 DEF Types, GhostTypes
  <2>2. InTime /\ main.at \notin Clearing
    BY <1>0, <2>1 DEF WallsHold, Clearing
  <2>3. ASSUME calls' = {}, answers' = {}
        PROVE  InTime'
    BY <1>0, <1>1, <2>2, <2>3 DEF InTime, Open
  <2>4. CASE Added(r)
    <3>1. UNCHANGED calls /\ \E a \in answers : answers' = answers \ {a}
      <4>1. ~ Lose
        BY <1>4, <2>1 DEF Lose
      <4> DEFINE known(ok) == [call |-> Call("add", r, "adding"), ok |-> ok]
      <4>2. UNCHANGED calls /\ \E ok \in BOOLEAN : known(ok) \in answers /\ answers' = answers \ {known(ok)}
        BY <2>4, <4>1 DEF Added
      <4> QED
        BY <4>2
    <3>2. calls' = {} /\ answers' = {}
      BY <2>2, <3>1 DEF InTime
    <3> QED
      BY <2>3, <3>2
  <2>5. CASE ~ Added(r)
    <3>1. Thread(r) # "adding" /\ UNCHANGED answers
      BY <2>5 DEF ThreadStep, PlanSeen, Resolve, Check, Look, Spawned, planner
    <3>2. calls = {} /\ answers = {}
      BY <1>0, <2>2, <3>1, QuietOutside DEF Due
    <3>3. CASE UNCHANGED calls
      BY <2>3, <3>1, <3>2, <3>3
    <3>4. CASE ~ UNCHANGED calls
      <4>1. Goes(r, "adding") /\ calls' = {Call("add", r, "adding")}
        BY <2>5, <3>2, <3>4 DEF ThreadStep, PlanSeen, Resolve, Check, Look, Spawned, planner
      <4>2. Thread(r)' = "adding"
        BY <4>1 DEF Goes, Step, Thread, Types, BenchmarkTypes, ThreadStates
      <4> QED
        BY <1>0, <1>1, <2>2, <3>1, <3>2, <4>1, <4>2 DEF InTime, Due, Open
    <3> QED
      BY <3>3, <3>4
  <2> QED
    BY <2>4, <2>5
<1> QED
  BY <1>3, <1>4 DEF WallsHold

LEMMA WallsBesideServe ==
  ASSUME Types, WallsHold, NEW c \in calls, Serve(c)
  PROVE  WallsHold'
<1>1. UNCHANGED <<main, spawner, marker, lost>> /\ calls' = calls \ {c}
  BY DEF Serve, benchmark, ghosts
<1>2. PICK ok \in BOOLEAN : /\ wall' = IF c.kind = "remove" THEN None ELSE IF ok THEN c.run ELSE wall
                            /\ answers' = IF Awaited(c) THEN answers \cup {[call |-> c, ok |-> ok]} ELSE answers
  BY DEF Serve
<1>3. c.kind \in {"add", "remove"} /\ c.run \in Runs
  BY DEF Types, PlannerTypes, CallIds
<1>4. \A q \in Runs : Begun(q) <=> Begun(q)'
  BY <1>1 DEF Begun
<1>5. (wall \in Runs => Begun(wall))' /\ \A d \in calls' : d.kind = "add" => Begun(d.run)'
  <2>1. \A d \in calls : d.run \in Runs
    BY DEF Types, PlannerTypes, CallIds
  <2> QED
    BY <1>1, <1>2, <1>3, <1>4, <2>1, Small DEF WallsHold
<1>6. ASSUME lost = 0
      PROVE  InTime'
  <2>1. InTime /\ c \in Due /\ UNCHANGED Due
    BY <1>1, <1>6 DEF WallsHold, InTime, Due, Thread
  <2>2. calls' = {} /\ answers = {}
    BY <1>1, <2>1 DEF InTime, Due
  <2>3. answers' \in {{}, {[call |-> c, ok |-> ok]}}
    BY <1>2, <2>2
  <2>4. main.at \in Clearing => wall' = None
    BY <1>2, <2>1, CallKinds DEF Due
  <2>5. main.at \notin Clearing => main.at \in {"moving", "join"} /\ wall' \in {wall, main.run}
    BY <1>2, <1>3, <2>1, CallKinds DEF Due
  <2>6. Open' => wall' \in {None, main.run}
    BY <1>1, <2>1, <2>4, <2>5 DEF InTime, Open
  <2>7. main'.at \notin {"starting", "settle", "next"}
    BY <1>1, <2>5 DEF Clearing
  <2>8. \A a \in answers' : a.call = c
    BY <2>3
  <2> QED
    BY <1>1, <2>1, <2>2, <2>3, <2>4, <2>6, <2>7, <2>8 DEF InTime
<1> QED
  BY <1>1, <1>5, <1>6 DEF WallsHold

LEMMA WallsKept ==
  ASSUME Types, ThreadsHold, RecordHolds, WallsHold, [Next]_vars
  PROVE  WallsHold'
<1>1. CASE Callback \/ OnCollisionSpheres \/ ServerStep \/ UNCHANGED vars
  <2>1. UNCHANGED <<main, spawner, calls, answers, wall, marker, lost>>
    BY <1>1 DEF Callback, OnGlobalSolution, OnTelemetry, OnCollisionSpheres, ServerStep, Accept,
       Invalidate, Replan, Stuck, EndMotion,
                vars, benchmark, planner, ghosts
  <2> QED
    BY <2>1 DEF WallsHold, InTime, Due, Open, Begun, Thread
<1> QED
  BY <1>1, WallsBesideMain, WallsBesideThread, WallsBesideServe DEF Next, ServerStep, Callback

-----------------------------------------------------------------------------
(* What the wall has led to.                                               *)
LEMMA Alone ==
  ASSUME Types, MotionHolds, Open, moving.goal # NoGoal
  PROVE  moving.goal = Measured /\ goals = <<>>
<1>1. moving.goal = Measured /\ \A i \in DOMAIN goals : goals[i] = Measured
  BY DEF MotionHolds, OnlyMeasured
<1>2. \A i \in DOMAIN goals : Number(moving.goal) < Number(goals[i]) /\ Number(goals[i]) \in Nat
  BY Numbers DEF MotionHolds, GoalsInOrder, InOrder, Types, MotionTypes
<1>3. \A i \in DOMAIN goals : FALSE
  BY <1>1, <1>2
<1> QED
  BY <1>1, <1>3 DEF Types, MotionTypes

LEMMA ReactionsBesideMain ==
  ASSUME Types, ThreadsHold, RecordHolds, MotionHolds, ReactionsHold, MainStep
  PROVE  ReactionsHold'
<1>1. UNCHANGED <<moving, reaction, foreign, telemetry>> /\ (lost' = 0 => lost = 0)
  <2>1. UNCHANGED lost \/ lost' = lost + 1
    BY DEF MainStep, BeginRuns, Cleared, GoalOver, Measure, Join, NextRun, ghosts, Lose
  <2>2. UNCHANGED <<moving, reaction, foreign, telemetry>>
    BY DEF MainStep, BeginRuns, Cleared, GoalOver, Measure, Join, NextRun, motion, topics, ghosts
  <2> QED
    BY <2>1, <2>2 DEF Types, GhostTypes
<1>2. \A r \in Runs : reaction'[r] # "none" => Begun(r)'
  BY <1>1, BegunStays DEF Next, ReactionsHold
<1>3. ASSUME ~ Open', main'.ok => main'.at \in {"next", "done"}
      PROVE  ReactionsHold'
  BY <1>2, <1>3 DEF ReactionsHold
<1>4. CASE main.at = "moving" /\ GoalOver
  <2>1. /\ main.run \in Runs /\ main'.run = main.run /\ main'.at = "join"
        /\ main'.ok => ended = [goal |-> Measured, ok |-> TRUE]
    BY <1>4, MainGoes DEF MainStep, BeginRuns, Cleared, Measure, Join, NextRun, Measured
  <2>2. UNCHANGED <<goals, record.invalidated, Measured>> /\ Open /\ Open' /\ ended' = Unfinished
    BY <1>4, <2>1 DEF GoalOver, Open, Measured, Types, BenchmarkTypes, Records
  <2>3. main'.ok => Idle'
    <3> SUFFICES ASSUME main'.ok
                 PROVE  Idle'
      OBVIOUS
    <3>1. ended.goal = Measured /\ Measured \in SentGoals /\ Number(Measured) = Sent
      <4>1. ended.goal = Measured
        BY <2>1
      <4>2. Measured \in SentGoals /\ Number(Measured) = 2 * main.run
        BY <2>1, Numbers, GoalFacts DEF Measured
      <4>3. Sent = 2 * main.run
        BY <1>4 DEF Sent
      <4> QED
        BY <4>1, <4>2, <4>3
    <3>2. goals = <<>> /\ moving.goal = NoGoal
      BY <3>1, SentTypes, GoalFacts, OrderLast DEF MotionHolds, GoalsInOrder
    <3> QED
      BY <1>1, <2>2, <3>2 DEF Idle
  <2>4. (Open /\ reaction[main.run] = "invalidated"
           => moving.hit \/ (Idle /\ ended # [goal |-> Measured, ok |-> TRUE] /\ ~ main.ok))'
    BY <1>1, <2>1, <2>2 DEF ReactionsHold, Idle, Unfinished
  <2>5. (Open /\ lost = 0 /\ main.run \notin foreign /\ (telemetry # <<>> \/ record.invalidated # {})
           => reaction[main.run] # "none")'
    BY <1>1, <2>1, <2>2 DEF ReactionsHold
  <2> QED
    BY <1>2, <2>1, <2>3, <2>4, <2>5 DEF ReactionsHold
<1>5. CASE Measure
  <2>1. /\ main.run \in Runs /\ main'.run = main.run /\ main.at = "settle"
        /\ main'.at = "moving" /\ main'.ok = main.ok
    BY <1>5, MainGoes DEF Measure
  <2>2. ~ main'.ok
    BY <2>1 DEF ReactionsHold
  <2>3. reaction'[main'.run] = "none"
    BY <1>1, <2>1 DEF ReactionsHold, Begun, Types, BenchmarkTypes
  <2>4. telemetry' = <<>> /\ record'.invalidated = {}
    BY <1>1, <1>5 DEF Measure, Settled, NoRecord
  <2> QED
    BY <1>2, <2>2, <2>3, <2>4 DEF ReactionsHold
<1>6. CASE Join
  <2>1. main'.run = main.run /\ main.at = "join" /\ main'.at = "clearAfter" /\ main'.ok = main.ok
    BY <1>6, MainGoes DEF Join, BeginRuns
  <2>2. UNCHANGED <<record, goals, ended>>
    BY <1>6 DEF Join, motion
  <2> QED
    BY <1>1, <1>2, <2>1, <2>2 DEF ReactionsHold, Open, Idle, Measured
<1>7. CASE BeginRuns \/ Cleared \/ (GoalOver /\ main.at # "moving") \/ NextRun
  <2>1. main'.at \in {"clear", "done", "starting", "next", "settle", "clearFailed"}
    BY <1>7, MainGoes DEF BeginRuns, Cleared, GoalOver, NextRun, Measure, Join
  <2>2. main'.ok => main.ok
    BY <1>7, MainGoes DEF BeginRuns, Cleared, GoalOver, NextRun, Measure, Join
  <2>3. main'.ok => main'.at \in {"next", "done"}
    <3>1. main.ok => main.at \in {"join", "clearAfter", "next", "done"}
      BY DEF ReactionsHold
    <3> QED
      BY <1>7, <2>1, <2>2, <3>1, MainGoes DEF BeginRuns, Cleared, GoalOver, NextRun, Measure, Join
  <2> QED
    BY <1>3, <2>1, <2>3 DEF Open
<1> QED
  BY <1>4, <1>5, <1>6, <1>7 DEF MainStep

LEMMA ReactionsBesideServer ==
  ASSUME Types, MotionHolds, WallsHold, ReactionsHold, ServerStep
  PROVE  ReactionsHold'
<1>1. UNCHANGED <<main, record, lost>> /\ UNCHANGED <<Open, Measured>>
  BY DEF ServerStep, Accept, Invalidate, Replan, Stuck, EndMotion, benchmark, ghosts, Open, Measured
<1>2. \A r \in Runs : Begun(r) <=> Begun(r)'
  BY <1>1 DEF Begun
<1>3. main'.ok => main'.at \in {"join", "clearAfter", "next", "done"}
  BY <1>1 DEF ReactionsHold
<1>4. Open => main.run \in Runs
  BY DEF Open, Types, BenchmarkTypes
<1>5. CASE Accept
  <2>1. goals # <<>> /\ UNCHANGED <<reaction, foreign, telemetry>>
    BY <1>5 DEF Accept, ghosts
  <2>2. Open => ~ main.ok /\ reaction[main.run] # "invalidated"
    BY <2>1, Alone DEF ReactionsHold, Idle, Types, MotionTypes
  <2> QED
    BY <1>1, <1>2, <1>3, <2>1, <2>2 DEF ReactionsHold
<1>6. CASE Invalidate
  <2>1. /\ moving.goal # NoGoal /\ moving'.hit /\ moving.goal[1] \in Runs
    BY <1>6, GoalFacts DEF Invalidate, Types, MotionTypes
  <2>2. Open => ~ main.ok /\ moving.goal[1] = main.run
    BY <2>1, Alone DEF ReactionsHold, Idle, Measured
  <2>3. \A r \in Runs : /\ reaction[r] # "none" => reaction'[r] # "none"
                        /\ reaction'[r] # "none" => reaction[r] # "none" \/ r = wall
    BY <1>6 DEF Invalidate, Types, GhostTypes
  <2>4. \A r \in Runs : reaction'[r] # "none" => Begun(r)'
    BY <1>2, <2>3 DEF ReactionsHold, WallsHold
  <2>5. Open /\ lost = 0 /\ main.run \notin foreign' => reaction'[main.run] # "none"
    <3> SUFFICES ASSUME Open, lost = 0, main.run \notin foreign'
                 PROVE  reaction'[main.run] # "none"
      OBVIOUS
    <3>1. wall # None /\ moving.goal[1] = main.run
      BY <1>6, <2>2 DEF Invalidate
    <3>2. wall = main.run
      BY <3>1 DEF WallsHold, InTime
    <3> QED
      BY <1>4, <1>6, <3>1, <3>2 DEF Invalidate, Types, GhostTypes
  <2> QED
    BY <1>1, <1>3, <2>1, <2>2, <2>4, <2>5 DEF ReactionsHold
<1>7. CASE Replan
  <2>1. moving.goal # NoGoal /\ moving.goal[1] \in Runs
    BY <1>7, GoalFacts DEF Replan, Types, MotionTypes
  <2>2. Open => ~ main.ok /\ moving.goal[1] = main.run
    BY <2>1, Alone DEF ReactionsHold, Idle, Measured
  <2>3. UNCHANGED <<foreign, telemetry>> /\ reaction'[moving.goal[1]] # "invalidated"
    BY <1>7, <2>1 DEF Replan, Types, GhostTypes
  <2>4. \A r \in Runs : reaction'[r] # "none" <=> reaction[r] # "none"
    BY <1>7 DEF Replan, Types, GhostTypes
  <2> QED
    BY <1>1, <1>2, <1>3, <1>4, <2>2, <2>3, <2>4 DEF ReactionsHold
<1>8. CASE Stuck
  <2>1. /\ moving.goal # NoGoal /\ UNCHANGED <<goals, ended, reaction, foreign, telemetry>>
        /\ ~ moving.hit
    BY <1>8 DEF Stuck, ghosts
  <2>2. Open => ~ main.ok /\ reaction[main.run] # "invalidated"
    BY <2>1 DEF ReactionsHold, Idle
  <2> QED
    BY <1>1, <1>2, <1>3, <2>1, <2>2 DEF ReactionsHold
<1>9. CASE EndMotion
  <2>1. /\ moving.goal # NoGoal /\ UNCHANGED <<goals, reaction, foreign, telemetry>>
        /\ moving'.goal = NoGoal
    BY <1>9 DEF EndMotion, ghosts, topics, Still
  <2>2. Open => ~ main.ok /\ goals = <<>>
    BY <2>1, Alone DEF ReactionsHold, Idle
  <2>3. Open /\ reaction[main.run] = "invalidated" => ended' # [goal |-> Measured, ok |-> TRUE]
    <3>1. moving.hit => ended' = [goal |-> moving.goal, ok |-> FALSE]
      BY <1>9 DEF EndMotion
    <3> QED
      BY <2>1, <3>1 DEF ReactionsHold, Idle
  <2> QED
    BY <1>1, <1>2, <1>3, <2>1, <2>2, <2>3 DEF ReactionsHold, Idle
<1> QED
  BY <1>5, <1>6, <1>7, <1>8, <1>9 DEF ServerStep

LEMMA ReactionsKept ==
  ASSUME Types, ThreadsHold, RecordHolds, MotionHolds, WallsHold, ReactionsHold, [Next]_vars
  PROVE  ReactionsHold'
<1>1. ASSUME UNCHANGED <<main, goals, moving, ended, reaction, foreign>>, lost' = 0 => lost = 0,
             (telemetry # <<>> \/ record.invalidated # {})' => (telemetry # <<>> \/ record.invalidated # {})
      PROVE  ReactionsHold'
  BY <1>1 DEF ReactionsHold, Open, Begun, Idle, Measured
<1>2. ASSUME NEW r \in Runs, ThreadStep(r)
      PROVE  ReactionsHold'
  <2>1. /\ UNCHANGED <<main, goals, moving, ended, telemetry, reaction, foreign>>
        /\ ((UNCHANGED lost) \/ lost' = lost + 1)
    BY <1>2 DEF ThreadStep, PlanSeen, Resolve, Check, Look, Added, Spawned, motion, topics, ghosts,
       Lose
  <2>2. lost' = 0 => lost = 0
    BY <2>1 DEF Types, GhostTypes
  <2>3. \/ UNCHANGED record
        \/ record' = [record EXCEPT !.planned = r]
        \/ record' = [record EXCEPT !.spawned = r]
    BY <1>2 DEF ThreadStep, PlanSeen, Resolve, Check, Look, Added, Spawned
  <2>4. record'.invalidated = record.invalidated
    BY <2>3 DEF Types, BenchmarkTypes, Records
  <2> QED
    BY <1>1, <2>1, <2>2, <2>4
<1>3. CASE OnGlobalSolution \/ OnCollisionSpheres
  <2>1. UNCHANGED <<main, goals, moving, ended, telemetry, reaction, foreign, lost>>
    BY <1>3 DEF OnGlobalSolution, OnCollisionSpheres, motion, topics, ghosts
  <2>2. record'.invalidated = record.invalidated
    BY <1>3 DEF OnGlobalSolution, OnCollisionSpheres, Planned, Types, BenchmarkTypes, Records
  <2> QED
    BY <1>1, <2>1, <2>2
<1>4. CASE OnTelemetry
  <2>1. UNCHANGED <<main, goals, moving, ended, reaction, foreign, lost>> /\ telemetry # <<>>
    BY <1>4 DEF OnTelemetry, motion, ghosts
  <2> QED
    BY <1>1, <2>1
<1>5. CASE (\E c \in calls : Serve(c)) \/ UNCHANGED vars
  BY <1>1, <1>5 DEF Serve, vars, benchmark, motion, topics, ghosts
<1> QED
  BY <1>2, <1>3, <1>4, <1>5, ReactionsBesideMain, ReactionsBesideServer DEF Next, ServerStep,
     Callback

LEMMA ReactionsStay ==
  ASSUME Types, [Next]_vars, NEW r \in Runs
  PROVE  /\ reaction[r] = "replanned" => reaction'[r] = "replanned"
         /\ r \in foreign => r \in foreign'
         /\ lost > 0 => lost' > 0
<1>1. (UNCHANGED lost) \/ lost' = lost + 1
  BY DEF Next, MainStep, BeginRuns, Cleared, GoalOver, Measure, Join, NextRun, ThreadStep,
     PlanSeen, Resolve, Check, Look, Added, Spawned,
         Callback, OnGlobalSolution, OnTelemetry, OnCollisionSpheres, Serve, Accept, Invalidate, Replan, Stuck, EndMotion, vars, ghosts, Lose
<1>2. Invalidate \/ Replan \/ UNCHANGED <<reaction, foreign>>
  BY DEF Next, MainStep, BeginRuns, Cleared, GoalOver, Measure, Join, NextRun, ThreadStep,
     PlanSeen, Resolve, Check, Look, Added, Spawned,
         Callback, OnGlobalSolution, OnTelemetry, OnCollisionSpheres, Serve, Accept, Stuck, EndMotion, vars, ghosts
<1>3. Invalidate \/ Replan => (reaction[r] = "replanned" => reaction'[r] = "replanned") /\ (r \in foreign => r \in foreign')
  BY DEF Invalidate, Replan, Types, GhostTypes
<1> QED
  BY <1>1, <1>2, <1>3 DEF Types, GhostTypes

LEMMA PassesKept ==
  ASSUME Types, RecordHolds, MotionHolds, ReactionsHold, PassMeansReaction, [Next]_vars
  PROVE  PassMeansReaction'
<1> SUFFICES ASSUME NEW r \in Runs, verdict'[r] = "pass"
             PROVE  reaction'[r] = "replanned" \/ r \in foreign' \/ lost' > 0
  BY DEF PassMeansReaction
<1>1. CASE verdict[r] = "pass"
  BY <1>1, ReactionsStay DEF PassMeansReaction
<1>2. CASE verdict[r] # "pass"
  <2>1. Cleared /\ main.at # "clear"
    BY <1>2 DEF Next, MainStep, BeginRuns, Cleared, GoalOver, Measure, Join, NextRun, ThreadStep,
       PlanSeen, Resolve, Check, Look, Added, Spawned,
         Callback, OnGlobalSolution, OnTelemetry, OnCollisionSpheres, Serve, Accept, Invalidate, Replan, Stuck, EndMotion, vars, benchmark
  <2>2. verdict' = [verdict EXCEPT ![main.run] = Report] /\ UNCHANGED <<reaction, foreign>>
    BY <2>1 DEF Cleared
  <2>3. r = main.run /\ Passed
    BY <1>2, <2>2 DEF Report, Types, BenchmarkTypes
  <2>4. main.ok /\ record.invalidated # {} /\ Open
    BY <2>1, <2>3 DEF Passed, ReactionsHold, Open, Cleared
  <2>5. Idle /\ ~ moving.hit
    BY <2>4 DEF ReactionsHold, Idle, Types, MotionTypes
  <2>6. reaction[r] # "invalidated"
    BY <2>3, <2>4, <2>5 DEF ReactionsHold
  <2>7. CASE lost = 0 /\ r \notin foreign
    BY <2>2, <2>3, <2>4, <2>6, <2>7 DEF ReactionsHold, Types, GhostTypes
  <2>8. CASE lost # 0 \/ r \in foreign
    <3>1. lost # 0 => lost > 0
      BY DEF Types, GhostTypes
    <3> QED
      BY <2>8, <3>1, ReactionsStay
  <2> QED
    BY <2>7, <2>8
<1> QED
  BY <1>1, <1>2

-----------------------------------------------------------------------------
LEMMA HoldsAtFirst == Init => Holding
<1> SUFFICES ASSUME Init
             PROVE  Holding
  OBVIOUS
<1> USE Small, GoalFacts DEF Init
<1>1. BenchmarkTypes
  <2>1. main \in [at : Places, run : 0..MaxRuns, ok : BOOLEAN] /\ main.at = "new" /\ main.run = 0
    BY DEF Places, None
  <2>2. [at |-> "none", plan |-> NoGoal, stop |-> FALSE, late |-> 0] \in ThreadStates
    BY DEF ThreadStates, Steps
  <2>3. spawner \in [Runs -> ThreadStates]
    BY <2>2
  <2> QED
    BY <2>1, <2>3, NoRecordTyped DEF BenchmarkTypes
<1>2. PlannerTypes
  <2>1. Leftover \in 0..Leftover
    BY DEF Leftover
  <2> QED
    BY <2>1 DEF PlannerTypes
<1>3. MotionTypes
  BY DEF MotionTypes, Unfinished
<1>4. GhostTypes
  BY DEF GhostTypes
<1>5. ThreadsHold
  BY DEF ThreadsHold, ThreadHolds, Alive, Thread, Punctual, LatestAt
<1>6. RecordHolds
  BY DEF RecordHolds, Open
<1>7. MotionHolds
  BY DEF MotionHolds, Open, GoalsInOrder, InOrder, Unfinished
<1>8. WallsHold
  BY DEF WallsHold, InTime, Due, Open
<1>9. ReactionsHold
  BY DEF ReactionsHold, Open
<1>10. PassMeansReaction
  BY DEF PassMeansReaction
<1> QED
  BY <1>1, <1>2, <1>3, <1>4, <1>5, <1>6, <1>7, <1>8, <1>9, <1>10 DEF Holding, Types

LEMMA HoldingKept == Holding /\ [Next]_vars => Holding'
BY TypesKept, ThreadsKept, RecordKept, MotionKept, WallsKept, ReactionsKept, PassesKept DEF Holding

LEMMA AlwaysHolding == Spec => []Holding
BY HoldsAtFirst, HoldingKept, PTL DEF Spec

(* The values of the benchmark, and no step of a thread that was told to   *)
(* stop comes later than the join waits for it.                            *)
THEOREM BenchmarkTypeCorrect == Spec => []TypeOK
<1>1. Holding => TypeOK
  <2> SUFFICES ASSUME Holding
               PROVE  TypeOK
    OBVIOUS
  <2>1. \A r \in Runs : Thread(r) \in Steps /\ spawner[r].plan \in GoalIds /\ spawner[r].late <= JoinTimeout
    <3> SUFFICES ASSUME NEW r \in Runs
                 PROVE  Thread(r) \in Steps /\ spawner[r].plan \in GoalIds /\ spawner[r].late <= JoinTimeout
      OBVIOUS
    <3>1. spawner[r] \in ThreadStates /\ Punctual(spawner[r])
      BY DEF Holding, Types, BenchmarkTypes, ThreadsHold, ThreadHolds
    <3>2. LatestAt(spawner[r].at) \in Nat /\ LatestAt(spawner[r].at) <= 45
      BY <3>1 DEF LatestAt, ThreadStates, Steps
    <3> QED
      BY <3>1, <3>2 DEF Punctual, Thread, ThreadStates, JoinTimeout
  <2>2. Range(record.plans) \subseteq GoalIds
    BY DEF Holding, Types, BenchmarkTypes, Records, Range
  <2>3. \A c \in calls : c.run \in Runs /\ c.kind \in {"add", "remove"}
    BY DEF Holding, Types, PlannerTypes, CallIds
  <2> QED
    BY <2>1, <2>2, <2>3 DEF TypeOK, Holding, Types, BenchmarkTypes, PlannerTypes, MotionTypes,
       Records, Places, Steps
<1> QED
  BY <1>1, AlwaysHolding, PTL

(* What the record of a run holds was said of its own goal and done by its *)
(* own thread; no thread outlives its run; and if every call was answered  *)
(* in time, no wall and no marker is left when a run begins to move or     *)
(* ends.                                                                   *)
THEOREM RunsStayApart == Spec => []RunsDoNotMix
<1>1. Holding => RunsDoNotMix
  <2> SUFFICES ASSUME Holding
               PROVE  RunsDoNotMix
    OBVIOUS
  <2>1. CASE Open
    BY <2>1 DEF Holding, RecordHolds, ThreadsHold, ThreadHolds, Alive, WallsHold, InTime,
       RunsDoNotMix, Open
  <2>2. CASE ~ Open
    <3>1. /\ record = NoRecord /\ record.plans = <<>> /\ record.invalidated = {}
          /\ record.planned = None /\ record.spawned = None
      BY <2>2 DEF Holding, RecordHolds, NoRecord
    <3>2. DOMAIN record.plans = {}
      BY <3>1
    <3> QED
      BY <2>2, <3>1, <3>2 DEF Holding, ThreadsHold, ThreadHolds, Alive, WallsHold, InTime,
         RunsDoNotMix, Open
  <2> QED
    BY <2>1, <2>2
<1> QED
  BY <1>1, AlwaysHolding, PTL

(* A run is reported as passed only if its own wall has made the path      *)
(* invalid and the path was planned again, unless something else made it   *)
(* invalid or a call was given up.                                         *)
THEOREM PassesMeanReactions == Spec => []PassMeansReaction
BY AlwaysHolding, PTL DEF Holding

===============================================================================
