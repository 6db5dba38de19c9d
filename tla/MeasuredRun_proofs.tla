-------------------------- MODULE MeasuredRun_proofs --------------------------
(***************************************************************************)
(* What a measured run leaves is right, for any phases, numbers of         *)
(* attempts and bounds.                                                    *)
(*                                                                         *)
(* The row never calls a motion a success that was none. The argument      *)
(* follows a success on its way: from the arm to the result, the answer,   *)
(* the event, the segment and the row. At each station what is told is     *)
(* true of the places the arm has reached, which only grow.                *)
(*                                                                         *)
(* Of recorders that missed nothing, the row tells how far the run came.   *)
(* The argument numbers the events: the k-th measured phase begins with    *)
(* event 2k - 1 and ends with event 2k, so where the task is tells how     *)
(* many there are, and where a recorder is tells what it holds.            *)
(*                                                                         *)
(* The last part is about the suite that starts the runs.                  *)
(***************************************************************************)
EXTENDS MeasuredRun, BenchmarkSuite, TLAPS, SequenceTheorems

IsGoal(g) == g = [to |-> g.to, mode |-> g.mode, st |-> g.st] /\ g.to \in Places

\* The motion: a goal that ended well has brought the arm to its place.
Asked == wait # "idle" \/ goal # NoGoal
MotionTrue ==
  /\ arm # Away => arm \in reached
  /\ Asked => IsGoal(goal) /\ (goal.st = "ok" => goal.to \in reached)
  /\ (wait = "answered" /\ answer = "yes") => goal.to \in reached

\* The task: what it waits for is the motion of its phase.
TaskTrue ==
  /\ task \in {"pick_and_place", "simple_motion"}
  /\ at \in Nat
  /\ pc \notin {"failed", "ended"} => at \in 1..Len(Steps)
  /\ wait # "idle" => pc = "moving" /\ goal.to = Phase
  /\ stage = "idle" => pc = "off"

Events == [ev : {"start", "end", "setup_failed"}, phase : Places, ok : BOOLEAN]

TrueEvent(e) ==
  /\ (e.ev = "end" /\ e.ok) => e.phase \in reached
  /\ task = "simple_motion" => e.phase = "movement"

LogTrue == log \in Seq(Events) /\ \A i \in 1..Len(log) : TrueEvent(log[i])

\* The recorder of the trajectory: its segments say what was published.
Memory == [st : Process, cursor : Nat, lost : BOOLEAN, open : Places \cup {None},
           segs : [Places -> {"none", "true", "false"}], failed : Places \cup {None}]

TrueMemory(m) ==
  /\ \A p \in Places : m.segs[p] = "true" => p \in reached
  /\ task = "simple_motion" =>
       /\ m.open \in {None, "movement"}
       /\ \A p \in Places : m.segs[p] # "none" => p = "movement"

RecTrue == rec \in [Recorders -> Memory] /\ TrueMemory(rec["trajectory"])

RowTrue ==
  /\ \A p \in Places : row[p] = "true" => p \in reached
  /\ verdict => exit = "0" /\ (task = "simple_motion" => row["movement"] = "true")

Inv == MotionTrue /\ TaskTrue /\ LogTrue /\ RecTrue /\ RowTrue

\* What every step keeps: the places once reached, and which task it is.
Onward == reached \subseteq reached' /\ task' = task

-----------------------------------------------------------------------------
USE RunAssumption, RecorderAssumption, PlacesAssumption

(* The phases are places, and a benchmark publishes only its measured one. *)
LEMMA PhaseIsPlace ==
  ASSUME task \in {"pick_and_place", "simple_motion"}, at \in 1..Len(Steps)
  PROVE  Phase \in Places /\ (task = "simple_motion" /\ Phase # "start_state" => Phase = "movement")
<1>1. CASE task = "pick_and_place" BY <1>1 DEF Phase, Steps
<1>2. CASE task = "simple_motion" BY <1>2 DEF Phase, Steps
<1> QED BY <1>1, <1>2

(* Publishing a true event keeps the log true.                             *)
LEMMA PublishTrue ==
  ASSUME LogTrue, NEW e \in Events, Publish(e), TrueEvent(e)',
         Onward
  PROVE  LogTrue'
<1>1. log' = Append(log, e) BY DEF Publish
<1>2. log' \in Seq(Events) BY <1>1 DEF LogTrue
<1>3. ASSUME NEW i \in 1..Len(log') PROVE TrueEvent(log[i])'
  <2>1. CASE i = Len(log) + 1
    <3>1. log'[i] = e BY <1>1, <2>1 DEF LogTrue
    <3> QED BY <3>1 DEF TrueEvent
  <2>2. CASE i # Len(log) + 1
    <3>1. i \in 1..Len(log) /\ log'[i] = log[i] BY <1>1, <2>2 DEF LogTrue
    <3>2. TrueEvent(log[i]) BY <3>1 DEF LogTrue
    <3> QED BY <3>1, <3>2 DEF TrueEvent, Onward
  <2> QED BY <2>1, <2>2
<1> QED BY <1>2, <1>3 DEF LogTrue

LEMMA LogKept ==
  ASSUME LogTrue, log' = log, Onward
  PROVE  LogTrue'
BY DEF LogTrue, TrueEvent, Onward

LEMMA RecKept ==
  ASSUME RecTrue, rec' = rec, Onward
  PROVE  RecTrue'
BY DEF RecTrue, TrueMemory, Onward

-----------------------------------------------------------------------------
(* The motion.                                                             *)
LEMMA ForgetKeeps ==
  ASSUME MotionTrue, Forget, UNCHANGED <<arm, reached>>
  PROVE  MotionTrue'
BY DEF MotionTrue, Forget, Asked

LEMMA ClientKept ==
  ASSUME MotionTrue, UNCHANGED clientVars
  PROVE  MotionTrue'
BY DEF MotionTrue, clientVars, Asked, IsGoal

(* While it waits for an answer, and whatever the server does: no success  *)
(* is told that was none, and the goal remains the same.                   *)
LEMMA MotionKeeps ==
  ASSUME MotionTrue, Waiting \/ Server
  PROVE  /\ MotionTrue' /\ reached \subseteq reached'
         /\ wait' # "idle" => wait # "idle" /\ goal'.to = goal.to
<1> USE DEF MotionTrue, Asked, IsGoal
<1>1. CASE PlanArrives
  BY <1>1 DEF PlanArrives, Answer
<1>2. CASE ResponseArrives
  BY <1>2 DEF ResponseArrives, Answer
<1>3. CASE ResultArrives
  <2>1. goal.to # Away /\ wait # "idle"
    BY <1>3 DEF ResultArrives
  <2> QED BY <1>3, <2>1 DEF ResultArrives, Answer
<1>4. CASE DeadlinePasses
  BY <1>4 DEF DeadlinePasses, Answer
<1>5. CASE ServerTakes
  BY <1>5 DEF ServerTakes
<1>6. CASE ServerEnds
  BY <1>6 DEF ServerEnds
<1>7. CASE AbandonedGoalMoves
  BY <1>7 DEF AbandonedGoalMoves
<1> QED BY <1>1, <1>2, <1>3, <1>4, <1>5, <1>6, <1>7 DEF Waiting, Server

-----------------------------------------------------------------------------
(* The recorders.                                                          *)
LEMMA IdleTrue == Idle \in Memory /\ TrueMemory(Idle)
BY DEF Idle, Memory, TrueMemory, Process

LEMMA CloseTrue ==
  ASSUME NEW m \in Memory, m.open \in Places, NEW result \in {"true", "false"}
  PROVE  /\ Close(m, result) \in Memory
         /\ Close(m, result).open = None
         /\ Close(m, result).segs = [m.segs EXCEPT ![m.open] = result]
BY DEF Close, Memory

LEMMA ClosedTrue ==
  ASSUME NEW m \in Memory, m.open \in Places, NEW result \in {"true", "false"}, TrueMemory(m),
         result = "true" => m.open \in reached
  PROVE  Close(m, result) \in Memory /\ TrueMemory(Close(m, result))
<1> DEFINE c == Close(m, result)
<1>1. c \in Memory /\ c.open = None /\ c.segs = [m.segs EXCEPT ![m.open] = result]
  BY CloseTrue
<1>2. m.segs \in [Places -> {"none", "true", "false"}]
  BY DEF Memory
<1>3. m.open # None
  OBVIOUS
<1> HIDE DEF c
<1>4. \A p \in Places : c.segs[p] = IF p = m.open THEN result ELSE m.segs[p]
  BY <1>1, <1>2
<1>5. TrueMemory(c)
  BY <1>1, <1>3, <1>4 DEF TrueMemory
<1> QED BY <1>1, <1>5 DEF c

LEMMA SameSegments ==
  ASSUME NEW m, NEW n, TrueMemory(m), n.segs = m.segs, n.open = m.open
  PROVE  TrueMemory(n)
BY DEF TrueMemory

(* An event that is true makes nothing false of the memory.                *)
LEMMA EventTrue ==
  ASSUME NEW m \in Memory, NEW e \in Events, TrueMemory(m), TrueEvent(e)
  PROVE  OnEvent("trajectory", m, e) \in Memory /\ TrueMemory(OnEvent("trajectory", m, e))
<1> DEFINE p == e.phase
<1>0. p \in Places /\ p # None /\ e.ok \in BOOLEAN
  BY DEF Events
<1>1. ASSUME NEW n \in Memory, TrueMemory(n)
      PROVE  /\ Open(n, p) \in Memory /\ TrueMemory(Open(n, p)) /\ Open(n, p).open = p
  BY <1>0, <1>1 DEF Open, Memory, TrueMemory, TrueEvent
<1>2. ASSUME m.open # None
      PROVE  Close(m, "false") \in Memory /\ TrueMemory(Close(m, "false"))
  <2>1. m.open \in Places
    BY <1>2 DEF Memory
  <2> QED BY <2>1, ClosedTrue
<1>3. CASE e.ev = "start"
  BY <1>1, <1>2, <1>3 DEF OnEvent, TrajectoryStart
<1>4. CASE e.ev = "end"
  <2>1. CASE m.open \notin {p, None}
    BY <1>4, <2>1 DEF OnEvent, TrajectoryEnd
  <2>2. CASE m.open \in {p, None}
    <3> DEFINE n == Open(m, p)
               result == IF e.ok THEN "true" ELSE "false"
    <3>1. n \in Memory /\ TrueMemory(n) /\ n.open = p
      BY <1>1
    <3> HIDE DEF n
    <3>2. result = "true" => p \in reached
      BY <1>4 DEF TrueEvent
    <3>3. Close(n, result) \in Memory /\ TrueMemory(Close(n, result))
      BY <1>0, <3>1, <3>2, ClosedTrue
    <3> QED BY <1>4, <2>2, <3>3 DEF OnEvent, TrajectoryEnd, n
  <2> QED BY <2>1, <2>2
<1>5. CASE e.ev = "setup_failed"
  BY <1>0, <1>5 DEF OnEvent, SetupFailed, Memory, TrueMemory
<1> QED BY <1>3, <1>4, <1>5 DEF Events

LEMMA JointEventTyped ==
  ASSUME NEW m \in Memory, NEW e \in Events
  PROVE  OnEvent("joint", m, e) \in Memory
<1> DEFINE p == e.phase
<1>0. p \in Places
  BY DEF Events
<1>1. m.open # None => Close(m, "true") \in Memory
  BY CloseTrue DEF Memory
<1>2. ASSUME NEW n \in Memory PROVE Open(n, p) \in Memory
  BY <1>0 DEF Open, Memory
<1>3. CASE e.ev = "start"
  BY <1>1, <1>2, <1>3 DEF OnEvent, JointStart
<1>4. CASE e.ev = "end"
  BY <1>0, <1>1, <1>4 DEF OnEvent, JointEnd
<1>5. CASE e.ev = "setup_failed"
  BY <1>5 DEF OnEvent
<1> QED BY <1>3, <1>4, <1>5 DEF Events

LEMMA MemoryKept ==
  ASSUME NEW m, TrueMemory(m), Onward
  PROVE  TrueMemory(m)'
BY DEF TrueMemory, Onward

(* A step of a recorder.                                                   *)
LEMMA RecordKeeps ==
  ASSUME LogTrue, RecTrue, Record, Onward
  PROVE  RecTrue' /\ log' = log
<1> PICK r \in Recorders : Boot(r) \/ Subscribe(r) \/ Deliver(r) \/ Stop(r)
  BY DEF Record
<1> DEFINE m == rec[r]
<1>0. m \in Memory /\ Len(log) \in Nat /\ rec \in [Recorders -> Memory]
  BY DEF RecTrue, LogTrue
<1>1. ASSUME NEW n \in Memory, rec' = [rec EXCEPT ![r] = n], log' = log,
             r = "trajectory" => TrueMemory(n)
      PROVE  RecTrue' /\ log' = log
  <2>1. rec' \in [Recorders -> Memory]
    BY <1>0, <1>1
  <2>2. TrueMemory(rec'["trajectory"])
    BY <1>0, <1>1 DEF RecTrue, Recorders
  <2>3. TrueMemory(rec["trajectory"])'
    BY <2>2, MemoryKept
  <2> QED BY <1>1, <2>1, <2>3 DEF RecTrue
<1>2. r = "trajectory" => TrueMemory(m)
  BY DEF RecTrue
<1>3. CASE Boot(r)
  <2> DEFINE n == [m EXCEPT !.st = "booting"]
  <2>1. n \in Memory /\ (r = "trajectory" => TrueMemory(n))
    BY <1>0, <1>2 DEF Memory, TrueMemory, Process
  <2>2. rec' = [rec EXCEPT ![r] = n] /\ log' = log
    BY <1>3 DEF Boot
  <2> HIDE DEF n
  <2> QED BY <1>1, <2>1, <2>2
<1>4. CASE Subscribe(r)
  <2> DEFINE lost == Len(log) > 0
             n == [m EXCEPT !.st = "running", !.cursor = Len(log), !.lost = lost]
  <2>1. rec' = [rec EXCEPT ![r] = n] /\ log' = log
    BY <1>0, <1>4 DEF Subscribe
  <2>2. lost \in BOOLEAN
    OBVIOUS
  <2> HIDE DEF lost
  <2>3. n \in Memory /\ n.segs = m.segs /\ n.open = m.open
    BY <1>0, <2>2 DEF Memory, Process
  <2> HIDE DEF n
  <2>4. r = "trajectory" => TrueMemory(n)
    BY <1>2, <2>3, SameSegments
  <2> QED BY <1>1, <2>1, <2>3, <2>4
<1>5. CASE Deliver(r)
  <2> DEFINE cursor == m.cursor + 1
             n == [m EXCEPT !.cursor = cursor]
  <2>1. rec' = [rec EXCEPT ![r] = OnEvent(r, n, log[n.cursor])] /\ log' = log
    BY <1>5 DEF Deliver
  <2>2. cursor \in Nat /\ cursor \in 1..Len(log)
    BY <1>0, <1>5 DEF Deliver, Memory
  <2> HIDE DEF cursor
  <2>3. n \in Memory /\ n.segs = m.segs /\ n.open = m.open /\ n.cursor \in 1..Len(log)
    BY <1>0, <2>2 DEF Memory
  <2> HIDE DEF n
  <2>4. r = "trajectory" => TrueMemory(n)
    BY <1>2, <2>3, SameSegments
  <2> DEFINE after == OnEvent(r, n, log[n.cursor])
  <2>5. log[n.cursor] \in Events /\ TrueEvent(log[n.cursor])
    BY <2>3 DEF LogTrue
  <2>6. r = "trajectory" => after \in Memory /\ TrueMemory(after)
    BY <2>3, <2>4, <2>5, EventTrue
  <2>7. r = "joint" => after \in Memory
    BY <2>3, <2>5, JointEventTyped
  <2> HIDE DEF after
  <2>8. rec' = [rec EXCEPT ![r] = after]
    BY <2>1 DEF after
  <2> QED BY <1>1, <2>1, <2>6, <2>7, <2>8 DEF Recorders
<1>6. CASE Stop(r)
  <2> DEFINE lost == m.lost \/ m.cursor < Len(log)
             n == [m EXCEPT !.st = "stopped", !.lost = lost]
             after == OnStop(r, n)
  <2>1. rec' = [rec EXCEPT ![r] = after] /\ log' = log
    BY <1>0, <1>6 DEF Stop
  <2>2. lost \in BOOLEAN
    OBVIOUS
  <2> HIDE DEF lost
  <2>3. n \in Memory /\ n.segs = m.segs /\ n.open = m.open
    BY <1>0, <2>2 DEF Memory, Process
  <2> HIDE DEF n
  <2>4. r = "trajectory" => TrueMemory(n)
    BY <1>2, <2>3, SameSegments
  <2>5. after \in Memory /\ (r = "trajectory" => TrueMemory(after))
    <3>1. CASE n.open = None
      BY <2>3, <2>4, <3>1 DEF OnStop
    <3>2. CASE n.open # None
      <4>1. n.open \in Places
        BY <2>3, <3>2 DEF Memory
      <4>2. Close(n, "false") \in Memory /\ Close(n, "true") \in Memory
        BY <2>3, <4>1, CloseTrue
      <4>3. r = "trajectory" => TrueMemory(Close(n, "false"))
        BY <2>3, <2>4, <4>1, ClosedTrue
      <4> QED BY <3>2, <4>2, <4>3 DEF OnStop
    <3> QED BY <3>1, <3>2
  <2> HIDE DEF after
  <2> QED BY <1>1, <2>1, <2>5
<1> QED BY <1>3, <1>4, <1>5, <1>6

-----------------------------------------------------------------------------
(* The task.                                                               *)
LEMMA StepsAre ==
  ASSUME task \in {"pick_and_place", "simple_motion"}
  PROVE  Len(Steps) \in Nat \ {0} /\ (task' = task => Steps' = Steps)
<1>1. CASE task = "pick_and_place" BY <1>1 DEF Steps
<1>2. CASE task = "simple_motion" BY <1>2 DEF Steps
<1> QED BY <1>1, <1>2

LEMMA SetupFailsKeeps ==
  ASSUME LogTrue, SetupFails, Onward
  PROVE  LogTrue'
<1>1. CASE task = "simple_motion"
  <2> DEFINE e == Event("setup_failed", "movement", FALSE)
  <2>1. e \in Events /\ e.ev = "setup_failed" /\ e.phase = "movement"
    BY DEF Event, Events
  <2> HIDE DEF e
  <2>2. Publish(e)
    BY <1>1 DEF SetupFails, e
  <2>3. TrueEvent(e)'
    BY <2>1 DEF TrueEvent, e, Event
  <2> QED BY <2>1, <2>2, <2>3, PublishTrue
<1>2. CASE task # "simple_motion"
  BY <1>2, LogKept DEF SetupFails
<1> QED BY <1>1, <1>2

(* The event of a phase that is measured: a success is one.                *)
LEMMA PhaseEventTrue ==
  ASSUME LogTrue, TaskTrue, at \in 1..Len(Steps), Phase # "start_state", Onward,
         NEW kind \in {"start", "end"}, NEW ok \in BOOLEAN,
         Publish(Event(kind, Phase, ok)), (kind = "end" /\ ok) => Phase \in reached
  PROVE  LogTrue'
<1>1. Phase \in Places /\ (task = "simple_motion" => Phase = "movement")
  BY PhaseIsPlace DEF TaskTrue
<1>2. PICK e \in Events : e = [ev |-> kind, phase |-> Phase, ok |-> ok]
  BY <1>1 DEF Events
<1>3. Publish(e) /\ e.ev = kind /\ e.phase = Phase /\ e.ok = ok
  BY <1>2 DEF Event
<1>4. (e.ev = "end" /\ e.ok) => e.phase \in reached'
  BY <1>3 DEF Onward
<1>5. task' = "simple_motion" => e.phase = "movement"
  BY <1>1, <1>3 DEF Onward
<1>6. TrueEvent(e)'
  BY <1>4, <1>5 DEF TrueEvent
<1> QED BY <1>3, <1>6, PublishTrue


LEMMA SuccessKeeps ==
  ASSUME LogTrue, TaskTrue, Onward, PhaseSucceeds, wait' = "idle", stage' = stage,
         pc \in {"moving", "observing"}, Phase \in reached
  PROVE  TaskTrue' /\ LogTrue'
<1>1. Len(Steps) \in Nat \ {0} /\ Steps' = Steps /\ at \in 1..Len(Steps) /\ stage # "idle"
  BY StepsAre DEF TaskTrue, Onward
<1>2. /\ at' = at + 1
      /\ pc' = IF at = Len(Steps) THEN "ended" ELSE "between"
  BY DEF PhaseSucceeds
<1>3. TaskTrue'
  BY <1>1, <1>2 DEF TaskTrue, Onward
<1>4. CASE Phase = "start_state"
  BY <1>3, <1>4, LogKept DEF PhaseSucceeds
<1>5. CASE Phase # "start_state"
  BY <1>1, <1>3, <1>5, PhaseEventTrue DEF PhaseSucceeds
<1> QED BY <1>3, <1>4, <1>5

(* A step of the thread of the task.                                       *)
LEMMA DriveKeeps ==
  ASSUME MotionTrue, TaskTrue, LogTrue, Drive, UNCHANGED runnerVars
  PROVE  MotionTrue' /\ TaskTrue' /\ LogTrue' /\ Onward
<1>0. Len(Steps) \in Nat \ {0} /\ (task' = task => Steps' = Steps) /\ stage' = stage
  BY StepsAre DEF TaskTrue, runnerVars
<1>1. ASSUME Onward, UNCHANGED <<at, log>>, wait' = "idle", pc' # "off" \/ pc' = pc,
             pc \notin {"off", "failed", "ended"}
      PROVE  TaskTrue' /\ LogTrue'
  BY <1>0, <1>1, LogKept DEF TaskTrue, Onward
<1>2. ASSUME UNCHANGED clientVars PROVE MotionTrue' /\ reached' = reached
  BY <1>2, ClientKept DEF clientVars
<1>3. ASSUME Forget, UNCHANGED <<arm, reached>> PROVE MotionTrue' /\ wait' = "idle"
  BY <1>3, ForgetKeeps DEF Forget
<1>4. CASE BecomeReady
  <2>1. Onward /\ MotionTrue' /\ wait' = "idle" /\ at' = at /\ pc = "ready" /\ pc' \in {"between", "failed"}
    BY <1>2, <1>4 DEF BecomeReady, SetupFails, Onward, clientVars, TaskTrue
  <2>2. TaskTrue'
    BY <1>0, <2>1 DEF TaskTrue, Onward
  <2>3. LogTrue'
    BY <1>4, <2>1, LogKept, SetupFailsKeeps DEF BecomeReady
  <2> QED BY <2>1, <2>2, <2>3
<1>5. CASE AbortBetween
  BY <1>1, <1>2, <1>5 DEF AbortBetween, Onward, clientVars, TaskTrue
<1>6. CASE StartPhase
  <2>1. /\ Onward /\ MotionTrue' /\ wait' = "idle" /\ at' = at /\ pc = "between" /\ pc' = "moving"
    BY <1>2, <1>6 DEF StartPhase, Onward, clientVars, TaskTrue
  <2>2. TaskTrue'
    BY <1>0, <2>1 DEF TaskTrue, Onward
  <2>3. at \in 1..Len(Steps)
    BY <2>1 DEF TaskTrue
  <2>4. CASE Phase = "start_state"
    BY <1>6, <2>1, <2>2, <2>4, LogKept DEF StartPhase
  <2>5. CASE Phase # "start_state"
    BY <1>6, <2>1, <2>2, <2>3, <2>5, PhaseEventTrue DEF StartPhase
  <2> QED BY <2>1, <2>2, <2>4, <2>5
<1>7. CASE NextCall
  BY <1>1, <1>2, <1>7 DEF NextCall, Onward, clientVars
<1>8. CASE SendGoal
  <2>1. pc = "moving" /\ Phase \in Places
    BY <1>8, PhaseIsPlace DEF SendGoal, TaskTrue
  <2>2. /\ goal' = [to |-> Phase, mode |-> goal'.mode, st |-> goal'.st]
        /\ goal'.st \in {"planning", "sent"}
        /\ answer' = "none" /\ UNCHANGED <<arm, reached, taskVars>>
    BY <1>8 DEF SendGoal, Ask
  <2>3. Onward /\ Phase' = Phase
    BY <1>0, <2>2 DEF Onward, taskVars, Phase
  <2>4. goal'.to = Phase
    BY <2>2
  <2>5. MotionTrue'
    BY <2>1, <2>2, <2>4 DEF MotionTrue, Asked, IsGoal
  <2>6. TaskTrue'
    BY <1>0, <2>1, <2>2, <2>3, <2>4 DEF TaskTrue, taskVars
  <2> QED BY <2>2, <2>3, <2>5, <2>6, LogKept DEF taskVars
<1>9. CASE PhaseFails
  <2>1. /\ Onward /\ MotionTrue' /\ wait' = "idle" /\ at' = at /\ pc = "moving" /\ pc' = "failed"
    BY <1>2, <1>9 DEF PhaseFails, SetupFails, Onward, clientVars
  <2>2. TaskTrue'
    BY <1>0, <2>1 DEF TaskTrue, Onward
  <2>3. at \in 1..Len(Steps)
    BY <2>1 DEF TaskTrue
  <2>4. CASE Phase = "start_state"
    BY <1>9, <2>1, <2>2, <2>4, SetupFailsKeeps DEF PhaseFails
  <2>5. CASE Phase # "start_state"
    BY <1>9, <2>1, <2>2, <2>3, <2>5, PhaseEventTrue DEF PhaseFails
  <2> QED BY <2>1, <2>2, <2>4, <2>5
<1>10. CASE SkipMotion
  <2>1. Phase \in reached
    BY <1>10, PhaseIsPlace DEF SkipMotion, MotionTrue, TaskTrue
  <2>2. Onward /\ MotionTrue' /\ wait' = "idle" /\ pc = "moving" /\ PhaseSucceeds
    BY <1>2, <1>10 DEF SkipMotion, Onward, clientVars
  <2> QED BY <1>0, <2>1, <2>2, SuccessKeeps
<1>11. CASE TakeYes
  <2>1. Phase \in reached
    BY <1>11 DEF TakeYes, Done, MotionTrue, TaskTrue
  <2>2. Onward /\ MotionTrue' /\ wait' = "idle" /\ pc = "moving" /\ PhaseSucceeds
    BY <1>3, <1>11 DEF TakeYes, Done, Onward
  <2> QED BY <1>0, <2>1, <2>2, SuccessKeeps
<1>12. CASE TakeNo
  BY <1>1, <1>3, <1>12 DEF TakeNo, Done, Onward
<1>13. CASE Observe
  BY <1>1, <1>3, <1>13 DEF Observe, Done, Onward
<1>14. CASE EndObservation
  <2>1. Onward /\ MotionTrue' /\ wait' = "idle" /\ pc = "observing"
    BY <1>2, <1>14 DEF EndObservation, Onward, clientVars, TaskTrue
  <2>2. CASE arm = Phase
    <3>1. Phase \in reached
      BY <2>1, <2>2, PhaseIsPlace DEF MotionTrue, TaskTrue
    <3> QED BY <1>0, <1>14, <2>1, <2>2, <3>1, SuccessKeeps DEF EndObservation
  <2>3. CASE arm # Phase
    BY <1>1, <1>14, <2>1, <2>3 DEF EndObservation
  <2> QED BY <2>2, <2>3
<1>15. CASE EndProcess
  <2>1. Onward /\ MotionTrue' /\ UNCHANGED <<wait, at, pc, log>> /\ wait = "idle"
    BY <1>2, <1>15 DEF EndProcess, Onward, clientVars, TaskTrue
  <2>2. TaskTrue'
    BY <1>0, <2>1 DEF TaskTrue, Onward
  <2> QED BY <2>1, <2>2, LogKept
<1> QED BY <1>4, <1>5, <1>6, <1>7, <1>8, <1>9, <1>10, <1>11, <1>12, <1>13, <1>14, <1>15 DEF Drive

(* A step of a waiting thread, of the server or of the timeout.            *)
LEMMA OutsideKeeps ==
  ASSUME MotionTrue, TaskTrue, LogTrue, Motion \/ ArmArrives \/ TimeoutKills, UNCHANGED runnerVars
  PROVE  MotionTrue' /\ TaskTrue' /\ LogTrue' /\ Onward
<1>0. Len(Steps) \in Nat \ {0} /\ (task' = task => Steps' = Steps) /\ stage' = stage
  BY StepsAre DEF TaskTrue, runnerVars
<1>1. UNCHANGED <<task, at, log, pc>>
  BY DEF Motion, ArmArrives, TimeoutKills, taskVars
<1>2. Phase' = Phase
  BY <1>0, <1>1 DEF Phase
<1>3. ASSUME MotionTrue', reached \subseteq reached', wait' # "idle" => wait # "idle" /\ goal'.to = goal.to
      PROVE  MotionTrue' /\ TaskTrue' /\ LogTrue' /\ Onward
  <2>1. Onward
    BY <1>1, <1>3 DEF Onward
  <2>2. TaskTrue'
    BY <1>0, <1>1, <1>2, <1>3 DEF TaskTrue
  <2> QED BY <1>1, <1>3, <2>1, <2>2, LogKept
<1>4. CASE Motion
  BY <1>3, <1>4, MotionKeeps DEF Motion
<1>5. CASE ArmArrives
  <2>1. /\ MotionTrue' /\ reached \subseteq reached'
    BY <1>5 DEF ArmArrives, MotionTrue, Asked, IsGoal
  <2>2. wait' = "idle"
    BY <1>5 DEF ArmArrives, TaskTrue
  <2> QED BY <1>3, <2>1, <2>2
<1>6. CASE TimeoutKills
  <2>1. MotionTrue' /\ reached' = reached /\ wait' = "idle"
    BY <1>6, ForgetKeeps DEF TimeoutKills, Forget
  <2> QED BY <1>3, <2>1
<1> QED BY <1>4, <1>5, <1>6

-----------------------------------------------------------------------------
(* The runner.                                                             *)
LEMMA RowKept ==
  ASSUME RowTrue, Onward, UNCHANGED <<row, verdict>>, exit = "none" \/ exit' = exit
  PROVE  RowTrue'
BY DEF RowTrue, Onward

(* What the recorder printed is true; of a benchmark it has one segment.   *)
LEMMA SegmentsTrue ==
  ASSUME RecTrue
  PROVE  /\ Segments \in [Places -> {"none", "true", "false"}]
         /\ \A p \in Places : Segments[p] = "true" => p \in reached
         /\ task = "simple_motion" => \A p \in Places : Segments[p] # "none" => p = "movement"
<1>1. CASE Printed
  <2>1. rec["trajectory"] \in Memory /\ TrueMemory(rec["trajectory"])
    BY DEF RecTrue, Recorders
  <2> QED BY <1>1, <2>1 DEF Segments, Memory, TrueMemory
<1>2. CASE ~Printed
  <2>1. Idle \in Memory /\ TrueMemory(Idle)
    BY IdleTrue
  <2> QED BY <1>2, <2>1 DEF Segments, Memory, TrueMemory
<1> QED BY <1>1, <1>2

(* A recorder that was launched or killed remembers nothing.               *)
LEMMA EmptyTrue ==
  ASSUME NEW st \in Process
  PROVE  [Idle EXCEPT !.st = st] \in Memory /\ TrueMemory([Idle EXCEPT !.st = st])
<1> DEFINE m == [Idle EXCEPT !.st = st]
<1>1. m \in Memory /\ m.segs = Idle.segs /\ m.open = Idle.open
  BY DEF Idle, Memory
<1> HIDE DEF m
<1>2. m \in Memory /\ TrueMemory(m)
  BY <1>1, IdleTrue, SameSegments
<1> QED BY <1>2 DEF m

LEMMA CollectedKeeps ==
  ASSUME RecTrue, Onward, NEW r \in Recorders, Collected(r)
  PROVE  RecTrue'
<1>1. CASE UNCHANGED rec
  BY <1>1, RecKept
<1>2. CASE rec' = [rec EXCEPT ![r] = [Idle EXCEPT !.st = "killed"]]
  <2> DEFINE m == [Idle EXCEPT !.st = "killed"]
  <2>1. m \in Memory /\ TrueMemory(m)
    BY EmptyTrue DEF Process
  <2> HIDE DEF m
  <2>2. rec' = [rec EXCEPT ![r] = m]
    BY <1>2 DEF m
  <2>3. rec' \in [Recorders -> Memory] /\ TrueMemory(rec'["trajectory"])
    BY <2>1, <2>2 DEF RecTrue, Recorders
  <2>4. TrueMemory(rec["trajectory"])'
    BY <2>3, MemoryKept
  <2> QED BY <2>3, <2>4 DEF RecTrue
<1> QED BY <1>1, <1>2 DEF Collected

LEMMA RunnerKeeps ==
  ASSUME Inv, Runner
  PROVE  Inv'
<1>0. MotionTrue /\ TaskTrue /\ LogTrue /\ RecTrue /\ RowTrue
  BY DEF Inv
<1>1. ASSUME UNCHANGED <<clientVars, task, backend, at, calls, rungs, retries, log, exit>>
      PROVE  MotionTrue' /\ LogTrue' /\ Onward
  BY <1>0, <1>1, ClientKept, LogKept DEF Onward, clientVars
<1>2. ASSUME UNCHANGED <<clientVars, taskVars>>, stage' # "idle"
      PROVE  MotionTrue' /\ LogTrue' /\ Onward /\ TaskTrue'
  <2>1. MotionTrue' /\ LogTrue' /\ Onward
    BY <1>1, <1>2 DEF taskVars
  <2>2. Steps' = Steps /\ Phase' = Phase
    BY <1>2 DEF Steps, Phase, taskVars
  <2> QED BY <1>0, <1>2, <2>1, <2>2 DEF TaskTrue, taskVars, clientVars
<1>3. CASE StartRun
  <2>1. MotionTrue' /\ LogTrue' /\ Onward
    BY <1>1, <1>3 DEF StartRun
  <2>2. wait = "idle" /\ wait' = "idle" /\ at \in 1..Len(Steps) /\ pc' = "ready" /\ stage' # "idle"
        /\ UNCHANGED <<task, at>>
    BY <1>0, <1>3 DEF StartRun, TaskTrue, clientVars
  <2>3. TaskTrue'
    BY <1>0, <2>2, StepsAre DEF TaskTrue
  <2>4. RecTrue'
    <3> DEFINE m == [Idle EXCEPT !.st = "launched"]
    <3>1. m \in Memory /\ TrueMemory(m)
      BY EmptyTrue DEF Process
    <3> HIDE DEF m
    <3>2. rec' = [r \in Recorders |-> m]
      BY <1>3 DEF StartRun, m
    <3>3. rec' \in [Recorders -> Memory] /\ TrueMemory(rec'["trajectory"])
      BY <3>1, <3>2 DEF Recorders
    <3>4. TrueMemory(rec["trajectory"])'
      BY <2>1, <3>3, MemoryKept
    <3> QED BY <3>3, <3>4 DEF RecTrue
  <2>5. RowTrue'
    BY <1>0, <1>3, <2>1, RowKept DEF StartRun
  <2> QED BY <2>1, <2>3, <2>4, <2>5 DEF Inv
<1>4. CASE TaskSeen
  BY <1>0, <1>2, <1>4, RecKept, RowKept DEF TaskSeen, Inv, taskVars
<1>5. CASE CollectTrajectory
  BY <1>0, <1>2, <1>5, CollectedKeeps, RowKept DEF CollectTrajectory, Inv, taskVars, Recorders
<1>6. CASE CollectJoint
  BY <1>0, <1>2, <1>6, CollectedKeeps, RowKept DEF CollectJoint, Inv, taskVars, Recorders
<1>7. CASE WriteRow
  <2>1. MotionTrue' /\ LogTrue' /\ Onward /\ TaskTrue' /\ RecTrue'
    BY <1>0, <1>2, <1>7, RecKept DEF WriteRow, recorderVars
  <2>2. /\ UNCHANGED <<task, exit, reached>>
        /\ verdict' = RunSuccess
        /\ row' = [p \in Places |-> IF Segments[p] # "none" THEN Segments[p]
                                   ELSE IF p = FailedPhase THEN "false" ELSE ""]
    BY <1>7 DEF WriteRow, taskVars, clientVars
  <2>3. \A p \in Places : row'[p] = "true" <=> Segments[p] = "true"
    BY <2>2
  <2>4. ASSUME verdict', task = "simple_motion"
        PROVE  Segments["movement"] = "true"
    BY <1>0, <2>2, <2>4, SegmentsTrue DEF RunSuccess, AllSucceeded
  <2>5. verdict' => exit = "0"
    BY <2>2 DEF RunSuccess
  <2>6. RowTrue'
    BY <1>0, <2>2, <2>3, <2>4, <2>5, SegmentsTrue DEF RowTrue
  <2> QED BY <2>1, <2>6 DEF Inv
<1> QED BY <1>3, <1>4, <1>5, <1>6, <1>7 DEF Runner

-----------------------------------------------------------------------------
LEMMA InitHolds ==
  ASSUME Init
  PROVE  Inv
<1>1. MotionTrue
  BY DEF Init, TaskInit, ClientInit, MotionTrue, Asked
<1>2. TaskTrue
  BY StepsAre DEF Init, TaskInit, ClientInit, TaskTrue
<1>3. LogTrue
  BY DEF Init, TaskInit, LogTrue
<1>4. RecTrue
  <2>1. rec = [r \in Recorders |-> Idle]
    BY DEF Init, RecorderInit
  <2> QED BY <2>1, IdleTrue DEF RecTrue, Recorders
<1>5. RowTrue
  BY DEF Init, Blank, RowTrue
<1> QED BY <1>1, <1>2, <1>3, <1>4, <1>5 DEF Inv

LEMMA StepKeeps ==
  ASSUME Inv, [Next]_vars
  PROVE  Inv'
<1>0. MotionTrue /\ TaskTrue /\ LogTrue /\ RecTrue /\ RowTrue
  BY DEF Inv
<1>1. CASE TaskStep
  <2>1. MotionTrue' /\ TaskTrue' /\ LogTrue' /\ Onward
    BY <1>0, <1>1, DriveKeeps, OutsideKeeps DEF TaskStep
  <2>2. exit = "none" \/ exit' = exit
    BY <1>1 DEF TaskStep, Drive, BecomeReady, AbortBetween, StartPhase, NextCall, SendGoal, PhaseFails,
         SkipMotion, TakeYes, TakeNo, Observe, EndObservation, EndProcess, Motion, ArmArrives,
         TimeoutKills, Running, taskVars
  <2>3. RecTrue' /\ RowTrue'
    BY <1>0, <1>1, <2>1, <2>2, RecKept, RowKept DEF TaskStep, recorderVars, runnerVars
  <2> QED BY <2>1, <2>3 DEF Inv
<1>2. CASE RecorderStep
  <2>1. UNCHANGED <<clientVars, task, backend, at, pc, calls, rungs, retries, exit, runnerVars>> /\ Record
    BY <1>2 DEF RecorderStep
  <2>2. Onward
    BY <2>1 DEF Onward, clientVars
  <2>3. RecTrue' /\ log' = log
    BY <1>0, <2>1, <2>2, RecordKeeps
  <2>4. MotionTrue' /\ LogTrue' /\ RowTrue'
    BY <1>0, <2>1, <2>2, <2>3, ClientKept, LogKept, RowKept DEF runnerVars
  <2>5. Steps' = Steps /\ Phase' = Phase
    BY <2>1 DEF Steps, Phase
  <2>6. TaskTrue'
    BY <1>0, <2>1, <2>5 DEF TaskTrue, clientVars, runnerVars
  <2> QED BY <2>3, <2>4, <2>6 DEF Inv
<1>3. CASE Runner
  BY <1>3, RunnerKeeps
<1>4. CASE UNCHANGED vars
  <2>1. UNCHANGED <<clientVars, taskVars, recorderVars, runnerVars>>
    BY <1>4 DEF vars
  <2>2. Onward /\ UNCHANGED <<rec, log, stage, row, verdict, exit, wait, goal, pc, at, task>>
    BY <2>1 DEF Onward, clientVars, taskVars, recorderVars, runnerVars
  <2>3. Steps' = Steps /\ Phase' = Phase
    BY <2>2 DEF Steps, Phase
  <2>4. MotionTrue' /\ LogTrue' /\ RecTrue' /\ RowTrue'
    BY <1>0, <2>1, <2>2, ClientKept, LogKept, RecKept, RowKept
  <2>5. TaskTrue'
    BY <1>0, <2>2, <2>3 DEF TaskTrue
  <2> QED BY <2>4, <2>5 DEF Inv
<1> QED BY <1>1, <1>2, <1>3, <1>4 DEF Next

(* A phase that the table calls a success has been one, and so has a run   *)
(* of a benchmark, whatever the recorders missed and however late they     *)
(* were, for every list of phases and every number of attempts.            *)
THEOREM RowIsHonest == Spec => []RowNeverFlatters
<1>1. Inv => RowNeverFlatters
  BY DEF Inv, RowTrue, RowNeverFlatters
<1> QED BY <1>1, InitHolds, StepKeeps, PTL DEF Spec

-----------------------------------------------------------------------------
(* Where the arm stands. Without a goal that was given up, a goal that     *)
(* ended well and an answer that says yes leave it at their place, and     *)
(* nothing moves it before the next goal.                                  *)
ArmAtGoal ==
  /\ wait = "idle" => goal = NoGoal
  /\ ~abandoned =>
       /\ (Asked /\ goal.st = "ok") => arm = goal.to
       /\ (wait = "answered" /\ answer = "yes") =>
            arm = goal.to /\ goal.st \notin {"sent", "running"}

Standing ==
  /\ ArmAtGoal
  /\ pc \in {"off", "ready"} => at = 1
  /\ StandsWhereItThinks

LEMMA ForgetStands ==
  ASSUME Forget
  PROVE  ArmAtGoal'
BY DEF Forget, ArmAtGoal, Asked

(* While the thread waits, it is not between two phases.                   *)
LEMMA MotionStands ==
  ASSUME MotionTrue, TaskTrue, Standing, Motion
  PROVE  Standing'
<1> USE DEF ArmAtGoal, Asked, MotionTrue, IsGoal
<1>0. UNCHANGED <<task, at, pc>> /\ Steps' = Steps
  BY DEF Motion, taskVars, Steps
<1>1. ASSUME ArmAtGoal', wait # "idle" PROVE Standing'
  BY <1>0, <1>1 DEF Standing, StandsWhereItThinks, TaskTrue
<1>2. CASE PlanArrives
  BY <1>1, <1>2 DEF PlanArrives, Answer, Standing
<1>3. CASE ResponseArrives
  BY <1>1, <1>3 DEF ResponseArrives, Answer, Standing
<1>4. CASE ResultArrives
  BY <1>1, <1>4 DEF ResultArrives, Answer, Standing
<1>5. CASE DeadlinePasses
  BY <1>1, <1>5 DEF DeadlinePasses, Answer, Standing
<1>6. CASE ServerTakes
  BY <1>1, <1>6 DEF ServerTakes, Standing
<1>7. CASE ServerEnds
  BY <1>1, <1>7 DEF ServerEnds, Standing
<1>8. CASE AbandonedGoalMoves
  BY <1>0, <1>8 DEF AbandonedGoalMoves, Standing, StandsWhereItThinks
<1> QED BY <1>2, <1>3, <1>4, <1>5, <1>6, <1>7, <1>8 DEF Motion, Waiting, Server

LEMMA DriveStands ==
  ASSUME MotionTrue, TaskTrue, Standing, Drive
  PROVE  Standing'
<1>0. /\ UNCHANGED <<task, arm, abandoned>> /\ Steps' = Steps
      /\ at \in Nat /\ (pc \notin {"failed", "ended"} => at \in 1..Len(Steps))
  BY DEF Drive, BecomeReady, AbortBetween, StartPhase, NextCall, SendGoal, PhaseFails, SkipMotion,
         TakeYes, TakeNo, Observe, EndObservation, EndProcess, Ask, clientVars, taskVars, Steps, TaskTrue
<1>1. ASSUME UNCHANGED clientVars PROVE ArmAtGoal'
  BY <1>1 DEF Standing, ArmAtGoal, Asked, clientVars
<1>2. ASSUME ArmAtGoal', pc' \notin {"off", "ready", "between", "ended"} PROVE Standing'
  BY <1>2 DEF Standing, StandsWhereItThinks
<1>3. ASSUME ArmAtGoal', PhaseSucceeds, arm = Phase PROVE Standing'
  <2>1. at' = at + 1 /\ pc' \in {"between", "ended"}
    BY <1>3 DEF PhaseSucceeds
  <2>2. Steps'[at' - 1] = arm'
    BY <1>0, <1>3, <2>1 DEF Phase
  <2> QED BY <1>3, <2>1, <2>2 DEF Standing, StandsWhereItThinks
<1>4. CASE BecomeReady
  <2>1. at' = 1 /\ pc' \in {"between", "failed"}
    BY <1>4 DEF BecomeReady, SetupFails, Standing
  <2> QED BY <1>1, <1>4, <2>1 DEF BecomeReady, Standing, StandsWhereItThinks
<1>5. CASE AbortBetween
  BY <1>1, <1>2, <1>5 DEF AbortBetween
<1>6. CASE StartPhase
  BY <1>1, <1>2, <1>6 DEF StartPhase
<1>7. CASE NextCall
  BY <1>1, <1>2, <1>7 DEF NextCall
<1>8. CASE SendGoal
  <2>1. ArmAtGoal'
    BY <1>8 DEF SendGoal, Ask, ArmAtGoal
  <2> QED BY <1>2, <1>8, <2>1 DEF SendGoal, taskVars
<1>9. CASE PhaseFails
  BY <1>1, <1>2, <1>9 DEF PhaseFails, SetupFails
<1>10. CASE SkipMotion
  BY <1>1, <1>3, <1>10 DEF SkipMotion
<1>11. CASE TakeYes
  <2>1. CASE ~abandoned
    <3>1. arm = Phase
      BY <1>11, <2>1 DEF TakeYes, Done, Standing, ArmAtGoal, TaskTrue
    <3> QED BY <1>3, <1>11, <3>1, ForgetStands DEF TakeYes, Done
  <2>2. CASE abandoned
    <3>1. pc' \in {"between", "ended"} /\ ArmAtGoal'
      BY <1>11, ForgetStands DEF TakeYes, Done, PhaseSucceeds
    <3> QED BY <1>0, <2>2, <3>1 DEF Standing, StandsWhereItThinks
  <2> QED BY <2>1, <2>2
<1>12. CASE TakeNo
  BY <1>2, <1>12, ForgetStands DEF TakeNo, Done
<1>13. CASE Observe
  BY <1>2, <1>13, ForgetStands DEF Observe, Done
<1>14. CASE EndObservation
  BY <1>1, <1>2, <1>3, <1>14 DEF EndObservation
<1>15. CASE EndProcess
  BY <1>0, <1>1, <1>15 DEF EndProcess, Standing, StandsWhereItThinks
<1> QED BY <1>4, <1>5, <1>6, <1>7, <1>8, <1>9, <1>10, <1>11, <1>12, <1>13, <1>14, <1>15 DEF Drive

LEMMA StandingKept ==
  ASSUME Inv, Standing, [Next]_vars
  PROVE  Standing'
<1>0. MotionTrue /\ TaskTrue
  BY DEF Inv
<1>1. ASSUME UNCHANGED <<clientVars, task, at>>, pc' = pc \/ (pc = "off" /\ pc' = "ready") PROVE Standing'
  <2>1. Steps' = Steps
    BY <1>1 DEF Steps
  <2> QED BY <1>1, <2>1 DEF Standing, StandsWhereItThinks, ArmAtGoal, Asked, clientVars
<1>2. CASE TaskStep
  <2>1. CASE Drive
    BY <1>0, <2>1, DriveStands
  <2>2. CASE Motion
    BY <1>0, <2>2, MotionStands
  <2>3. CASE ArmArrives
    BY <1>0, <2>3 DEF ArmArrives, taskVars, Standing, StandsWhereItThinks, ArmAtGoal, Asked, TaskTrue
  <2>4. CASE TimeoutKills
    <3>1. ArmAtGoal' /\ UNCHANGED <<task, at, pc, arm, abandoned>> /\ Steps' = Steps
      BY <2>4, ForgetStands DEF TimeoutKills, Steps
    <3> QED BY <3>1 DEF Standing, StandsWhereItThinks
  <2> QED BY <1>2, <2>1, <2>2, <2>3, <2>4 DEF TaskStep
<1>3. CASE RecorderStep
  BY <1>1, <1>3 DEF RecorderStep
<1>4. CASE StartRun
  BY <1>0, <1>1, <1>4 DEF StartRun, TaskTrue
<1>5. CASE Runner /\ ~StartRun
  BY <1>1, <1>5 DEF Runner, TaskSeen, CollectTrajectory, CollectJoint, WriteRow, taskVars
<1>6. CASE UNCHANGED vars
  BY <1>1, <1>6 DEF vars, taskVars
<1> QED BY <1>2, <1>3, <1>4, <1>5, <1>6 DEF Next

(* Unless a goal was given up while the server had it, the arm stands at   *)
(* the place of the phase that was just finished, for every sequence.      *)
THEOREM ArmStandsWhereItThinks == Spec => []StandsWhereItThinks
<1>1. Init => Standing
  BY DEF Init, TaskInit, ClientInit, Standing, ArmAtGoal, Asked, StandsWhereItThinks
<1>2. Standing => StandsWhereItThinks
  BY DEF Standing
<1> QED BY <1>1, <1>2, InitHolds, StepKeeps, StandingKept, PTL DEF Spec
-----------------------------------------------------------------------------
(* What the recorders are told. Of every measured phase a beginning and,   *)
(* in time, an end, in order: event 2k - 1 begins the k-th phase, event 2k *)
(* ends it, well if it is behind the task.                                 *)
Measured == IF task = "pick_and_place" THEN Phases ELSE <<"movement">>
Behind == IF task = "pick_and_place" THEN at - 1 ELSE IF at > 2 THEN 1 ELSE 0

SetupReported == log # <<>> /\ log[1].ev = "setup_failed"

\* How many events there are, where the task is.
Told ==
  CASE pc \in {"moving", "observing"} -> {IF Phase = "start_state" THEN 0 ELSE 2 * Behind + 1}
    [] pc = "failed" -> {2 * Behind, 2 * Behind + 2}
    [] OTHER -> {2 * Behind}

\* The events l of the phases s of which the first b succeeded.
EventsOf(l, s, b) ==
  \A k \in DOMAIN s :
    /\ 2 * k - 1 <= Len(l) => l[2 * k - 1].ev = "start" /\ l[2 * k - 1].phase = s[k]
    /\ 2 * k <= Len(l) =>
         l[2 * k].ev = "end" /\ l[2 * k].phase = s[k] /\ l[2 * k].ok = (k <= b)

LogTells == EventsOf(log, Measured, Behind) /\ Len(log) \in Told

\* Where the task is, and when its events are over.
TaskPlace ==
  /\ pc = "ended" => at = Len(Steps) + 1
  /\ pc = "failed" => at \in 1..Len(Steps)
  /\ pc \in {"off", "ready"} => at = 1
  /\ exit = "0" => pc = "ended"
  /\ pc = "off" => exit = "none"
  /\ stage \in {"idle", "measuring"} \/ exit # "none"

\* What the events before the cursor make of the k-th phase.
Outcome(r, k) == IF r = "joint" \/ log[2 * k].ok THEN "true" ELSE "false"
Interrupted(r) == IF r = "joint" THEN "true" ELSE "false"
SegmentOf(r, m, k) ==
  IF 2 * k <= m.cursor THEN Outcome(r, k)
  ELSE IF 2 * k = m.cursor + 1 /\ m.st = "stopped" THEN Interrupted(r)
  ELSE "none"

\* A recorder that missed nothing holds what it was told. The failed phase
\* is the one whose segment is "false".
Holds(r, m) ==
  /\ \A k \in DOMAIN Measured : m.segs[Measured[k]] = SegmentOf(r, m, k)
  /\ \A p \in Places : m.segs[p] # "none" => \E k \in DOMAIN Measured : p = Measured[k]
  /\ \A k \in DOMAIN Measured : (m.st = "running" /\ m.cursor = 2 * k - 1) => m.open = Measured[k]
  /\ (m.st = "stopped" \/ \A k \in DOMAIN Measured : m.cursor # 2 * k - 1) => m.open = None
  /\ (r = "trajectory" /\ task = "pick_and_place") =>
       \A p \in Places : m.failed = p <=> m.segs[p] = "false"

Untold(m) == m.segs = Idle.segs /\ m.open = None

\* A recorder with memory m, and with the file that stops it or not.
Tells(r, m, stop) ==
  /\ m.st \in {"none", "launched", "booting"} => m.cursor = 0 /\ Untold(m) /\ m.failed = None /\ ~m.lost
  /\ m.cursor <= Len(log)
  /\ m.st \in {"booting", "running"} /\ stop => exit # "none"
  /\ m.st = "stopped" => exit # "none" /\ (~m.lost => m.cursor = Len(log))
  /\ m.st \in {"running", "stopped"} /\ ~m.lost => IF SetupReported THEN Untold(m) ELSE Holds(r, m)

RecorderTells(r) == Tells(r, rec[r], stopFile[r])

SetupTells ==
  SetupReported => Len(log) = 1 /\ task = "simple_motion" /\ pc = "failed"

\* What the task has published is where it is.
TaskTells == TaskPlace /\ SetupTells /\ (~SetupReported => LogTells)

Telling ==
  /\ TaskTells
  /\ stopFile \in [Recorders -> BOOLEAN] /\ \A r \in Recorders : RecorderTells(r)
  /\ stage \in {"stopping joint", "writing", "done"} => rec["trajectory"].st \in {"stopped", "killed"}
  /\ RowBlamesTheFailure

-----------------------------------------------------------------------------
LEMMA Parity ==
  ASSUME NEW n \in Nat \ {0}
  PROVE  \E k \in Nat \ {0} : n = 2 * k \/ n = 2 * k - 1
<1>1. CASE n % 2 = 0
  <2>1. n = 2 * (n \div 2) /\ n \div 2 \in Nat \ {0}
    BY <1>1
  <2> QED BY <2>1
<1>2. CASE n % 2 # 0
  <2>1. n = 2 * (n \div 2 + 1) - 1 /\ n \div 2 + 1 \in Nat \ {0}
    BY <1>2
  <2> QED BY <2>1
<1> QED BY <1>1, <1>2

(* The measured phases are different places.                               *)
LEMMA MeasuredAre ==
  ASSUME task \in {"pick_and_place", "simple_motion"}
  PROVE  /\ Measured \in Seq(Places) /\ Len(Measured) \in Nat \ {0}
         /\ DOMAIN Measured = 1..Len(Measured)
         /\ \A i, j \in DOMAIN Measured : Measured[i] = Measured[j] => i = j
         /\ \A i \in DOMAIN Measured : Measured[i] \in Places
         /\ task' = task => Measured' = Measured
<1>1. CASE task = "pick_and_place"
  BY <1>1 DEF Measured
<1>2. CASE task = "simple_motion"
  BY <1>2 DEF Measured
<1> QED BY <1>1, <1>2

(* Which of the measured phases the present one is.                        *)
LEMMA PlaceOfPhase ==
  ASSUME TaskTrue, TaskPlace
  PROVE  /\ Behind \in 0..Len(Measured)
         /\ pc = "failed" => Behind < Len(Measured)
         /\ (at \in 1..Len(Steps) /\ Phase # "start_state") =>
              Behind + 1 \in DOMAIN Measured /\ Phase = Measured[Behind + 1]
         /\ (at \in 1..Len(Steps) /\ Phase = "start_state") => Behind = 0
<1>1. CASE task = "pick_and_place"
  BY <1>1 DEF Measured, Behind, Steps, Phase, TaskTrue, TaskPlace
<1>2. CASE task = "simple_motion"
  BY <1>2 DEF Measured, Behind, Steps, Phase, TaskTrue, TaskPlace
<1> QED BY <1>1, <1>2 DEF TaskTrue

LEMMA LengthOfLog ==
  ASSUME TaskTrue, TaskPlace, LogTrue, LogTells
  PROVE  /\ Len(log) \in Nat /\ Behind \in Nat
         /\ Len(log) <= 2 * Behind + 2 /\ Len(log) <= 2 * Len(Measured)
<1>1. Behind \in 0..Len(Measured) /\ Len(Measured) \in Nat /\ Len(log) \in Nat
  BY PlaceOfPhase, MeasuredAre DEF TaskTrue, LogTrue
<1>2. CASE pc \in {"moving", "observing"}
  <2>1. CASE Phase = "start_state"
    BY <1>1, <1>2, <2>1 DEF LogTells, Told
  <2>2. CASE Phase # "start_state"
    <3>1. Behind + 1 \in 1..Len(Measured)
      BY <1>2, <2>2, PlaceOfPhase, MeasuredAre DEF TaskTrue
    <3> QED BY <1>1, <1>2, <2>2, <3>1 DEF LogTells, Told
  <2> QED BY <2>1, <2>2
<1>3. CASE pc = "failed"
  BY <1>1, <1>3, PlaceOfPhase DEF LogTells, Told
<1>4. CASE pc \notin {"moving", "observing", "failed"}
  BY <1>1, <1>4 DEF LogTells, Told
<1> QED BY <1>2, <1>3, <1>4

LEMMA StartTold ==
  ASSUME NEW l \in Seq(Events), NEW s \in Seq(Places), NEW b \in Nat, NEW e \in Events,
         EventsOf(l, s, b), Len(l) = 2 * b, e.ev = "start", e.phase = s[b + 1]
  PROVE  EventsOf(Append(l, e), s, b) /\ Len(Append(l, e)) = 2 * b + 1
<1> DEFINE m == Append(l, e)
<1>1. /\ Len(m) = 2 * b + 1 /\ m[2 * b + 1] = e
      /\ \A i \in 1..(2 * b) : m[i] = l[i]
  OBVIOUS
<1> HIDE DEF m
<1>2. ASSUME NEW k \in DOMAIN s, 2 * k - 1 <= Len(m)
      PROVE  m[2 * k - 1].ev = "start" /\ m[2 * k - 1].phase = s[k]
  <2>1. k \in Nat \ {0}
    OBVIOUS
  <2>2. CASE k = b + 1
    BY <1>1, <2>2
  <2>3. CASE k # b + 1
    <3>1. 2 * k - 1 \in 1..(2 * b)
      BY <1>1, <1>2, <2>1, <2>3
    <3> QED BY <1>1, <3>1 DEF EventsOf
  <2> QED BY <2>2, <2>3
<1>3. ASSUME NEW k \in DOMAIN s, 2 * k <= Len(m)
      PROVE  m[2 * k].ev = "end" /\ m[2 * k].phase = s[k] /\ m[2 * k].ok = (k <= b)
  <2>1. k \in Nat \ {0}
    OBVIOUS
  <2>2. 2 * k \in 1..(2 * b)
    BY <1>1, <1>3, <2>1
  <2> QED BY <1>1, <2>2 DEF EventsOf
<1> QED BY <1>1, <1>2, <1>3 DEF EventsOf, m

LEMMA EndTold ==
  ASSUME NEW l \in Seq(Events), NEW s \in Seq(Places), NEW b \in Nat, NEW e \in Events,
         EventsOf(l, s, b), Len(l) = 2 * b + 1, e.ev = "end", e.phase = s[b + 1]
  PROVE  /\ EventsOf(Append(l, e), s, IF e.ok THEN b + 1 ELSE b)
         /\ Len(Append(l, e)) = 2 * b + 2
<1> DEFINE m == Append(l, e)
           c == IF e.ok THEN b + 1 ELSE b
<1>1. /\ Len(m) = 2 * b + 2 /\ m[2 * b + 2] = e
      /\ \A i \in 1..(2 * b + 1) : m[i] = l[i]
  OBVIOUS
<1>0. e.ok \in BOOLEAN /\ c \in Nat
  BY DEF Events
<1> HIDE DEF m
<1>2. ASSUME NEW k \in DOMAIN s, 2 * k - 1 <= Len(m)
      PROVE  m[2 * k - 1].ev = "start" /\ m[2 * k - 1].phase = s[k]
  <2>1. k \in Nat \ {0}
    OBVIOUS
  <2>2. 2 * k - 1 \in 1..(2 * b + 1)
    BY <1>1, <1>2, <2>1
  <2> QED BY <1>1, <2>2 DEF EventsOf
<1>3. ASSUME NEW k \in DOMAIN s, 2 * k <= Len(m)
      PROVE  m[2 * k].ev = "end" /\ m[2 * k].phase = s[k] /\ m[2 * k].ok = (k <= c)
  <2>1. k \in Nat \ {0}
    OBVIOUS
  <2>2. CASE k = b + 1
    <3>1. m[2 * k] = e
      BY <1>1, <2>2
    <3>2. e.ok = (k <= c)
      BY <1>0, <2>2
    <3> QED BY <2>2, <3>1, <3>2
  <2>3. CASE k # b + 1
    <3>1. 2 * k \in 1..(2 * b + 1) /\ k <= b
      BY <1>1, <1>3, <2>1, <2>3
    <3>2. (k <= c) = (k <= b)
      BY <1>0, <2>1, <3>1
    <3>3. m[2 * k] = l[2 * k] /\ 2 * k <= Len(l)
      BY <1>1, <3>1
    <3> QED BY <3>2, <3>3 DEF EventsOf
  <2> QED BY <2>2, <2>3
<1> QED BY <1>1, <1>2, <1>3 DEF EventsOf, m

(* What a recorder remembers does not change when more is published.       *)
LEMMA HoldsLonger ==
  ASSUME TaskTrue, LogTrue, Onward, NEW r \in Recorders, NEW m \in Memory, Holds(r, m),
         m.cursor <= Len(log), \A i \in 1..Len(log) : log'[i] = log[i]
  PROVE  Holds(r, m)'
<1>1. Measured' = Measured /\ DOMAIN Measured = 1..Len(Measured) /\ task' = task /\ Len(log) \in Nat
  BY MeasuredAre DEF TaskTrue, Onward, LogTrue
<1>2. ASSUME NEW k \in DOMAIN Measured PROVE SegmentOf(r, m, k)' = SegmentOf(r, m, k)
  <2>1. k \in Nat \ {0} /\ m.cursor \in Nat /\ (2 * k <= m.cursor => 2 * k \in 1..Len(log))
    BY <1>1, <1>2 DEF Memory
  <2> QED BY <2>1 DEF SegmentOf, Outcome, Interrupted
<1> QED BY <1>1, <1>2 DEF Holds

(* A recorder that has heard nothing has nothing.                          *)
LEMMA HoldsNothing ==
  ASSUME TaskTrue, NEW r \in Recorders, NEW m \in Memory, m.cursor = 0, Untold(m), m.failed = None,
         m.st = "running"
  PROVE  Holds(r, m)
<1>1. \A k \in DOMAIN Measured : k \in Nat \ {0} /\ Measured[k] \in Places
  BY MeasuredAre DEF TaskTrue
<1>2. \A p \in Places : m.segs[p] = "none"
  BY DEF Untold, Idle
<1>3. \A k \in DOMAIN Measured : ~(2 * k <= 0) /\ 0 # 2 * k - 1
  BY <1>1
<1> QED BY <1>1, <1>2, <1>3 DEF Holds, SegmentOf, Untold, Idle

LEMMA NothingHeld ==
  ASSUME TaskTrue, NEW r \in Recorders, NEW m \in Memory, m.cursor = 0, Holds(r, m),
         m.st = "running"
  PROVE  Untold(m)
<1>1. \A k \in DOMAIN Measured : k \in Nat \ {0} /\ Measured[k] \in Places
  BY MeasuredAre DEF TaskTrue
<1>2. \A k \in DOMAIN Measured : ~(2 * k <= 0) /\ 0 # 2 * k - 1
  BY <1>1
<1>3. \A k \in DOMAIN Measured : m.segs[Measured[k]] = "none"
  BY <1>2 DEF Holds, SegmentOf
<1>4. ASSUME NEW p \in Places, m.segs[p] # "none" PROVE FALSE
  <2>1. \E k \in DOMAIN Measured : p = Measured[k]
    BY <1>4 DEF Holds
  <2> QED BY <1>3, <1>4, <2>1
<1>5. m.segs = [p \in Places |-> "none"]
  BY <1>4 DEF Memory
<1> QED BY <1>2, <1>5 DEF Holds, Untold, Idle

\* What is known of a recorder that runs beside the task.
Beside(r, m) ==
  /\ TaskTrue /\ TaskPlace /\ LogTrue /\ LogTells
  /\ r \in Recorders /\ m \in Memory /\ m.st = "running"
  /\ m.cursor <= Len(log) /\ Holds(r, m)

(* Closing the k-th phase, before which none failed.                       *)
LEMMA ClosingHolds ==
  ASSUME NEW r, NEW m, Beside(r, m), NEW k \in DOMAIN Measured, m.cursor = 2 * k - 1,
         k <= Behind + 1, NEW n \in Memory, NEW result \in {"true", "false"},
         n.open = Measured[k], n.segs = m.segs, n.failed = m.failed,
         \/ n.cursor = 2 * k /\ 2 * k <= Len(log) /\ n.st = "running" /\ result = Outcome(r, k)
         \/ n.cursor = m.cursor /\ n.st = "stopped" /\ result = Interrupted(r)
  PROVE  /\ Holds(r, Close(n, result)) /\ Close(n, result) \in Memory
         /\ Close(n, result).st = n.st /\ Close(n, result).cursor = n.cursor
         /\ Close(n, result).lost = n.lost
<1> DEFINE c == Close(n, result)
           p == Measured[k]
<1>0. /\ Measured \in Seq(Places) /\ \A j \in DOMAIN Measured : j \in Nat \ {0} /\ Measured[j] \in Places
      /\ \A j \in DOMAIN Measured : Measured[j] = Measured[k] => j = k
      /\ Len(log) \in Nat /\ Behind \in Nat
  BY MeasuredAre, LengthOfLog DEF Beside, TaskTrue
<1>1. /\ c \in Memory /\ c.open = None /\ c.segs = [m.segs EXCEPT ![p] = result]
      /\ c.st = n.st /\ c.cursor = n.cursor /\ c.lost = n.lost
  BY <1>0, CloseTrue DEF Close, Memory
<1>8. c.failed = IF result = "false" /\ m.failed = None THEN p ELSE m.failed
  BY DEF Close, Memory
<1> HIDE DEF c
<1>2. m.segs \in [Places -> {"none", "true", "false"}] /\ p \in Places /\ p # None
  BY <1>0 DEF Beside, Memory
<1>3. \A q \in Places : c.segs[q] = IF q = p THEN result ELSE m.segs[q]
  BY <1>1, <1>2
<1>4. ASSUME NEW j \in DOMAIN Measured PROVE c.segs[Measured[j]] = SegmentOf(r, c, j)
  <2>1. CASE j = k
    <3>1. c.segs[Measured[j]] = result
      BY <1>2, <1>3, <2>1
    <3>2. SegmentOf(r, c, j) = result
      BY <1>0, <1>1, <2>1 DEF SegmentOf
    <3> QED BY <3>1, <3>2
  <2>2. CASE j # k
    <3>1. Measured[j] # p /\ c.segs[Measured[j]] = SegmentOf(r, m, j)
      BY <1>0, <1>3, <2>2 DEF Beside, Holds
    <3>2. 2 * j <= c.cursor <=> 2 * j <= m.cursor
      BY <1>0, <1>1, <2>2
    <3>3. 2 * j # m.cursor + 1 /\ (c.st = "stopped" => c.cursor = m.cursor)
      BY <1>0, <1>1, <2>2
    <3>4. SegmentOf(r, c, j) = SegmentOf(r, m, j)
      BY <1>1, <3>2, <3>3 DEF SegmentOf, Beside
    <3> QED BY <3>1, <3>4
  <2> QED BY <2>1, <2>2
<1>5. ASSUME NEW q \in Places, c.segs[q] # "none" PROVE \E j \in DOMAIN Measured : q = Measured[j]
  <2>1. CASE q = p BY <2>1
  <2>2. CASE q # p BY <1>3, <1>5, <2>2 DEF Beside, Holds
  <2> QED BY <2>1, <2>2
<1>6. \A j \in DOMAIN Measured : c.st = "running" => c.cursor # 2 * j - 1
  BY <1>0, <1>1
<1>7. ASSUME r = "trajectory", task = "pick_and_place", NEW q \in Places
      PROVE  c.failed = q <=> c.segs[q] = "false"
  <2>1. ASSUME NEW j \in DOMAIN Measured PROVE m.segs[Measured[j]] # "false"
    <3>1. m.segs[Measured[j]] = SegmentOf(r, m, j)
      BY DEF Beside, Holds
    <3>2. CASE 2 * j <= m.cursor
      <4>1. j < k /\ j <= Behind /\ 2 * j <= Len(log)
        BY <1>0, <3>2 DEF Beside
      <4>2. log[2 * j].ok
        BY <4>1 DEF Beside, LogTells, EventsOf
      <4> QED BY <3>1, <3>2, <4>2 DEF SegmentOf, Outcome
    <3>3. CASE ~(2 * j <= m.cursor)
      BY <3>1, <3>3 DEF SegmentOf, Beside
    <3> QED BY <3>2, <3>3
  <2>2. \A o \in Places : m.segs[o] # "false"
    BY <1>0, <2>1 DEF Beside, Holds
  <2>3. m.failed = None
    <3>1. m.failed \in Places \cup {None}
      BY DEF Beside, Memory
    <3>2. m.failed \notin Places
      BY <1>7, <2>2 DEF Beside, Holds
    <3> QED BY <3>1, <3>2
  <2> QED BY <1>1, <1>2, <1>3, <1>8, <2>2, <2>3
<1> QED BY <1>1, <1>4, <1>5, <1>6, <1>7 DEF Holds, c

(* A recorder hears the next event.                                        *)
LEMMA HearingHolds ==
  ASSUME NEW r, NEW m, Beside(r, m), m.cursor < Len(log)
  PROVE  LET n == [m EXCEPT !.cursor = @ + 1]
             after == OnEvent(r, n, log[n.cursor])
         IN Holds(r, after) /\ after \in Memory /\ after.st = "running"
            /\ after.cursor = m.cursor + 1 /\ after.lost = m.lost
<1> DEFINE n == [m EXCEPT !.cursor = @ + 1]
           e == log[n.cursor]
           after == OnEvent(r, n, e)
<1>0. /\ Measured \in Seq(Places) /\ \A j \in DOMAIN Measured : j \in Nat \ {0} /\ Measured[j] \in Places
      /\ DOMAIN Measured = 1..Len(Measured) /\ Len(Measured) \in Nat
      /\ Len(log) \in Nat /\ Behind \in Nat
      /\ Len(log) <= 2 * Behind + 2 /\ Len(log) <= 2 * Len(Measured)
  BY MeasuredAre, LengthOfLog DEF Beside, TaskTrue
<1>1. /\ n \in Memory /\ n.cursor = m.cursor + 1 /\ m.cursor \in Nat /\ n.segs = m.segs /\ n.open = m.open
      /\ n.failed = m.failed /\ n.st = "running" /\ n.lost = m.lost
  BY DEF Beside, Memory
<1> HIDE DEF n
<1>2. n.cursor \in 1..Len(log)
  BY <1>0, <1>1
<1>3. PICK k \in Nat \ {0} : n.cursor = 2 * k \/ n.cursor = 2 * k - 1
  <2>1. n.cursor \in Nat \ {0}
    BY <1>0, <1>1
  <2> QED BY <2>1, Parity
<1>4. k \in DOMAIN Measured /\ k <= Behind + 1 /\ Measured[k] \in Places /\ Measured[k] # None
  BY <1>0, <1>2, <1>3
<1>5. CASE n.cursor = 2 * k - 1
  <2>1. e.ev = "start" /\ e.phase = Measured[k]
    <3>1. 2 * k - 1 <= Len(log)
      BY <1>0, <1>2, <1>5
    <3> QED BY <1>4, <1>5, <3>1 DEF Beside, LogTells, EventsOf
  <2>2. \A j \in DOMAIN Measured : m.cursor # 2 * j - 1
    BY <1>0, <1>1, <1>3, <1>5
  <2>3. n.open = None
    BY <1>1, <2>2 DEF Beside, Holds
  <2>4. after = Open(n, Measured[k])
    BY <1>4, <2>1, <2>3 DEF OnEvent, TrajectoryStart, JointStart
  <2> HIDE DEF after
  <2>5. /\ after \in Memory /\ after.st = "running" /\ after.cursor = n.cursor /\ after.lost = m.lost
        /\ after.segs = m.segs /\ after.failed = m.failed /\ after.open = Measured[k]
    BY <1>1, <1>4, <2>4 DEF Open, Memory
  <2>6. ASSUME NEW j \in DOMAIN Measured PROVE after.segs[Measured[j]] = SegmentOf(r, after, j)
    <3>1. 2 * j <= after.cursor <=> 2 * j <= m.cursor
      BY <1>0, <1>1, <1>3, <1>5, <2>5
    <3> QED BY <2>5, <3>1 DEF SegmentOf, Beside, Holds
  <2>7. \A j \in DOMAIN Measured : after.cursor = 2 * j - 1 => j = k
    BY <1>0, <1>3, <1>5, <2>5
  <2>8. \A p \in Places : after.segs[p] # "none" => \E j \in DOMAIN Measured : p = Measured[j]
    BY <2>5 DEF Beside, Holds
  <2>9. (r = "trajectory" /\ task = "pick_and_place") =>
          \A p \in Places : after.failed = p <=> after.segs[p] = "false"
    BY <2>5 DEF Beside, Holds
  <2>10. after.cursor = 2 * k - 1
    BY <1>5, <2>5
  <2>11. Holds(r, after)
    BY <1>4, <2>5, <2>6, <2>7, <2>8, <2>9, <2>10 DEF Holds
  <2> QED BY <1>1, <2>5, <2>11 DEF n, e, after
<1>6. CASE n.cursor = 2 * k
  <2>1. e.ev = "end" /\ e.phase = Measured[k] /\ 2 * k <= Len(log)
    BY <1>2, <1>4, <1>6 DEF Beside, LogTells, EventsOf
  <2>2. m.cursor = 2 * k - 1
    BY <1>1, <1>3, <1>6
  <2>3. n.open = Measured[k]
    BY <1>1, <1>4, <2>2 DEF Beside, Holds
  <2>4. Open(n, Measured[k]) = n
    BY <1>1, <1>4, <2>3 DEF Open, Memory
  <2>5. after = Close(n, Outcome(r, k))
    BY <1>4, <1>6, <2>1, <2>3, <2>4 DEF OnEvent, TrajectoryEnd, JointEnd, Outcome, Beside, Recorders
  <2>6. Outcome(r, k) \in {"true", "false"}
    BY DEF Outcome
  <2> HIDE DEF after
  <2>7. /\ Holds(r, after) /\ after \in Memory /\ after.st = n.st
        /\ after.cursor = n.cursor /\ after.lost = n.lost
    BY <1>1, <1>4, <1>6, <2>1, <2>2, <2>3, <2>5, <2>6, ClosingHolds
  <2> QED BY <1>1, <2>7 DEF n, e, after
<1> QED BY <1>3, <1>5, <1>6

(* A recorder that heard everything is stopped.                            *)
LEMMA StoppingHolds ==
  ASSUME NEW r, NEW m, Beside(r, m), m.cursor = Len(log), NEW lost \in BOOLEAN
  PROVE  LET n == [m EXCEPT !.st = "stopped", !.lost = lost]
         IN Holds(r, OnStop(r, n)) /\ OnStop(r, n).st = "stopped"
            /\ OnStop(r, n).cursor = m.cursor /\ OnStop(r, n).lost = lost
<1> DEFINE n == [m EXCEPT !.st = "stopped", !.lost = lost]
<1>0. /\ Measured \in Seq(Places) /\ \A j \in DOMAIN Measured : j \in Nat \ {0} /\ Measured[j] \in Places
      /\ DOMAIN Measured = 1..Len(Measured) /\ Len(Measured) \in Nat
      /\ Len(log) \in Nat /\ Behind \in Nat
      /\ Len(log) <= 2 * Behind + 2 /\ Len(log) <= 2 * Len(Measured)
  BY MeasuredAre, LengthOfLog DEF Beside, TaskTrue
<1>1. /\ n \in Memory /\ n.cursor = m.cursor /\ m.cursor \in Nat /\ n.segs = m.segs /\ n.open = m.open
      /\ n.failed = m.failed /\ n.st = "stopped" /\ n.lost = lost
  BY DEF Beside, Memory, Process
<1> HIDE DEF n
<1>2. CASE \E k \in DOMAIN Measured : m.cursor = 2 * k - 1
  <2> PICK k \in DOMAIN Measured : m.cursor = 2 * k - 1
    BY <1>2
  <2>1. k <= Behind + 1
    BY <1>0
  <2>2. n.open = Measured[k] /\ n.open # None
    BY <1>0, <1>1 DEF Beside, Holds
  <2>3. Interrupted(r) \in {"true", "false"} /\ OnStop(r, n) = Close(n, Interrupted(r))
    BY <2>2 DEF OnStop, Interrupted, Beside, Recorders
  <2> DEFINE c == OnStop(r, n)
  <2> HIDE DEF c
  <2>4. Holds(r, Close(n, Interrupted(r))) /\ Close(n, Interrupted(r)).st = n.st
        /\ Close(n, Interrupted(r)).cursor = n.cursor /\ Close(n, Interrupted(r)).lost = n.lost
    BY <1>1, <2>1, <2>2, <2>3, ClosingHolds
  <2> QED BY <1>1, <2>3, <2>4 DEF n
<1>3. CASE \A k \in DOMAIN Measured : m.cursor # 2 * k - 1
  <2>1. n.open = None /\ OnStop(r, n) = n
    BY <1>1, <1>3 DEF Beside, Holds, OnStop
  <2>2. ASSUME NEW j \in DOMAIN Measured PROVE SegmentOf(r, n, j) = SegmentOf(r, m, j)
    <3>1. 2 * j # m.cursor + 1
      BY <1>0, <1>1, <1>3
    <3> QED BY <1>1, <3>1 DEF SegmentOf
  <2>3. Holds(r, n)
    BY <1>1, <2>1, <2>2 DEF Beside, Holds
  <2> QED BY <1>1, <2>1, <2>3 DEF n
<1> QED BY <1>2, <1>3

-----------------------------------------------------------------------------
(* The task publishes.                                                     *)
LEMMA SetupNotReported ==
  ASSUME LogTrue, ~SetupReported, NEW e \in Events, e.ev # "setup_failed", log' = Append(log, e)
  PROVE  ~SetupReported'
<1>1. CASE log = <<>>
  BY <1>1 DEF SetupReported
<1>2. CASE log # <<>>
  BY <1>2 DEF SetupReported, LogTrue
<1> QED BY <1>1, <1>2

LEMMA TaskTellsKept ==
  ASSUME TaskTrue, TaskTells, UNCHANGED <<log, task, at>>,
         stage' = stage \/ stage' = "measuring" \/ exit' # "none",
         exit' = exit \/ (exit = "none" /\ exit' # "none" /\ pc # "off" /\ (exit' = "0" => pc = "ended")),
         pc' = pc \/ (~SetupReported /\ exit' = "none" /\ <<pc, pc'>> \in
           {<<"off", "ready">>, <<"ready", "between">>, <<"between", "failed">>, <<"moving", "observing">>,
            <<"observing", "moving">>})
  PROVE  TaskTells'
<1>1. Steps' = Steps /\ Phase' = Phase /\ Measured' = Measured /\ Behind' = Behind
  BY DEF Steps, Phase, Measured, Behind
<1>2. TaskPlace'
  BY <1>1 DEF TaskPlace, TaskTells, TaskTrue
<1>3. SetupTells' /\ SetupReported' = SetupReported
  BY DEF SetupTells, SetupReported, TaskTells
<1>4. Told \subseteq Told'
  BY <1>1 DEF Told
<1> QED BY <1>1, <1>2, <1>3, <1>4 DEF TaskTells, LogTells

\* While the task drives it has not reported that its setup failed.
Driving == TaskTrue /\ TaskTells /\ LogTrue /\ ~SetupReported /\ Running /\ at \in 1..Len(Steps)

LEMMA SetupFailureTold ==
  ASSUME Driving, SetupFails, UNCHANGED <<task, at, stage, exit>>, Len(log) = 0 /\ Behind = 0
  PROVE  TaskTells'
<1>0. Steps' = Steps /\ Behind' = Behind /\ Measured' = Measured
  BY DEF Steps, Behind, Measured
<1>1. TaskPlace'
  BY <1>0 DEF SetupFails, TaskPlace, TaskTells, Driving, TaskTrue, Running
<1>2. CASE task = "simple_motion"
  <2>1. log = <<>> /\ log' = Append(log, Event("setup_failed", "movement", FALSE))
    <3>1. log \in Seq(Events) /\ Len(log) = 0
      BY DEF Driving, LogTrue
    <3>2. log = <<>>
      BY <3>1
    <3> QED BY <1>2, <3>2 DEF SetupFails, Publish
  <2>2. SetupReported' /\ Len(log') = 1
    BY <2>1 DEF SetupReported, Event
  <2> QED BY <1>1, <1>2, <2>2 DEF SetupTells, SetupFails, TaskTells
<1>3. CASE task # "simple_motion"
  <2>1. log' = log /\ pc' = "failed"
    BY <1>3 DEF SetupFails
  <2>2. LogTells' /\ ~SetupReported'
    BY <1>0, <2>1 DEF LogTells, Told, TaskTells, Driving, SetupReported
  <2> QED BY <1>1, <2>2 DEF SetupTells, TaskTells
<1> QED BY <1>2, <1>3

LEMMA BeginningTold ==
  ASSUME Driving, pc = "between", pc' = "moving", UNCHANGED <<task, at, stage, exit>>,
         IF Phase = "start_state" THEN UNCHANGED log ELSE Publish(Event("start", Phase, FALSE))
  PROVE  TaskTells'
<1>0. Steps' = Steps /\ Behind' = Behind /\ Measured' = Measured /\ Phase' = Phase
  BY DEF Steps, Behind, Measured, Phase
<1>1. TaskPlace'
  BY <1>0 DEF TaskPlace, TaskTells, Driving, TaskTrue, Running
<1>2. LogTells /\ Len(log) = 2 * Behind /\ log \in Seq(Events) /\ Behind \in Nat
  <2>1. TaskTrue /\ TaskPlace /\ LogTrue /\ LogTells
    BY DEF Driving, TaskTells
  <2> QED BY <2>1, LengthOfLog DEF LogTells, Told, LogTrue
<1>3. CASE Phase = "start_state"
  <2>1. log' = log /\ Behind = 0
    BY <1>3, PlaceOfPhase DEF Driving, TaskTells
  <2>2. LogTells'
    BY <1>0, <1>2, <1>3, <2>1 DEF LogTells, Told
  <2>3. ~SetupReported'
    BY <2>1 DEF Driving, SetupReported
  <2> QED BY <1>1, <2>2, <2>3 DEF TaskTells, SetupTells
<1>4. CASE Phase # "start_state"
  <2> DEFINE e == Event("start", Phase, FALSE)
  <2>1. Behind + 1 \in DOMAIN Measured /\ Phase = Measured[Behind + 1] /\ Measured \in Seq(Places)
        /\ Phase \in Places
    BY <1>4, PlaceOfPhase, MeasuredAre DEF Driving, TaskTells, TaskTrue
  <2>2. e \in Events /\ e.ev = "start" /\ e.phase = Phase
    BY <2>1 DEF Event, Events
  <2>3. log' = Append(log, e)
    BY <1>4 DEF Publish
  <2> HIDE DEF e
  <2>4. EventsOf(log', Measured, Behind) /\ Len(log') = 2 * Behind + 1
    BY <1>2, <2>1, <2>2, <2>3, StartTold DEF LogTells
  <2>5. ~SetupReported'
    BY <2>2, <2>3, SetupNotReported DEF Driving
  <2>6. LogTells'
    BY <1>0, <1>4, <2>4 DEF LogTells, Told
  <2> QED BY <1>1, <2>5, <2>6 DEF TaskTells, SetupTells
<1> QED BY <1>3, <1>4

LEMMA EndTellsIt ==
  ASSUME Driving, pc \in {"moving", "observing"}, Phase # "start_state", NEW ok \in BOOLEAN,
         UNCHANGED <<task, stage, exit>>, Publish(Event("end", Phase, ok)),
         at' = IF ok THEN at + 1 ELSE at,
         pc' = IF ~ok THEN "failed" ELSE IF at = Len(Steps) THEN "ended" ELSE "between"
  PROVE  TaskTells'
<1>0. Steps' = Steps /\ Measured' = Measured /\ Len(Steps) \in Nat \ {0}
  BY StepsAre DEF Steps, Measured, Driving, TaskTrue
<1>1. TaskPlace'
  BY <1>0 DEF TaskPlace, TaskTells, Driving, TaskTrue, Running
<1>2. Behind' = IF ok THEN Behind + 1 ELSE Behind
  BY DEF Behind, Phase, Steps, Driving, TaskTrue
<1>3. LogTells /\ Len(log) = 2 * Behind + 1 /\ log \in Seq(Events) /\ Behind \in Nat
  <2>1. TaskTrue /\ TaskPlace /\ LogTrue /\ LogTells
    BY DEF Driving, TaskTells
  <2> QED BY <2>1, LengthOfLog DEF LogTells, Told, LogTrue
<1> DEFINE e == Event("end", Phase, ok)
<1>4. Behind + 1 \in DOMAIN Measured /\ Phase = Measured[Behind + 1] /\ Measured \in Seq(Places)
      /\ Phase \in Places
  BY PlaceOfPhase, MeasuredAre DEF Driving, TaskTells, TaskTrue
<1>5. e \in Events /\ e.ev = "end" /\ e.phase = Phase /\ e.ok = ok
  BY <1>4 DEF Event, Events
<1>6. log' = Append(log, e)
  BY DEF Publish
<1> HIDE DEF e
<1>7. EventsOf(log', Measured, Behind') /\ Len(log') = 2 * Behind + 2
  BY <1>2, <1>3, <1>4, <1>5, <1>6, EndTold DEF LogTells
<1>8. ~SetupReported'
  BY <1>5, <1>6, SetupNotReported DEF Driving
<1>9. Len(log') \in Told'
  BY <1>2, <1>3, <1>7 DEF Told
<1> QED BY <1>0, <1>1, <1>7, <1>8, <1>9 DEF TaskTells, SetupTells, LogTells

LEMMA SuccessTold ==
  ASSUME Driving, pc \in {"moving", "observing"}, UNCHANGED <<task, stage, exit>>, PhaseSucceeds
  PROVE  TaskTells'
<1>1. CASE Phase # "start_state"
  BY <1>1, EndTellsIt DEF PhaseSucceeds
<1>2. CASE Phase = "start_state"
  <2>1. at' = at + 1 /\ log' = log /\ pc' = IF at = Len(Steps) THEN "ended" ELSE "between"
    BY <1>2 DEF PhaseSucceeds
  <2>2. task = "simple_motion" /\ at = 1 /\ Len(Steps) = 2
    BY <1>2 DEF Driving, TaskTrue, Phase, Steps
  <2>3. /\ Steps' = Steps /\ Measured' = Measured /\ Behind = 0 /\ Behind' = 0
    BY <2>1, <2>2 DEF Steps, Measured, Behind
  <2>4. TaskPlace'
    BY <2>1, <2>2, <2>3 DEF TaskPlace, Driving, TaskTells, TaskTrue, Running
  <2>5. LogTells'
    BY <1>2, <2>1, <2>2, <2>3 DEF LogTells, Told, Driving, TaskTells
  <2>6. ~SetupReported'
    BY <2>1 DEF Driving, SetupReported
  <2> QED BY <2>4, <2>5, <2>6 DEF TaskTells, SetupTells
<1> QED BY <1>1, <1>2

\* What a step of the task leaves to the recorders: events may be added
\* while it runs, and a failed setup is reported first of all.
Grows ==
  /\ log' = log \/ \E e \in Events : log' = Append(log, e)
  /\ exit # "none" => exit' # "none" /\ log' = log
  /\ (SetupReported' /\ ~SetupReported) => Len(log) = 0

LEMMA PublishGrows ==
  ASSUME Driving, NEW e \in Events, Publish(e), e.ev = "setup_failed" => Len(log) = 0
  PROVE  Grows
BY SetupNotReported DEF Publish, Driving, Running, Grows

LEMMA SetupGrows ==
  ASSUME Driving, SetupFails, Len(log) = 0
  PROVE  Grows
<1>1. Event("setup_failed", "movement", FALSE) \in Events
  BY DEF Event, Events
<1>2. CASE task = "simple_motion"
  BY <1>1, <1>2, PublishGrows DEF SetupFails
<1>3. CASE task # "simple_motion"
  BY <1>3 DEF SetupFails, Grows, Driving, SetupReported, Running
<1> QED BY <1>2, <1>3

LEMMA PhaseGrows ==
  ASSUME Driving, NEW kind \in {"start", "end"}, NEW ok \in BOOLEAN, Publish(Event(kind, Phase, ok))
  PROVE  Grows
<1>1. Phase \in Places
  BY PhaseIsPlace DEF Driving, TaskTrue
<1>2. Event(kind, Phase, ok) \in Events /\ Event(kind, Phase, ok).ev # "setup_failed"
  BY <1>1 DEF Event, Events
<1> QED BY <1>2, PublishGrows

LEMMA SameGrows ==
  ASSUME log' = log, exit # "none" => exit' # "none"
  PROVE  Grows
BY DEF Grows, SetupReported

LEMMA DriveTells ==
  ASSUME MotionTrue, TaskTrue, LogTrue, TaskTells, Drive, UNCHANGED stage
  PROVE  TaskTells' /\ Grows /\ task' = task
<1>0. TaskPlace /\ SetupTells /\ (~SetupReported => LogTells) /\ Running
  BY DEF TaskTells, Drive, BecomeReady, AbortBetween, StartPhase, NextCall, SendGoal, PhaseFails,
         SkipMotion, TakeYes, TakeNo, Observe, EndObservation, EndProcess
<1>d. ASSUME pc \in {"ready", "between", "moving", "observing"} PROVE Driving
  BY <1>0, <1>d DEF Driving, SetupTells, TaskTrue
<1>e. ASSUME pc \in {"ready", "between"}, ~SetupReported PROVE Len(log) = 2 * Behind
  BY <1>0, <1>e DEF LogTells, Told
<1>f. ASSUME pc = "moving", Phase = "start_state" PROVE Len(log) = 0 /\ Behind = 0
  <2>1. ~SetupReported
    BY <1>0, <1>f DEF SetupTells
  <2> QED BY <1>0, <1>f, <2>1, PlaceOfPhase DEF LogTells, Told, TaskTrue
<1>1. CASE BecomeReady
  <2>1. Driving /\ Len(log) = 0 /\ Behind = 0
    <3>1. Driving /\ at = 1
      BY <1>1, <1>d, <1>0 DEF BecomeReady, TaskPlace
    <3>2. Behind = 0
      BY <3>1 DEF Behind
    <3> QED BY <1>1, <1>e, <3>1, <3>2 DEF BecomeReady, Driving
  <2>2. CASE pc' = "between" /\ UNCHANGED log
    BY <1>1, <2>1, <2>2, TaskTellsKept, SameGrows DEF BecomeReady, Driving, Running
  <2>3. CASE SetupFails
    BY <1>1, <2>1, <2>3, SetupFailureTold, SetupGrows DEF BecomeReady
  <2> QED BY <1>1, <2>2, <2>3 DEF BecomeReady
<1>2. CASE AbortBetween
  BY <1>2, <1>d, TaskTellsKept, SameGrows DEF AbortBetween, Driving, Running
<1>3. CASE StartPhase
  <2>1. TaskTells'
    BY <1>3, <1>d, BeginningTold DEF StartPhase
  <2>2. Grows
    BY <1>3, <1>d, PhaseGrows, SameGrows DEF StartPhase
  <2> QED BY <1>3, <2>1, <2>2 DEF StartPhase
<1>4. CASE NextCall
  BY <1>4, TaskTellsKept, SameGrows DEF NextCall
<1>5. CASE SendGoal
  BY <1>5, TaskTellsKept, SameGrows DEF SendGoal, taskVars
<1>6. CASE PhaseFails
  <2>1. Driving /\ UNCHANGED <<task, at, exit>> /\ pc = "moving"
    BY <1>6, <1>d DEF PhaseFails
  <2>2. CASE Phase = "start_state"
    BY <1>6, <1>f, <2>1, <2>2, SetupFailureTold, SetupGrows DEF PhaseFails
  <2>3. CASE Phase # "start_state"
    <3>1. pc' = "failed" /\ Publish(Event("end", Phase, FALSE))
      BY <1>6, <2>3 DEF PhaseFails
    <3> QED BY <2>1, <2>3, <3>1, EndTellsIt, PhaseGrows
  <2> QED BY <2>2, <2>3
<1>7. ASSUME pc \in {"moving", "observing"}, PhaseSucceeds, UNCHANGED <<task, exit>>
      PROVE  TaskTells' /\ Grows /\ task' = task
  <2>1. Driving
    BY <1>7, <1>d
  <2>2. Grows
    BY <1>7, <2>1, PhaseGrows, SameGrows DEF PhaseSucceeds
  <2> QED BY <1>7, <2>1, <2>2, SuccessTold
<1>8. CASE SkipMotion
  BY <1>7, <1>8 DEF SkipMotion
<1>9. CASE TakeYes
  BY <1>7, <1>9 DEF TakeYes
<1>10. CASE TakeNo
  BY <1>10, TaskTellsKept, SameGrows DEF TakeNo
<1>11. CASE Observe
  BY <1>11, <1>d, TaskTellsKept, SameGrows DEF Observe, Driving, Running
<1>12. CASE EndObservation
  <2>1. CASE arm = Phase
    BY <1>7, <1>12, <2>1 DEF EndObservation
  <2>2. CASE arm # Phase
    BY <1>12, <1>d, <2>2, TaskTellsKept, SameGrows DEF EndObservation, Driving, Running
  <2> QED BY <2>1, <2>2
<1>13. CASE EndProcess
  BY <1>13, TaskTellsKept, SameGrows DEF EndProcess, Running
<1> QED BY <1>1, <1>2, <1>3, <1>4, <1>5, <1>6, <1>8, <1>9, <1>10, <1>11, <1>12, <1>13 DEF Drive

LEMMA OutsideTells ==
  ASSUME TaskTrue, TaskTells, Motion \/ ArmArrives \/ TimeoutKills, UNCHANGED stage
  PROVE  TaskTells' /\ Grows
<1>1. CASE Motion
  BY <1>1, TaskTellsKept, SameGrows DEF Motion, taskVars
<1>2. CASE ArmArrives
  BY <1>2, TaskTellsKept, SameGrows DEF ArmArrives, taskVars
<1>3. CASE TimeoutKills
  BY <1>3, TaskTellsKept, SameGrows DEF TimeoutKills, Running
<1> QED BY <1>1, <1>2, <1>3

-----------------------------------------------------------------------------
(* The recorders beside a step of the task.                                *)
LEMMA RecordersBeside ==
  ASSUME TaskTrue, TaskTells, LogTrue, LogTrue', RecTrue, Onward, Grows,
         UNCHANGED <<rec, stopFile>>, NEW r \in Recorders, RecorderTells(r)
  PROVE  RecorderTells(r)'
<1> DEFINE m == rec[r]
<1>0. m \in Memory /\ m.cursor \in Nat /\ Len(log) \in Nat /\ Len(log') \in Nat /\ log \in Seq(Events)
  BY DEF RecTrue, Memory, LogTrue
<1>1. Len(log) <= Len(log') /\ (\A i \in 1..Len(log) : log'[i] = log[i])
      /\ (exit # "none" => exit' # "none" /\ log' = log)
  <2>1. CASE log' = log
    BY <1>0, <2>1 DEF Grows
  <2>2. CASE \E e \in Events : log' = Append(log, e)
    BY <1>0, <2>2 DEF Grows
  <2> QED BY <2>1, <2>2 DEF Grows
<1>2. SetupReported => SetupReported'
  <2>1. CASE SetupReported
    <3>1. Len(log) \in Nat \ {0}
      BY <1>0, <2>1 DEF SetupReported
    <3>2. log'[1] = log[1] /\ log' # <<>>
      BY <1>0, <1>1, <3>1
    <3> QED BY <2>1, <3>2 DEF SetupReported
  <2> QED BY <2>1
<1>3. ASSUME m.st \in {"running", "stopped"}, ~m.lost, ~SetupReported
      PROVE  IF SetupReported' THEN Untold(m) ELSE Holds(r, m)'
  <2>0. Holds(r, m) /\ m.cursor <= Len(log) /\ (m.st = "stopped" => exit # "none")
    BY <1>3 DEF RecorderTells, Tells
  <2>1. CASE SetupReported'
    <3>1. m.cursor = 0
      BY <1>0, <1>3, <2>0, <2>1 DEF Grows
    <3>2. m.st = "running"
      BY <1>1, <1>3, <2>0, <2>1 DEF SetupReported
    <3> QED BY <1>0, <2>0, <2>1, <3>1, <3>2, NothingHeld
  <2>2. CASE ~SetupReported'
    BY <1>0, <1>1, <2>0, <2>2, HoldsLonger
  <2> QED BY <2>1, <2>2
<1>4. \A n : Untold(n)' <=> Untold(n)
  BY DEF Untold, Idle
<1>5. rec'[r] = m /\ stopFile'[r] = stopFile[r]
  OBVIOUS
<1>6. ASSUME m.st \in {"running", "stopped"}, ~m.lost
      PROVE  IF SetupReported' THEN Untold(rec[r])' ELSE Holds(r, rec[r])'
  <2>1. CASE SetupReported
    <3>1. Untold(m)
      BY <1>6, <2>1 DEF RecorderTells, Tells
    <3> QED BY <1>2, <1>5, <2>1, <3>1 DEF Untold, Idle
  <2>2. CASE ~SetupReported
    <3>1. IF SetupReported' THEN Untold(m) ELSE Holds(r, m)'
      BY <1>3, <1>6, <2>2
    <3>2. Holds(r, m)' => Holds(r, rec[r])'
      BY <1>5 DEF Holds, SegmentOf, Outcome, Interrupted
    <3> QED BY <1>5, <3>1, <3>2 DEF Untold, Idle
  <2> QED BY <2>1, <2>2
<1> QED BY <1>0, <1>1, <1>5, <1>6 DEF RecorderTells, Tells, Untold, Idle

(* A recorder for which nothing happens, or to which something does while  *)
(* nothing is published.                                                   *)
LEMMA RecorderKept ==
  ASSUME TaskTrue, NEW r \in Recorders, UNCHANGED <<log, task>>, exit # "none" => exit' # "none",
         NEW m, NEW stop, rec'[r] = m, Tells(r, m, stop), stopFile'[r] = stop \/ exit' # "none"
  PROVE  RecorderTells(r)'
<1>1. Measured' = Measured
  BY MeasuredAre DEF TaskTrue
<1>2. Holds(r, m) => Holds(r, rec[r])'
  BY <1>1 DEF Holds, SegmentOf, Outcome, Interrupted
<1>3. SetupReported' = SetupReported /\ (Untold(rec[r])' <=> Untold(m))
  BY DEF SetupReported, Untold, Idle
<1> QED BY <1>2, <1>3 DEF RecorderTells, Tells, Untold, Idle

LEMMA NextEvent ==
  ASSUME NEW m \in Memory
  PROVE  LET n == [m EXCEPT !.cursor = @ + 1]
         IN /\ n \in Memory /\ n.cursor = m.cursor + 1 /\ n.segs = m.segs /\ n.open = m.open
            /\ n.st = m.st /\ n.lost = m.lost /\ n.failed = m.failed
BY DEF Memory

LEMMA RecordTells ==
  ASSUME TaskTrue, TaskTells, LogTrue, RecTrue, \A q \in Recorders : RecorderTells(q),
         stopFile \in [Recorders -> BOOLEAN], Record, UNCHANGED <<task, exit>>
  PROVE  /\ \A q \in Recorders : RecorderTells(q)'
         /\ stopFile' \in [Recorders -> BOOLEAN]
         /\ rec["trajectory"].st \in {"stopped", "killed"} => rec'["trajectory"] = rec["trajectory"]
<1> PICK r \in Recorders : Boot(r) \/ Subscribe(r) \/ Deliver(r) \/ Stop(r)
  BY DEF Record
<1> DEFINE m == rec[r]
<1>0. m \in Memory /\ m.cursor \in Nat /\ Len(log) \in Nat /\ rec \in [Recorders -> Memory]
  BY DEF RecTrue, LogTrue, Memory
<1>t. Tells(r, m, stopFile[r])
  BY DEF RecorderTells
<1>1. ASSUME NEW n, NEW stop \in BOOLEAN, rec' = [rec EXCEPT ![r] = n],
             stopFile' = [stopFile EXCEPT ![r] = stop], log' = log,
             m.st \in {"launched", "booting", "running"}, Tells(r, n, stop)
      PROVE  /\ \A q \in Recorders : RecorderTells(q)'
             /\ stopFile' \in [Recorders -> BOOLEAN]
             /\ rec["trajectory"].st \in {"stopped", "killed"} => rec'["trajectory"] = rec["trajectory"]
  <2>1. RecorderTells(r)'
    BY <1>0, <1>1, RecorderKept
  <2>2. ASSUME NEW q \in Recorders \ {r} PROVE RecorderTells(q)'
    <3>1. rec'[q] = rec[q] /\ stopFile'[q] = stopFile[q] /\ Tells(q, rec[q], stopFile[q])
      BY <1>0, <1>1 DEF RecorderTells
    <3> QED BY <1>1, <3>1, RecorderKept
  <2> QED BY <1>0, <1>1, <2>1, <2>2 DEF Recorders
<1>2. ASSUME UNCHANGED stopFile PROVE stopFile' = [stopFile EXCEPT ![r] = stopFile[r]]
  BY <1>2
<1>3. ASSUME m.st = "running", ~m.lost, ~SetupReported PROVE Beside(r, m)
  BY <1>0, <1>3, <1>t DEF Beside, TaskTells, Tells
<1>4. CASE Boot(r)
  <2> DEFINE n == [m EXCEPT !.st = "booting"]
  <2>1. rec' = [rec EXCEPT ![r] = n] /\ m.st = "launched" /\ stopFile' = [stopFile EXCEPT ![r] = FALSE]
        /\ log' = log
    BY <1>4 DEF Boot
  <2>2. n.segs = m.segs /\ n.open = m.open /\ n.failed = m.failed /\ n.st = "booting"
        /\ n.cursor = m.cursor /\ n.lost = m.lost
    BY <1>0 DEF Memory
  <2> HIDE DEF n
  <2>3. Tells(r, n, FALSE)
    BY <1>t, <2>1, <2>2 DEF Tells, Untold
  <2> QED BY <1>1, <2>1, <2>3
<1>5. CASE Subscribe(r)
  <2> DEFINE lost == Len(log) > 0
             n == [m EXCEPT !.st = "running", !.cursor = Len(log), !.lost = lost]
  <2>1. rec' = [rec EXCEPT ![r] = n] /\ m.st = "booting" /\ stopFile' = stopFile /\ log' = log
    BY <1>0, <1>5 DEF Subscribe
  <2>2. m.cursor = 0 /\ Untold(m) /\ m.failed = None /\ (stopFile[r] => exit # "none")
    BY <1>t, <2>1 DEF Tells
  <2>l. lost \in BOOLEAN /\ (~lost => Len(log) = 0)
    BY <1>0
  <2> HIDE DEF lost
  <2>3. n.segs = m.segs /\ n.open = m.open /\ n.failed = m.failed /\ n.st = "running"
        /\ n.cursor = Len(log) /\ n.lost = lost /\ n \in Memory
    BY <1>0, <2>l DEF Memory, Process
  <2> HIDE DEF n
  <2>4. Untold(n) /\ (~lost => Holds(r, n))
    BY <2>2, <2>3, <2>l, HoldsNothing DEF Untold
  <2>5. Tells(r, n, stopFile[r])
    BY <1>0, <2>2, <2>3, <2>4 DEF Tells
  <2> QED BY <1>1, <1>2, <2>1, <2>5
<1>6. CASE Deliver(r)
  <2> DEFINE n == [m EXCEPT !.cursor = @ + 1]
             e == log[n.cursor]
             after == OnEvent(r, n, e)
  <2>1. rec' = [rec EXCEPT ![r] = after] /\ m.st = "running" /\ m.cursor < Len(log) /\ stopFile' = stopFile
        /\ log' = log
    BY <1>6 DEF Deliver
  <2>n. /\ n \in Memory /\ n.cursor = m.cursor + 1 /\ n.segs = m.segs /\ n.open = m.open
        /\ n.st = "running" /\ n.lost = m.lost /\ n.failed = m.failed
    BY <1>0, <2>1, NextEvent
  <2>2. CASE ~m.lost /\ ~SetupReported
    <3>1. Holds(r, after) /\ after.st = "running" /\ after.cursor = m.cursor + 1 /\ after.lost = m.lost
      BY <1>3, <2>1, <2>2, HearingHolds
    <3> HIDE DEF after
    <3>2. Tells(r, after, stopFile[r])
      BY <1>0, <1>t, <2>1, <2>2, <3>1 DEF Tells
    <3> QED BY <1>1, <1>2, <2>1, <3>2
  <2>3. CASE m.lost \/ SetupReported
    <3> HIDE DEF n
    <3>0. n.cursor \in 1..Len(log) /\ log[n.cursor] \in Events
      BY <1>0, <2>1, <2>n DEF LogTrue
    <3>e. e \in Events
      BY <3>0
    <3>2. SetupReported => e.ev = "setup_failed"
      <4>0. SetupReported => Len(log) = 1 /\ log[1].ev = "setup_failed"
        BY DEF TaskTells, SetupTells, SetupReported
      <4>1. SetupReported => n.cursor = 1 /\ log[1].ev = "setup_failed"
        <5>1. ASSUME NEW c \in 1..Len(log), Len(log) = 1 PROVE c = 1
          BY <5>1
        <5> QED BY <3>0, <4>0, <5>1
      <4> QED BY <4>1
    <3> HIDE DEF e
    <3>1. /\ after.st = "running" /\ after.cursor = m.cursor + 1 /\ after.lost = m.lost
          /\ e.ev = "setup_failed" => after.segs = m.segs /\ after.open = m.open
      <4>1. e.phase \in Places /\ e.ok \in BOOLEAN
        BY <3>e DEF Events
      <4> QED BY <2>n, <4>1 DEF OnEvent, TrajectoryStart, TrajectoryEnd, JointStart, JointEnd, SetupFailed,
                   Open, Close, Memory
    <3> HIDE DEF after
    <3>3. (SetupReported /\ ~m.lost) => Untold(after)
      BY <1>t, <2>1, <3>1, <3>2 DEF Tells, Untold
    <3>4. Tells(r, after, stopFile[r])
      BY <1>0, <1>t, <2>1, <2>3, <3>1, <3>3 DEF Tells
    <3> QED BY <1>1, <1>2, <2>1, <3>4
  <2> QED BY <2>2, <2>3
<1>7. CASE Stop(r)
  <2> DEFINE lost == m.lost \/ m.cursor < Len(log)
             n == [m EXCEPT !.st = "stopped", !.lost = lost]
             after == OnStop(r, n)
  <2>1. /\ rec' = [rec EXCEPT ![r] = after] /\ m.st = "running" /\ stopFile[r]
        /\ stopFile' = stopFile /\ log' = log
    BY <1>0, <1>7 DEF Stop
  <2>2. exit # "none" /\ m.cursor <= Len(log)
    BY <1>t, <2>1 DEF Tells
  <2>3. lost \in BOOLEAN /\ (~lost => ~m.lost /\ m.cursor = Len(log))
    BY <1>0, <2>2
  <2> HIDE DEF lost
  <2>n. /\ n \in Memory /\ n.cursor = m.cursor /\ n.segs = m.segs /\ n.open = m.open
        /\ n.st = "stopped" /\ n.lost = lost
    BY <1>0, <2>3 DEF Memory, Process
  <2>4. after.st = "stopped" /\ after.cursor = m.cursor /\ after.lost = lost
    <3> HIDE DEF n
    <3> QED BY <2>n DEF OnStop, Close, Memory
  <2>5. CASE ~lost /\ ~SetupReported
    <3>1. Holds(r, after)
      BY <1>3, <2>1, <2>3, <2>5, StoppingHolds
    <3> HIDE DEF after
    <3>2. Tells(r, after, stopFile[r])
      BY <2>2, <2>3, <2>4, <2>5, <3>1 DEF Tells
    <3> QED BY <1>1, <1>2, <2>1, <3>2
  <2>6. CASE ~lost /\ SetupReported
    <3>1. Untold(m)
      BY <1>t, <2>1, <2>3, <2>6 DEF Tells
    <3> HIDE DEF n
    <3>2. after = n /\ Untold(n)
      BY <2>n, <3>1 DEF OnStop, Untold
    <3>3. Tells(r, n, stopFile[r])
      BY <2>2, <2>3, <2>6, <2>n, <3>2 DEF Tells
    <3> HIDE DEF after
    <3> QED BY <1>1, <1>2, <2>1, <3>2, <3>3
  <2>7. CASE lost
    <3> HIDE DEF after
    <3>1. Tells(r, after, stopFile[r])
      BY <2>2, <2>4, <2>7 DEF Tells
    <3> QED BY <1>1, <1>2, <2>1, <3>1
  <2> QED BY <2>5, <2>6, <2>7
<1> QED BY <1>4, <1>5, <1>6, <1>7

-----------------------------------------------------------------------------
(* The runner.                                                             *)
LEMMA RowBlameKept ==
  ASSUME RowBlamesTheFailure, UNCHANGED <<row, task, at>>, rec'["trajectory"] = rec["trajectory"],
         stage' = stage \/ stage' # "done"
  PROVE  RowBlamesTheFailure'
<1>1. Steps' = Steps
  BY DEF Steps
<1> QED BY <1>1 DEF RowBlamesTheFailure, Finished, Complete

(* The row of a pick-and-place run that was recorded from its beginning.   *)
LEMMA RowTells ==
  ASSUME TaskTrue, LogTrue, RecTrue, Telling, WriteRow, task = "pick_and_place", Complete("trajectory")
  PROVE  \A i \in DOMAIN Steps : row'[Steps[i]] = CASE i < at -> "true"
                                                    [] i = at -> "false"
                                                    [] OTHER -> ""
<1> DEFINE m == rec["trajectory"]
<1>0. /\ Measured = Phases /\ Steps = Phases /\ Behind = at - 1 /\ TaskPlace
      /\ ~SetupReported /\ LogTells /\ exit # "none" /\ at \in Nat
  BY DEF Measured, Steps, Behind, Telling, TaskTells, SetupTells, WriteRow, TaskPlace, TaskTrue
<1>1. m \in Memory /\ m.cursor = Len(log) /\ m.st = "stopped" /\ Holds("trajectory", m) /\ Len(log) \in Nat
  <2>1. Tells("trajectory", m, stopFile["trajectory"]) /\ m \in Memory
    BY DEF Telling, RecorderTells, RecTrue, Recorders
  <2> QED BY <1>0, <2>1 DEF Tells, Complete, LogTrue
<1>2. Printed /\ Segments = m.segs
  BY <1>1 DEF Printed, Segments
<1>3. /\ Behind \in Nat /\ Behind \in 0..Len(Phases) /\ Len(log) <= 2 * Behind + 2
      /\ Phases \in Seq(Places) /\ DOMAIN Phases = 1..Len(Phases) /\ Len(Phases) \in Nat
      /\ \A i, j \in DOMAIN Phases : Phases[i] = Phases[j] => i = j
      /\ \A i \in DOMAIN Phases : Phases[i] \in Places /\ Phases[i] # None
  <2>1. Behind \in Nat /\ Len(log) <= 2 * Behind + 2 /\ Behind \in 0..Len(Phases)
    BY <1>0, LengthOfLog, PlaceOfPhase
  <2> QED BY <2>1
<1>4. Len(log) >= 2 * Behind
  <2>1. pc \in {"moving", "observing"} => Phase # "start_state"
    BY <1>0 DEF TaskTrue, Phase
  <2> QED BY <1>0, <1>3, <2>1 DEF LogTells, Told
<1>5. \A k \in DOMAIN Phases : m.segs[Phases[k]] = SegmentOf("trajectory", m, k)
  BY <1>0, <1>1 DEF Holds
<1>6. ASSUME NEW k \in DOMAIN Phases, k < at PROVE m.segs[Phases[k]] = "true"
  <2>1. k <= Behind /\ 2 * k <= Len(log) /\ k \in Nat
    BY <1>0, <1>3, <1>4, <1>6
  <2>2. log[2 * k].ok
    BY <1>0, <2>1 DEF LogTells, EventsOf
  <2> QED BY <1>1, <1>5, <2>1, <2>2 DEF SegmentOf, Outcome
<1>7. ASSUME NEW k \in DOMAIN Phases, k > at PROVE m.segs[Phases[k]] = "none"
  <2>1. k \in Nat /\ ~(2 * k <= Len(log)) /\ 2 * k # Len(log) + 1
    BY <1>0, <1>3, <1>7
  <2> QED BY <1>1, <1>5, <2>1 DEF SegmentOf
<1>8. ASSUME at \in DOMAIN Phases PROVE m.segs[Phases[at]] \in {"none", "false"}
  <2>1. 2 * at <= Len(log) => ~log[2 * at].ok
    <3>1. 2 * at <= Len(log) => log[2 * at].ok = (at <= Behind)
      BY <1>0, <1>8 DEF LogTells, EventsOf
    <3>2. ~(at <= Behind)
      BY <1>0
    <3> QED BY <3>1, <3>2
  <2> QED BY <1>1, <1>5, <1>8, <2>1 DEF SegmentOf, Outcome, Interrupted
<1>9. \A p \in Places : m.failed = p <=> m.segs[p] = "false"
  BY <1>1 DEF Holds
<1>10. \A p \in Places : m.segs[p] = "false" => at \in DOMAIN Phases /\ p = Phases[at]
  <2> TAKE p \in Places
  <2> HAVE m.segs[p] = "false"
  <2>1. PICK k \in DOMAIN Phases : p = Phases[k]
    BY <1>0, <1>1 DEF Holds
  <2>2. k = at
    BY <1>3, <1>0, <1>6, <1>7, <2>1
  <2> QED BY <2>1, <2>2
<1>11. ASSUME at \in DOMAIN Phases PROVE FailedPhase = Phases[at]
  <2>1. CASE m.segs[Phases[at]] = "false"
    <3>1. m.failed = Phases[at] /\ Phases[at] # None
      BY <1>3, <1>9, <1>11, <2>1
    <3> QED BY <1>2, <3>1 DEF FailedPhase
  <2>2. CASE m.segs[Phases[at]] # "false"
    <3>1. m.failed = None
      <4>1. m.failed \notin Places /\ m.failed \in Places \cup {None}
        BY <1>1, <1>9, <1>10, <2>2 DEF Memory
      <4> QED BY <4>1
    <3>2. ~RunSuccess
      <4>1. pc # "ended"
        BY <1>0, <1>3, <1>11 DEF TaskPlace
      <4> QED BY <1>0, <4>1 DEF TaskPlace, RunSuccess
    <3>3. FirstIncompletePhase = Phases[at]
      <4> DEFINE incomplete == {i \in DOMAIN Phases : Segments[Phases[i]] # "true"}
      <4>1. at \in incomplete /\ \A i \in incomplete : at <= i /\ i \in Nat
        BY <1>0, <1>2, <1>3, <1>6, <1>8, <1>11
      <4>2. (CHOOSE i \in incomplete : \A j \in incomplete : i <= j) = at
        BY <1>0, <4>1
      <4> QED BY <4>1, <4>2 DEF FirstIncompletePhase
    <3> QED BY <1>2, <3>1, <3>2, <3>3 DEF FailedPhase
  <2> QED BY <2>1, <2>2
<1>12. \A p \in Places : row'[p] = IF m.segs[p] # "none" THEN m.segs[p]
                                   ELSE IF p = FailedPhase THEN "false" ELSE ""
  BY <1>2 DEF WriteRow
<1>13. ASSUME NEW k \in DOMAIN Phases
       PROVE  /\ k < at => row'[Phases[k]] = "true"
              /\ k = at => row'[Phases[k]] = "false"
              /\ k > at => row'[Phases[k]] = ""
  <2>1. k < at => row'[Phases[k]] = "true"
    BY <1>3, <1>6, <1>12
  <2>2. k = at => row'[Phases[k]] = "false"
    BY <1>3, <1>8, <1>11, <1>12
  <2>3. ASSUME k > at PROVE row'[Phases[k]] = ""
    <3>1. at \in DOMAIN Phases
      <4>1. at \in Nat \ {0}
        BY <1>0, <1>3
      <4> QED BY <1>3, <2>3, <4>1
    <3>2. FailedPhase # Phases[k] /\ m.segs[Phases[k]] = "none" /\ Phases[k] \in Places
      BY <1>0, <1>3, <1>7, <1>11, <2>3, <3>1
    <3> QED BY <1>12, <3>2
  <2> QED BY <2>1, <2>2, <2>3
<1> SUFFICES ASSUME NEW i \in DOMAIN Phases
             PROVE  row'[Phases[i]] = CASE i < at -> "true" [] i = at -> "false" [] OTHER -> ""
  BY <1>0
<1>14. i < at \/ i = at \/ i > at
  BY <1>0, <1>3
<1>15. (i < at => i # at) /\ (i > at => i # at /\ ~(i < at))
  BY <1>0, <1>3
<1> QED BY <1>13, <1>14, <1>15, Zenon

(* Two recorders that missed nothing heard the same.                       *)
LEMMA RecordersAlike ==
  ASSUME TaskTrue, RecTrue, Telling
  PROVE  RecordersAgree
<1> SUFFICES ASSUME Complete("trajectory"), Complete("joint"), NEW p \in Places
             PROVE  (rec["trajectory"].segs[p] = "none") = (rec["joint"].segs[p] = "none")
  BY DEF RecordersAgree
<1>1. ASSUME NEW r \in Recorders
      PROVE  rec[r].cursor = Len(log) /\ rec[r].st = "stopped"
             /\ IF SetupReported THEN Untold(rec[r]) ELSE Holds(r, rec[r])
  BY <1>1 DEF Telling, RecorderTells, Tells, Complete, Recorders
<1>2. CASE SetupReported
  BY <1>1, <1>2 DEF Untold, Recorders
<1>3. CASE ~SetupReported
  <2>1. ASSUME NEW r \in Recorders, NEW k \in DOMAIN Measured
        PROVE  rec[r].segs[Measured[k]] = "none" <=> ~(2 * k <= Len(log) \/ 2 * k = Len(log) + 1)
    BY <1>1, <1>3 DEF Holds, SegmentOf, Outcome, Interrupted
  <2>2. CASE \E k \in DOMAIN Measured : p = Measured[k]
    BY <2>1, <2>2 DEF Recorders
  <2>3. CASE ~\E k \in DOMAIN Measured : p = Measured[k]
    BY <1>1, <1>3, <2>3 DEF Holds, Recorders
  <2> QED BY <2>2, <2>3
<1> QED BY <1>2, <1>3

LEMMA CollectedTells ==
  ASSUME TaskTrue, RecTrue, LogTrue, \A q \in Recorders : RecorderTells(q), exit # "none",
         NEW r \in Recorders, Collected(r), UNCHANGED <<log, task, exit>>
  PROVE  /\ \A q \in Recorders : RecorderTells(q)'
         /\ rec'[r].st \in {"stopped", "killed"}
         /\ \A q \in Recorders \ {r} : rec'[q] = rec[q]
<1> DEFINE killed == [Idle EXCEPT !.st = "killed"]
<1>0. rec \in [Recorders -> Memory] /\ Len(log) \in Nat
  BY DEF RecTrue, LogTrue
<1>1. killed.st = "killed" /\ killed.cursor = 0
  BY DEF Idle
<1>2. Tells(r, killed, stopFile[r])
  <2> HIDE DEF killed
  <2> QED BY <1>0, <1>1 DEF Tells
<1>3. CASE rec[r].st = "stopped" /\ UNCHANGED rec
  BY <1>3, RecorderKept DEF RecorderTells
<1>4. CASE rec' = [rec EXCEPT ![r] = killed]
  <2> HIDE DEF killed
  <2>1. rec'[r] = killed /\ \A q \in Recorders \ {r} : rec'[q] = rec[q]
    BY <1>0, <1>4
  <2>2. RecorderTells(r)'
    BY <1>2, <2>1, RecorderKept
  <2>3. \A q \in Recorders \ {r} : RecorderTells(q)'
    BY <2>1, RecorderKept DEF RecorderTells
  <2> QED BY <1>1, <2>1, <2>2, <2>3
<1> QED BY <1>3, <1>4 DEF Collected

LEMMA RunnerTells ==
  ASSUME TaskTrue, LogTrue, RecTrue, Telling, Runner
  PROVE  Telling'
<1>0. /\ TaskTells /\ TaskPlace /\ stopFile \in [Recorders -> BOOLEAN] /\ RowBlamesTheFailure
      /\ \A q \in Recorders : RecorderTells(q)
      /\ stage \in {"stopping joint", "writing", "done"} => rec["trajectory"].st \in {"stopped", "killed"}
  BY DEF Telling, TaskTells
<1>1. ASSUME stage' # "done" PROVE RowBlamesTheFailure'
  BY <1>1 DEF RowBlamesTheFailure, Finished
<1>2. ASSUME UNCHANGED taskVars, exit # "none" PROVE TaskTells'
  BY <1>0, <1>2, TaskTellsKept DEF taskVars
<1>3. CASE StartRun
  <2> DEFINE m == [Idle EXCEPT !.st = "launched"]
  <2>1. /\ UNCHANGED <<task, at, log, exit, stopFile>> /\ pc = "off" /\ pc' = "ready" /\ stage' = "measuring"
        /\ rec' = [r \in Recorders |-> m]
    BY <1>3 DEF StartRun, TaskTrue
  <2>2. exit = "none" /\ ~SetupReported
    BY <1>0, <2>1 DEF TaskTells, TaskPlace, SetupTells
  <2>3. TaskTells'
    BY <1>0, <2>1, <2>2, TaskTellsKept
  <2>4. m.st = "launched" /\ m.cursor = 0 /\ Untold(m) /\ m.failed = None /\ ~m.lost
    BY DEF Idle, Untold
  <2> HIDE DEF m
  <2>5. ASSUME NEW q \in Recorders PROVE RecorderTells(q)'
    <3>1. rec'[q] = m
      BY <2>1
    <3>2. Tells(q, m, stopFile[q])
      BY <2>4 DEF Tells, LogTrue
    <3> QED BY <2>1, <3>1, <3>2, RecorderKept
  <2> QED BY <1>0, <1>1, <2>1, <2>3, <2>5 DEF Telling
<1>4. CASE TaskSeen
  <2>1. /\ UNCHANGED <<taskVars, rec>> /\ exit # "none" /\ stage' = "stopping trajectory"
        /\ stopFile' = [stopFile EXCEPT !["trajectory"] = TRUE]
    BY <1>4 DEF TaskSeen
  <2>2. \A q \in Recorders : RecorderTells(q)'
    BY <1>0, <2>1, RecorderKept DEF RecorderTells, taskVars
  <2> QED BY <1>0, <1>1, <1>2, <2>1, <2>2 DEF Telling
<1>5. CASE CollectTrajectory
  <2>1. /\ UNCHANGED taskVars /\ exit # "none" /\ stage' = "stopping joint" /\ Collected("trajectory")
        /\ stopFile' = [stopFile EXCEPT !["joint"] = TRUE]
    BY <1>0, <1>5 DEF CollectTrajectory, TaskPlace
  <2>2. (\A q \in Recorders : RecorderTells(q)') /\ rec'["trajectory"].st \in {"stopped", "killed"}
    BY <1>0, <2>1, CollectedTells DEF taskVars, Recorders
  <2> QED BY <1>0, <1>1, <1>2, <2>1, <2>2 DEF Telling
<1>6. CASE CollectJoint
  <2>1. /\ UNCHANGED <<taskVars, stopFile>> /\ exit # "none" /\ stage' = "writing" /\ Collected("joint")
        /\ rec["trajectory"].st \in {"stopped", "killed"}
    BY <1>0, <1>6 DEF CollectJoint, TaskPlace
  <2>2. (\A q \in Recorders : RecorderTells(q)') /\ rec'["trajectory"] = rec["trajectory"]
    BY <1>0, <2>1, CollectedTells DEF taskVars, Recorders
  <2> QED BY <1>0, <1>1, <1>2, <2>1, <2>2 DEF Telling
<1>7. CASE WriteRow
  <2>1. /\ UNCHANGED <<taskVars, recorderVars>> /\ exit # "none" /\ stage' = "done"
        /\ rec["trajectory"].st \in {"stopped", "killed"}
    BY <1>0, <1>7 DEF WriteRow, TaskPlace
  <2>2. UNCHANGED <<task, at, log, exit, rec, stopFile>> /\ Steps' = Steps
    BY <2>1 DEF taskVars, recorderVars, Steps
  <2>3. \A q \in Recorders : RecorderTells(q)'
    BY <1>0, <2>1, <2>2, RecorderKept DEF RecorderTells
  <2>4. RowBlamesTheFailure'
    BY <1>7, <2>2, RowTells DEF RowBlamesTheFailure, Finished, Complete
  <2> QED BY <1>0, <1>2, <2>1, <2>2, <2>3, <2>4 DEF Telling
<1> QED BY <1>3, <1>4, <1>5, <1>6, <1>7 DEF Runner

LEMMA TellingKept ==
  ASSUME Inv, Telling, [Next]_vars, Inv'
  PROVE  Telling'
<1>0. /\ MotionTrue /\ TaskTrue /\ LogTrue /\ RecTrue /\ LogTrue' /\ TaskTells /\ TaskPlace
      /\ stopFile \in [Recorders -> BOOLEAN] /\ RowBlamesTheFailure
      /\ \A q \in Recorders : RecorderTells(q)
      /\ stage \in {"stopping joint", "writing", "done"} => rec["trajectory"].st \in {"stopped", "killed"}
  BY DEF Inv, Telling, TaskTells
<1>1. CASE TaskStep
  <2>1. UNCHANGED <<recorderVars, runnerVars>> /\ UNCHANGED <<rec, stopFile, stage, row>>
    BY <1>1 DEF TaskStep, recorderVars, runnerVars
  <2>2. TaskTells' /\ Grows
    BY <1>0, <1>1, <2>1, DriveTells, OutsideTells DEF TaskStep
  <2>3. Onward
    BY <1>0, <1>1, <2>1, DriveKeeps, OutsideKeeps DEF TaskStep
  <2>4. \A q \in Recorders : RecorderTells(q)'
    BY <1>0, <2>1, <2>2, <2>3, RecordersBeside
  <2>5. RowBlamesTheFailure'
    <3>1. CASE Drive
      <4>1. Running
        BY <3>1 DEF Drive, BecomeReady, AbortBetween, StartPhase, NextCall, SendGoal, PhaseFails,
               SkipMotion, TakeYes, TakeNo, Observe, EndObservation, EndProcess
      <4>2. stage' # "done"
        BY <1>0, <2>1, <4>1 DEF TaskPlace, Running
      <4> QED BY <4>2 DEF RowBlamesTheFailure, Finished
    <3>2. CASE Motion \/ ArmArrives \/ TimeoutKills
      <4>1. UNCHANGED <<task, at>>
        BY <3>2 DEF Motion, ArmArrives, TimeoutKills, taskVars
      <4> QED BY <1>0, <2>1, <4>1, RowBlameKept
    <3> QED BY <1>1, <3>1, <3>2 DEF TaskStep
  <2> QED BY <1>0, <2>1, <2>2, <2>4, <2>5 DEF Telling
<1>2. CASE RecorderStep
  <2>1. Record /\ UNCHANGED <<task, at, pc, exit, stage, row>>
    BY <1>2 DEF RecorderStep, runnerVars
  <2>2. log' = log
    BY <2>1 DEF Record, Boot, Subscribe, Deliver, Stop
  <2>3. TaskTells'
    BY <1>0, <2>1, <2>2, TaskTellsKept
  <2>4. /\ \A q \in Recorders : RecorderTells(q)'
        /\ stopFile' \in [Recorders -> BOOLEAN]
        /\ rec["trajectory"].st \in {"stopped", "killed"} => rec'["trajectory"] = rec["trajectory"]
    BY <1>0, <2>1, RecordTells
  <2>5. RowBlamesTheFailure'
    <3>1. CASE stage = "done"
      BY <1>0, <2>1, <2>4, <3>1, RowBlameKept
    <3>2. CASE stage # "done"
      BY <2>1, <3>2 DEF RowBlamesTheFailure, Finished
    <3> QED BY <3>1, <3>2
  <2> QED BY <1>0, <2>1, <2>3, <2>4, <2>5 DEF Telling
<1>3. CASE Runner
  BY <1>0, <1>3, RunnerTells
<1>4. CASE UNCHANGED vars
  <2>1. UNCHANGED <<task, at, pc, exit, stage, row, log, rec, stopFile>>
    BY <1>4 DEF vars, taskVars, recorderVars, runnerVars
  <2>2. TaskTells' /\ RowBlamesTheFailure'
    BY <1>0, <2>1, TaskTellsKept, RowBlameKept
  <2>3. \A q \in Recorders : RecorderTells(q)'
    BY <1>0, <2>1, RecorderKept DEF RecorderTells
  <2> QED BY <1>0, <2>1, <2>2, <2>3 DEF Telling
<1> QED BY <1>1, <1>2, <1>3, <1>4 DEF Next

LEMMA TellsAtFirst ==
  ASSUME Init
  PROVE  Telling
<1>0. /\ at = 1 /\ pc = "off" /\ log = <<>> /\ exit = "none" /\ stage = "idle"
      /\ task \in {"pick_and_place", "simple_motion"}
      /\ rec = [r \in Recorders |-> Idle] /\ stopFile \in [Recorders -> BOOLEAN]
  BY DEF Init, TaskInit, RecorderInit
<1>1. TaskPlace /\ ~SetupReported /\ Behind = 0
  BY <1>0 DEF TaskPlace, SetupReported, Behind
<1>2. LogTells
  <2>1. \A k \in DOMAIN Measured : k \in Nat \ {0}
    BY <1>0, MeasuredAre
  <2>2. \A k \in DOMAIN Measured : ~(2 * k <= 0) /\ ~(2 * k - 1 <= 0)
    BY <2>1
  <2> QED BY <1>0, <1>1, <2>2 DEF LogTells, EventsOf, Told
<1>3. \A r \in Recorders : RecorderTells(r)
  BY <1>0 DEF RecorderTells, Tells, Untold, Idle
<1>4. RowBlamesTheFailure
  BY <1>0 DEF RowBlamesTheFailure, Finished
<1> QED BY <1>0, <1>1, <1>2, <1>3, <1>4 DEF Telling, TaskTells, SetupTells

(* The row of a run that was recorded tells how far it came, and names the *)
(* phase where it ended; two complete recordings have the same phases: for *)
(* every sequence of phases, wherever the run stopped.                     *)
THEOREM RecordingsAreRight == Spec => []RecordersTellTheRun
<1>1. Init => Telling
  BY TellsAtFirst
<1>2. Inv /\ Telling => RecordersTellTheRun
  BY RecordersAlike DEF Inv, Telling, RecordersTellTheRun
<1>3. Inv /\ Telling /\ [Next]_vars => Inv' /\ Telling'
  BY StepKeeps, TellingKept
<1> QED BY <1>1, <1>2, <1>3, InitHolds, PTL DEF Spec

-----------------------------------------------------------------------------
(* The types: what the ladders of goals are made of.                       *)
Call == {"pose", "home"} \cup Modes

Goals == [to : Places, mode : Modes, st : GoalStates]

\* While it waits for an answer, or watches the arm, the thread has a goal,
\* the first of those that are left.
ThreadTypes ==
  /\ wait # "idle" => goal \in Goals
  /\ (wait # "idle" \/ (pc = "observing" /\ Running)) => rungs # <<>>
  /\ ClientTypeOK /\ backend \in {"moveit", "hybrid", "curobo"}
  /\ pc \in {"off", "ready", "between", "moving", "observing", "failed", "ended"}
  /\ calls \in Seq(Call) /\ rungs \in Seq(Modes)
  /\ retries \in 0..MaxHybridRetries
  /\ exit \in {"none", "0", "1", "124"}

RunnerTypes ==
  /\ stage \in Stages /\ late \in BOOLEAN /\ verdict \in BOOLEAN
  /\ row \in [Places -> {"true", "false", ""}]

LEMMA TimesIsSequence ==
  ASSUME NEW S, NEW x \in S, NEW n \in Nat
  PROVE  Times(n, x) \in Seq(S) /\ Len(Times(n, x)) = n
BY DEF Times

LEMMA UpToIsSequence ==
  ASSUME NEW S, NEW s \in Seq(S), NEW n \in Nat
  PROVE  UpTo(n, s) \in Seq(S)
<1> DEFINE k == IF n < Len(s) THEN n ELSE Len(s)
<1>1. k \in 0..Len(s)
  OBVIOUS
<1> HIDE DEF k
<1>2. SubSeq(s, 1, k) \in Seq(S)
  BY <1>1
<1> QED BY <1>2 DEF UpTo, k

LEMMA JoinIsSequence ==
  ASSUME NEW S, NEW s \in Seq(S), NEW t \in Seq(S)
  PROVE  s \o t \in Seq(S)
OBVIOUS

LEMMA ReleaseCallsTyped ==
  ASSUME NEW sources \in {1, 2}
  PROVE  ReleaseCalls(sources) \in Seq(Call)
<1>0. sources \in Nat /\ sources - 1 \in Nat /\ MaxPoseRetries \in Nat
  BY TaskAssumption
<1>1. {"pose", "direct", "strict", "relaxed"} \subseteq Call
  BY DEF Call, Modes, DirectModes, MoveGroupModes
<1>2. \A n \in Nat : Times(n, "pose") \in Seq(Call) /\ Times(n, "direct") \in Seq(Call)
                     /\ Times(n, "relaxed") \in Seq(Call)
  BY <1>1, TimesIsSequence
<1>3. <<"strict", "relaxed">> \in Seq(Call)
  BY <1>1
<1>4. <<"strict", "relaxed">> \o Times(sources - 1, "relaxed") \in Seq(Call)
  BY <1>0, <1>2, <1>3, JoinIsSequence
<1>5. (<<"strict", "relaxed">> \o Times(sources - 1, "relaxed")) \o Times(MaxPoseRetries, "relaxed")
        \in Seq(Call)
  BY <1>0, <1>2, <1>4, JoinIsSequence
<1>6. CASE backend = "curobo"
  BY <1>0, <1>2, <1>6, UpToIsSequence DEF ReleaseCalls
<1>7. CASE backend # "curobo" /\ Precise
  BY <1>0, <1>2, <1>7, UpToIsSequence DEF ReleaseCalls
<1>8. CASE backend # "curobo" /\ ~Precise
  BY <1>0, <1>5, <1>8, UpToIsSequence DEF ReleaseCalls
<1> QED BY <1>6, <1>7, <1>8

LEMMA CallsTyped ==
  ASSUME NEW p, NEW c \in Calls(p)
  PROVE  c \in Seq(Call)
<1>1. {"pose", "home", "direct", JointGoal, PoseGoal} \subseteq Call
  BY DEF Call, Modes, DirectModes, MoveGroupModes, BenchmarkModes, JointGoal, PoseGoal
<1>2. \A x \in Call : <<x>> \in Seq(Call) /\ <<x, x>> \in Seq(Call)
  OBVIOUS
<1>3. CASE p = "pre_grasp"
  BY <1>1, <1>2, <1>3 DEF Calls
<1>4. CASE p = "grasp"
  <2> DEFINE x == IF Precise THEN "direct" ELSE "pose"
  <2>1. x \in Call /\ GraspRetries \in Nat /\ c = Times(GraspRetries, x)
    BY <1>1, <1>4, TaskAssumption DEF Calls
  <2> HIDE DEF x
  <2> QED BY <2>1, TimesIsSequence
<1>5. CASE p = "release"
  BY <1>5, ReleaseCallsTyped DEF Calls
<1>6. CASE p = "post_release_retreat"
  BY <1>1, <1>2, <1>6 DEF Calls
<1>7. CASE p = "return_home"
  BY <1>1, <1>2, <1>7 DEF Calls
<1>8. CASE p \in {"start_state", "movement"}
  <2>1. c \in BenchmarkCalls(p)
    BY <1>8 DEF Calls
  <2> QED BY <1>1, <1>2, <2>1 DEF BenchmarkCalls
<1>9. CASE p \notin {"pre_grasp", "grasp", "release", "post_release_retreat", "return_home",
                     "start_state", "movement"}
  BY <1>1, <1>2, <1>9 DEF Calls
<1> QED BY <1>3, <1>4, <1>5, <1>6, <1>7, <1>8, <1>9

LEMMA RungsTyped ==
  ASSUME NEW call \in Call, NEW sources \in {1, 2}
  PROVE  Rungs(call, sources) \in Seq(Modes)
<1>0. {"direct", "direct_home", "home", "strict", "relaxed", "position_only"} \subseteq Modes
  BY DEF Modes, DirectModes, MoveGroupModes
<1>1. \A n \in Nat : Times(n, "direct") \in Seq(Modes) /\ Times(n, "direct_home") \in Seq(Modes)
  BY <1>0, TimesIsSequence
<1>2. sources \in Nat /\ HomeCandidates \in Nat
  BY TaskAssumption
<1>3. PoseRungs(sources) \in Seq(Modes)
  <2>1. /\ (IF sources = 2 THEN <<"strict", "relaxed", "strict", "relaxed">> ELSE <<"strict", "relaxed">>)
             \in Seq(Modes)
        /\ (IF PositionOnly THEN <<"position_only">> ELSE <<>>) \in Seq(Modes)
    BY <1>0
  <2> QED BY <2>1, JoinIsSequence DEF PoseRungs
<1>4. CASE call = "pose"
  BY <1>1, <1>2, <1>3, <1>4 DEF Rungs
<1>5. CASE call = "direct"
  BY <1>1, <1>2, <1>5 DEF Rungs
<1>6. CASE call = "home"
  <2>1. <<"home">> \in Seq(Modes)
    BY <1>0
  <2> QED BY <1>1, <1>2, <1>6, <2>1 DEF Rungs
<1>7. CASE call \notin {"pose", "direct", "home"}
  <2>1. call \in Modes
    BY <1>7 DEF Call
  <2> QED BY <1>7, <2>1 DEF Rungs
<1> QED BY <1>4, <1>5, <1>6, <1>7

(* The thread, the server and the timeout keep the types.                  *)
LEMMA DriveTyped ==
  ASSUME TaskTrue, ThreadTypes, Drive
  PROVE  ThreadTypes'
<1> USE DEF ThreadTypes
<1>0. /\ wait' \in {"idle", "plan", "response", "result", "answered"}
      /\ answer' \in {"none", "yes", "no plan", "no", "failed"}
      /\ UNCHANGED <<arm, reached, abandoned, backend>>
  BY DEF Drive, BecomeReady, AbortBetween, StartPhase, NextCall, SendGoal, PhaseFails, SkipMotion,
         TakeYes, TakeNo, Observe, EndObservation, EndProcess, Ask, Done, Forget, clientVars, taskVars,
         ClientTypeOK
<1>1. ASSUME UNCHANGED <<wait, goal>> \/ (wait' = "idle" /\ goal' = NoGoal)
      PROVE  ClientTypeOK' /\ (wait' # "idle" => goal' \in Goals)
  BY <1>0, <1>1 DEF ClientTypeOK
<1>2. Phase \in Places \/ pc \notin {"between", "moving", "observing"}
  BY PhaseIsPlace DEF TaskTrue
<1>3. CASE BecomeReady
  BY <1>0, <1>1, <1>3 DEF BecomeReady, SetupFails, clientVars
<1>4. CASE AbortBetween
  BY <1>0, <1>1, <1>4 DEF AbortBetween, clientVars
<1>5. CASE StartPhase
  <2>1. calls' \in Seq(Call) /\ rungs' \in Seq(Modes) /\ retries' \in 0..MaxHybridRetries
    BY <1>5, CallsTyped, TaskAssumption DEF StartPhase
  <2>2. wait = "idle" /\ UNCHANGED clientVars /\ pc' = "moving" /\ exit' = exit
    BY <1>5 DEF StartPhase, TaskTrue
  <2> QED BY <1>0, <1>1, <2>1, <2>2 DEF clientVars
<1>6. CASE NextCall
  <2>1. Head(calls) \in Call /\ Tail(calls) \in Seq(Call)
    BY <1>6 DEF NextCall
  <2>2. calls' \in Seq(Call) /\ rungs' \in Seq(Modes)
    BY <1>6, <2>1, RungsTyped DEF NextCall
  <2> QED BY <1>0, <1>1, <1>6, <2>2 DEF NextCall, clientVars
<1>7. CASE SendGoal
  <2>1. Head(rungs) \in Modes /\ Phase \in Places
    BY <1>2, <1>7 DEF SendGoal
  <2>2. goal' \in Goals
    BY <1>7, <2>1 DEF SendGoal, Ask, Goals, GoalStates
  <2> QED BY <1>0, <1>7, <2>2 DEF SendGoal, taskVars, ClientTypeOK, Goals
<1>8. CASE PhaseFails
  BY <1>0, <1>1, <1>8 DEF PhaseFails, SetupFails, clientVars
<1>9. ASSUME PhaseSucceeds, rungs' = <<>>, calls' = <<>>, UNCHANGED <<retries, exit>>,
             wait' = "idle", UNCHANGED <<wait, goal>> \/ goal' = NoGoal
      PROVE  ThreadTypes'
  <2>1. pc' \in {"between", "ended"}
    BY <1>9 DEF PhaseSucceeds
  <2>2. calls' \in Seq(Call) /\ rungs' \in Seq(Modes)
    BY <1>9
  <2>3. ClientTypeOK' /\ wait' = "idle"
    BY <1>1, <1>9
  <2> QED BY <1>0, <1>9, <2>1, <2>2, <2>3
<1>10. CASE SkipMotion
  BY <1>9, <1>10 DEF SkipMotion, clientVars
<1>11. CASE TakeYes
  BY <1>9, <1>11 DEF TakeYes, Done, Forget
<1>12. CASE TakeNo
  <2>1. goal' = NoGoal /\ wait = "answered" /\ wait' = "idle" /\ pc = "moving"
        /\ UNCHANGED <<pc, calls, retries, exit>>
    BY <1>12 DEF TakeNo, Done, Forget
  <2>2. rungs' \in Seq(Modes)
    <3>1. rungs' = Tail(rungs) \/ rungs' = <<>>
      BY <1>12 DEF TakeNo
    <3>2. rungs # <<>>
      BY <2>1
    <3>3. Tail(rungs) \in Seq(Modes) /\ <<>> \in Seq(Modes)
      BY <3>2
    <3> QED BY <3>1, <3>3
  <2>3. ClientTypeOK'
    BY <1>1, <2>1
  <2> QED BY <1>0, <2>1, <2>2, <2>3
<1>13. CASE Observe
  BY <1>0, <1>1, <1>13 DEF Observe, Done, Forget
<1>14. CASE EndObservation
  <2>1. CASE arm = Phase
    <3>1. wait' = "idle" /\ UNCHANGED <<wait, goal>>
      BY <1>14 DEF EndObservation, clientVars, TaskTrue
    <3> QED BY <1>9, <1>14, <2>1, <3>1 DEF EndObservation
  <2>2. CASE arm # Phase
    <3>1. UNCHANGED <<clientVars, exit, calls>> /\ pc' = "moving"
      BY <1>14, <2>2 DEF EndObservation
    <3>2. rungs' \in Seq(Modes) /\ retries' \in 0..MaxHybridRetries
      <4>1. rungs # <<>>
        BY <1>14 DEF EndObservation, Running
      <4>2. Tail(rungs) \in Seq(Modes)
        BY <4>1
      <4>3. rungs' = rungs \/ rungs' = Tail(rungs)
        BY <1>14, <2>2 DEF EndObservation
      <4>4. retries' = retries \/ (retries < MaxHybridRetries /\ retries' = retries + 1)
        BY <1>14, <2>2 DEF EndObservation
      <4>5. retries' \in 0..MaxHybridRetries
        BY <4>4, TaskAssumption
      <4> QED BY <4>2, <4>3, <4>5
    <3>3. wait = "idle"
      BY <1>14 DEF EndObservation, TaskTrue
    <3> QED BY <1>0, <1>1, <3>1, <3>2, <3>3 DEF clientVars
  <2> QED BY <2>1, <2>2
<1>15. CASE EndProcess
  BY <1>0, <1>1, <1>15 DEF EndProcess, clientVars
<1> QED BY <1>3, <1>4, <1>5, <1>6, <1>7, <1>8, <1>10, <1>11, <1>12, <1>13, <1>14, <1>15 DEF Drive

LEMMA OutsideTyped ==
  ASSUME TaskTrue, MotionTrue, ThreadTypes, Motion \/ ArmArrives \/ TimeoutKills
  PROVE  ThreadTypes'
<1> USE DEF ThreadTypes
<1>0. goal # NoGoal => goal \in Goals
  BY DEF ClientTypeOK, Goals
<1>1. CASE Motion
  <2>1. UNCHANGED taskVars
    BY <1>1 DEF Motion
  <2>2. ASSUME goal \in Goals, NEW st \in GoalStates PROVE [goal EXCEPT !.st = st] \in Goals
    BY <2>2 DEF Goals
  <2>3. goal \in Goals => goal.to \in Places
    BY DEF Goals
  <2>4. ClientTypeOK' /\ (wait' # "idle" => goal' \in Goals) /\ (wait' # "idle" => wait # "idle")
    BY <1>1, <1>0, <2>2, <2>3 DEF Motion, Waiting, Server, PlanArrives, ResponseArrives, ResultArrives,
       DeadlinePasses, ServerTakes, ServerEnds, AbandonedGoalMoves, Answer, ClientTypeOK, GoalStates, Goals
  <2> QED BY <2>1, <2>4 DEF taskVars, Running
<1>2. CASE ArmArrives
  <2>1. Phase \in Places
    BY <1>2, PhaseIsPlace DEF ArmArrives, TaskTrue
  <2> QED BY <1>2, <2>1 DEF ArmArrives, ClientTypeOK, taskVars, Running
<1>3. CASE TimeoutKills
  <2>1. wait' = "idle" /\ exit' = "124" /\ calls' = <<>> /\ rungs' = <<>> /\ UNCHANGED <<backend, pc, retries>>
    BY <1>3 DEF TimeoutKills, Forget
  <2>2. ClientTypeOK'
    BY <1>3 DEF TimeoutKills, Forget, ClientTypeOK
  <2>3. calls' \in Seq(Call) /\ rungs' \in Seq(Modes)
    BY <2>1
  <2> QED BY <2>1, <2>2, <2>3 DEF Running
<1> QED BY <1>1, <1>2, <1>3

LEMMA RunnerTyped ==
  ASSUME RecTrue, RunnerTypes, Runner
  PROVE  RunnerTypes'
<1> USE DEF RunnerTypes, Stages
<1>1. CASE StartRun BY <1>1 DEF StartRun
<1>2. CASE TaskSeen BY <1>2 DEF TaskSeen
<1>3. CASE CollectTrajectory BY <1>3 DEF CollectTrajectory
<1>4. CASE CollectJoint BY <1>4 DEF CollectJoint
<1>5. CASE WriteRow
  <2>1. RunSuccess \in BOOLEAN
    BY DEF RunSuccess, AllSucceeded
  <2>2. row' \in [Places -> {"true", "false", ""}]
    BY <1>5, SegmentsTrue DEF WriteRow
  <2> QED BY <1>5, <2>1, <2>2 DEF WriteRow
<1> QED BY <1>1, <1>2, <1>3, <1>4, <1>5 DEF Runner

Typing == ThreadTypes /\ RunnerTypes

LEMMA TypingKept ==
  ASSUME Inv, Typing, [Next]_vars
  PROVE  Typing'
<1>0. MotionTrue /\ TaskTrue /\ RecTrue /\ ThreadTypes /\ RunnerTypes
  BY DEF Inv, Typing
<1>1. ASSUME UNCHANGED <<clientVars, backend, pc, calls, rungs, retries, exit>> PROVE ThreadTypes'
  <2>1. UNCHANGED <<wait, goal, answer, arm, reached, abandoned>>
    BY <1>1 DEF clientVars
  <2>2. ClientTypeOK'
    BY <1>0, <2>1 DEF ThreadTypes, ClientTypeOK
  <2> QED BY <1>0, <1>1, <2>1, <2>2 DEF ThreadTypes, Running
<1>2. CASE TaskStep
  BY <1>0, <1>2, DriveTyped, OutsideTyped DEF TaskStep, Typing, RunnerTypes, runnerVars
<1>3. CASE RecorderStep
  BY <1>0, <1>1, <1>3 DEF RecorderStep, Typing, RunnerTypes, runnerVars
<1>4. CASE Runner
  <2>1. CASE StartRun
    <3>1. UNCHANGED <<clientVars, backend, calls, rungs, retries, exit>> /\ pc' = "ready"
      BY <2>1 DEF StartRun
    <3>2. wait = "idle"
      BY <1>0, <2>1 DEF StartRun, TaskTrue
    <3> QED BY <1>0, <1>4, <3>1, <3>2, RunnerTyped DEF Typing, ThreadTypes, ClientTypeOK, clientVars
  <2>2. CASE ~StartRun
    BY <1>0, <1>1, <1>4, <2>2, RunnerTyped DEF Typing, Runner, TaskSeen, CollectTrajectory, CollectJoint,
       WriteRow, taskVars
  <2> QED BY <2>1, <2>2
<1>5. CASE UNCHANGED vars
  BY <1>0, <1>1, <1>5 DEF vars, taskVars, runnerVars, Typing, RunnerTypes
<1> QED BY <1>2, <1>3, <1>4, <1>5 DEF Next

(* Type correctness, for every ladder of goals: the thread never asks for  *)
(* a motion that it has no goal for.                                       *)
THEOREM MeasuredTypes == Spec => []TypeOK
<1>1. Init => Typing
  <2> SUFFICES ASSUME Init PROVE Typing
    OBVIOUS
  <2>1. ClientTypeOK /\ wait = "idle" /\ pc = "off"
    BY DEF Init, TaskInit, ClientInit, ClientTypeOK
  <2>2. calls \in Seq(Call) /\ rungs \in Seq(Modes) /\ retries \in 0..MaxHybridRetries
    BY TaskAssumption DEF Init, TaskInit
  <2>3. ThreadTypes
    BY <2>1, <2>2 DEF Init, TaskInit, ThreadTypes
  <2>4. RunnerTypes
    BY DEF Init, Blank, RunnerTypes, Stages
  <2> QED BY <2>3, <2>4 DEF Typing
<1>2. Inv /\ Telling /\ Typing => TypeOK
  <2> SUFFICES ASSUME Inv, Telling, Typing PROVE TypeOK
    OBVIOUS
  <2>0. TaskTrue /\ LogTrue /\ RecTrue /\ TaskPlace /\ ThreadTypes /\ RunnerTypes
    BY DEF Inv, Telling, TaskTells, Typing
  <2>1. at \in 1..(Len(Steps) + 1)
    <3>1. Len(Steps) \in Nat \ {0}
      BY <2>0, StepsAre DEF TaskTrue
    <3> QED BY <2>0, <3>1 DEF TaskTrue, TaskPlace
  <2>2. \A i \in DOMAIN log : log[i].ev \in {"start", "end", "setup_failed"} /\ log[i].phase \in Places
    <3>1. \A i \in DOMAIN log : log[i] \in Events
      BY <2>0 DEF LogTrue
    <3> QED BY <3>1 DEF Events
  <2>3. TaskTypeOK
    BY <2>0, <2>1, <2>2 DEF TaskTypeOK, TaskTrue, ThreadTypes, Call
  <2>4. RecorderTypeOK
    <3>1. \A r \in Recorders : rec[r].cursor <= Len(log)
      BY DEF Telling, RecorderTells, Tells
    <3> QED BY <2>0, <3>1 DEF RecorderTypeOK, RecTrue, Memory, Telling
  <2> QED BY <2>0, <2>3, <2>4 DEF TypeOK, RunnerTypes
<1>3. Inv /\ Telling /\ Typing /\ [Next]_vars => Inv' /\ Telling' /\ Typing'
  BY StepKeeps, TellingKept, TypingKept
<1>4. Init => Inv /\ Telling
  BY InitHolds, TellsAtFirst
<1> QED BY <1>1, <1>2, <1>3, <1>4, PTL DEF Spec

-----------------------------------------------------------------------------
(* The suite: a run is measured on the stack that was started for it.      *)
(* What is left of earlier runs is told to end before a run, or it was not *)
(* there to be found. So a line of a planner that is not to end is of the  *)
(* run's own, and what speaks there is not ended by what others clear.     *)

(* Of a stack that is only asked for nothing runs, and what answers runs.  *)
Shaped(s) ==
  /\ s.at # "launched" => s.running = {} /\ s.told = {} /\ s.up = {}
  /\ s.at = "none" => s.kind = "ros"

(* A stack that waits for nothing but its end, or that was not found.      *)
Settled(s) == s.late \/ (s.at \notin {"asked", "script"} /\ s.running = s.told)

Looking == {"look", "readLog"}
OwnRos == {"waitRos", "play", "start"}
OwnBoth == Looking \cup {"attempt"}

(* The job that is under way, and the stacks that were asked for it.       *)
JobIsKnown == main.at \notin {"next", "done"} => main.job \in DOMAIN Jobs
OwnAreOwn ==
  /\ main.at \in OwnRos => own.ros \in Stacks /\ stack[own.ros].kind = "ros"
  /\ main.at \in OwnBoth => /\ own.ros \in Stacks /\ own.planner \in Stacks
                            /\ own.ros # own.planner => stack[own.ros].kind = "ros"
                            /\ stack[own.planner].at # "none" => stack[own.planner].kind = Planner

(* The others are settled.                                                 *)
RestIsSettled ==
  \A k \in Stacks :
    /\ main.at = "restart" => Settled(stack[k])
    /\ main.at \in OwnRos => k = own.ros \/ Settled(stack[k])
    /\ main.at \in OwnBoth => k \in {own.ros, own.planner} \/ Settled(stack[k])

(* A line that is not of a planner that was to end is of the own planner,  *)
(* which nothing ends.                                                     *)
SpeaksForItself ==
  main.at \in Looking /\ Logs(Planner) =>
    /\ Speaker(Planner) \notin stack[own.planner].told
    /\ <<Planner, FALSE>> \in logged => Speaker(Planner) \in stack[own.planner].up

SuiteInv ==
  /\ SuiteTypes /\ \A k \in Stacks : Shaped(stack[k])
  /\ JobIsKnown /\ OwnAreOwn /\ RestIsSettled /\ SpeaksForItself

-----------------------------------------------------------------------------
(* The jobs: each is of a planner that there is.                           *)
LEMMA TurnsInRange ==
  ASSUME NEW m \in Nat, NEW n \in Nat, NEW i \in 1..(m * n)
  PROVE  /\ ((i - 1) \div n) + 1 \in 1..m
         /\ ((i - 1) % n) + 1 \in 1..n
<1>1. n > 0
  <2>1. CASE n = 0
    <3>1. m * n = 0
      BY <2>1
    <3> QED BY <3>1
  <2> QED BY <2>1
<1> DEFINE q == (i - 1) \div n
           r == (i - 1) % n
<1>2. i - 1 \in Nat /\ i - 1 < m * n
  BY <1>1
<1>3. q \in Int /\ r \in 0..(n - 1) /\ i - 1 = n * q + r
  BY <1>1, <1>2
<1> HIDE DEF q, r
<1>4. q >= 0
  <2>1. CASE q <= -1
    <3>1. n * q <= -n
      BY <1>1, <1>3, <2>1
    <3> QED BY <1>1, <1>2, <1>3, <3>1
  <2> QED BY <1>3, <2>1
<1>5. q < m
  <2>1. CASE q >= m
    <3>1. n * q >= n * m
      BY <1>1, <1>3, <2>1
    <3>2. n * m = m * n
      OBVIOUS
    <3> QED BY <1>1, <1>2, <1>3, <3>1, <3>2
  <2> QED BY <1>3, <2>1
<1> QED BY <1>3, <1>4, <1>5 DEF q, r

LEMMA FunctionIsSeq ==
  ASSUME NEW n \in Nat, NEW S, NEW f \in [1..n -> S]
  PROVE  f \in Seq(S)
BY SeqDef

LEMMA JobsOfPlanners ==
  /\ Len(Jobs) \in Nat /\ DOMAIN Jobs = 1..Len(Jobs)
  /\ \A j \in DOMAIN Jobs : Jobs[j].planner \in Planners
<1> DEFINE OfSimple == {SimpleJobs[i] : i \in DOMAIN SimpleJobs}
           OfHybrid == {HybridJobs[i] : i \in DOMAIN HybridJobs}
           OfPick == {PickJobs[i] : i \in DOMAIN PickJobs}
           All == OfSimple \cup OfHybrid \cup OfPick
<1>1. SimpleJobs \in Seq(OfSimple) /\ \A j \in OfSimple : j.planner \in Planners
  <2>1. Len(SimplePlanners) \in Nat /\ Len(SimpleCases) \in Nat
    BY SuiteAssumption
  <2>2. Len(SimplePlanners) * Len(SimpleCases) \in Nat
    BY <2>1
  <2>3. DOMAIN SimpleJobs = 1..(Len(SimplePlanners) * Len(SimpleCases))
    BY DEF SimpleJobs
  <2>4. SimpleJobs \in Seq(OfSimple)
    <3>1. SimpleJobs \in [1..(Len(SimplePlanners) * Len(SimpleCases)) -> OfSimple]
      BY <2>3 DEF SimpleJobs
    <3> HIDE DEF OfSimple
    <3> QED BY <2>2, <3>1, FunctionIsSeq
  <2>5. ASSUME NEW i \in DOMAIN SimpleJobs PROVE SimpleJobs[i].planner \in Planners
    <3> DEFINE p == ((i - 1) \div Len(SimpleCases)) + 1
    <3>1. p \in 1..Len(SimplePlanners)
      BY <2>1, <2>3, <2>5, TurnsInRange
    <3>2. SimplePlanners[p] \in Planners
      BY <3>1, SuiteAssumption
    <3>3. SimpleJobs[i].planner = SimplePlanners[p]
      BY <2>5 DEF SimpleJobs, Turn, Job
    <3> QED BY <3>2, <3>3
  <2> QED BY <2>4, <2>5
<1>2. HybridJobs \in Seq(OfHybrid) /\ \A j \in OfHybrid : j.planner \in Planners
  <2>1. Len(HybridCases) \in Nat /\ Len(HybridProfiles) \in Nat
    BY SuiteAssumption
  <2>2. Len(HybridCases) * Len(HybridProfiles) \in Nat
    BY <2>1
  <2>3. DOMAIN HybridJobs = 1..(Len(HybridCases) * Len(HybridProfiles))
    BY DEF HybridJobs
  <2>4. HybridJobs \in Seq(OfHybrid)
    <3>1. HybridJobs \in [1..(Len(HybridCases) * Len(HybridProfiles)) -> OfHybrid]
      BY <2>3 DEF HybridJobs
    <3> HIDE DEF OfHybrid
    <3> QED BY <2>2, <3>1, FunctionIsSeq
  <2> QED BY <2>4 DEF HybridJobs, Job, Planners
<1>3. PickJobs \in Seq(OfPick) /\ \A j \in OfPick : j.planner \in Planners
  <2>1. DOMAIN PickPlanners = 1..Len(PickPlanners) /\ Len(PickPlanners) \in Nat
        /\ \A p \in DOMAIN PickPlanners : PickPlanners[p] \in Planners
    BY SuiteAssumption
  <2>2. PickJobs \in Seq(OfPick)
    <3>1. PickJobs \in [1..Len(PickPlanners) -> OfPick]
      BY <2>1 DEF PickJobs
    <3> HIDE DEF OfPick
    <3> QED BY <2>1, <3>1, FunctionIsSeq
  <2> QED BY <2>1, <2>2 DEF PickJobs, Job
<1> HIDE DEF OfSimple, OfHybrid, OfPick
<1>4. SimpleJobs \in Seq(All) /\ HybridJobs \in Seq(All) /\ PickJobs \in Seq(All)
  BY <1>1, <1>2, <1>3
<1>5. \A j \in All : j.planner \in Planners
  BY <1>1, <1>2, <1>3
<1> HIDE DEF All
<1>6. Jobs \in Seq(All)
  BY <1>4 DEF Jobs
<1> QED BY <1>5, <1>6

-----------------------------------------------------------------------------
(* The stacks. One by one, they are what they must be.                     *)
Processes == UNION {Nodes(kind) \cup {"launch"} : kind \in Kinds}
StackStates == [kind : Kinds, at : {"none", "asked", "script", "launched"},
                running : SUBSET Processes, up : SUBSET AllServers,
                told : SUBSET Processes, late : BOOLEAN]
WellFormed(s) ==
  /\ s \in StackStates
  /\ s.told \subseteq s.running /\ {Host(server) : server \in s.up} \subseteq s.running
  /\ Shaped(s)
Speaking == {"ompl", "cumotion"}

LEMMA EveryCommandIsFound ==
  ASSUME NEW kind \in Kinds
  PROVE  Command(kind) \cap Patterns # {}
<1>1. kind \in {"curobo", "cumotion", "ompl", "hybrid", "ros"}
  BY DEF Kinds, Planners
<1>2. CASE kind = "curobo"
  BY <1>2 DEF Command, Patterns
<1>3. CASE kind = "cumotion"
  BY <1>3 DEF Command, Patterns
<1>4. CASE kind = "ompl"
  BY <1>4 DEF Command, Patterns
<1>5. CASE kind = "hybrid"
  BY <1>5 DEF Command, Patterns
<1>6. CASE kind = "ros"
  BY <1>6 DEF Command, Patterns
<1> QED BY <1>1, <1>2, <1>3, <1>4, <1>5, <1>6

LEMMA ControllersAre ==
  ToSet(Controllers) =
    {"joint_trajectory_controller", "forward_position_controller", "gripper_controllers"}
BY DEF ToSet, Controllers

LEMMA SpeakersAre ==
  /\ Speaker("ompl") = "move_group" /\ Speaker("cumotion") = "cumotion_planner_upstream_framefix.py"
  /\ \A kind \in Speaking : Host(Speaker(kind)) = Speaker(kind)
<1>1. Speaker("ompl") = "move_group"
  BY ControllersAre DEF Speaker, Provider
<1>2. Speaker("cumotion") = "cumotion_planner_upstream_framefix.py"
  BY ControllersAre DEF Speaker, Provider
<1> QED BY <1>1, <1>2, ControllersAre DEF Host, Speaking

(* Nothing that another planner clears is the process that speaks.         *)
LEMMA SpeakersAreLeft ==
  ASSUME NEW kind \in Speaking, NEW other \in Planners
  PROVE  Command(kind) \cap Leftovers(other) = {} /\ Speaker(kind) \notin Leftovers(other)
<1>1. kind = "ompl" \/ kind = "cumotion"
  BY DEF Speaking
<1>2. Leftovers(other) \subseteq
        {"ur_robotiq_curobo_human.launch.py", "curobo_trajectory_planner",
          "curobo_human_skeleton_collision_publisher.py", "curobo_live_collision_spheres.py",
          "curobo_world_bridge.py", "robot_state_publisher", "joint_state_publisher",
          "static_transform_publisher"}
  BY DEF Leftovers, Planners
<1>3. CASE kind = "ompl"
  BY <1>2, <1>3, SpeakersAre DEF Command
<1>4. CASE kind = "cumotion"
  BY <1>2, <1>4, SpeakersAre DEF Command
<1> QED BY <1>1, <1>3, <1>4

LEMMA NothingIsWell == WellFormed(Nothing) /\ Settled(Nothing)
BY DEF WellFormed, Settled, Nothing, StackStates, Kinds, Shaped

LEMMA HitKeeps ==
  ASSUME NEW s, WellFormed(s), NEW patterns
  PROVE  /\ WellFormed(Hit(s, patterns))
         /\ Hit(s, patterns).kind = s.kind /\ Hit(s, patterns).at = s.at
         /\ Hit(s, patterns).up = s.up /\ Hit(s, patterns).running = s.running
         /\ Settled(s) => Settled(Hit(s, patterns))
         /\ Hit(s, patterns).told =
              s.told \cup IF Command(s.kind) \cap patterns # {} THEN s.running
                          ELSE s.running \cap patterns
<1> DEFINE more == IF Command(s.kind) \cap patterns # {} THEN s.running ELSE s.running \cap patterns
           h == [s EXCEPT !.told = @ \cup more]
<1>1. more \subseteq s.running
  OBVIOUS
<1>2. Hit(s, patterns) = h
  BY DEF Hit
<1> HIDE DEF more
<1>3. h \in StackStates /\ h.kind = s.kind /\ h.at = s.at /\ h.up = s.up /\ h.running = s.running
      /\ h.told = s.told \cup more /\ h.late = s.late
  BY <1>1 DEF WellFormed, StackStates
<1> HIDE DEF h
<1>4. WellFormed(h)
  BY <1>1, <1>3 DEF WellFormed, Shaped
<1>5. Settled(s) => Settled(h)
  BY <1>1, <1>3 DEF Settled, WellFormed
<1> QED BY <1>2, <1>3, <1>4, <1>5 DEF more

LEMMA KillSettles ==
  ASSUME NEW from, \A k \in Stacks : WellFormed(from[k])
  PROVE  /\ Kill(from) \in [Stacks -> StackStates]
         /\ \A k \in Stacks : WellFormed(Kill(from)[k]) /\ Settled(Kill(from)[k])
<1>1. ASSUME NEW k \in Stacks
      PROVE  WellFormed(Kill(from)[k]) /\ Settled(Kill(from)[k])
  <2> DEFINE s == from[k]
  <2>1. WellFormed(s)
    OBVIOUS
  <2>2. CASE s.at = "script" /\ Script(s.kind) \in Patterns
    BY <2>2, NothingIsWell DEF Kill
  <2>3. CASE ~ (s.at = "script" /\ Script(s.kind) \in Patterns) /\ s.at \in {"asked", "script"}
    <3>1. Kill(from)[k] = [s EXCEPT !.late = TRUE]
      BY <2>3 DEF Kill
    <3>2. [s EXCEPT !.late = TRUE] \in StackStates
      BY <2>1 DEF WellFormed, StackStates
    <3> QED BY <2>1, <3>1, <3>2 DEF WellFormed, StackStates, Shaped, Settled
  <2>4. CASE s.at \notin {"asked", "script"}
    <3>1. Kill(from)[k] = Hit(s, Patterns)
      BY <2>4 DEF Kill
    <3>2. s.kind \in Kinds /\ s.told \subseteq s.running
      BY <2>1 DEF WellFormed, StackStates
    <3> HIDE DEF s
    <3>5. Command(s.kind) \cap Patterns # {}
      BY <3>2, EveryCommandIsFound
    <3>6. Hit(s, Patterns).told = s.told \cup s.running
      BY <2>1, <3>5, HitKeeps
    <3>3. Hit(s, Patterns).told = s.running
      BY <3>2, <3>6
    <3>4. WellFormed(Hit(s, Patterns)) /\ Hit(s, Patterns).running = s.running
          /\ Hit(s, Patterns).at = s.at
      BY <2>1, HitKeeps
    <3> QED BY <2>4, <3>1, <3>3, <3>4 DEF Settled
  <2> QED BY <2>2, <2>3, <2>4
<1>2. DOMAIN Kill(from) = Stacks /\ Kill(from) = [k \in Stacks |-> Kill(from)[k]]
  BY DEF Kill
<1>3. \A k \in Stacks : Kill(from)[k] \in StackStates
  BY <1>1 DEF WellFormed
<1> QED BY <1>1, <1>2, <1>3

-----------------------------------------------------------------------------
(* A step of the stacks.  A stack that is settled stays so, no stack       *)
(* changes its kind but by its end, and the process that speaks is neither *)
(* told to end nor missing because of a planner that starts.               *)
StacksWell == stack \in [Stacks -> StackStates] /\ \A k \in Stacks : WellFormed(stack[k])

Follows(s, t) ==
  /\ WellFormed(t)
  /\ Settled(s) => Settled(t)
  /\ t = Nothing \/ t.kind = s.kind
  /\ s.at = "none" => t.at = "none"
  /\ s.kind \in Speaking /\ Speaker(s.kind) \notin s.told =>
       /\ Speaker(s.kind) \notin t.told
       /\ Speaker(s.kind) \in s.up => t.kind = s.kind /\ Speaker(s.kind) \in t.up

LEMMA StayFollows ==
  ASSUME NEW s, WellFormed(s)
  PROVE  Follows(s, s)
BY DEF Follows

LEMMA HitFollows ==
  ASSUME NEW s, WellFormed(s), NEW kind \in Kinds, Together(kind, s.kind),
         NEW patterns \in Cleared(kind)
  PROVE  Follows(s, Hit(s, patterns))
<1> DEFINE t == Hit(s, patterns)
<1>1. /\ WellFormed(t) /\ t.kind = s.kind /\ t.at = s.at /\ t.up = s.up
      /\ Settled(s) => Settled(t)
  BY HitKeeps
<1>2. ASSUME s.kind \in Speaking, Speaker(s.kind) \notin s.told
      PROVE  Speaker(s.kind) \notin t.told
  <2>1. kind \in Planners
    BY <1>2 DEF Together, Kinds, Speaking
  <2>2. Command(s.kind) \cap patterns = {} /\ Speaker(s.kind) \notin patterns
    BY <1>2, <2>1, SpeakersAreLeft DEF Cleared
  <2>3. t.told = s.told \cup (s.running \cap patterns)
    BY <2>2, HitKeeps
  <2> QED BY <1>2, <2>2, <2>3
<1> QED BY <1>1, <1>2 DEF Follows

LEMMA ScriptRunsFollows ==
  ASSUME StacksWell, NEW k \in Stacks, ScriptRuns(k)
  PROVE  /\ stack' \in [Stacks -> StackStates] /\ \A n \in Stacks : Follows(stack[n], stack'[n])
         /\ logged' \subseteq logged
<1> DEFINE kind == stack[k].kind
<1>1. PICK patterns \in Cleared(kind) : stack' = [n \in Stacks |->
       IF n = k THEN [stack[n] EXCEPT !.at = "script"]
       ELSE IF Together(kind, stack[n].kind) THEN Hit(stack[n], patterns) ELSE stack[n]]
  BY DEF ScriptRuns
<1>2. kind \in Kinds /\ WellFormed(stack[k])
  BY DEF StacksWell, StackStates
<1>3. ASSUME NEW n \in Stacks PROVE Follows(stack[n], stack'[n])
  <2>1. WellFormed(stack[n])
    BY DEF StacksWell
  <2>2. CASE n = k
    <3> DEFINE s == stack[k]
    <3>1. stack'[n] = [s EXCEPT !.at = "script"] /\ s.at = "asked"
      BY <1>1, <2>2 DEF ScriptRuns
    <3>2. WellFormed(s)
      BY <1>2
    <3> HIDE DEF s
    <3>3. WellFormed([s EXCEPT !.at = "script"])
      BY <3>1, <3>2 DEF WellFormed, StackStates, Shaped
    <3>4. Follows(s, [s EXCEPT !.at = "script"])
      BY <3>1, <3>2, <3>3 DEF Follows, Settled, WellFormed, StackStates
    <3> QED BY <2>2, <3>1, <3>4 DEF s
  <2>3. CASE n # k /\ Together(kind, stack[n].kind)
    <3>1. stack'[n] = Hit(stack[n], patterns)
      BY <1>1, <2>3
    <3> QED BY <1>2, <2>1, <2>3, <3>1, HitFollows
  <2>4. CASE n # k /\ ~Together(kind, stack[n].kind)
    BY <1>1, <2>1, <2>4, StayFollows
  <2> QED BY <2>2, <2>3, <2>4
<1>4. stack' \in [Stacks -> StackStates]
  <2>1. \A n \in Stacks : stack'[n] \in StackStates
    BY <1>3 DEF Follows, WellFormed
  <2>2. stack' = [n \in Stacks |-> stack'[n]]
    BY <1>1
  <2> QED BY <2>1, <2>2
<1> QED BY <1>3, <1>4 DEF ScriptRuns

LEMMA LaunchFollows ==
  ASSUME StacksWell, NEW k \in Stacks, Launch(k)
  PROVE  /\ stack' \in [Stacks -> StackStates] /\ \A n \in Stacks : Follows(stack[n], stack'[n])
         /\ logged' \subseteq logged
<1> DEFINE s == stack[k]
           t == [s EXCEPT !.at = "launched", !.running = Nodes(s.kind) \cup {"launch"}]
<1>1. WellFormed(s) /\ s.kind \in Kinds /\ s.at = "script"
  BY DEF StacksWell, StackStates, Launch
<1>2. stack' = [stack EXCEPT ![k] = t]
  BY DEF Launch, StacksWell
<1> HIDE DEF s
<1>3. Nodes(s.kind) \cup {"launch"} \subseteq Processes
  BY <1>1 DEF Processes
<1>4. t \in StackStates /\ t.at = "launched" /\ t.kind = s.kind /\ t.told = s.told /\ t.up = s.up
      /\ t.late = s.late
  BY <1>1, <1>3 DEF StackStates, WellFormed
<1>5. s.told = {} /\ s.up = {}
  BY <1>1 DEF WellFormed, Shaped
<1> HIDE DEF t
<1>6. WellFormed(t)
  BY <1>4, <1>5 DEF WellFormed, Shaped
<1>7. Follows(s, t)
  BY <1>1, <1>4, <1>5, <1>6 DEF Follows, Settled
<1>8. \A n \in Stacks : Follows(stack[n], stack'[n])
  BY <1>2, <1>7, StayFollows DEF StacksWell, s
<1> QED BY <1>2, <1>4, <1>8 DEF StacksWell, Launch

LEMMA EndFollows ==
  ASSUME StacksWell, NEW k \in Stacks, ScriptFails(k) \/ Ends(k)
  PROVE  /\ stack' \in [Stacks -> StackStates] /\ \A n \in Stacks : Follows(stack[n], stack'[n])
         /\ logged' \subseteq logged
<1> DEFINE s == stack[k]
<1>1. WellFormed(s) /\ s.kind \in Kinds
  BY DEF StacksWell, StackStates
<1>2. PICK t : stack' = [stack EXCEPT ![k] = t] /\ Follows(s, t)
  <2>1. CASE ScriptFails(k)
    <3>1. s.at = "script" /\ stack' = [stack EXCEPT ![k] = Nothing]
      BY <2>1 DEF ScriptFails
    <3> HIDE DEF s
    <3>2. s.up = {}
      BY <1>1, <3>1 DEF WellFormed, Shaped
    <3>3. Follows(s, Nothing)
      BY <3>1, <3>2, NothingIsWell DEF Follows, Nothing
    <3> QED BY <3>1, <3>3
  <2>2. CASE Ends(k)
    <3> DEFINE t(over) == IF s.running = over THEN Nothing
         ELSE [s EXCEPT !.running = @ \ over, !.told = @ \ over,
                        !.up = {server \in @ : Host(server) \notin over}]
    <3> DEFINE hosts == {Host(server) : server \in Servers(s.kind)} \cap s.told
               some == IF hosts = {} THEN {s.told} ELSE {{host} : host \in hosts}
    <3>4. PICK over \in some : over # {} /\ stack' = [stack EXCEPT ![k] = t(over)]
      BY <2>2, Zenon DEF Ends
    <3>5. hosts \subseteq s.told
      OBVIOUS
    <3> HIDE DEF hosts
    <3>1. over # {} /\ over \subseteq s.told /\ stack' = [stack EXCEPT ![k] = t(over)]
      BY <3>4, <3>5
    <3> HIDE DEF s
    <3>2. CASE s.running = over
      <4>1. s.told = s.running
        BY <1>1, <3>1, <3>2 DEF WellFormed
      <4>2. s.at = "launched"
        BY <1>1, <3>1, <3>2 DEF WellFormed, Shaped
      <4>3. ASSUME s.kind \in Speaking, Speaker(s.kind) \notin s.told
            PROVE  Speaker(s.kind) \notin s.up
        BY <1>1, <4>1, <4>3, SpeakersAre DEF WellFormed
      <4>4. Follows(s, Nothing)
        BY <4>2, <4>3, NothingIsWell DEF Follows, Nothing
      <4> QED BY <3>1, <3>2, <4>4
    <3>3. CASE s.running # over
      <4> DEFINE u == [s EXCEPT !.running = @ \ over, !.told = @ \ over,
                                !.up = {server \in @ : Host(server) \notin over}]
      <4>1. /\ u \in StackStates /\ u.kind = s.kind /\ u.at = s.at /\ u.late = s.late
            /\ u.running = s.running \ over /\ u.told = s.told \ over
            /\ u.up = {server \in s.up : Host(server) \notin over}
        BY <1>1 DEF StackStates, WellFormed
      <4> HIDE DEF u
      <4>2. s.told # {}
        BY <3>1
      <4>3. WellFormed(u)
        BY <1>1, <4>1, <4>2 DEF WellFormed, Shaped
      <4>4. Settled(s) => Settled(u)
        BY <4>1 DEF Settled
      <4>5. ASSUME s.kind \in Speaking, Speaker(s.kind) \notin s.told
            PROVE  /\ Speaker(s.kind) \notin u.told
                   /\ Speaker(s.kind) \in s.up => Speaker(s.kind) \in u.up
        BY <3>1, <4>1, <4>5, SpeakersAre
      <4>6. Follows(s, u)
        BY <4>1, <4>3, <4>4, <4>5 DEF Follows
      <4> QED BY <3>1, <3>3, <4>6 DEF u
    <3> QED BY <3>2, <3>3
  <2> QED BY <2>1, <2>2
<1>3. \A n \in Stacks : Follows(stack[n], stack'[n])
  BY <1>2, StayFollows DEF StacksWell
<1>4. t \in StackStates
  BY <1>2 DEF Follows, WellFormed
<1>5. logged' = logged
  BY DEF ScriptFails, Ends
<1> QED BY <1>2, <1>3, <1>4, <1>5 DEF StacksWell

(* A line that is not of a planner that was to end is of one that is not.  *)
Lines == Planners \X BOOLEAN
LinesFollow ==
  \A kind \in Speaking : <<kind, FALSE>> \in logged' =>
    \/ <<kind, FALSE>> \in logged
    \/ \E n \in Stacks : /\ stack[n].kind = kind /\ ~Settled(stack[n])
                         /\ stack'[n].kind = kind /\ Speaker(kind) \in stack'[n].up

LEMMA ComesUpFollows ==
  ASSUME StacksWell, logged \subseteq Lines, NEW k \in Stacks, ComesUp(k)
  PROVE  /\ stack' \in [Stacks -> StackStates] /\ \A n \in Stacks : Follows(stack[n], stack'[n])
         /\ logged' \subseteq Lines /\ LinesFollow
<1> DEFINE s == stack[k]
           line(server) == <<s.kind, s.late \/ server \in s.told>>
<1>1. WellFormed(s) /\ s \in StackStates /\ s.kind \in Kinds
  BY DEF StacksWell, StackStates
<1>2. PICK server \in Servers(s.kind) \ s.up :
        /\ Host(server) \in s.running
        /\ stack' = [stack EXCEPT ![k].up = @ \cup {server}]
        /\ logged' = IF Logs(s.kind) /\ server = Speaker(s.kind)
                     THEN logged \cup {line(server)} ELSE logged
  BY DEF ComesUp
<1> DEFINE u == [s EXCEPT !.up = @ \cup {server}]
<1>3. stack' = [stack EXCEPT ![k] = u]
  BY <1>2 DEF StacksWell
<1>4. server \in AllServers
  BY <1>1, <1>2 DEF AllServers
<1> HIDE DEF s
<1>5. /\ u \in StackStates /\ u.kind = s.kind /\ u.at = s.at /\ u.late = s.late
      /\ u.running = s.running /\ u.told = s.told /\ u.up = s.up \cup {server}
  BY <1>1, <1>4 DEF StackStates
<1> HIDE DEF u
<1>6. WellFormed(u)
  BY <1>1, <1>2, <1>5 DEF WellFormed, Shaped
<1>7. Follows(s, u)
  BY <1>5, <1>6 DEF Follows, Settled
<1>8. \A n \in Stacks : Follows(stack[n], stack'[n])
  BY <1>3, <1>7, StayFollows DEF StacksWell, s
<1>9. ASSUME Logs(s.kind), server = Speaker(s.kind)
      PROVE  /\ line(server) \in Lines
             /\ s.kind \in Speaking
             /\ line(server) = <<s.kind, FALSE>> => ~Settled(s)
  <2>1. s.kind \in Speaking /\ s.kind \in Planners
    BY <1>9 DEF Logs, Speaking, Planners
  <2> DEFINE b == s.late \/ server \in s.told
  <2>2. b \in BOOLEAN
    OBVIOUS
  <2>3. ASSUME ~b PROVE ~Settled(s)
    <3>1. server \in s.running /\ server \notin s.told /\ ~s.late
      BY <1>2, <1>9, <2>1, <2>3, SpeakersAre
    <3> QED BY <3>1 DEF Settled
  <2>4. line(server) = <<s.kind, b>>
    OBVIOUS
  <2> HIDE DEF b, line
  <2>5. line(server) \in Lines
    BY <2>1, <2>2, <2>4 DEF Lines
  <2>8. line(server)[2] = b
    BY <2>4
  <2>9. <<s.kind, FALSE>>[2] = FALSE
    OBVIOUS
  <2>6. line(server) = <<s.kind, FALSE>> => b = FALSE
    BY <2>8, <2>9, Zenon
  <2>7. line(server) = <<s.kind, FALSE>> => ~b
    BY <2>6, Zenon
  <2> QED BY <2>1, <2>3, <2>5, <2>7
<1>10. logged' \subseteq Lines
  BY <1>2, <1>9
<1>11. LinesFollow
  <2> SUFFICES ASSUME NEW kind \in Speaking, <<kind, FALSE>> \in logged', <<kind, FALSE>> \notin logged
               PROVE  \E n \in Stacks : /\ stack[n].kind = kind /\ ~Settled(stack[n])
                                        /\ stack'[n].kind = kind /\ Speaker(kind) \in stack'[n].up
    BY DEF LinesFollow
  <2>1. Logs(s.kind) /\ server = Speaker(s.kind) /\ <<kind, FALSE>> = line(server)
    BY <1>2
  <2>2. s.kind = kind
    BY <2>1
  <2>3. ~Settled(s)
    BY <1>9, <2>1, <2>2
  <2>4. stack'[k] = u
    BY <1>3 DEF StacksWell
  <2> QED BY <1>5, <2>1, <2>2, <2>3, <2>4 DEF s
<1>12. stack' \in [Stacks -> StackStates]
  BY <1>3, <1>5 DEF StacksWell
<1> QED BY <1>8, <1>10, <1>11, <1>12

LEMMA StackStepFollows ==
  ASSUME StacksWell, logged \subseteq Lines, StackStep
  PROVE  /\ StacksWell' /\ \A n \in Stacks : Follows(stack[n], stack'[n])
         /\ logged' \subseteq Lines /\ LinesFollow
<1>1. PICK k \in Stacks : Goes(k) \/ ComesUp(k)
  BY DEF StackStep
<1>2. /\ stack' \in [Stacks -> StackStates] /\ \A n \in Stacks : Follows(stack[n], stack'[n])
      /\ logged' \subseteq Lines /\ LinesFollow
  <2>1. CASE Goes(k)
    <3>1. /\ stack' \in [Stacks -> StackStates] /\ \A n \in Stacks : Follows(stack[n], stack'[n])
          /\ logged' \subseteq logged
      BY <2>1, ScriptRunsFollows, LaunchFollows, EndFollows DEF Goes
    <3> QED BY <3>1 DEF LinesFollow
  <2>2. CASE ComesUp(k)
    BY <2>2, ComesUpFollows
  <2> QED BY <1>1, <2>1, <2>2
<1>3. StacksWell'
  BY <1>2 DEF StacksWell, Follows
<1> QED BY <1>2, <1>3

LEMMA AskedForIsNew ==
  ASSUME NEW from \in [Stacks -> StackStates], \A n \in Stacks : WellFormed(from[n]),
         NEW k \in Stacks, NEW kind \in Kinds, AskFor(from, k, kind)
  PROVE  /\ StacksWell' /\ from[k].at = "none" /\ from[k].kind = "ros"
         /\ stack'[k].kind = kind /\ stack'[k].told = {} /\ stack'[k].up = {}
         /\ \A n \in Stacks \ {k} : stack'[n] = from[n]
<1> DEFINE t == [Nothing EXCEPT !.kind = kind, !.at = "asked"]
<1>1. stack' = [from EXCEPT ![k] = t] /\ from[k].at = "none"
  BY DEF AskFor
<1>2. t \in StackStates /\ t.kind = kind /\ t.told = {} /\ t.up = {} /\ t.running = {} /\ t.at = "asked"
  BY DEF Nothing, StackStates, Kinds
<1> HIDE DEF t
<1>3. WellFormed(t)
  BY <1>2 DEF WellFormed, Shaped
<1>4. from[k].kind = "ros"
  BY <1>1 DEF WellFormed, Shaped
<1> QED BY <1>1, <1>2, <1>3, <1>4 DEF StacksWell

-----------------------------------------------------------------------------
(* The suite.                                                              *)
SuitePhases == {"next", "stop", "kill", "restart", "waitRos", "play", "start", "look", "readLog",
           "attempt", "simStop", "endStop", "endKill", "done"}
MainStates == [at : SuitePhases, job : 0..Len(Jobs), run : 1..Runs, again : BOOLEAN, bad : BOOLEAN,
               failed : BOOLEAN]
Own == [ros : 0..MaxStacks, planner : 0..MaxStacks]

LEMMA SuiteTypesAre ==
  SuiteTypes /\ (\A k \in Stacks : Shaped(stack[k])) <=>
    /\ StacksWell /\ logged \subseteq Lines /\ main \in MainStates /\ own \in Own
    /\ rows \subseteq Planned /\ sim \in {"play", "stop"}
BY DEF SuiteTypes, StacksWell, WellFormed, StackStates, Processes, Lines, MainStates, SuitePhases, Own

LEMMA SuiteTypesAreNext ==
  SuiteTypes' /\ (\A k \in Stacks : Shaped(stack'[k])) <=>
    /\ StacksWell' /\ logged' \subseteq Lines /\ main' \in MainStates /\ own' \in Own
    /\ rows' \subseteq Planned /\ sim' \in {"play", "stop"}
BY DEF SuiteTypes, StacksWell, WellFormed, StackStates, Processes, Lines, MainStates, SuitePhases, Own

LEMMA PlannerIsKnown ==
  ASSUME JobIsKnown, main.at \notin {"next", "done"}
  PROVE  Planner \in Planners /\ Planner # "ros"
BY JobsOfPlanners DEF JobIsKnown, Planner, Planners

LEMMA SuiteInitInv == SuiteInit => SuiteInv
<1> SUFFICES ASSUME SuiteInit PROVE SuiteInv
  OBVIOUS
<1>1. stack = [k \in Stacks |-> Nothing] /\ logged = {}
  BY DEF SuiteInit, InitStacks
<1>2. StacksWell
  BY <1>1, NothingIsWell DEF StacksWell, WellFormed
<1>3. main = [at |-> "next", job |-> 0, run |-> 1, again |-> FALSE, bad |-> FALSE, failed |-> FALSE]
      /\ own = Neither /\ rows = {} /\ sim = "stop"
  BY DEF SuiteInit
<1>4. main \in MainStates
  BY <1>3, SuiteAssumption, JobsOfPlanners DEF MainStates, SuitePhases
<1>5. own \in Own
  BY <1>3, SuiteAssumption DEF Own, Neither
<1>6. SuiteTypes /\ \A k \in Stacks : Shaped(stack[k])
  BY <1>1, <1>2, <1>3, <1>4, <1>5, SuiteTypesAre
<1>7. JobIsKnown /\ OwnAreOwn /\ RestIsSettled /\ SpeaksForItself
  BY <1>3 DEF JobIsKnown, OwnAreOwn, RestIsSettled, SpeaksForItself, OwnRos, OwnBoth, Looking
<1> QED BY <1>6, <1>7 DEF SuiteInv

(* The stacks step, the suite does not.                                    *)
LEMMA EnvironmentKeeps ==
  ASSUME SuiteInv, Environment
  PROVE  SuiteInv'
<1>1. /\ StacksWell /\ logged \subseteq Lines /\ main \in MainStates /\ own \in Own
      /\ rows \subseteq Planned /\ sim \in {"play", "stop"}
  BY SuiteTypesAre DEF SuiteInv
<1>2. StackStep /\ main' = main /\ own' = own /\ rows' = rows /\ sim' = sim
  BY DEF Environment
<1>3. /\ StacksWell' /\ \A n \in Stacks : Follows(stack[n], stack'[n])
      /\ logged' \subseteq Lines /\ LinesFollow
  BY <1>1, <1>2, StackStepFollows
<1>4. SuiteTypes' /\ \A k \in Stacks : Shaped(stack'[k])
  BY <1>1, <1>2, <1>3, SuiteTypesAreNext
<1>5. JobIsKnown'
  BY <1>2 DEF SuiteInv, JobIsKnown
<1>6. OwnAreOwn'
  <2>1. \A n \in Stacks : /\ stack[n].kind = "ros" => stack'[n].kind = "ros"
                          /\ stack'[n].at # "none" => stack'[n].kind = stack[n].kind /\ stack[n].at # "none"
    BY <1>3 DEF Follows, Nothing
  <2>2. Planner' = Planner
    BY <1>2 DEF Planner
  <2> QED BY <1>2, <2>1, <2>2 DEF SuiteInv, OwnAreOwn
<1>7. RestIsSettled'
  BY <1>2, <1>3 DEF SuiteInv, RestIsSettled, Follows
<1>8. SpeaksForItself'
  <2> SUFFICES ASSUME main.at \in Looking, Logs(Planner)
               PROVE  /\ Speaker(Planner) \notin stack'[own.planner].told
                      /\ <<Planner, FALSE>> \in logged' => Speaker(Planner) \in stack'[own.planner].up
    BY <1>2 DEF SpeaksForItself, Planner
  <2> DEFINE s == stack[own.planner]
             t == stack'[own.planner]
  <2>1. Planner \in Speaking /\ Planner # "ros"
    BY DEF Logs, Speaking
  <2>2. /\ main.at \in OwnBoth /\ own.planner \in Stacks /\ own.ros \in Stacks
        /\ own.ros # own.planner => stack[own.ros].kind = "ros"
        /\ s.at # "none" => s.kind = Planner
        /\ Speaker(Planner) \notin s.told
        /\ <<Planner, FALSE>> \in logged => Speaker(Planner) \in s.up
    BY DEF SuiteInv, OwnAreOwn, SpeaksForItself, OwnBoth
  <2>3. Follows(s, t) /\ WellFormed(s)
    BY <1>1, <1>3, <2>2 DEF StacksWell
  <2>4. ASSUME s.at = "none"
        PROVE  t.told = {} /\ s.up = {}
    BY <2>3, <2>4 DEF Follows, WellFormed, Shaped
  <2>5. Speaker(Planner) \notin t.told
    BY <2>1, <2>2, <2>3, <2>4 DEF Follows
  <2>6. ASSUME Speaker(Planner) \in s.up
        PROVE  Speaker(Planner) \in t.up
    BY <2>1, <2>2, <2>3, <2>4, <2>6 DEF Follows
  <2>7. ASSUME <<Planner, FALSE>> \in logged', <<Planner, FALSE>> \notin logged
        PROVE  Speaker(Planner) \in t.up
    <3>1. PICK n \in Stacks : /\ stack[n].kind = Planner /\ ~Settled(stack[n])
                             /\ Speaker(Planner) \in stack'[n].up
      BY <1>3, <2>1, <2>7 DEF LinesFollow
    <3>2. n \in {own.ros, own.planner}
      BY <2>2, <3>1 DEF SuiteInv, RestIsSettled
    <3>3. n = own.planner
      BY <2>1, <2>2, <3>1, <3>2
    <3> QED BY <3>1, <3>3
  <2> QED BY <2>2, <2>5, <2>6, <2>7
<1> QED BY <1>4, <1>5, <1>6, <1>7, <1>8 DEF SuiteInv

(* The suite goes on and leaves the stacks as they are.                    *)
GoesOn ==
  /\ main' \in MainStates /\ UNCHANGED <<stack, logged, own>>
  /\ rows' \subseteq Planned /\ sim' \in {"play", "stop"}
  /\ main'.at \notin {"next", "done"} => main'.job \in DOMAIN Jobs
  /\ main'.at # "restart"
  /\ main'.at \in OwnRos => main.at \in OwnRos
  /\ main'.at \in OwnBoth => main.at \in OwnBoth /\ main'.job = main.job
  /\ main'.at \in Looking => main.at \in Looking

LEMMA GoingOnKeeps ==
  ASSUME SuiteInv, GoesOn
  PROVE  SuiteInv'
<1>1. /\ StacksWell /\ logged \subseteq Lines /\ main \in MainStates /\ own \in Own
  BY SuiteTypesAre DEF SuiteInv
<1>2. stack' = stack /\ logged' = logged /\ own' = own
  BY DEF GoesOn
<1>3. SuiteTypes' /\ \A k \in Stacks : Shaped(stack'[k])
  <2>1. StacksWell'
    BY <1>1, <1>2 DEF StacksWell
  <2> QED BY <1>1, <1>2, <2>1, SuiteTypesAreNext DEF GoesOn
<1>4. JobIsKnown'
  BY DEF GoesOn, JobIsKnown
<1>5. main'.at \in OwnBoth => Planner' = Planner
  BY DEF GoesOn, Planner
<1>6. OwnAreOwn'
  BY <1>2, <1>5 DEF SuiteInv, OwnAreOwn, GoesOn
<1>7. RestIsSettled'
  BY <1>2 DEF SuiteInv, RestIsSettled, GoesOn
<1>8. SpeaksForItself'
  BY <1>2, <1>5 DEF SuiteInv, SpeaksForItself, GoesOn, OwnBoth
<1> QED BY <1>3, <1>4, <1>6, <1>7, <1>8 DEF SuiteInv

LEMMA NextJobGoesOn ==
  ASSUME SuiteInv, NextJob
  PROVE  GoesOn
<1> DEFINE f == main.failed \/ main.bad
<1>1. main \in MainStates /\ main.at = "next" /\ rows \subseteq Planned /\ sim \in {"play", "stop"}
  BY SuiteTypesAre DEF SuiteInv, NextJob
<1>2. f \in BOOLEAN
  OBVIOUS
<1>3. /\ main' = IF main.job = Len(Jobs) THEN [main EXCEPT !.at = "done", !.failed = f]
                  ELSE [at |-> "stop", job |-> main.job + 1, run |-> 1, again |-> FALSE,
                        bad |-> FALSE, failed |-> f]
      /\ UNCHANGED <<stack, logged, own, rows, sim>>
  BY DEF NextJob, stacks
<1> HIDE DEF f
<1>4. CASE main.job = Len(Jobs)
  <2>1. main' = [main EXCEPT !.at = "done", !.failed = f]
    BY <1>3, <1>4
  <2>2. main' \in MainStates /\ main'.at = "done"
    BY <1>1, <1>2, <2>1 DEF MainStates, SuitePhases
  <2> QED BY <1>1, <1>3, <2>2 DEF GoesOn, OwnRos, OwnBoth, Looking
<1>5. CASE main.job # Len(Jobs)
  <2>1. main' = [at |-> "stop", job |-> main.job + 1, run |-> 1, again |-> FALSE,
                 bad |-> FALSE, failed |-> f]
    BY <1>3, <1>5
  <2>2. main.job + 1 \in 1..Len(Jobs) /\ 1 \in 1..Runs
    BY <1>1, <1>5, JobsOfPlanners, SuiteAssumption DEF MainStates
  <2>3. main' \in MainStates /\ main'.at = "stop" /\ main'.job \in DOMAIN Jobs
    BY <1>2, <2>1, <2>2, JobsOfPlanners DEF MainStates, SuitePhases
  <2> QED BY <1>1, <1>3, <2>3 DEF GoesOn, OwnRos, OwnBoth, Looking
<1> QED BY <1>4, <1>5

(* Most steps change but the phase and what the simulation is told.        *)
LEMMA PhaseGoesOn ==
  ASSUME SuiteInv, NEW phase \in SuitePhases \ {"restart"}, NEW bad \in BOOLEAN,
         main.at \notin {"next", "done"},
         main' = [main EXCEPT !.at = phase, !.bad = bad],
         UNCHANGED <<stack, logged, own>>, rows' = rows, sim' \in {"play", "stop"},
         phase \in OwnRos => main.at \in OwnRos,
         phase \in OwnBoth => main.at \in OwnBoth,
         phase \in Looking => main.at \in Looking
  PROVE  GoesOn
<1>1. main \in MainStates /\ rows \subseteq Planned
  BY SuiteTypesAre DEF SuiteInv
<1>2. main' \in MainStates /\ main'.at = phase /\ main'.job = main.job
  BY <1>1 DEF MainStates
<1>3. main'.job \in DOMAIN Jobs
  BY <1>2 DEF SuiteInv, JobIsKnown
<1> QED BY <1>1, <1>2, <1>3 DEF GoesOn

LEMMA WaitingGoesOn ==
  ASSUME SuiteInv,
         \/ StopSimulation \/ RosStarted \/ PlaySimulation \/ LookForServers \/ ReadLog
         \/ WaitEnds \/ CommandFails \/ EndJobStop
  PROVE  GoesOn
<1>1. /\ main \in MainStates /\ sim \in {"play", "stop"}
      /\ main.bad \in BOOLEAN /\ main = [main EXCEPT !.bad = main.bad]
  BY SuiteTypesAre DEF SuiteInv, MainStates
<1>2. \A phase : [main EXCEPT !.at = phase] = [main EXCEPT !.at = phase, !.bad = main.bad]
  BY <1>1 DEF MainStates
<1> DEFINE To(phase, from) ==
      /\ main.at \in from /\ UNCHANGED <<stack, logged, own>> /\ rows' = rows
      /\ sim' \in {"play", "stop"} /\ main' = [main EXCEPT !.at = phase]
<1>3. CASE StopSimulation
  <2>1. To("kill", {"stop"})
    BY <1>3 DEF StopSimulation, Tell, At, stacks
  <2> QED BY <1>1, <1>2, <2>1, PhaseGoesOn DEF SuitePhases, OwnRos, OwnBoth, Looking
<1>4. CASE RosStarted
  <2>1. To("play", {"waitRos"})
    BY <1>1, <1>4 DEF RosStarted, At, stacks
  <2> QED BY <1>1, <1>2, <2>1, PhaseGoesOn DEF SuitePhases, OwnRos, OwnBoth, Looking
<1>5. CASE PlaySimulation
  <2>1. To("start", {"play"})
    BY <1>5 DEF PlaySimulation, Tell, At, stacks
  <2> QED BY <1>1, <1>2, <2>1, PhaseGoesOn DEF SuitePhases, OwnRos, OwnBoth, Looking
<1>6. CASE LookForServers
  <2> DEFINE phase == IF Logs(Planner) THEN "readLog" ELSE "attempt"
  <2>1. To(phase, {"look"})
    BY <1>1, <1>6 DEF LookForServers, At, stacks
  <2>2. phase \in {"readLog", "attempt"}
    OBVIOUS
  <2> HIDE DEF phase
  <2> QED BY <1>1, <1>2, <2>1, <2>2, PhaseGoesOn DEF SuitePhases, OwnRos, OwnBoth, Looking
<1>7. CASE ReadLog
  <2> DEFINE phase == IF LogOf(Planner) # {} THEN "attempt" ELSE "look"
  <2>1. To(phase, {"readLog"})
    BY <1>1, <1>7 DEF ReadLog, At, stacks
  <2>2. phase \in {"look", "attempt"}
    OBVIOUS
  <2> HIDE DEF phase
  <2> QED BY <1>1, <1>2, <2>1, <2>2, PhaseGoesOn DEF SuitePhases, OwnRos, OwnBoth, Looking
<1>8. CASE WaitEnds \/ CommandFails
  <2>1. /\ main.at \in {"waitRos", "look", "stop", "play"} /\ UNCHANGED <<stack, logged, own, rows, sim>>
        /\ main' = [main EXCEPT !.at = "endStop", !.bad = TRUE]
    BY <1>8 DEF WaitEnds, CommandFails, GiveUpJob, stacks
  <2> QED BY <1>1, <2>1, PhaseGoesOn DEF SuitePhases, OwnRos, OwnBoth, Looking
<1>9. CASE EndJobStop
  <2>1. To("endKill", {"endStop"})
    BY <1>9 DEF EndJobStop, Tell, At, stacks
  <2> QED BY <1>1, <1>2, <2>1, PhaseGoesOn DEF SuitePhases, OwnRos, OwnBoth, Looking
<1> QED BY <1>3, <1>4, <1>5, <1>6, <1>7, <1>8, <1>9

(* After a run there is another, or the job ends.                          *)
LEMMA AfterRunIs ==
  ASSUME NEW m \in MainStates
  PROVE  AfterRun(m) \in MainStates /\ AfterRun(m).at \in {"stop", "endStop"} /\ AfterRun(m).job = m.job
<1>1. CASE m.run < Runs
  <2>1. m.run + 1 \in 1..Runs
    BY <1>1, SuiteAssumption DEF MainStates
  <2>2. AfterRun(m) = [m EXCEPT !.at = "stop", !.run = m.run + 1, !.again = FALSE]
    BY <1>1 DEF AfterRun
  <2> QED BY <2>1, <2>2 DEF MainStates, SuitePhases
<1>2. CASE ~(m.run < Runs)
  <2>1. AfterRun(m) = [m EXCEPT !.at = "endStop"]
    BY <1>2 DEF AfterRun
  <2> QED BY <2>1 DEF MainStates, SuitePhases
<1> QED BY <1>1, <1>2

LEMMA RunGoesOn ==
  ASSUME SuiteInv, Attempt \/ StopAfterRun
  PROVE  GoesOn
<1>1. main \in MainStates /\ rows \subseteq Planned /\ sim \in {"play", "stop"}
  BY SuiteTypesAre DEF SuiteInv
<1>2. main.at \in {"attempt", "simStop"} /\ main.job \in DOMAIN Jobs
  BY DEF SuiteInv, JobIsKnown, Attempt, StopAfterRun
<1> DEFINE Ahead == main' \in MainStates /\ main'.at \in {"stop", "endStop", "simStop"}
                    /\ main'.job = main.job
<1>3. ASSUME Ahead, rows' \subseteq Planned, sim' \in {"play", "stop"}, UNCHANGED <<stack, logged, own>>
      PROVE  GoesOn
  BY <1>2, <1>3 DEF GoesOn, OwnRos, OwnBoth, Looking
<1>4. CASE StopAfterRun
  <2>1. main' = AfterRun(main) /\ rows' = rows /\ sim' = "stop" /\ UNCHANGED <<stack, logged, own>>
    BY <1>4 DEF StopAfterRun, Tell, stacks
  <2> QED BY <1>1, <1>3, <2>1, AfterRunIs
<1>5. CASE Attempt
  <2>1. UNCHANGED <<stack, logged, own>> /\ sim' = sim
    BY <1>5 DEF Attempt, stacks
  <2>2. PICK outcome \in {"success", "setup", "failed"} :
         IF outcome = "setup" /\ Suite = "simple" /\ ~main.again
         THEN main' = [main EXCEPT !.at = "stop", !.again = TRUE] /\ UNCHANGED rows
         ELSE LET m == [main EXCEPT !.bad = Counted(outcome)] IN
              /\ \E success \in RowsAfter(outcome) :
                   rows' = IF success THEN rows \cup {<<main.job, main.run>>} ELSE rows
              /\ main' = IF Suite = "pick" THEN [m EXCEPT !.at = "simStop"] ELSE AfterRun(m)
    BY <1>5 DEF Attempt
  <2>3. CASE outcome = "setup" /\ Suite = "simple" /\ ~main.again
    <3>1. main' = [main EXCEPT !.at = "stop", !.again = TRUE] /\ rows' = rows
      BY <2>2, <2>3
    <3>2. Ahead
      BY <1>1, <3>1 DEF MainStates, SuitePhases
    <3> QED BY <1>1, <1>3, <2>1, <3>1, <3>2
  <2>4. CASE ~(outcome = "setup" /\ Suite = "simple" /\ ~main.again)
    <3> DEFINE bad == Counted(outcome)
               m == [main EXCEPT !.bad = bad]
    <3>1. /\ rows' \subseteq rows \cup {<<main.job, main.run>>}
          /\ main' = IF Suite = "pick" THEN [m EXCEPT !.at = "simStop"] ELSE AfterRun(m)
      BY <2>2, <2>4
    <3>2. bad \in BOOLEAN
      BY DEF Counted
    <3> HIDE DEF bad
    <3>3. m \in MainStates /\ m.job = main.job
      BY <1>1, <3>2 DEF MainStates
    <3> HIDE DEF m
    <3>4. Ahead
      <4>1. CASE Suite = "pick"
        <5>1. main' = [m EXCEPT !.at = "simStop"]
          BY <3>1, <4>1
        <5> QED BY <3>3, <5>1 DEF MainStates, SuitePhases
      <4>2. CASE Suite # "pick"
        BY <3>1, <3>3, <4>2, AfterRunIs
      <4> QED BY <4>1, <4>2
    <3>5. <<main.job, main.run>> \in Planned
      BY <1>1, <1>2 DEF Planned, MainStates
    <3> HIDE DEF Ahead
    <3> QED BY <1>1, <1>3, <2>1, <3>1, <3>4, <3>5
  <2> QED BY <2>3, <2>4
<1> QED BY <1>4, <1>5

(* Everything is told to end, before a run and after a job.                *)
LEMMA KillKeeps ==
  ASSUME SuiteInv, KillProcesses \/ EndJobKill
  PROVE  SuiteInv'
<1>1. /\ StacksWell /\ logged \subseteq Lines /\ main \in MainStates /\ own \in Own
      /\ rows \subseteq Planned /\ sim \in {"play", "stop"}
  BY SuiteTypesAre DEF SuiteInv
<1>2. PICK phase \in {"restart", "next"} :
        /\ stack' = Kill(stack) /\ main' = [main EXCEPT !.at = phase]
        /\ logged' = logged /\ own' \in {own, Neither} /\ rows' = rows /\ sim' = sim
        /\ main.at \in {"kill", "endKill"}
  BY DEF KillProcesses, EndJobKill, At
<1>3. stack' \in [Stacks -> StackStates]
      /\ \A k \in Stacks : WellFormed(stack'[k]) /\ Settled(stack'[k])
  BY <1>1, <1>2, KillSettles DEF StacksWell
<1>4. main' \in MainStates /\ main'.at = phase /\ main'.job = main.job
  BY <1>1, <1>2 DEF MainStates, SuitePhases
<1>5. own' \in Own
  BY <1>1, <1>2, SuiteAssumption DEF Own, Neither
<1>6. SuiteTypes' /\ \A k \in Stacks : Shaped(stack'[k])
  BY <1>1, <1>2, <1>3, <1>4, <1>5, SuiteTypesAreNext DEF StacksWell
<1>7. JobIsKnown'
  BY <1>2, <1>4 DEF SuiteInv, JobIsKnown
<1>8. OwnAreOwn' /\ RestIsSettled' /\ SpeaksForItself'
  BY <1>3, <1>4 DEF OwnAreOwn, RestIsSettled, SpeaksForItself, OwnRos, OwnBoth, Looking
<1> QED BY <1>6, <1>7, <1>8 DEF SuiteInv

LEMMA RestartKeeps ==
  ASSUME SuiteInv, RestartRos
  PROVE  SuiteInv'
<1>1. /\ StacksWell /\ logged \subseteq Lines /\ main \in MainStates /\ own \in Own
      /\ rows \subseteq Planned /\ sim \in {"play", "stop"}
  BY SuiteTypesAre DEF SuiteInv
<1>2. PICK k \in Stacks : AskFor(KillRos(stack), k, "ros") /\ own' = [own EXCEPT !.ros = k]
  BY DEF RestartRos
<1>3. /\ main.at = "restart" /\ main' = [main EXCEPT !.at = "waitRos"]
      /\ UNCHANGED <<logged, rows, sim>>
  BY DEF RestartRos, At
<1>4. /\ KillRos(stack) \in [Stacks -> StackStates]
      /\ \A n \in Stacks : WellFormed(KillRos(stack)[n]) /\ Settled(KillRos(stack)[n])
  <2> DEFINE all == Kill(stack)
  <2>1. \A n \in Stacks : WellFormed(all[n]) /\ Settled(all[n])
    BY <1>1, KillSettles DEF StacksWell
  <2>2. \A n \in Stacks : WellFormed(stack[n]) /\ Settled(stack[n])
    BY <1>1, <1>3 DEF StacksWell, SuiteInv, RestIsSettled
  <2>3. KillRos(stack) = [n \in Stacks |-> IF stack[n].kind = "ros" THEN all[n] ELSE stack[n]]
    BY DEF KillRos
  <2> HIDE DEF all
  <2>4. \A n \in Stacks : KillRos(stack)[n] = all[n] \/ KillRos(stack)[n] = stack[n]
    BY <2>3
  <2>5. \A n \in Stacks : WellFormed(KillRos(stack)[n]) /\ Settled(KillRos(stack)[n])
    BY <2>1, <2>2, <2>4
  <2>6. \A n \in Stacks : all[n] \in StackStates /\ stack[n] \in StackStates
    BY <2>1, <2>2 DEF WellFormed
  <2> QED BY <2>3, <2>5, <2>6
<1>5. /\ StacksWell' /\ stack'[k].kind = "ros"
      /\ \A n \in Stacks \ {k} : stack'[n] = KillRos(stack)[n]
  <2> DEFINE killed == KillRos(stack)
  <2>1. "ros" \in Kinds
    BY DEF Kinds
  <2>2. /\ killed \in [Stacks -> StackStates] /\ \A n \in Stacks : WellFormed(killed[n])
        /\ AskFor(killed, k, "ros")
    BY <1>2, <1>4
  <2> HIDE DEF killed
  <2>3. /\ StacksWell' /\ stack'[k].kind = "ros"
        /\ \A n \in Stacks \ {k} : stack'[n] = killed[n]
    BY <2>1, <2>2, AskedForIsNew
  <2> QED BY <2>3 DEF killed
<1>6. main' \in MainStates /\ main'.at = "waitRos" /\ main'.job = main.job
  BY <1>1, <1>3 DEF MainStates, SuitePhases
<1>7. own' \in Own /\ own'.ros = k
  <2>1. k \in 0..MaxStacks
    BY SuiteAssumption DEF Stacks
  <2> QED BY <1>1, <1>2, <2>1 DEF Own
<1>8. SuiteTypes' /\ \A n \in Stacks : Shaped(stack'[n])
  BY <1>1, <1>3, <1>5, <1>6, <1>7, SuiteTypesAreNext
<1>9. JobIsKnown'
  BY <1>3, <1>6 DEF SuiteInv, JobIsKnown
<1>10. OwnAreOwn' /\ RestIsSettled' /\ SpeaksForItself'
  BY <1>4, <1>5, <1>6, <1>7 DEF OwnAreOwn, RestIsSettled, SpeaksForItself, OwnRos, OwnBoth, Looking
<1> QED BY <1>8, <1>9, <1>10 DEF SuiteInv

(* The planner is asked for, and its log is empty.                         *)
LEMMA StartPlannerKeeps ==
  ASSUME SuiteInv, StartPlanner
  PROVE  SuiteInv'
<1>1. /\ StacksWell /\ logged \subseteq Lines /\ main \in MainStates /\ own \in Own
      /\ rows \subseteq Planned /\ sim \in {"play", "stop"}
  BY SuiteTypesAre DEF SuiteInv
<1>2. PICK k \in Stacks : AskFor(stack, k, Planner) /\ own' = [own EXCEPT !.planner = k]
  BY DEF StartPlanner
<1>3. /\ main.at = "start" /\ main' = [main EXCEPT !.at = "look"]
      /\ logged' = Truncated(Planner) /\ UNCHANGED <<rows, sim>>
  BY DEF StartPlanner, At
<1>4. Planner \in Planners /\ Planner \in Kinds
  BY <1>3, PlannerIsKnown DEF SuiteInv, Kinds
<1>5. /\ StacksWell' /\ stack[k].at = "none" /\ stack'[k].kind = Planner
      /\ stack'[k].told = {}
      /\ \A n \in Stacks \ {k} : stack'[n] = stack[n]
  BY <1>1, <1>2, <1>4, AskedForIsNew DEF StacksWell
<1>6. main' \in MainStates /\ main'.at = "look" /\ main'.job = main.job
  BY <1>1, <1>3 DEF MainStates, SuitePhases
<1>7. own' \in Own /\ own'.ros = own.ros /\ own'.planner = k
  <2>1. k \in 0..MaxStacks
    BY SuiteAssumption DEF Stacks
  <2> QED BY <1>1, <1>2, <2>1 DEF Own
<1>8. Planner' = Planner
  BY <1>6 DEF Planner
<1>9. logged' \subseteq logged /\ (Logs(Planner) => <<Planner, FALSE>> \notin logged')
  BY <1>3 DEF Truncated, LogOf
<1>10. SuiteTypes' /\ \A n \in Stacks : Shaped(stack'[n])
  BY <1>1, <1>3, <1>5, <1>6, <1>7, <1>9, SuiteTypesAreNext
<1>11. JobIsKnown'
  BY <1>3, <1>6 DEF SuiteInv, JobIsKnown
<1>12. /\ own.ros \in Stacks /\ stack[own.ros].kind = "ros"
       /\ \A n \in Stacks : n = own.ros \/ Settled(stack[n])
  BY <1>3 DEF SuiteInv, OwnAreOwn, RestIsSettled, OwnRos
<1>13. OwnAreOwn'
  BY <1>5, <1>6, <1>7, <1>8, <1>12 DEF OwnAreOwn, OwnRos
<1>14. RestIsSettled'
  BY <1>5, <1>6, <1>7, <1>12 DEF RestIsSettled, OwnRos
<1>15. SpeaksForItself'
  BY <1>5, <1>7, <1>8, <1>9 DEF SpeaksForItself
<1> QED BY <1>10, <1>11, <1>13, <1>14, <1>15 DEF SuiteInv

LEMMA SuiteStepKeeps ==
  ASSUME SuiteInv, [SuiteNext]_suiteVars
  PROVE  SuiteInv'
<1>1. CASE Environment
  BY <1>1, EnvironmentKeeps
<1>2. CASE NextJob
  BY <1>2, NextJobGoesOn, GoingOnKeeps
<1>3. CASE \/ StopSimulation \/ RosStarted \/ PlaySimulation \/ LookForServers \/ ReadLog
           \/ WaitEnds \/ CommandFails \/ EndJobStop
  BY <1>3, WaitingGoesOn, GoingOnKeeps
<1>4. CASE Attempt \/ StopAfterRun
  BY <1>4, RunGoesOn, GoingOnKeeps
<1>5. CASE KillProcesses \/ EndJobKill
  BY <1>5, KillKeeps
<1>6. CASE RestartRos
  BY <1>6, RestartKeeps
<1>7. CASE StartPlanner
  BY <1>7, StartPlannerKeeps
<1>8. CASE UNCHANGED suiteVars
  BY <1>8 DEF suiteVars, SuiteInv, SuiteTypes, Shaped, JobIsKnown, OwnAreOwn, RestIsSettled,
              SpeaksForItself, Settled, Planner
<1> QED BY <1>1, <1>2, <1>3, <1>4, <1>5, <1>6, <1>7, <1>8 DEF SuiteNext, Scripts

THEOREM SuiteInductive == SuiteSpec => []SuiteInv
<1>1. SuiteInit => SuiteInv
  BY SuiteInitInv
<1>2. SuiteInv /\ [SuiteNext]_suiteVars => SuiteInv'
  BY SuiteStepKeeps
<1> QED BY <1>1, <1>2, PTL DEF SuiteSpec

(* Every variable of the suite and of the stacks has its type: there is a  *)
(* row for planned runs only, and no process answers that does not run.    *)
THEOREM SuiteTypeCorrect == SuiteSpec => []SuiteTypes
<1>1. SuiteInv => SuiteTypes
  BY DEF SuiteInv
<1> QED BY <1>1, SuiteInductive, PTL

(* A run with OMPL or cuMotion is let go with the planner that was started *)
(* for it, and any run is measured beside what has been told to end, but   *)
(* for starts that were given up as too slow:                              *)
(* for any planners, cases and profiles, any number of runs, stacks and    *)
(* processes that linger (prepare_simple_motion_run, wait_until_ready).    *)
THEOREM RunsAreMeasuredOnTheirStack == SuiteSpec => MeasuredOnOwnStack
<1>1. SuiteInv => (main.at = "attempt" => RestIsToEnd)
  BY DEF SuiteInv, RestIsSettled, RestIsToEnd, Settled, OwnBoth
<1>2. ASSUME SuiteInv, [SuiteNext]_suiteVars
      PROVE  [LetGo => PlannerIsThere]_suiteVars
  <2> SUFFICES ASSUME SuiteNext, LetGo, Logs(Planner)
               PROVE  Speaker(Planner) \in stack[own.planner].up \/ <<Planner, TRUE>> \in logged
    BY <1>2 DEF PlannerIsThere
  <2>1. /\ logged \subseteq Lines /\ main \in MainStates
    BY <1>2, SuiteTypesAre DEF SuiteInv
  <2>2. main.at # "attempt" /\ main'.at = "attempt"
    BY DEF LetGo
  <2>3. ReadLog
    <3>1. CASE Environment
      BY <2>2, <3>1 DEF Environment
    <3>2. CASE NextJob
      BY <2>1, <2>2, <3>2 DEF NextJob, MainStates
    <3>3. CASE \/ StopSimulation \/ RosStarted \/ PlaySimulation \/ EndJobStop
               \/ WaitEnds \/ CommandFails
      BY <2>1, <2>2, <3>3 DEF StopSimulation, RosStarted, PlaySimulation, EndJobStop, WaitEnds,
                              CommandFails, GiveUpJob, At, MainStates
    <3>4. CASE LookForServers
      BY <2>1, <2>2, <3>4 DEF LookForServers, At, MainStates
    <3>5. CASE Attempt
      BY <2>2, <3>5 DEF Attempt
    <3>6. CASE StopAfterRun
      BY <2>1, <2>2, <3>6, AfterRunIs DEF StopAfterRun
    <3>7. CASE KillProcesses \/ RestartRos \/ StartPlanner \/ EndJobKill
      BY <2>1, <2>2, <3>7 DEF KillProcesses, RestartRos, StartPlanner, EndJobKill, At, MainStates
    <3> QED BY <3>1, <3>2, <3>3, <3>4, <3>5, <3>6, <3>7 DEF SuiteNext, Scripts
  <2>4. main.at = "readLog" /\ LogOf(Planner) # {}
    BY <2>1, <2>2, <2>3 DEF ReadLog, At, MainStates
  <2>5. PICK line \in logged : line[1] = Planner
    BY <2>4 DEF LogOf
  <2>6. line = <<Planner, TRUE>> \/ line = <<Planner, FALSE>>
    <3>1. line = <<Planner, line[2]>> /\ line[2] \in BOOLEAN
      BY <2>1, <2>5 DEF Lines
    <3>2. line[2] = TRUE \/ line[2] = FALSE
      BY <3>1, Zenon
    <3> QED BY <3>1, <3>2, Zenon
  <2>7. <<Planner, FALSE>> \in logged => Speaker(Planner) \in stack[own.planner].up
    BY <1>2, <2>4 DEF SuiteInv, SpeaksForItself, Looking
  <2> QED BY <2>5, <2>6, <2>7
<1> QED BY <1>1, <1>2, SuiteInductive, PTL DEF SuiteSpec, MeasuredOnOwnStack
=============================================================================
