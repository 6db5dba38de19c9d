------------------------------ MODULE WorldSync ------------------------------
(***************************************************************************)
(* The unified planner: how changes of its obstacles reach its solvers.    *)
(*                                                                         *)
(* Each change of the obstacles gets a version.  MotionGen and MPC have a  *)
(* collision world each, loaded from the obstacles, and a record of the    *)
(* version they are synchronized to.  Threads of the executor change the   *)
(* obstacles and load the worlds: the obstacle services, the services that *)
(* plan or set a planner, the hybrid MPC step service and the execution    *)
(* action.  A lock protects the versions, but not a load.                  *)
(***************************************************************************)
EXTENDS Naturals, FiniteSets

CONSTANTS PlanThreads,  \* generate_trajectory and set_planner, each with a thread
          Ground,       \* 1 if MPC's warmup has to add the ground, 0 if it is there
          MaxContent    \* bound: changes of the obstacles
ASSUME ThreadsAssumption == PlanThreads \cap {"world", "step", "execute"} = {}
ASSUME GroundAssumption == Ground \in {0, 1}
ASSUME BoundAssumption == MaxContent \in Nat

Solvers == {"motion_gen", "mpc"}
Requesters == PlanThreads \cup {"step", "execute"}
Threads == Requesters \cup {"world"}

VARIABLES content,      \* changes made to world_cfg, the first being its creation
          version,      \* _world_state_version
          pending,      \* _pending_world_version
          synced,       \* _motion_gen_world_version, _mpc_world_version
          loaded,       \* the content in the collision world of a solver, 0 if cleared
          built,        \* self.mpc is not None
          dirty,        \* _mpc_robot_geometry_dirty
          mpcActive,    \* _mpc_execution_active
          session,      \* _hybrid_mpc_session_active
          at,           \* where each thread is
          job,          \* the synchronization each thread has asked for, and its step
          raced         \* whether two loads of one solver ever overlapped, or
                        \* the obstacles changed while the MPC solver was built

versions == <<content, version>>
flags == <<built, dirty, mpcActive, session>>
vars == <<versions, pending, synced, loaded, flags, at, job, raced>>

Larger(a, b) == IF a > b THEN a ELSE b
Exists(s) == s = "mpc" => built
Job(s, v, c, step) == [solver |-> s, target |-> v, snap |-> c, step |-> step]
NoJob == Job("mpc", 0, 0, "done")
Busy(t) == job[t].step # "done"
Writing(s) == {t \in Threads : job[t].solver = s /\ job[t].step = "write"}

(* The solvers as the constructor leaves them: MotionGen is warmed up      *)
(* first, then the warmup of MPC adds the ground, unless it is there.      *)
Init ==
  /\ content = 1 + Ground /\ version = Ground /\ pending = 0
  /\ synced = [s \in Solvers |-> IF s = "mpc" THEN Ground ELSE 0]
  /\ loaded = [s \in Solvers |-> IF s = "mpc" THEN 1 + Ground ELSE 1]
  /\ built = TRUE /\ dirty = FALSE /\ mpcActive = FALSE /\ session = FALSE
  /\ at = [t \in Threads |-> "idle"]
  /\ job = [t \in Threads |-> NoJob]
  /\ raced = FALSE

Goto(t, place) == at' = [at EXCEPT ![t] = place]
Finish(t) == Goto(t, "idle") /\ job' = [job EXCEPT ![t] = NoJob]

-----------------------------------------------------------------------------
(* Mutant of BeginSync: nothing is loaded unless something is pending.     *)
BeginSyncIfPending(t, s, v) ==
  job' = [job EXCEPT ![t] =
    Job(s, v, 0, IF Exists(s) /\ synced[s] < v /\ pending # 0 THEN "read" ELSE "done")]

(* Synchronizing one solver to a version, unless it is there already:      *)
(* sync_motion_gen_world, sync_mpc_world and update_all_solvers_world.     *)
BeginSync(t, s, v) ==
  job' = [job EXCEPT ![t] = Job(s, v, 0, IF Exists(s) /\ synced[s] < v THEN "read" ELSE "done")]

(* The version is checked again, the world is cleared and the obstacles    *)
(* are read.                                                               *)
SyncRead(t) ==
  LET s == job[t].solver IN
  /\ job[t].step = "read"
  /\ IF Exists(s) /\ synced[s] < job[t].target
     THEN /\ job' = [job EXCEPT ![t].snap = content, ![t].step = "write"]
          /\ loaded' = [loaded EXCEPT ![s] = 0]
          /\ raced' = (raced \/ Writing(s) # {})
     ELSE /\ job' = [job EXCEPT ![t].step = "done"]
          /\ UNCHANGED <<loaded, raced>>
  /\ UNCHANGED <<versions, pending, synced, flags, at>>

(* Mutant of Record: the version there is, not the one that was loaded.    *)
RecordCurrent(s, v) ==
  /\ synced' = [synced EXCEPT ![s] = version]
  /\ pending' = IF pending <= synced'["mpc"] THEN 0 ELSE pending
(* Mutant of Record: nothing is pending once any solver has been loaded.   *)
RecordClears(s, v) ==
  /\ synced' = [synced EXCEPT ![s] = Larger(synced[s], v)]
  /\ pending' = 0
(* Mutant of Record: what was loaded is taken off what is pending.         *)
RecordSubtracts(s, v) ==
  /\ synced' = [synced EXCEPT ![s] = Larger(synced[s], v)]
  /\ pending' = pending - v
(* _record_solver_world_sync.                                              *)
Record(s, v) ==
  /\ synced' = [synced EXCEPT ![s] = Larger(synced[s], v)]
  /\ pending' = IF pending <= synced'["mpc"] THEN 0 ELSE pending

(* update_world fills the world of the solver, if it has not been dropped, *)
(* and the version is recorded.                                            *)
SyncWrite(t) ==
  LET s == job[t].solver IN
  /\ job[t].step = "write"
  /\ job' = [job EXCEPT ![t].snap = 0, ![t].step = "done"]
  /\ IF Exists(s)
     THEN loaded' = [loaded EXCEPT ![s] = job[t].snap] /\ Record(s, job[t].target)
     ELSE UNCHANGED <<loaded, synced, pending>>
  /\ UNCHANGED <<versions, flags, at, raced>>

Sync(t) == SyncRead(t) \/ SyncWrite(t)

-----------------------------------------------------------------------------
(* The obstacle services: change the obstacles, take a version, and update *)
(* the solvers unless MPC is executing.                                    *)
ChangeObstacles ==
  /\ at["world"] = "idle"
  /\ content < MaxContent
  /\ content' = content + 1
  /\ Goto("world", "changed")
  /\ UNCHANGED <<version, pending, synced, loaded, flags, job, raced>>

(* Mutant of RecordDirty: a change that is only staged takes no version.   *)
RecordDirtyUnlessStaged ==
  /\ at["world"] = "changed"
  /\ version' = IF mpcActive THEN version ELSE version + 1
  /\ pending' = IF version' > synced["mpc"] THEN version' ELSE pending
  /\ job' = [job EXCEPT !["world"].target = version']
  /\ Goto("world", "decide")
  /\ UNCHANGED <<content, synced, loaded, flags, raced>>
RecordDirty ==
  /\ at["world"] = "changed"
  /\ version' = version + 1
  /\ pending' = version'
  /\ job' = [job EXCEPT !["world"].target = version']
  /\ Goto("world", "decide")
  /\ UNCHANGED <<content, synced, loaded, flags, raced>>

RequestWorldUpdate ==
  /\ at["world"] = "decide"
  /\ IF mpcActive
     THEN Finish("world")
     ELSE Goto("world", "motion_gen") /\ BeginSync("world", "motion_gen", job["world"].target)
  /\ UNCHANGED <<versions, pending, synced, loaded, flags, raced>>

UpdateMpcWorld ==
  /\ at["world"] = "motion_gen" /\ ~ Busy("world")
  /\ Goto("world", "mpc")
  /\ BeginSync("world", "mpc", job["world"].target)
  /\ UNCHANGED <<versions, pending, synced, loaded, flags, raced>>

EndUpdate ==
  /\ at["world"] = "mpc" /\ ~ Busy("world")
  /\ Finish("world")
  /\ UNCHANGED <<versions, pending, synced, loaded, flags, raced>>

(* Attaching an object or toggling link collisions changes the robot.      *)
MarkGeometryDirty ==
  /\ at["world"] = "idle"
  /\ dirty' = built
  /\ UNCHANGED <<versions, pending, synced, loaded, built, mpcActive, session,
                 at, job, raced>>

(* update_motion_gen_config builds another MotionGen with the obstacles of *)
(* now, and records no version.                                            *)
SetMotionGenConfig ==
  /\ at["world"] = "idle"
  /\ loaded' = [loaded EXCEPT !["motion_gen"] = content]
  /\ raced' = (raced \/ Writing("motion_gen") # {})
  /\ UNCHANGED <<versions, pending, synced, flags, at, job>>

-----------------------------------------------------------------------------
(* _setup_planner of the thread t for the solver s, after which t is at    *)
(* the place: the solver is synchronized, after MPC was built if need be.  *)
Setup(t, s, place) ==
  IF s = "mpc" /\ (~ built \/ dirty)
  THEN /\ built' = FALSE
       /\ Goto(t, "build")
       /\ job' = [job EXCEPT ![t] = Job("mpc", version, 0, "done")]
       /\ raced' = (raced \/ Writing("mpc") # {})
  ELSE /\ Goto(t, place)
       /\ BeginSync(t, s, version)
       /\ UNCHANGED <<built, raced>>

(* _warmup_mpc: the new solver reads the obstacles.  The ground is there   *)
(* since the start.                                                        *)
BuildRead(t) ==
  /\ at[t] = "build" /\ job[t].snap = 0
  /\ job' = [job EXCEPT ![t].snap = content]
  /\ UNCHANGED <<versions, pending, synced, loaded, flags, at, raced>>

(* The solver is there, recorded at the version of now, and synchronized.  *)
BuildDone(t) ==
  /\ at[t] = "build" /\ job[t].snap # 0
  /\ built' = TRUE /\ dirty' = FALSE
  /\ loaded' = [loaded EXCEPT !["mpc"] = job[t].snap]
  /\ raced' = (raced \/ content # job[t].snap \/ Writing("mpc") # {})
  /\ Record("mpc", version)
  /\ job' = [job EXCEPT ![t].snap = 0]
  /\ Goto(t, IF t = "step" THEN "session" ELSE "solve")
  /\ UNCHANGED <<versions, mpcActive, session>>

-----------------------------------------------------------------------------
(* generate_trajectory with a planner of either solver; set_planner sets   *)
(* its solver up likewise, and solves nothing.                             *)
StartPlan(t, s) ==
  /\ at[t] = "idle"
  /\ Setup(t, s, "solve")
  /\ UNCHANGED <<versions, pending, synced, loaded, dirty, mpcActive, session>>

EndPlan(t) ==
  /\ at[t] = "solve" /\ ~ Busy(t)
  /\ Finish(t)
  /\ UNCHANGED <<versions, pending, synced, loaded, flags, raced>>

-----------------------------------------------------------------------------
(* The hybrid MPC step service, which holds _hybrid_mpc_lock throughout.   *)
StartStep ==
  /\ at["step"] = "idle"
  /\ Setup("step", "mpc", "session")
  /\ UNCHANGED <<versions, pending, synced, loaded, dirty, mpcActive, session>>

(* No joint state, no session allowed or no controller: the step fails.    *)
StepFails ==
  /\ at["step"] \in {"session", "goal"} /\ ~ Busy("step")
  /\ Finish("step")
  /\ UNCHANGED <<versions, pending, synced, loaded, flags, raced>>

StartSession ==
  /\ at["step"] = "session" /\ ~ Busy("step")
  /\ session' = TRUE
  /\ mpcActive' = (mpcActive \/ ~ session)
  /\ Goto("step", "goal")
  /\ UNCHANGED <<versions, pending, synced, loaded, built, dirty, job, raced>>

SyncBeforeSolve ==
  /\ at["step"] = "goal"
  /\ Goto("step", "solve")
  /\ BeginSync("step", "mpc", Larger(pending, version))
  /\ UNCHANGED <<versions, pending, synced, loaded, flags, raced>>

EndStep ==
  /\ at["step"] = "solve" /\ ~ Busy("step")
  /\ Finish("step")
  /\ UNCHANGED <<versions, pending, synced, loaded, flags, raced>>

(* _clear_hybrid_mpc_state: in a step whose goal fails or whose path is    *)
(* blocked, when the session is reset and when the action is cancelled.    *)
ClearHybridMpcState ==
  /\ \/ at["step"] = "idle"
     \/ at["step"] \in {"goal", "solve"} /\ ~ Busy("step")
  /\ session' = FALSE /\ mpcActive' = FALSE
  /\ Finish("step")
  /\ UNCHANGED <<versions, pending, synced, loaded, built, dirty, raced>>

-----------------------------------------------------------------------------
(* The execution action with the MPC planner: a loop of synchronizing and  *)
(* solving that ends when it converges, fails or is cancelled.             *)
StartExecute ==
  /\ at["execute"] = "idle"
  /\ mpcActive' = TRUE
  /\ Goto("execute", "loop")
  /\ UNCHANGED <<versions, pending, synced, loaded, built, dirty, session, job, raced>>

Iterating == at["execute"] \in {"loop", "solve"} /\ ~ Busy("execute")
ExecuteStep ==
  /\ Iterating
  /\ Goto("execute", "solve")
  /\ BeginSync("execute", "mpc", Larger(pending, version))
  /\ UNCHANGED <<versions, pending, synced, loaded, flags, raced>>

EndExecute ==
  /\ Iterating
  /\ mpcActive' = FALSE
  /\ Finish("execute")
  /\ UNCHANGED <<versions, pending, synced, loaded, built, dirty, session, raced>>

(* Near its goal MPC hands the motion off to a classic planner.            *)
HandOff ==
  /\ Iterating
  /\ mpcActive' = FALSE
  /\ Goto("execute", "handoff")
  /\ UNCHANGED <<versions, pending, synced, loaded, built, dirty, session, job, raced>>

StartFinisher ==
  /\ at["execute"] = "handoff"
  /\ Setup("execute", "motion_gen", "finisher")
  /\ UNCHANGED <<versions, pending, synced, loaded, dirty, mpcActive, session>>

EndFinisher ==
  /\ at["execute"] = "finisher" /\ ~ Busy("execute")
  /\ Finish("execute")
  /\ UNCHANGED <<versions, pending, synced, loaded, flags, raced>>

-----------------------------------------------------------------------------
World == ChangeObstacles \/ RecordDirty \/ RequestWorldUpdate \/ UpdateMpcWorld \/ EndUpdate
Plan(t) == (\E s \in Solvers : StartPlan(t, s)) \/ EndPlan(t)
Step == StartStep \/ StepFails \/ StartSession \/ SyncBeforeSolve \/ EndStep
Execute == StartExecute \/ ExecuteStep \/ EndExecute \/ HandOff \/ StartFinisher \/ EndFinisher
Build(t) == BuildRead(t) \/ BuildDone(t)

Next ==
  \/ World \/ MarkGeometryDirty \/ SetMotionGenConfig
  \/ \E t \in PlanThreads : Plan(t)
  \/ Step \/ ClearHybridMpcState \/ Execute
  \/ \E t \in Threads : Sync(t) \/ Build(t)

(* The threads run, and both solvers keep being asked for: trajectories    *)
(* keep being planned with MotionGen and steps of MPC requested.           *)
Fairness ==
  /\ \A t \in Threads : WF_vars(Sync(t) \/ Build(t))
  /\ WF_vars(World)
  /\ \A t \in PlanThreads : SF_vars(StartPlan(t, "motion_gen")) /\ WF_vars(EndPlan(t))
  /\ WF_vars(Step)

Spec == Init /\ [][Next]_vars
FairSpec == Spec /\ Fairness
-----------------------------------------------------------------------------
(* Type correctness of every variable.                                     *)
Jobs == [solver : Solvers, target : Nat, snap : Nat,
         step : {"done", "read", "write"}]
Places == {"idle", "changed", "decide", "motion_gen", "mpc", "build", "session", "goal", "solve", "loop",
           "handoff", "finisher"}
TypeOK ==
  /\ content \in Nat /\ version \in Nat /\ pending \in Nat
  /\ synced \in [Solvers -> Nat] /\ loaded \in [Solvers -> Nat]
  /\ built \in BOOLEAN /\ dirty \in BOOLEAN /\ mpcActive \in BOOLEAN /\ session \in BOOLEAN
  /\ at \in [Threads -> Places]
  /\ job \in [Threads -> Jobs]
  /\ raced \in BOOLEAN

(* No solver is recorded at a version that is still to come, the obstacles *)
(* are never behind the version, and nothing is pending only if MPC is     *)
(* recorded at the latest version.                                         *)
VersionsInOrder ==
  /\ version < content
  /\ \A s \in Solvers : synced[s] <= version
  /\ pending = 0 => synced["mpc"] = version

(* A solver recorded at a version has in its collision world every change  *)
(* the version stands for: nobody skips an update that is still missing.   *)
(* The code only guarantees it while loads of a solver never overlap.      *)
SyncedMeansLoaded ==
  ~ raced => \A s \in Solvers :
    Exists(s) /\ Writing(s) = {} => loaded[s] > synced[s]

(* What a request solves against has every change that had a version when  *)
(* its planner was set up or the step began to be solved, unless someone   *)
(* is loading it at that very moment.                                      *)
SolvesKnowTheWorld ==
  ~ raced => \A t \in Requesters :
    LET s == job[t].solver IN
    at[t] \in {"solve", "finisher"} /\ ~ Busy(t) /\ Exists(s) /\ Writing(s) = {} => loaded[s] > job[t].target

(* A solver that keeps being used eventually has every change, also those  *)
(* that came while MPC was executing and were only staged.                 *)
SolversCatchUp ==
  [](~ raced) => \A s \in Solvers : <>[](Exists(s) => loaded[s] = content)
=============================================================================
