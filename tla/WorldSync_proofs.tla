--------------------------- MODULE WorldSync_proofs ---------------------------
(***************************************************************************)
(* Theorems about WorldSync, for any number of changes of the obstacles    *)
(* and of callbacks that plan; and about what these obstacles are in the   *)
(* obstacle manager: how the voxels of a mesh are merged into cubes, the   *)
(* lists that objects, meshes and their cuboids are kept in, and that the  *)
(* cuboids of any mesh follow it.                                          *)
(***************************************************************************)
EXTENDS MCWorldSync, WellFoundedInduction, TLAPS

(* Versions that threads hold are versions there have been.                *)
HeldVersions ==
  /\ \A t \in Threads : job[t].target <= version
  /\ pending \in {0, version}
  /\ at["world"] = "changed" => version + 1 < content

(* Threads synchronize a solver only where they wait for it.               *)
FreeThreads ==
  \A t \in Threads :
    at[t] \in {"idle", "build", "changed", "decide", "goal", "loop", "handoff"} => ~ Busy(t)

(* Until two loads overlap, a solver has one writer at most, it is not     *)
(* dropped under the writer, and what is written is not outdated.          *)
OneWriter ==
  ~ raced =>
    /\ \A t, u \in Threads :
         /\ job[t].step = "write" /\ job[u].step = "write" /\ job[t].solver = job[u].solver
         => t = u
    /\ \A t \in Threads : job[t].step = "write" =>
         /\ Exists(job[t].solver)
         /\ job[t].snap > job[t].target
         /\ job[t].snap > synced[job[t].solver]

(* A request that has been through its setup has its solver synchronized   *)
(* to what it asked for, or is about to; only MPC is ever built again.     *)
SetUpFor(t) ==
  /\ at[t] = "build" => job[t].solver = "mpc"
  /\ at[t] \in {"session", "goal", "solve", "finisher"} /\ Exists(job[t].solver) =>
       synced[job[t].solver] >= job[t].target \/ Busy(t)
SetUp == \A t \in Requesters : SetUpFor(t)

IInv ==
  /\ TypeOK /\ VersionsInOrder /\ HeldVersions /\ FreeThreads
  /\ OneWriter /\ SetUp /\ SyncedMeansLoaded

-----------------------------------------------------------------------------
(* Asking for a synchronization writes nothing yet, and asks for what is   *)
(* missing.                                                                *)
LEMMA BeginSyncShape ==
  ASSUME TypeOK, NEW t \in Threads, NEW s \in Solvers, NEW v \in Nat, BeginSync(t, s, v)
  PROVE  /\ job' \in [Threads -> Jobs]
         /\ \A u \in Threads : u # t => job'[u] = job[u]
         /\ job'[t].solver = s /\ job'[t].step # "write" /\ job'[t].target = v
         /\ Exists(s) => synced[s] >= v \/ job'[t].step # "done"
BY DEF TypeOK, BeginSync, Job, Jobs

(* While nobody starts or ends a write, and the solvers and the versions   *)
(* stay as they are, what is said about writers and worlds stays true.     *)
LEMMA NoWriteNoChange ==
  ASSUME IInv, UNCHANGED <<versions, pending, synced, loaded, built, raced>>,
         \A t \in Threads : \/ job'[t] = job[t]
                            \/ job[t].step # "write" /\ job'[t].step # "write"
  PROVE  VersionsInOrder' /\ OneWriter' /\ SyncedMeansLoaded'
<1>1. VersionsInOrder'
  BY DEF IInv, VersionsInOrder, versions
<1>2. \A s \in Solvers : Writing(s)' = Writing(s)
  BY DEF Writing
<1>3. OneWriter'
  BY DEF IInv, OneWriter, Exists
<1>4. SyncedMeansLoaded'
  BY <1>2 DEF IInv, SyncedMeansLoaded, Exists
<1> QED BY <1>1, <1>3, <1>4

(* A thread that finishes its request disturbs nothing.                    *)
LEMMA Finishing ==
  ASSUME IInv, NEW t \in Threads, ~ Busy(t), Finish(t),
         dirty' \in BOOLEAN, mpcActive' \in BOOLEAN, session' \in BOOLEAN,
         UNCHANGED <<versions, pending, synced, loaded, built, raced>>
  PROVE  IInv'
<1> USE DEF Finish, Goto, NoJob, Job, versions
<1>1. TypeOK'
  BY DEF IInv, TypeOK, Places, Jobs, Solvers
<1>2. VersionsInOrder' /\ OneWriter' /\ SyncedMeansLoaded'
  <2>1. \A u \in Threads : \/ job'[u] = job[u]
                           \/ job[u].step # "write" /\ job'[u].step # "write"
    BY DEF IInv, TypeOK, Busy
  <2> QED BY <2>1, NoWriteNoChange
<1>3. HeldVersions'
  BY DEF IInv, TypeOK, HeldVersions
<1>4. FreeThreads'
  BY DEF IInv, TypeOK, FreeThreads, Busy
<1>5. SetUp'
  BY DEF IInv, TypeOK, SetUp, SetUpFor, Exists, Busy, Threads
<1> QED BY <1>1, <1>2, <1>3, <1>4, <1>5 DEF IInv

(* A free thread may go on to a place while it asks for a synchronization. *)
LEMMA Requesting ==
  ASSUME IInv, NEW t \in Threads, NEW s \in Solvers, NEW v \in Nat, v <= version,
         NEW place \in {"motion_gen", "mpc", "session", "solve", "finisher"},
         ~ Busy(t), Goto(t, place), BeginSync(t, s, v),
         UNCHANGED <<versions, pending, synced, loaded, flags, raced>>
  PROVE  IInv'
<1> USE DEF Goto, versions, flags
<1>1. TypeOK'
  BY BeginSyncShape DEF IInv, TypeOK, Places
<1>2. VersionsInOrder' /\ OneWriter' /\ SyncedMeansLoaded'
  <2>1. \A u \in Threads : \/ job'[u] = job[u]
                           \/ job[u].step # "write" /\ job'[u].step # "write"
    BY BeginSyncShape DEF IInv, Busy
  <2> QED BY <2>1, NoWriteNoChange
<1>3. HeldVersions'
  BY BeginSyncShape DEF IInv, TypeOK, HeldVersions
<1>4. FreeThreads'
  BY BeginSyncShape DEF IInv, TypeOK, FreeThreads, Busy
<1>5. SetUp'
  <2> SUFFICES ASSUME NEW u \in Requesters PROVE SetUpFor(u)'
    BY DEF SetUp
  <2>1. CASE u = t
    BY <2>1, BeginSyncShape DEF IInv, TypeOK, SetUpFor, Busy, Exists
  <2>2. CASE u # t
    BY <2>2, BeginSyncShape DEF IInv, TypeOK, SetUp, SetUpFor, Busy, Exists, Threads
  <2> QED BY <2>1, <2>2
<1> QED BY <1>1, <1>2, <1>3, <1>4, <1>5 DEF IInv

-----------------------------------------------------------------------------
(* Init and every action keep the invariant.                               *)
LEMMA InitIInv == Init => IInv
<1> SUFFICES ASSUME Init PROVE IInv
  OBVIOUS
<1> USE GroundAssumption DEF Init, NoJob, Job, Busy, Writing, Exists, Solvers
<1>1. TypeOK
  <2>1. content \in Nat /\ version \in Nat /\ pending \in Nat
    OBVIOUS
  <2>2. synced \in [Solvers -> Nat] /\ loaded \in [Solvers -> Nat]
    OBVIOUS
  <2>3. job \in [Threads -> Jobs] /\ at \in [Threads -> Places]
    BY DEF Jobs, Places
  <2>4. built \in BOOLEAN /\ dirty \in BOOLEAN /\ mpcActive \in BOOLEAN
        /\ session \in BOOLEAN /\ raced \in BOOLEAN
    OBVIOUS
  <2> QED BY <2>1, <2>2, <2>3, <2>4 DEF TypeOK
<1>2. VersionsInOrder /\ SyncedMeansLoaded
  BY DEF VersionsInOrder, SyncedMeansLoaded
<1>3. HeldVersions
  BY DEF HeldVersions, Threads
<1>4. FreeThreads /\ OneWriter /\ SetUp
  BY DEF FreeThreads, OneWriter, SetUp, SetUpFor, Threads
<1> QED BY <1>1, <1>2, <1>3, <1>4 DEF IInv

LEMMA SyncReadStep ==
  ASSUME IInv, NEW t \in Threads, SyncRead(t)
  PROVE  IInv'
<1> USE DEF SyncRead, Exists, versions, flags
<1>1. TypeOK'
  BY DEF IInv, TypeOK, Jobs
<1>2. VersionsInOrder'
  BY DEF IInv, VersionsInOrder
<1>3. HeldVersions'
  BY <1>1 DEF IInv, TypeOK, HeldVersions, Threads, Jobs
<1>4. FreeThreads'
  BY DEF IInv, TypeOK, FreeThreads, Busy
<1>5. OneWriter'
  BY <1>1 DEF IInv, TypeOK, VersionsInOrder, HeldVersions, OneWriter, Writing, Jobs, Solvers
<1>6. SetUp'
  BY DEF IInv, TypeOK, SetUp, SetUpFor, Busy, Threads, Jobs
<1>7. SyncedMeansLoaded'
  BY <1>1 DEF IInv, TypeOK, OneWriter, SyncedMeansLoaded, Writing, Threads, Solvers, Jobs
<1> QED BY <1>1, <1>2, <1>3, <1>4, <1>5, <1>6, <1>7 DEF IInv

LEMMA SyncWriteStep ==
  ASSUME IInv, NEW t \in Threads, SyncWrite(t)
  PROVE  IInv'
<1> USE DEF SyncWrite, Record, Larger, Exists, versions, flags
<1>1. TypeOK'
  BY DEF IInv, TypeOK, Jobs, Solvers
<1>2. VersionsInOrder'
  BY DEF IInv, TypeOK, VersionsInOrder, HeldVersions, Jobs, Solvers
<1>3. HeldVersions'
  BY DEF IInv, TypeOK, HeldVersions, Threads
<1>4. FreeThreads'
  BY DEF IInv, TypeOK, FreeThreads, Busy
<1>5. OneWriter'
  BY <1>1 DEF IInv, TypeOK, OneWriter, Jobs
<1>6. SetUp'
  BY <1>1 DEF IInv, TypeOK, SetUp, SetUpFor, Busy, Threads, Jobs, Solvers
<1>7. SyncedMeansLoaded'
  BY <1>1 DEF IInv, TypeOK, OneWriter, SyncedMeansLoaded, Writing, Threads, Solvers, Jobs
<1> QED BY <1>1, <1>2, <1>3, <1>4, <1>5, <1>6, <1>7 DEF IInv

(* The services that change what there is: a version follows its change.   *)
LEMMA ChangeObstaclesStep ==
  ASSUME IInv, ChangeObstacles
  PROVE  IInv'
<1> USE DEF ChangeObstacles, Goto, flags, Threads
<1>1. TypeOK'
  BY DEF IInv, TypeOK, Places
<1>2. VersionsInOrder' /\ HeldVersions'
  BY DEF IInv, TypeOK, VersionsInOrder, HeldVersions, Threads
<1>3. FreeThreads' /\ SetUp'
  BY DEF IInv, TypeOK, FreeThreads, SetUp, SetUpFor, Busy, Exists, Threads
<1>4. OneWriter' /\ SyncedMeansLoaded'
  BY DEF IInv, OneWriter, SyncedMeansLoaded, Exists, Writing
<1> QED BY <1>1, <1>2, <1>3, <1>4 DEF IInv

LEMMA RecordDirtyStep ==
  ASSUME IInv, RecordDirty
  PROVE  IInv'
<1> USE DEF RecordDirty, Goto, flags, Threads
<1>1. TypeOK'
  BY DEF IInv, TypeOK, Places, Jobs
<1>2. VersionsInOrder'
  BY DEF IInv, TypeOK, VersionsInOrder, HeldVersions
<1>3. HeldVersions'
  BY DEF IInv, TypeOK, HeldVersions, Jobs
<1>4. FreeThreads' /\ SetUp'
  BY DEF IInv, TypeOK, FreeThreads, SetUp, SetUpFor, Busy, Exists
<1>5. OneWriter' /\ SyncedMeansLoaded'
  <2>1. job["world"].step # "write"
    BY DEF IInv, FreeThreads, Busy
  <2>2. \A t \in Threads : /\ job'[t].step = job[t].step /\ job'[t].solver = job[t].solver
                           /\ job'[t].snap = job[t].snap
                           /\ job[t].step = "write" => job'[t] = job[t]
    BY <2>1 DEF IInv, TypeOK, Jobs
  <2>3. \A s \in Solvers : Writing(s)' = Writing(s)
    BY <2>2 DEF Writing
  <2>4. OneWriter'
    BY <2>2 DEF IInv, OneWriter, Exists
  <2>5. SyncedMeansLoaded'
    BY <2>3 DEF IInv, SyncedMeansLoaded, Exists
  <2> QED BY <2>4, <2>5
<1> QED BY <1>1, <1>2, <1>3, <1>4, <1>5 DEF IInv

LEMMA MarkGeometryDirtyStep ==
  ASSUME IInv, MarkGeometryDirty
  PROVE  IInv'
<1> USE DEF MarkGeometryDirty, versions
<1>1. TypeOK'
  BY DEF IInv, TypeOK
<1>2. VersionsInOrder' /\ OneWriter' /\ SyncedMeansLoaded'
  BY NoWriteNoChange
<1>3. HeldVersions' /\ FreeThreads' /\ SetUp'
  BY DEF IInv, HeldVersions, FreeThreads, SetUp, SetUpFor, Busy, Exists
<1> QED BY <1>1, <1>2, <1>3 DEF IInv

LEMMA SetMotionGenConfigStep ==
  ASSUME IInv, SetMotionGenConfig
  PROVE  IInv'
<1> USE DEF SetMotionGenConfig, versions, flags
<1>1. TypeOK'
  BY DEF IInv, TypeOK
<1>2. VersionsInOrder' /\ HeldVersions'
  BY DEF IInv, VersionsInOrder, HeldVersions
<1>3. FreeThreads' /\ SetUp'
  BY DEF IInv, FreeThreads, SetUp, SetUpFor, Busy, Exists
<1>4. OneWriter'
  BY DEF IInv, OneWriter, Exists
<1>5. SyncedMeansLoaded'
  BY DEF IInv, TypeOK, VersionsInOrder, SyncedMeansLoaded, Exists, Writing, Solvers
<1> QED BY <1>1, <1>2, <1>3, <1>4, <1>5 DEF IInv

(* Building the MPC solver.                                                *)
LEMMA BuildReadStep ==
  ASSUME IInv, NEW t \in Threads, BuildRead(t)
  PROVE  IInv'
<1> USE DEF BuildRead, versions, flags
<1>1. TypeOK'
  BY DEF IInv, TypeOK, Jobs
<1>2. VersionsInOrder'
  BY DEF IInv, VersionsInOrder
<1>3. HeldVersions'
  BY DEF IInv, TypeOK, HeldVersions, Threads, Jobs
<1>4. FreeThreads'
  BY DEF IInv, TypeOK, FreeThreads, Busy
<1>5. OneWriter'
  BY DEF IInv, TypeOK, FreeThreads, OneWriter, Busy, Exists, Jobs
<1>6. SetUp'
  BY DEF IInv, TypeOK, SetUp, SetUpFor, Busy, Exists, Threads, Jobs
<1>7. SyncedMeansLoaded'
  BY DEF IInv, TypeOK, SyncedMeansLoaded, Exists, Writing, Jobs
<1> QED BY <1>1, <1>2, <1>3, <1>4, <1>5, <1>6, <1>7 DEF IInv

LEMMA BuildDoneStep ==
  ASSUME IInv, NEW t \in Threads, BuildDone(t)
  PROVE  IInv'
<1> USE DEF BuildDone, Record, Larger, Goto, versions, Solvers
<1>1. TypeOK'
  <2>1. synced' \in [Solvers -> Nat] /\ pending' \in Nat
    BY DEF IInv, TypeOK
  <2>2. job' \in [Threads -> Jobs] /\ loaded' \in [Solvers -> Nat]
    BY DEF IInv, TypeOK, Jobs
  <2>3. at' \in [Threads -> Places] /\ raced' \in BOOLEAN
    BY DEF IInv, TypeOK, Places
  <2> QED BY <2>1, <2>2, <2>3 DEF IInv, TypeOK
<1>2. VersionsInOrder'
  BY DEF IInv, TypeOK, VersionsInOrder, HeldVersions
<1>3. HeldVersions'
  BY DEF IInv, TypeOK, HeldVersions, Threads
<1>4. FreeThreads'
  BY DEF IInv, TypeOK, FreeThreads, Busy
<1>5. OneWriter'
  BY DEF IInv, TypeOK, FreeThreads, OneWriter, Busy, Exists, Writing, Jobs
<1>6. SetUp'
  BY DEF IInv, TypeOK, VersionsInOrder, HeldVersions, SetUp, SetUpFor, Busy, Exists, Threads, Jobs
<1>7. SyncedMeansLoaded'
  <2>1. \A s \in Solvers : Writing(s)' = Writing(s)
    BY DEF IInv, TypeOK, FreeThreads, Busy, Writing
  <2>2. ~ raced' => ~ raced /\ content = job[t].snap
    OBVIOUS
  <2>3. synced'["mpc"] = version /\ loaded'["mpc"] = job[t].snap /\ content > version
    BY DEF IInv, TypeOK, VersionsInOrder
  <2>4. synced'["motion_gen"] = synced["motion_gen"]
        /\ loaded'["motion_gen"] = loaded["motion_gen"]
    BY DEF IInv, TypeOK
  <2> QED BY <2>1, <2>2, <2>3, <2>4 DEF IInv, SyncedMeansLoaded, Exists
<1> QED BY <1>1, <1>2, <1>3, <1>4, <1>5, <1>6, <1>7 DEF IInv

(* Setting a planner up drops the MPC solver or asks for what is missing.  *)
LEMMA SetupStep ==
  ASSUME IInv, NEW t \in Threads, NEW s \in Solvers,
         NEW place \in {"session", "solve", "finisher"}, ~ Busy(t), Setup(t, s, place),
         UNCHANGED <<versions, pending, synced, loaded, dirty, mpcActive, session>>
  PROVE  IInv'
<1>1. CASE s = "mpc" /\ (~ built \/ dirty)
  <2> USE <1>1 DEF Setup, Goto, Job, versions
  <2>1. TypeOK'
    <3>1. job' \in [Threads -> Jobs] /\ at' \in [Threads -> Places]
      BY DEF IInv, TypeOK, Jobs, Places
    <3>2. raced' \in BOOLEAN /\ built' \in BOOLEAN
      BY DEF IInv, TypeOK
    <3> QED BY <3>1, <3>2 DEF IInv, TypeOK
  <2>2. VersionsInOrder'
    BY DEF IInv, VersionsInOrder
  <2>3. HeldVersions'
    BY DEF IInv, TypeOK, HeldVersions, Threads
  <2>4. FreeThreads'
    BY DEF IInv, TypeOK, FreeThreads, Busy
  <2>5. OneWriter'
    BY DEF IInv, TypeOK, OneWriter, Busy, Exists, Writing
  <2>6. SetUp'
    BY DEF IInv, TypeOK, SetUp, SetUpFor, Busy, Exists, Threads
  <2>7. SyncedMeansLoaded'
    BY DEF IInv, TypeOK, SyncedMeansLoaded, Busy, Exists, Writing
  <2> QED BY <2>1, <2>2, <2>3, <2>4, <2>5, <2>6, <2>7 DEF IInv
<1>2. CASE ~ (s = "mpc" /\ (~ built \/ dirty))
  <2>1. Goto(t, place) /\ BeginSync(t, s, version) /\ UNCHANGED <<built, raced>>
    BY <1>2 DEF Setup
  <2>2. version \in Nat /\ version <= version
    BY DEF IInv, TypeOK
  <2> QED BY <2>1, <2>2, Requesting DEF versions, flags
<1> QED BY <1>1, <1>2

-----------------------------------------------------------------------------
LEMMA WorldStep ==
  ASSUME IInv, World
  PROVE  IInv'
<1>1. "world" \in Threads /\ Solvers = {"motion_gen", "mpc"}
  BY DEF Threads, Solvers
<1>2. job["world"].target \in Nat /\ job["world"].target <= version
  BY <1>1 DEF IInv, TypeOK, HeldVersions, Jobs
<1>3. CASE ChangeObstacles \/ RecordDirty
  BY <1>3, ChangeObstaclesStep, RecordDirtyStep
<1>4. CASE RequestWorldUpdate
  <2>1. ~ Busy("world")
    BY <1>1, <1>4 DEF RequestWorldUpdate, IInv, FreeThreads
  <2>2. CASE mpcActive
    BY <1>1, <1>4, <2>1, <2>2, Finishing DEF RequestWorldUpdate, IInv, TypeOK, versions, flags
  <2>3. CASE ~ mpcActive
    BY <1>1, <1>2, <1>4, <2>1, <2>3, Requesting DEF RequestWorldUpdate
  <2> QED BY <2>2, <2>3
<1>5. CASE UpdateMpcWorld
  BY <1>1, <1>2, <1>5, Requesting DEF UpdateMpcWorld
<1>6. CASE EndUpdate
  BY <1>1, <1>6, Finishing DEF EndUpdate, IInv, TypeOK, versions, flags
<1> QED BY <1>3, <1>4, <1>5, <1>6 DEF World

LEMMA PlanStep ==
  ASSUME IInv, NEW t \in PlanThreads, Plan(t)
  PROVE  IInv'
<1>1. t \in Threads
  BY DEF Threads, Requesters
<1>2. ASSUME NEW s \in Solvers, StartPlan(t, s) PROVE IInv'
  <2>1. ~ Busy(t)
    BY <1>1, <1>2 DEF StartPlan, IInv, FreeThreads
  <2> QED BY <1>1, <1>2, <2>1, SetupStep DEF StartPlan
<1>3. CASE EndPlan(t)
  BY <1>1, <1>3, Finishing DEF EndPlan, versions, flags, IInv, TypeOK
<1> QED BY <1>2, <1>3 DEF Plan

(* Where a thread only moves on, and flags change, nothing is disturbed.   *)
LEMMA MovingOn ==
  ASSUME IInv, NEW t \in Threads, NEW place \in {"goal", "loop", "handoff"}, ~ Busy(t),
         Goto(t, place), place = "goal" => at[t] = "session",
         mpcActive' \in BOOLEAN, session' \in BOOLEAN,
         UNCHANGED <<versions, pending, synced, loaded, built, dirty, job, raced>>
  PROVE  IInv'
<1> USE DEF Goto, versions
<1>1. TypeOK'
  BY DEF IInv, TypeOK, Places
<1>2. VersionsInOrder' /\ OneWriter' /\ SyncedMeansLoaded'
  BY NoWriteNoChange
<1>3. HeldVersions' /\ FreeThreads'
  BY DEF IInv, TypeOK, HeldVersions, FreeThreads, Busy
<1>4. SetUp'
  BY DEF IInv, TypeOK, SetUp, SetUpFor, Busy, Exists, Threads
<1> QED BY <1>1, <1>2, <1>3, <1>4 DEF IInv

LEMMA StepStep ==
  ASSUME IInv, Step \/ ClearHybridMpcState
  PROVE  IInv'
<1>1. "step" \in Threads /\ "mpc" \in Solvers
  BY DEF Threads, Requesters, Solvers
<1>2. CASE StartStep
  <2>1. ~ Busy("step")
    BY <1>1, <1>2 DEF StartStep, IInv, FreeThreads
  <2> QED BY <1>1, <1>2, <2>1, SetupStep DEF StartStep
<1>3. CASE StepFails \/ EndStep
  BY <1>1, <1>3, Finishing DEF StepFails, EndStep, versions, flags, IInv, TypeOK
<1>4. CASE StartSession
  BY <1>1, <1>4, MovingOn DEF StartSession, IInv, TypeOK
<1>5. CASE SyncBeforeSolve
  <2>1. ~ Busy("step")
    BY <1>1, <1>5 DEF SyncBeforeSolve, IInv, FreeThreads
  <2>2. Larger(pending, version) = version /\ version \in Nat /\ version <= version
    BY DEF Larger, IInv, TypeOK, HeldVersions
  <2> QED BY <1>1, <1>5, <2>1, <2>2, Requesting DEF SyncBeforeSolve
<1>6. CASE ClearHybridMpcState
  <2>1. ~ Busy("step")
    BY <1>1, <1>6 DEF ClearHybridMpcState, IInv, FreeThreads
  <2> QED BY <1>1, <1>6, <2>1, Finishing DEF ClearHybridMpcState, versions, IInv, TypeOK
<1> QED BY <1>2, <1>3, <1>4, <1>5, <1>6 DEF Step

LEMMA ExecuteActions ==
  ASSUME IInv, Execute
  PROVE  IInv'
<1>1. "execute" \in Threads /\ {"motion_gen", "mpc"} \subseteq Solvers
  BY DEF Threads, Requesters, Solvers
<1>2. CASE StartExecute
  <2>1. ~ Busy("execute")
    BY <1>1, <1>2 DEF StartExecute, IInv, FreeThreads
  <2> QED BY <1>1, <1>2, <2>1, MovingOn DEF StartExecute, IInv, TypeOK
<1>3. CASE ExecuteStep
  <2>1. Larger(pending, version) = version /\ version \in Nat /\ version <= version
    BY DEF Larger, IInv, TypeOK, HeldVersions
  <2> QED BY <1>1, <1>3, <2>1, Requesting DEF ExecuteStep, Iterating
<1>4. CASE EndExecute \/ EndFinisher
  BY <1>1, <1>4, Finishing DEF EndExecute, EndFinisher, Iterating, versions, flags, IInv, TypeOK
<1>5. CASE HandOff
  BY <1>1, <1>5, MovingOn DEF HandOff, Iterating, IInv, TypeOK
<1>6. CASE StartFinisher
  <2>1. ~ Busy("execute")
    BY <1>1, <1>6 DEF StartFinisher, IInv, FreeThreads
  <2> QED BY <1>1, <1>6, <2>1, SetupStep DEF StartFinisher
<1> QED BY <1>2, <1>3, <1>4, <1>5, <1>6 DEF Execute

LEMMA NextKeepsIInv == IInv /\ [Next]_vars => IInv'
<1> SUFFICES ASSUME IInv, [Next]_vars PROVE IInv'
  OBVIOUS
<1>1. CASE UNCHANGED vars
  BY <1>1 DEF vars, versions, flags, IInv, TypeOK, VersionsInOrder, HeldVersions, FreeThreads,
              OneWriter, SetUp, SetUpFor, SyncedMeansLoaded, Busy, Exists, Writing
<1>2. ASSUME NEW t \in Threads, Sync(t) \/ Build(t) PROVE IInv'
  BY <1>2, SyncReadStep, SyncWriteStep, BuildReadStep, BuildDoneStep DEF Sync, Build
<1> QED BY <1>1, <1>2, WorldStep, MarkGeometryDirtyStep, SetMotionGenConfigStep,
        PlanStep, StepStep, ExecuteActions DEF Next

-----------------------------------------------------------------------------
(* Every state the planner reaches satisfies the invariant.                *)
THEOREM Inductive == Spec => []IInv
<1> QED BY InitIInv, NextKeepsIInv, PTL DEF Spec

(* The variables keep their types.                                         *)
THEOREM TypeCorrect == Spec => []TypeOK
<1>1. IInv => TypeOK
  BY DEF IInv
<1> QED BY <1>1, Inductive, PTL

(* No record of a synchronization is ahead of the version, no version is   *)
(* ahead of the obstacles, and what is pending is known to be.             *)
THEOREM VersionsStayInOrder == Spec => []VersionsInOrder
<1>1. IInv => VersionsInOrder
  BY DEF IInv
<1> QED BY <1>1, Inductive, PTL

(* While no two loads of one solver overlap, a record of a synchronization *)
(* is true: it is the lock the code lacks that this depends on.            *)
THEOREM RecordsAreTrue == Spec => []SyncedMeansLoaded
<1>1. IInv => SyncedMeansLoaded
  BY DEF IInv
<1> QED BY <1>1, Inductive, PTL

(* While no two loads of one solver overlap, no request is solved against  *)
(* a world older than the one it came into.                                *)
THEOREM RequestsKnowTheWorld == Spec => []SolvesKnowTheWorld
<1>1. IInv => SolvesKnowTheWorld
  <2> SUFFICES ASSUME IInv, ~ raced, NEW t \in Requesters,
                      at[t] \in {"solve", "finisher"}, ~ Busy(t), Exists(job[t].solver),
                      Writing(job[t].solver) = {}
               PROVE  loaded[job[t].solver] > job[t].target
    BY DEF SolvesKnowTheWorld
  <2>1. t \in Threads /\ job[t].solver \in Solvers /\ job[t].target \in Nat
    BY DEF IInv, TypeOK, Jobs, Threads
  <2>2. loaded[job[t].solver] > synced[job[t].solver]
    BY <2>1 DEF IInv, SyncedMeansLoaded
  <2>3. synced[job[t].solver] >= job[t].target
    BY DEF IInv, SetUp, SetUpFor
  <2>4. loaded[job[t].solver] \in Nat /\ synced[job[t].solver] \in Nat
    BY <2>1 DEF IInv, TypeOK
  <2> QED BY <2>1, <2>2, <2>3, <2>4
<1> QED BY <1>1, Inductive, PTL

-----------------------------------------------------------------------------
(* The cuboids of meshes.                                                  *)
Vector == Int \X Int \X Int
Poses == [at : Vector, quat : 0 .. 3]

(* What the voxels of a mesh are merged into: no two cubes have the same   *)
(* corner, hence no two of their cuboids the same name.                    *)
AreCubes(cubes) ==
  /\ cubes \subseteq [corner : Vector, size : Nat]
  /\ \A c, d \in cubes : c.corner = d.corner => c = d

(* The lists are those of objects, boxes and meshes, and of what the       *)
(* meshes consist of: a name is listed when it is found, and found once;   *)
(* a cuboid that is part of a mesh has its offset, and it is where the     *)
(* pose of the mesh puts this offset.                                      *)
NamesAreListed(store) ==
  store.names = {b.name : b \in store.cuboid} \cup {m.name : m \in store.mesh}
NamesAreUnique(store) ==
  /\ \A b \in store.cuboid, m \in store.mesh : b.name # m.name
  /\ \A b, c \in store.cuboid : b.name = c.name => b = c
  /\ \A l, m \in store.mesh : l.name = m.name => l = m
IsObject(name) == \E n : name = <<n>>
MeshesAreKnown(store) ==
  /\ \A m \in store.mesh : IsObject(m.name) /\ m.pose \in Poses
  /\ \A b \in store.cuboid : IsObject(b.name) \/ \E o \in store.offsets : o.name = b.name
  /\ \A o \in store.offsets :
       /\ \E m \in store.mesh : m.name = o.mesh
       /\ \E n : o.name = <<o.mesh[1], n>>
       /\ o.offset \in Vector
  /\ \A o, p \in store.offsets : o.name = p.name => o = p
PartsArePlaced(store) ==
  \A m \in store.mesh, o \in store.offsets, b \in store.cuboid :
    o.mesh = m.name /\ b.name = o.name =>
      b.at = DerivedCentre(o.offset, m.pose)
HasLists(store) ==
  store = [mesh |-> store.mesh, cuboid |-> store.cuboid, names |-> store.names, offsets |-> store.offsets]
Records(store) ==
  /\ HasLists(store)
  /\ \A m \in store.mesh : m = [name |-> m.name, pose |-> m.pose]
  /\ \A b \in store.cuboid : b = [name |-> b.name, at |-> b.at, quat |-> b.quat, size |-> b.size]
  /\ \A o \in store.offsets : o = [mesh |-> o.mesh, name |-> o.name, offset |-> o.offset]
Consistent(store) ==
  /\ Records(store)
  /\ NamesAreListed(store)
  /\ NamesAreUnique(store)
  /\ MeshesAreKnown(store)
  /\ PartsArePlaced(store)

LEMMA TurnsBack ==
  ASSUME NEW quat \in 0 .. 3, NEW p \in Vector
  PROVE  /\ TurnBack(quat, p) \in Vector
         /\ Turn(quat, TurnBack(quat, p)) = p
<1>1. PICK x \in Int, y \in Int, z \in Int : p = <<x, y, z>>
  BY DEF Vector
<1>2. CASE quat = 0
  BY <1>1, <1>2 DEF Turn, TurnBack, Vector
<1>3. CASE quat = 1
  <2>1. TurnBack(quat, p) = <<y, -x, z>>
    BY <1>1, <1>3 DEF Turn, TurnBack
  <2> QED BY <1>1, <1>3, <2>1 DEF Turn, Vector
<1>4. CASE quat = 2
  <2>1. TurnBack(quat, p) = <<-x, -y, z>>
    BY <1>1, <1>4 DEF Turn, TurnBack
  <2> QED BY <1>1, <1>4, <2>1 DEF Turn, Vector
<1>5. CASE quat = 3
  <2>1. TurnBack(quat, p) = <<-y, x, z>>
    BY <1>1, <1>5 DEF Turn, TurnBack
  <2> QED BY <1>1, <1>5, <2>1 DEF Turn, Vector
<1> QED BY <1>2, <1>3, <1>4, <1>5

LEMMA OffsetsPlace ==
  ASSUME NEW pose \in Poses, NEW p \in Vector
  PROVE  LET offset == TurnBack(pose.quat, Minus(p, pose.at))
         IN  offset \in Vector /\ DerivedCentre(offset, pose) = p
<1> DEFINE d == Minus(p, pose.at)
<1>1. pose.quat \in 0 .. 3 /\ pose.at \in Vector
  BY DEF Poses
<1>2. PICK x \in Int, y \in Int, z \in Int : p = <<x, y, z>>
  BY DEF Vector
<1>3. PICK u \in Int, v \in Int, w \in Int : pose.at = <<u, v, w>>
  BY <1>1 DEF Vector
<1>4. d = <<x - u, y - v, z - w>> /\ d \in Vector
  BY <1>2, <1>3 DEF Minus, Vector
<1>5. Plus(pose.at, d) = p
  BY <1>2, <1>3, <1>4 DEF Plus
<1>6. TurnBack(pose.quat, d) \in Vector /\ Turn(pose.quat, TurnBack(pose.quat, d)) = d
  BY <1>1, <1>4, TurnsBack
<1> QED BY <1>5, <1>6 DEF DerivedCentre

LEMMA NewNamesAreNew ==
  ASSUME NEW store, Consistent(store), NEW name, <<name>> \notin store.names
  PROVE  /\ \A n : <<name, n>> \notin store.names
         /\ \A o \in store.offsets : o.mesh # <<name>>
         /\ \A o \in store.offsets : \A n : o.name # <<name, n>>
<1>1. \A o \in store.offsets : o.mesh # <<name>>
  BY DEF Consistent, NamesAreListed, MeshesAreKnown
<1>2. ASSUME NEW o \in store.offsets, NEW n, o.name = <<name, n>>
      PROVE  FALSE
  <2>1. PICK k : o.name = <<o.mesh[1], k>>
    BY DEF Consistent, MeshesAreKnown
  <2>2. PICK m \in store.mesh : m.name = o.mesh
    BY DEF Consistent, MeshesAreKnown
  <2>3. PICK l : m.name = <<l>>
    BY DEF Consistent, MeshesAreKnown, IsObject
  <2>4. l = name
    BY <1>2, <2>1, <2>2, <2>3
  <2> QED BY <1>1, <2>2, <2>3, <2>4
<1>3. ASSUME NEW n, <<name, n>> \in store.names
      PROVE  FALSE
  <2>1. ~ IsObject(<<name, n>>)
    BY DEF IsObject
  <2>2. PICK b \in store.cuboid : b.name = <<name, n>>
    BY <1>3, <2>1 DEF Consistent, NamesAreListed, MeshesAreKnown
  <2>3. \E o \in store.offsets : o.name = <<name, n>>
    BY <2>1, <2>2 DEF Consistent, MeshesAreKnown
  <2> QED BY <1>2, <2>3
<1> QED BY <1>1, <1>2, <1>3

-----------------------------------------------------------------------------
LEMMA EmptyIsConsistent == Consistent(EmptyStore)
BY DEF EmptyStore, Consistent, Records, HasLists, NamesAreListed, NamesAreUnique, MeshesAreKnown, PartsArePlaced

LEMMA ListsExtended ==
  ASSUME NEW store, HasLists(store), NEW C, NEW N
  PROVE  [store EXCEPT !.cuboid = @ \cup C, !.names = @ \cup N]
           = [mesh |-> store.mesh, cuboid |-> store.cuboid \cup C, names |-> store.names \cup N,
              offsets |-> store.offsets]
<1> DEFINE after == [store EXCEPT !.cuboid = @ \cup C, !.names = @ \cup N]
<1>1. store \in [mesh : {store.mesh}, cuboid : {store.cuboid}, names : {store.names}, offsets : {store.offsets}]
  BY DEF HasLists
<1>2. after \in [mesh : {store.mesh}, cuboid : {store.cuboid \cup C}, names : {store.names \cup N},
                 offsets : {store.offsets}]
  BY <1>1
<1> HIDE DEF after
<1>3. after = [mesh |-> after.mesh, cuboid |-> after.cuboid, names |-> after.names, offsets |-> after.offsets]
  BY <1>2
<1>4. /\ after.mesh = store.mesh /\ after.cuboid = store.cuboid \cup C
      /\ after.names = store.names \cup N /\ after.offsets = store.offsets
  BY <1>2
<1>5. after = [mesh |-> store.mesh, cuboid |-> store.cuboid \cup C, names |-> store.names \cup N,
               offsets |-> store.offsets]
  BY <1>3, <1>4
<1> QED BY <1>5 DEF after

LEMMA ListsReplaced ==
  ASSUME NEW store, HasLists(store), NEW C, NEW M
  PROVE  /\ [store EXCEPT !.cuboid = C]
              = [mesh |-> store.mesh, cuboid |-> C, names |-> store.names, offsets |-> store.offsets]
         /\ [store EXCEPT !.mesh = M]
              = [mesh |-> M, cuboid |-> store.cuboid, names |-> store.names, offsets |-> store.offsets]
<1>0. store \in [mesh : {store.mesh}, cuboid : {store.cuboid}, names : {store.names}, offsets : {store.offsets}]
  BY DEF HasLists
<1>1. [store EXCEPT !.cuboid = C]
        = [mesh |-> store.mesh, cuboid |-> C, names |-> store.names, offsets |-> store.offsets]
  <2> DEFINE after == [store EXCEPT !.cuboid = C]
  <2>1. after \in [mesh : {store.mesh}, cuboid : {C}, names : {store.names}, offsets : {store.offsets}]
    BY <1>0
  <2> HIDE DEF after
  <2>2. after = [mesh |-> after.mesh, cuboid |-> after.cuboid, names |-> after.names, offsets |-> after.offsets]
    BY <2>1
  <2>3. /\ after.mesh = store.mesh /\ after.cuboid = C
        /\ after.names = store.names /\ after.offsets = store.offsets
    BY <2>1
  <2>4. after = [mesh |-> store.mesh, cuboid |-> C, names |-> store.names, offsets |-> store.offsets]
    BY <2>2, <2>3
  <2> QED BY <2>4 DEF after
<1>2. [store EXCEPT !.mesh = M]
        = [mesh |-> M, cuboid |-> store.cuboid, names |-> store.names, offsets |-> store.offsets]
  <2> DEFINE after == [store EXCEPT !.mesh = M]
  <2>1. after \in [mesh : {M}, cuboid : {store.cuboid}, names : {store.names}, offsets : {store.offsets}]
    BY <1>0
  <2> HIDE DEF after
  <2>2. after = [mesh |-> after.mesh, cuboid |-> after.cuboid, names |-> after.names, offsets |-> after.offsets]
    BY <2>1
  <2>3. /\ after.mesh = M /\ after.cuboid = store.cuboid
        /\ after.names = store.names /\ after.offsets = store.offsets
    BY <2>1
  <2>4. after = [mesh |-> M, cuboid |-> store.cuboid, names |-> store.names, offsets |-> store.offsets]
    BY <2>2, <2>3
  <2> QED BY <2>4 DEF after
<1> QED BY <1>1, <1>2

LEMMA AddCuboidKeepsConsistent ==
  ASSUME NEW store, Consistent(store), NEW name, <<name>> \notin store.names, NEW pose
  PROVE  Consistent(AddCuboid(store, name, pose))
<1> DEFINE new == [name |-> <<name>>, at |-> pose.at, quat |-> pose.quat, size |-> 2]
           after == AddCuboid(store, name, pose)
<1>1. after = [mesh |-> store.mesh, cuboid |-> store.cuboid \cup {new},
               names |-> store.names \cup {<<name>>}, offsets |-> store.offsets]
  BY ListsExtended DEF AddCuboid, Consistent, Records
<1>2. new.name = <<name>>
  OBVIOUS
<1>3. \A b \in store.cuboid : b.name # <<name>>
  BY DEF Consistent, NamesAreListed
<1>4. \A m \in store.mesh : m.name # <<name>>
  BY DEF Consistent, NamesAreListed
<1>5. \A o \in store.offsets : o.name # <<name>>
  BY DEF Consistent, MeshesAreKnown
<1> HIDE DEF after
<1>6. Records(after)
  <2>1. HasLists(after)
    BY <1>1 DEF HasLists
  <2> QED BY <1>1, <2>1 DEF Consistent, Records
<1> HIDE DEF new
<1>7. NamesAreListed(after)
  BY <1>1, <1>2 DEF Consistent, NamesAreListed
<1>8. NamesAreUnique(after)
  BY <1>1, <1>2, <1>3, <1>4 DEF Consistent, NamesAreUnique
<1>9. MeshesAreKnown(after)
  <2>1. IsObject(new.name)
    BY <1>2 DEF IsObject
  <2> QED BY <1>1, <2>1 DEF Consistent, MeshesAreKnown
<1>10. PartsArePlaced(after)
  BY <1>1, <1>2, <1>5 DEF Consistent, PartsArePlaced
<1> QED BY <1>6, <1>7, <1>8, <1>9, <1>10 DEF Consistent, after

LEMMA AddMeshKeepsConsistent ==
  ASSUME NEW store, Consistent(store), NEW name, <<name>> \notin store.names,
         NEW mesh, NEW pose \in Poses, NEW voxel, AreCubes(Pipeline(mesh, pose, voxel))
  PROVE  Consistent(AddMesh(store, name, mesh, pose, voxel))
<1> DEFINE cubes == Pipeline(mesh, pose, voxel)
           Name(c) == <<name, c.corner>>
           Centre(c) == Plus(c.corner, [a \in Axes |-> c.size \div 2])
           Part(c) == [name |-> Name(c), at |-> Centre(c), quat |-> 0, size |-> c.size]
           Offset(c) == [mesh |-> <<name>>, name |-> Name(c),
                         offset |-> TurnBack(pose.quat, Minus(Centre(c), pose.at))]
           added == [name |-> <<name>>, pose |-> pose]
           after == AddMesh(store, name, mesh, pose, voxel)
<1>1. after = [mesh    |-> store.mesh \cup {added},
               cuboid  |-> store.cuboid \cup {Part(c) : c \in cubes},
               names   |-> store.names \cup {<<name>>} \cup {Name(c) : c \in cubes},
               offsets |-> store.offsets \cup {Offset(c) : c \in cubes}]
  BY DEF AddMesh
<1>2. \A c \in cubes : /\ Part(c).name = Name(c) /\ Part(c).at = Centre(c)
                       /\ Offset(c).mesh = <<name>> /\ Offset(c).name = Name(c)
                       /\ Offset(c).offset = TurnBack(pose.quat, Minus(Centre(c), pose.at))
  OBVIOUS
<1>3. added.name = <<name>> /\ added.pose = pose
  OBVIOUS
<1>4. \A c \in cubes : Centre(c) \in Vector
  <2> SUFFICES ASSUME NEW c \in cubes PROVE Centre(c) \in Vector
    OBVIOUS
  <2>1. c.corner \in Vector /\ c.size \in Nat
    BY DEF AreCubes
  <2>2. PICK x \in Int, y \in Int, z \in Int : c.corner = <<x, y, z>>
    BY <2>1 DEF Vector
  <2>3. c.size \div 2 \in Int
    BY <2>1
  <2> QED BY <2>2, <2>3 DEF Plus, Vector, Axes
<1>5. \A c \in cubes : /\ Offset(c).offset \in Vector
                       /\ Centre(c) = DerivedCentre(Offset(c).offset, pose)
  BY <1>2, <1>4, OffsetsPlace
<1>6. \A c, d \in cubes : Name(c) = Name(d) => c = d
  BY DEF AreCubes
<1>7. /\ \A c \in cubes : Name(c) \notin store.names /\ Name(c) # <<name>> /\ ~ IsObject(Name(c))
      /\ \A o \in store.offsets : o.mesh # <<name>>
      /\ \A o \in store.offsets, c \in cubes : o.name # Name(c)
  BY NewNamesAreNew DEF IsObject
<1>8. \A c \in cubes : \E n : Name(c) = <<name, n>>
  OBVIOUS
<1>9. Records(after)
  <2>1. /\ Records(store)
        /\ after = [mesh |-> after.mesh, cuboid |-> after.cuboid, names |-> after.names, offsets |-> after.offsets]
    BY <1>1 DEF Consistent
  <2>1a. HasLists(after)
    BY <2>1 DEF HasLists
  <2>2. \A c \in cubes :
          /\ Part(c) = [name |-> Part(c).name, at |-> Part(c).at, quat |-> Part(c).quat, size |-> Part(c).size]
          /\ Offset(c) = [mesh |-> Offset(c).mesh, name |-> Offset(c).name, offset |-> Offset(c).offset]
    OBVIOUS
  <2>3. added = [name |-> added.name, pose |-> added.pose]
    OBVIOUS
  <2> HIDE DEF after, Part, Offset, added, cubes
  <2> QED BY <1>1, <2>1, <2>2, <2>3, <2>1a DEF Records
<1> HIDE DEF after, added, Part, Offset, Name, Centre, cubes
<1>10. NamesAreListed(after)
  <2>1. {b.name : b \in after.cuboid} = {b.name : b \in store.cuboid} \cup {Name(c) : c \in cubes}
    BY <1>1, <1>2
  <2>2. {m.name : m \in after.mesh} = {m.name : m \in store.mesh} \cup {<<name>>}
    BY <1>1, <1>3
  <2>3. after.names = store.names \cup {<<name>>} \cup {Name(c) : c \in cubes}
    BY <1>1
  <2> QED BY <2>1, <2>2, <2>3 DEF Consistent, NamesAreListed
<1>11. \A b \in store.cuboid : b.name \in store.names
  BY DEF Consistent, NamesAreListed
<1>12. \A m \in store.mesh : m.name \in store.names
  BY DEF Consistent, NamesAreListed
<1>13. NamesAreUnique(after)
  BY <1>1, <1>2, <1>3, <1>6, <1>7, <1>11, <1>12 DEF Consistent, NamesAreUnique
<1>14. MeshesAreKnown(after)
  <2>1. \A m \in after.mesh : IsObject(m.name) /\ m.pose \in Poses
    BY <1>1, <1>3 DEF Consistent, MeshesAreKnown, IsObject
  <2>2. \A b \in after.cuboid : IsObject(b.name) \/ \E o \in after.offsets : o.name = b.name
    BY <1>1, <1>2 DEF Consistent, MeshesAreKnown
  <2>3. \A o \in store.offsets : /\ \E m \in after.mesh : m.name = o.mesh
                                 /\ \E n : o.name = <<o.mesh[1], n>>
                                 /\ o.offset \in Vector
    BY <1>1 DEF Consistent, MeshesAreKnown
  <2>4. ASSUME NEW c \in cubes
        PROVE  /\ \E m \in after.mesh : m.name = Offset(c).mesh
               /\ \E n : Offset(c).name = <<Offset(c).mesh[1], n>>
               /\ Offset(c).offset \in Vector
    <3>1. Offset(c).mesh[1] = name
      BY <1>2
    <3>2. added \in after.mesh
      BY <1>1
    <3> QED BY <1>2, <1>3, <1>5, <1>8, <3>1, <3>2
  <2>5. \A o, p \in after.offsets : o.name = p.name => o = p
    BY <1>1, <1>2, <1>6, <1>7 DEF Consistent, MeshesAreKnown
  <2>6. after.offsets = store.offsets \cup {Offset(c) : c \in cubes}
    BY <1>1
  <2> QED BY <2>1, <2>2, <2>3, <2>4, <2>5, <2>6 DEF MeshesAreKnown
<1>15. PartsArePlaced(after)
  <2> SUFFICES ASSUME NEW m \in after.mesh, NEW o \in after.offsets, NEW b \in after.cuboid,
                      o.mesh = m.name, b.name = o.name
               PROVE  b.at = DerivedCentre(o.offset, m.pose)
    BY DEF PartsArePlaced
  <2>1. CASE o \in store.offsets
    <3>1. m \in store.mesh
      BY <1>1, <1>3, <1>7, <2>1
    <3>2. b \in store.cuboid
      BY <1>1, <1>2, <1>7, <2>1
    <3> QED BY <2>1, <3>1, <3>2 DEF Consistent, PartsArePlaced
  <2>2. CASE o \notin store.offsets
    <3>1. PICK c \in cubes : o = Offset(c)
      BY <1>1, <2>2
    <3>2. m = added
      BY <1>1, <1>2, <1>12, <3>1
    <3>3. b = Part(c)
      <4>1. b \notin store.cuboid
        BY <1>2, <1>7, <1>11, <3>1
      <4>2. PICK d \in cubes : b = Part(d)
        BY <1>1, <4>1
      <4> QED BY <1>2, <1>6, <3>1, <4>2
    <3> QED BY <1>2, <1>3, <1>5, <3>1, <3>2, <3>3
  <2> QED BY <2>1, <2>2
<1> QED BY <1>9, <1>10, <1>13, <1>14, <1>15 DEF Consistent, after

(* A record that is changed keeps its other fields.                        *)
LEMMA CuboidMoved ==
  ASSUME NEW b, b = [name |-> b.name, at |-> b.at, quat |-> b.quat, size |-> b.size], NEW place, NEW quat
  PROVE  [b EXCEPT !.at = place, !.quat = quat] = [name |-> b.name, at |-> place, quat |-> quat, size |-> b.size]
<1> DEFINE moved == [b EXCEPT !.at = place, !.quat = quat]
<1>1. b \in [name : {b.name}, at : {b.at}, quat : {b.quat}, size : {b.size}]
  OBVIOUS
<1>2. moved \in [name : {b.name}, at : {place}, quat : {quat}, size : {b.size}]
  BY <1>1
<1> HIDE DEF moved
<1>3. moved = [name |-> moved.name, at |-> moved.at, quat |-> moved.quat, size |-> moved.size]
  BY <1>2
<1>4. moved.name = b.name /\ moved.at = place /\ moved.quat = quat /\ moved.size = b.size
  BY <1>2
<1>5. moved = [name |-> b.name, at |-> place, quat |-> quat, size |-> b.size]
  BY <1>3, <1>4
<1> QED BY <1>5 DEF moved

LEMMA MeshMoved ==
  ASSUME NEW m, m = [name |-> m.name, pose |-> m.pose], NEW pose
  PROVE  [m EXCEPT !.pose = pose] = [name |-> m.name, pose |-> pose]
OBVIOUS

(* What a new pose does to a mesh and to what it consists of, and to a box.*)
IsMesh(store, name) == \E m \in store.mesh : m.name = name
IsPart(store, name, b) == \E o \in store.offsets : o.mesh = name /\ o.name = b.name
OffsetOf(store, name, b) == (CHOOSE o \in {o \in store.offsets : o.mesh = name} : o.name = b.name).offset
PartMoved(store, name, pose, b) ==
  IF IsPart(store, name, b)
  THEN [name |-> b.name, at |-> DerivedCentre(OffsetOf(store, name, b), pose), quat |-> pose.quat, size |-> b.size]
  ELSE b
BoxMoved(name, pose, b) ==
  IF b.name = name THEN [name |-> b.name, at |-> pose.at, quat |-> pose.quat, size |-> b.size] ELSE b
MeshWithPose(name, pose, m) == IF m.name = name THEN [name |-> m.name, pose |-> pose] ELSE m

LEMMA MovedMeshShape ==
  ASSUME NEW store, Consistent(store), NEW name, NEW pose, IsMesh(store, <<name>>)
  PROVE  UpdatePose(store, <<name>>, pose)
           = [mesh |-> {MeshWithPose(<<name>>, pose, m) : m \in store.mesh},
              cuboid |-> {PartMoved(store, <<name>>, pose, b) : b \in store.cuboid},
              names |-> store.names, offsets |-> store.offsets]
<1> DEFINE meshes == {IF m.name = <<name>> THEN [m EXCEPT !.pose = pose] ELSE m : m \in store.mesh}
           own == {o \in store.offsets : o.mesh = <<name>>}
           Moved(b) == [b EXCEPT !.at = DerivedCentre((CHOOSE o \in own : o.name = b.name).offset, pose),
                                 !.quat = pose.quat]
           cuboids == {IF \E o \in own : o.name = b.name THEN Moved(b) ELSE b : b \in store.cuboid}
           middle == [store EXCEPT !.mesh = meshes]
<1>1. Records(store)
  BY DEF Consistent
<1>2. ListOf(store, <<name>>) = "mesh"
  BY DEF ListOf, IsMesh, Consistent, NamesAreUnique
<1>3. middle = [mesh |-> meshes, cuboid |-> store.cuboid, names |-> store.names, offsets |-> store.offsets]
  BY <1>1, ListsReplaced DEF Records
<1>4. meshes = {MeshWithPose(<<name>>, pose, m) : m \in store.mesh}
  BY <1>1, MeshMoved DEF Records, MeshWithPose
<1>5. cuboids = {PartMoved(store, <<name>>, pose, b) : b \in store.cuboid}
  <2>1. ASSUME NEW b \in store.cuboid
        PROVE  (IF \E o \in own : o.name = b.name THEN Moved(b) ELSE b) = PartMoved(store, <<name>>, pose, b)
    <3>1. b = [name |-> b.name, at |-> b.at, quat |-> b.quat, size |-> b.size]
      BY <1>1 DEF Records
    <3>2. (\E o \in own : o.name = b.name) <=> IsPart(store, <<name>>, b)
      BY DEF IsPart
    <3>3. Moved(b) = [name |-> b.name, at |-> DerivedCentre(OffsetOf(store, <<name>>, b), pose),
                      quat |-> pose.quat, size |-> b.size]
      BY <3>1, CuboidMoved DEF OffsetOf
    <3> HIDE DEF Moved, own
    <3> QED BY <3>2, <3>3 DEF PartMoved
  <2> HIDE DEF Moved, own
  <2> QED BY <2>1
<1>6. UpdatePose(store, <<name>>, pose) = UpdateDerived(middle, <<name>>, pose)
  BY <1>2 DEF UpdatePose
<1>7. UpdateDerived(middle, <<name>>, pose) = [middle EXCEPT !.cuboid = cuboids]
  BY <1>3 DEF UpdateDerived
<1> HIDE DEF meshes, cuboids
<1>8. [middle EXCEPT !.cuboid = cuboids]
        = [mesh |-> meshes, cuboid |-> cuboids, names |-> store.names, offsets |-> store.offsets]
  <2>1. HasLists(middle)
    BY <1>3 DEF HasLists
  <2>2. middle.mesh = meshes /\ middle.names = store.names /\ middle.offsets = store.offsets
    BY <1>3
  <2> HIDE DEF middle
  <2>3. [middle EXCEPT !.cuboid = cuboids]
          = [mesh |-> middle.mesh, cuboid |-> cuboids, names |-> middle.names, offsets |-> middle.offsets]
    BY <2>1, ListsReplaced
  <2> QED BY <2>2, <2>3
<1> QED BY <1>4, <1>5, <1>6, <1>7, <1>8

LEMMA MovedBoxShape ==
  ASSUME NEW store, Consistent(store), NEW name, NEW pose, <<name>> \in store.names,
         ~ IsMesh(store, <<name>>)
  PROVE  UpdatePose(store, <<name>>, pose)
           = [mesh |-> store.mesh, cuboid |-> {BoxMoved(<<name>>, pose, b) : b \in store.cuboid},
              names |-> store.names, offsets |-> store.offsets]
<1> DEFINE New(b) == [b EXCEPT !.at = pose.at, !.quat = pose.quat]
           cuboids == {IF b.name = <<name>> THEN New(b) ELSE b : b \in store.cuboid}
<1>1. Records(store)
  BY DEF Consistent
<1>2. ListOf(store, <<name>>) = "cuboid"
  BY DEF ListOf, IsMesh, Consistent, NamesAreListed
<1>3. cuboids = {BoxMoved(<<name>>, pose, b) : b \in store.cuboid}
  <2> SUFFICES ASSUME NEW b \in store.cuboid
               PROVE  (IF b.name = <<name>> THEN New(b) ELSE b) = BoxMoved(<<name>>, pose, b)
    OBVIOUS
  <2>1. b = [name |-> b.name, at |-> b.at, quat |-> b.quat, size |-> b.size]
    BY <1>1 DEF Records
  <2>2. New(b) = [name |-> b.name, at |-> pose.at, quat |-> pose.quat, size |-> b.size]
    BY <2>1, CuboidMoved
  <2> HIDE DEF New
  <2> QED BY <2>2 DEF BoxMoved
<1>4. UpdatePose(store, <<name>>, pose) = [store EXCEPT !.cuboid = cuboids]
  BY <1>2 DEF UpdatePose
<1> HIDE DEF cuboids
<1> QED BY <1>1, <1>3, <1>4, ListsReplaced DEF Records

LEMMA MoveKeepsConsistent ==
  ASSUME NEW store, Consistent(store), NEW name, <<name>> \in store.names, NEW pose \in Poses
  PROVE  Consistent(UpdatePose(store, <<name>>, pose))
<1> DEFINE after == UpdatePose(store, <<name>>, pose)
<1>1. Consistent(store) /\ Records(store)
  BY DEF Consistent
<1>2. CASE IsMesh(store, <<name>>)
  <2> DEFINE Moved(b) == PartMoved(store, <<name>>, pose, b)
             Posed(m) == MeshWithPose(<<name>>, pose, m)
  <2>1. after = [mesh |-> {Posed(m) : m \in store.mesh}, cuboid |-> {Moved(b) : b \in store.cuboid},
                 names |-> store.names, offsets |-> store.offsets]
    BY <1>2, MovedMeshShape
  <2>2. \A b \in store.cuboid : Moved(b).name = b.name
    BY DEF PartMoved
  <2>3. \A m \in store.mesh : /\ Posed(m).name = m.name
                               /\ Posed(m).pose \in Poses
                               /\ Posed(m) = [name |-> Posed(m).name, pose |-> Posed(m).pose]
    <3> SUFFICES ASSUME NEW m \in store.mesh
                 PROVE  /\ Posed(m).name = m.name
                        /\ Posed(m).pose \in Poses
                        /\ Posed(m) = [name |-> Posed(m).name, pose |-> Posed(m).pose]
      OBVIOUS
    <3>1. m.pose \in Poses /\ m = [name |-> m.name, pose |-> m.pose]
      BY <1>1 DEF Consistent, MeshesAreKnown, Records
    <3> QED BY <3>1 DEF MeshWithPose
  <2>4. \A b \in store.cuboid :
          Moved(b) = [name |-> Moved(b).name, at |-> Moved(b).at, quat |-> Moved(b).quat, size |-> Moved(b).size]
    BY <1>1 DEF PartMoved, Records
  <2>5. \A m \in store.mesh, o \in store.offsets, b \in store.cuboid :
          o.mesh = m.name /\ b.name = o.name => Moved(b).at = DerivedCentre(o.offset, Posed(m).pose)
    <3> SUFFICES ASSUME NEW m \in store.mesh, NEW o \in store.offsets, NEW b \in store.cuboid,
                        o.mesh = m.name, b.name = o.name
                 PROVE  Moved(b).at = DerivedCentre(o.offset, Posed(m).pose)
      OBVIOUS
    <3>1. CASE m.name = <<name>>
      <4>1. OffsetOf(store, <<name>>, b) = o.offset
        <5>1. \A p \in {p \in store.offsets : p.mesh = <<name>>} : p.name = b.name => p = o
          BY <1>1 DEF Consistent, MeshesAreKnown
        <5>2. o \in {p \in store.offsets : p.mesh = <<name>>} /\ o.name = b.name
          BY <3>1
        <5> QED BY <5>1, <5>2 DEF OffsetOf
      <4>2. IsPart(store, <<name>>, b)
        BY <3>1 DEF IsPart
      <4>3. Posed(m).pose = pose
        BY <3>1 DEF MeshWithPose
      <4> QED BY <4>1, <4>2, <4>3 DEF PartMoved
    <3>2. CASE m.name # <<name>>
      <4>1. ~ IsPart(store, <<name>>, b)
        BY <1>1, <3>2 DEF IsPart, Consistent, MeshesAreKnown
      <4>2. Posed(m) = m /\ Moved(b) = b
        BY <3>2, <4>1 DEF MeshWithPose, PartMoved
      <4> QED BY <1>1, <4>2 DEF Consistent, PartsArePlaced
    <3> QED BY <3>1, <3>2
  <2> HIDE DEF Moved, Posed, after
  <2>6. /\ after.mesh = {Posed(m) : m \in store.mesh}
        /\ after.cuboid = {Moved(b) : b \in store.cuboid}
        /\ after.names = store.names
        /\ after.offsets = store.offsets
        /\ HasLists(after)
    BY <2>1 DEF HasLists
  <2>7. Records(after)
    BY <1>1, <2>3, <2>4, <2>6 DEF Records
  <2>8. NamesAreListed(after)
    <3>1. {b.name : b \in after.cuboid} = {b.name : b \in store.cuboid}
      BY <2>2, <2>6
    <3>2. {m.name : m \in after.mesh} = {m.name : m \in store.mesh}
      BY <2>3, <2>6
    <3> QED BY <1>1, <2>6, <3>1, <3>2 DEF Consistent, NamesAreListed
  <2>9. NamesAreUnique(after)
    BY <1>1, <2>2, <2>3, <2>6 DEF Consistent, NamesAreUnique
  <2>10. MeshesAreKnown(after)
    <3>1. \A m \in after.mesh : IsObject(m.name) /\ m.pose \in Poses
      BY <1>1, <2>3, <2>6 DEF Consistent, MeshesAreKnown
    <3>2. \A b \in after.cuboid : IsObject(b.name) \/ \E o \in after.offsets : o.name = b.name
      BY <1>1, <2>2, <2>6 DEF Consistent, MeshesAreKnown
    <3>3. \A o \in after.offsets : \E m \in after.mesh : m.name = o.mesh
      BY <1>1, <2>3, <2>6 DEF Consistent, MeshesAreKnown
    <3> QED BY <1>1, <2>6, <3>1, <3>2, <3>3 DEF Consistent, MeshesAreKnown
  <2>11. PartsArePlaced(after)
    <3> SUFFICES ASSUME NEW m \in after.mesh, NEW o \in after.offsets, NEW b \in after.cuboid,
                        o.mesh = m.name, b.name = o.name
                 PROVE  b.at = DerivedCentre(o.offset, m.pose)
      BY DEF PartsArePlaced
    <3>1. PICK l \in store.mesh : m = Posed(l)
      BY <2>6
    <3>2. PICK c \in store.cuboid : b = Moved(c)
      BY <2>6
    <3> QED BY <2>2, <2>3, <2>5, <2>6, <3>1, <3>2
  <2> QED BY <2>7, <2>8, <2>9, <2>10, <2>11 DEF Consistent, after
<1>3. CASE ~ IsMesh(store, <<name>>)
  <2> DEFINE Moved(b) == BoxMoved(<<name>>, pose, b)
  <2>1. after = [mesh |-> store.mesh, cuboid |-> {Moved(b) : b \in store.cuboid},
                 names |-> store.names, offsets |-> store.offsets]
    BY <1>3, MovedBoxShape
  <2>2. \A b \in store.cuboid : Moved(b).name = b.name /\ (b.name # <<name>> => Moved(b) = b)
    BY DEF BoxMoved
  <2>3. \A b \in store.cuboid :
          Moved(b) = [name |-> Moved(b).name, at |-> Moved(b).at, quat |-> Moved(b).quat, size |-> Moved(b).size]
    BY <1>1 DEF BoxMoved, Records
  <2> HIDE DEF Moved, after
  <2>4. /\ after.mesh = store.mesh
        /\ after.cuboid = {Moved(b) : b \in store.cuboid}
        /\ after.names = store.names
        /\ after.offsets = store.offsets
        /\ HasLists(after)
    BY <2>1 DEF HasLists
  <2>5. Records(after)
    BY <1>1, <2>3, <2>4 DEF Records
  <2>6. NamesAreListed(after)
    <3>1. {b.name : b \in after.cuboid} = {b.name : b \in store.cuboid}
      BY <2>2, <2>4
    <3> QED BY <1>1, <2>4, <3>1 DEF Consistent, NamesAreListed
  <2>7. NamesAreUnique(after)
    BY <1>1, <2>2, <2>4 DEF Consistent, NamesAreUnique
  <2>8. MeshesAreKnown(after)
    BY <1>1, <2>2, <2>4 DEF Consistent, MeshesAreKnown
  <2>9. PartsArePlaced(after)
    <3>1. \A o \in store.offsets : o.name # <<name>>
      BY <1>1 DEF Consistent, MeshesAreKnown
    <3> QED BY <1>1, <2>2, <2>4, <3>1 DEF Consistent, PartsArePlaced
  <2> QED BY <2>5, <2>6, <2>7, <2>8, <2>9 DEF Consistent, after
<1> QED BY <1>2, <1>3

(* What is left of the lists when an object is removed.                    *)
Removed(store, name, after) ==
  /\ HasLists(after)
  /\ after.mesh = {m \in store.mesh : m.name # name}
  /\ after.cuboid = {b \in store.cuboid : ~ IsPart(store, name, b) /\ b.name # name}
  /\ after.offsets = {o \in store.offsets : o.mesh # name}
  /\ \A n : n \in after.names <=>
        n \in store.names /\ n # name /\ \A o \in store.offsets : o.mesh = name => o.name # n

LEMMA RemovedShape ==
  ASSUME NEW store, Consistent(store), NEW name
  PROVE  Removed(store, <<name>>, RemoveObject(store, <<name>>))
<1> DEFINE after == RemoveObject(store, <<name>>)
           derived == {o.name : o \in {o \in store.offsets : o.mesh = <<name>>}}
           isMesh == \E m \in store.mesh : m.name = <<name>>
<1>1. after = [mesh    |-> {m \in store.mesh : m.name # <<name>>},
               cuboid  |-> {b \in store.cuboid : b.name \notin derived /\ (isMesh \/ b.name # <<name>>)},
               names   |-> store.names \ (derived \cup {<<name>>}),
               offsets |-> {o \in store.offsets : o.mesh # <<name>>}]
  BY DEF RemoveObject
<1>2. \A b \in store.cuboid : b.name \in derived <=> IsPart(store, <<name>>, b)
  BY DEF IsPart
<1>3. isMesh => \A b \in store.cuboid : b.name # <<name>>
  BY DEF Consistent, NamesAreUnique
<1>4. \A n : n \in derived <=> \E o \in store.offsets : o.mesh = <<name>> /\ o.name = n
  OBVIOUS
<1> HIDE DEF after, derived, isMesh
<1>5. HasLists(after)
  BY <1>1 DEF HasLists
<1>6. after.cuboid = {b \in store.cuboid : ~ IsPart(store, <<name>>, b) /\ b.name # <<name>>}
  BY <1>1, <1>2, <1>3
<1> QED BY <1>1, <1>4, <1>5, <1>6 DEF Removed, after

LEMMA RemoveKeepsConsistent ==
  ASSUME NEW store, Consistent(store), NEW name
  PROVE  Consistent(RemoveObject(store, <<name>>))
<1> DEFINE after == RemoveObject(store, <<name>>)
<1>1. /\ HasLists(after)
      /\ after.mesh = {m \in store.mesh : m.name # <<name>>}
      /\ after.cuboid = {b \in store.cuboid : ~ IsPart(store, <<name>>, b) /\ b.name # <<name>>}
      /\ after.offsets = {o \in store.offsets : o.mesh # <<name>>}
      /\ \A n : n \in after.names <=>
            n \in store.names /\ n # <<name>> /\ \A o \in store.offsets : o.mesh = <<name>> => o.name # n
  BY RemovedShape DEF Removed
<1> HIDE DEF after
<1>2. Records(after)
  BY <1>1 DEF Consistent, Records
<1>3. \A m \in store.mesh, o \in store.offsets : o.name # m.name
  BY DEF Consistent, MeshesAreKnown, IsObject
<1>4. NamesAreListed(after)
  <2> DEFINE listed == {b.name : b \in after.cuboid} \cup {m.name : m \in after.mesh}
  <2>1. ASSUME NEW n \in after.names
        PROVE  n \in listed
    <3>1. CASE \E m \in store.mesh : m.name = n
      BY <1>1, <2>1, <3>1
    <3>2. CASE \E b \in store.cuboid : b.name = n
      BY <1>1, <2>1, <3>2 DEF IsPart
    <3> QED BY <1>1, <2>1, <3>1, <3>2 DEF Consistent, NamesAreListed
  <2>2. ASSUME NEW b \in after.cuboid
        PROVE  b.name \in after.names
    BY <1>1, <2>2 DEF Consistent, NamesAreListed, IsPart
  <2>3. ASSUME NEW m \in after.mesh
        PROVE  m.name \in after.names
    BY <1>1, <1>3, <2>3 DEF Consistent, NamesAreListed
  <2>4. \A n \in listed : n \in after.names
    BY <2>2, <2>3
  <2> HIDE DEF listed
  <2>5. after.names = listed
    BY <2>1, <2>4
  <2> QED BY <2>5 DEF listed, NamesAreListed
<1>5. NamesAreUnique(after)
  BY <1>1 DEF Consistent, NamesAreUnique
<1>6. MeshesAreKnown(after)
  <2>1. \A b \in after.cuboid : IsObject(b.name) \/ \E o \in after.offsets : o.name = b.name
    BY <1>1 DEF Consistent, MeshesAreKnown, IsPart
  <2>2. \A o \in after.offsets : \E m \in after.mesh : m.name = o.mesh
    BY <1>1 DEF Consistent, MeshesAreKnown
  <2> QED BY <1>1, <2>1, <2>2 DEF Consistent, MeshesAreKnown
<1>7. PartsArePlaced(after)
  BY <1>1 DEF Consistent, PartsArePlaced
<1> QED BY <1>2, <1>4, <1>5, <1>6, <1>7 DEF Consistent, after

-----------------------------------------------------------------------------
LEMMA MovedAndRemoved ==
  ASSUME NEW store, Consistent(store), NEW name, IsMesh(store, <<name>>), NEW pose \in Poses
  PROVE  RemoveObject(UpdatePose(store, <<name>>, pose), <<name>>) = RemoveObject(store, <<name>>)
<1> DEFINE moved == UpdatePose(store, <<name>>, pose)
           one == RemoveObject(moved, <<name>>)
           two == RemoveObject(store, <<name>>)
           Moved(b) == PartMoved(store, <<name>>, pose, b)
           Posed(m) == MeshWithPose(<<name>>, pose, m)
<1>1. moved = [mesh |-> {Posed(m) : m \in store.mesh}, cuboid |-> {Moved(b) : b \in store.cuboid},
               names |-> store.names, offsets |-> store.offsets]
  BY MovedMeshShape
<1>2. Consistent(moved)
  <2>1. <<name>> \in store.names
    BY DEF Consistent, NamesAreListed, IsMesh
  <2> QED BY <2>1, MoveKeepsConsistent
<1>3. \A b \in store.cuboid : Moved(b).name = b.name /\ (~ IsPart(store, <<name>>, b) => Moved(b) = b)
  BY DEF PartMoved
<1>4. \A m \in store.mesh : Posed(m).name = m.name /\ (m.name # <<name>> => Posed(m) = m)
  BY DEF MeshWithPose
<1>5. /\ HasLists(one)
      /\ one.mesh = {m \in moved.mesh : m.name # <<name>>}
      /\ one.cuboid = {b \in moved.cuboid : ~ IsPart(moved, <<name>>, b) /\ b.name # <<name>>}
      /\ one.offsets = {o \in moved.offsets : o.mesh # <<name>>}
      /\ \A n : n \in one.names <=>
            n \in moved.names /\ n # <<name>> /\ \A o \in moved.offsets : o.mesh = <<name>> => o.name # n
  BY <1>2, RemovedShape DEF Removed
<1>6. /\ HasLists(two)
      /\ two.mesh = {m \in store.mesh : m.name # <<name>>}
      /\ two.cuboid = {b \in store.cuboid : ~ IsPart(store, <<name>>, b) /\ b.name # <<name>>}
      /\ two.offsets = {o \in store.offsets : o.mesh # <<name>>}
      /\ \A n : n \in two.names <=>
            n \in store.names /\ n # <<name>> /\ \A o \in store.offsets : o.mesh = <<name>> => o.name # n
  BY RemovedShape DEF Removed
<1> HIDE DEF moved, one, two, Moved, Posed
<1>7. /\ moved.mesh = {Posed(m) : m \in store.mesh} /\ moved.cuboid = {Moved(b) : b \in store.cuboid}
      /\ moved.names = store.names /\ moved.offsets = store.offsets
  BY <1>1
<1>8. one.mesh = two.mesh
  BY <1>4, <1>5, <1>6, <1>7
<1>9. one.cuboid = two.cuboid
  <2>1. \A b \in store.cuboid : IsPart(moved, <<name>>, Moved(b)) <=> IsPart(store, <<name>>, b)
    BY <1>3, <1>7 DEF IsPart
  <2>2. ASSUME NEW b \in one.cuboid
        PROVE  b \in two.cuboid
    <3>1. PICK c \in store.cuboid : b = Moved(c)
      BY <1>5, <1>7, <2>2
    <3>2. ~ IsPart(store, <<name>>, c) /\ b.name # <<name>>
      BY <1>5, <2>1, <2>2, <3>1
    <3> QED BY <1>3, <1>6, <3>1, <3>2
  <2>3. ASSUME NEW b \in two.cuboid
        PROVE  b \in one.cuboid
    <3>1. b \in store.cuboid /\ ~ IsPart(store, <<name>>, b) /\ b.name # <<name>>
      BY <1>6, <2>3
    <3>2. Moved(b) = b /\ b \in moved.cuboid
      BY <1>3, <1>7, <3>1
    <3> QED BY <1>5, <2>1, <3>1, <3>2
  <2>4. one.cuboid \subseteq two.cuboid /\ two.cuboid \subseteq one.cuboid
    BY <2>2, <2>3
  <2> QED BY <2>4
<1>10. one.offsets = two.offsets
  BY <1>5, <1>6, <1>7
<1>11. one.names = two.names
  <2>1. ASSUME NEW n
        PROVE  n \in one.names <=> n \in two.names
    <3>1. n \in one.names <=> n \in store.names /\ n # <<name>>
            /\ \A o \in store.offsets : o.mesh = <<name>> => o.name # n
      BY <1>5, <1>7
    <3> QED BY <1>6, <3>1
  <2>2. one.names \subseteq two.names /\ two.names \subseteq one.names
    BY <2>1
  <2> QED BY <2>2
<1> QED BY <1>5, <1>6, <1>8, <1>9, <1>10, <1>11 DEF HasLists, moved, one, two

(* What is added and moved and removed leaves the lists as they were.      *)
LEMMA AddedAndRemoved ==
  ASSUME NEW store, Consistent(store), NEW name, <<name>> \notin store.names,
         NEW mesh, NEW from \in Poses, NEW voxel, AreCubes(Pipeline(mesh, from, voxel)), NEW to \in Poses
  PROVE  RemoveObject(UpdatePose(AddObject(store, name, mesh, from, voxel), <<name>>, to), <<name>>) = store
<1> DEFINE cubes == Pipeline(mesh, from, voxel)
           Name(c) == <<name, c.corner>>
           Centre(c) == Plus(c.corner, [a \in Axes |-> c.size \div 2])
           new == [name |-> <<name>>, pose |-> from]
           Part(c) == [name |-> Name(c), at |-> Centre(c), quat |-> 0, size |-> c.size]
           Offset(c) == [mesh |-> <<name>>, name |-> Name(c),
                         offset |-> TurnBack(from.quat, Minus(Centre(c), from.at))]
           parts == {Part(c) : c \in cubes}
           offsets == {Offset(c) : c \in cubes}
           added == AddMesh(store, name, mesh, from, voxel)
           last == RemoveObject(added, <<name>>)
<1>1. AddObject(store, name, mesh, from, voxel) = added
  BY DEF AddObject
<1>2. Consistent(added)
  BY AddMeshKeepsConsistent
<1>3. added = [mesh |-> store.mesh \cup {new}, cuboid |-> store.cuboid \cup parts,
               names |-> store.names \cup {<<name>>} \cup {Name(c) : c \in cubes},
               offsets |-> store.offsets \cup offsets]
  BY DEF AddMesh
<1>3a. /\ new.name = <<name>>
       /\ \A b \in parts : \E c \in cubes : b.name = Name(c)
       /\ \A c \in cubes : \E o \in offsets : o.name = Name(c)
       /\ \A o \in offsets : o.mesh = <<name>> /\ \E c \in cubes : o.name = Name(c)
  <2>1. new.name = <<name>>
    OBVIOUS
  <2>2. \A c \in cubes : Part(c).name = Name(c) /\ Offset(c).name = Name(c) /\ Offset(c).mesh = <<name>>
    OBVIOUS
  <2> HIDE DEF Part, Offset, cubes, Name, new
  <2> QED BY <2>1, <2>2
<1> HIDE DEF new, parts, offsets, Name, added, cubes
<1>3b. /\ added.mesh = store.mesh \cup {new} /\ added.cuboid = store.cuboid \cup parts
       /\ added.names = store.names \cup {<<name>>} \cup {Name(c) : c \in cubes}
       /\ added.offsets = store.offsets \cup offsets
  BY <1>3
<1>4. IsMesh(added, <<name>>)
  BY <1>3a, <1>3b DEF IsMesh
<1>5. RemoveObject(UpdatePose(added, <<name>>, to), <<name>>) = last
  BY <1>2, <1>4, MovedAndRemoved
<1>6. /\ HasLists(last)
      /\ last.mesh = {m \in added.mesh : m.name # <<name>>}
      /\ last.cuboid = {b \in added.cuboid : ~ IsPart(added, <<name>>, b) /\ b.name # <<name>>}
      /\ last.offsets = {o \in added.offsets : o.mesh # <<name>>}
      /\ \A n : n \in last.names <=>
            n \in added.names /\ n # <<name>> /\ \A o \in added.offsets : o.mesh = <<name>> => o.name # n
  <2>1. Removed(added, <<name>>, last)
    BY <1>2, RemovedShape
  <2> HIDE DEF last
  <2> QED BY <2>1 DEF Removed
<1>7. /\ \A c \in cubes : Name(c) \notin store.names
      /\ \A o \in store.offsets : o.mesh # <<name>>
  BY NewNamesAreNew DEF Name
<1>8. /\ \A b \in store.cuboid : b.name \in store.names
      /\ \A m \in store.mesh : m.name \in store.names
  BY DEF Consistent, NamesAreListed
<1> HIDE DEF last
<1>9. last.mesh = store.mesh
  BY <1>3a, <1>3b, <1>6, <1>8
<1>10. last.offsets = store.offsets
  BY <1>3a, <1>3b, <1>6, <1>7
<1>11. last.cuboid = store.cuboid
  <2>1. \A b \in parts : IsPart(added, <<name>>, b)
    BY <1>3a, <1>3b DEF IsPart
  <2>2. \A b \in store.cuboid : ~ IsPart(added, <<name>>, b) /\ b.name # <<name>>
    BY <1>3a, <1>3b, <1>7, <1>8 DEF IsPart
  <2> QED BY <1>3a, <1>3b, <1>6, <2>1, <2>2
<1>12. last.names = store.names
  <2>1. ASSUME NEW n \in last.names
        PROVE  n \in store.names
    <3>1. n \in added.names /\ n # <<name>> /\ \A o \in added.offsets : o.mesh = <<name>> => o.name # n
      BY <1>6, <2>1
    <3>2. \A c \in cubes : Name(c) # n
      BY <1>3a, <1>3b, <3>1
    <3> QED BY <1>3a, <1>3b, <3>1, <3>2
  <2>2. ASSUME NEW n \in store.names
        PROVE  n \in last.names
    <3>1. n \in added.names /\ n # <<name>>
      BY <1>3a, <1>3b, <2>2
    <3>2. \A o \in added.offsets : o.mesh = <<name>> => o.name # n
      BY <1>3a, <1>3b, <1>7, <2>2
    <3> QED BY <1>6, <3>1, <3>2
  <2>3. last.names \subseteq store.names /\ store.names \subseteq last.names
    BY <2>1, <2>2
  <2> QED BY <2>3
<1>13. last = store
  <2>1. HasLists(store)
    BY DEF Consistent, Records
  <2> QED BY <1>6, <1>9, <1>10, <1>11, <1>12, <2>1 DEF HasLists
<1> QED BY <1>1, <1>5, <1>13

LEMMA Squares == \A n \in Int : Square(-n) = Square(n)
BY DEF Square

LEMMA TurnKeepsDistance ==
  ASSUME NEW quat \in 0 .. 3, NEW p \in Vector, NEW q \in Vector
  PROVE  SquaredDistance(Turn(quat, p), Turn(quat, q)) = SquaredDistance(p, q)
<1>1. PICK x \in Int, y \in Int, z \in Int : p = <<x, y, z>>
  BY DEF Vector
<1>2. PICK u \in Int, v \in Int, w \in Int : q = <<u, v, w>>
  BY DEF Vector
<1> DEFINE X == Square(x - u)
           Y == Square(y - v)
           Z == Square(z - w)
<1>3. X \in Int /\ Y \in Int /\ Z \in Int
  BY DEF Square
<1>4. SquaredDistance(p, q) = X + Y + Z
  BY <1>1, <1>2 DEF SquaredDistance
<1>5. /\ Square((-x) - (-u)) = X
      /\ Square((-y) - (-v)) = Y
  <2>1. (-x) - (-u) = -(x - u) /\ (-y) - (-v) = -(y - v)
    OBVIOUS
  <2>2. x - u \in Int /\ y - v \in Int
    OBVIOUS
  <2> QED BY <2>1, <2>2, Squares
<1>6. CASE quat = 0
  BY <1>4, <1>6 DEF Turn
<1>7. CASE quat = 1
  <2>1. Turn(quat, p) = <<-y, x, z>> /\ Turn(quat, q) = <<-v, u, w>>
    BY <1>1, <1>2, <1>7 DEF Turn
  <2>2. SquaredDistance(<<-y, x, z>>, <<-v, u, w>>) = Square((-y) - (-v)) + X + Z
    BY DEF SquaredDistance
  <2> HIDE DEF X, Y, Z
  <2> QED BY <1>3, <1>4, <1>5, <2>1, <2>2
<1>8. CASE quat = 2
  <2>1. Turn(quat, p) = <<-x, -y, z>> /\ Turn(quat, q) = <<-u, -v, w>>
    BY <1>1, <1>2, <1>8 DEF Turn
  <2>2. SquaredDistance(<<-x, -y, z>>, <<-u, -v, w>>) = Square((-x) - (-u)) + Square((-y) - (-v)) + Z
    BY DEF SquaredDistance
  <2> HIDE DEF X, Y, Z
  <2> QED BY <1>3, <1>4, <1>5, <2>1, <2>2
<1>9. CASE quat = 3
  <2>1. Turn(quat, p) = <<y, -x, z>> /\ Turn(quat, q) = <<v, -u, w>>
    BY <1>1, <1>2, <1>9 DEF Turn
  <2>2. SquaredDistance(<<y, -x, z>>, <<v, -u, w>>) = Y + Square((-x) - (-u)) + Z
    BY DEF SquaredDistance
  <2> HIDE DEF X, Y, Z
  <2> QED BY <1>3, <1>4, <1>5, <2>1, <2>2
<1> QED BY <1>6, <1>7, <1>8, <1>9

LEMMA PlacingKeepsDistance ==
  ASSUME NEW pose \in Poses, NEW p \in Vector, NEW q \in Vector
  PROVE  SquaredDistance(DerivedCentre(p, pose), DerivedCentre(q, pose)) = SquaredDistance(p, q)
<1> DEFINE s == Turn(pose.quat, p)
           t == Turn(pose.quat, q)
<1>1. pose.quat \in 0 .. 3 /\ pose.at \in Vector
  BY DEF Poses
<1>2. \A r \in Vector : Turn(pose.quat, r) \in Vector
  <2> SUFFICES ASSUME NEW r \in Vector PROVE Turn(pose.quat, r) \in Vector
    OBVIOUS
  <2>1. PICK x \in Int, y \in Int, z \in Int : r = <<x, y, z>>
    BY DEF Vector
  <2>2. pose.quat = 0 \/ pose.quat = 1 \/ pose.quat = 2 \/ pose.quat = 3
    BY <1>1
  <2> QED BY <2>1, <2>2 DEF Turn, Vector
<1>3. SquaredDistance(s, t) = SquaredDistance(p, q)
  BY <1>1, TurnKeepsDistance
<1>4. s \in Vector /\ t \in Vector
  BY <1>2
<1> HIDE DEF s, t
<1>5. SquaredDistance(Plus(pose.at, s), Plus(pose.at, t)) = SquaredDistance(s, t)
  <2>1. PICK x \in Int, y \in Int, z \in Int : s = <<x, y, z>>
    BY <1>4 DEF Vector
  <2>2. PICK u \in Int, v \in Int, w \in Int : t = <<u, v, w>>
    BY <1>4 DEF Vector
  <2>3. PICK a \in Int, b \in Int, c \in Int : pose.at = <<a, b, c>>
    BY <1>1 DEF Vector
  <2>4. /\ (a + x) - (a + u) = x - u
        /\ (b + y) - (b + v) = y - v
        /\ (c + z) - (c + w) = z - w
    OBVIOUS
  <2>5. Plus(pose.at, s) = <<a + x, b + y, c + z>> /\ Plus(pose.at, t) = <<a + u, b + v, c + w>>
    BY <2>1, <2>2, <2>3 DEF Plus
  <2>6. SquaredDistance(<<a + x, b + y, c + z>>, <<a + u, b + v, c + w>>)
          = Square((a + x) - (a + u)) + Square((b + y) - (b + v)) + Square((c + z) - (c + w))
    BY DEF SquaredDistance
  <2>7. SquaredDistance(s, t) = Square(x - u) + Square(y - v) + Square(z - w)
    BY <2>1, <2>2 DEF SquaredDistance
  <2> QED BY <2>4, <2>5, <2>6, <2>7
<1> QED BY <1>3, <1>5 DEF DerivedCentre, s, t

(* A part of a mesh has a place in the frame of the mesh, and keeps it.     *)
LEMMA PartsFollow ==
  ASSUME NEW store, Consistent(store), NEW name, NEW m \in store.mesh, m.name = <<name>>, NEW pose \in Poses,
         NEW b \in store.cuboid, IsPart(store, <<name>>, b)
  PROVE  /\ m.pose \in Poses
         /\ \E o \in Vector :
              /\ b.at = DerivedCentre(o, m.pose)
              /\ PartMoved(store, <<name>>, pose, b)
                   = [name |-> b.name, at |-> DerivedCentre(o, pose), quat |-> pose.quat, size |-> b.size]
<1>1. PICK o \in store.offsets : o.mesh = <<name>> /\ o.name = b.name
  BY DEF IsPart
<1>2. o.offset \in Vector /\ m.pose \in Poses
  BY DEF Consistent, MeshesAreKnown
<1>3. b.at = DerivedCentre(o.offset, m.pose)
  BY <1>1 DEF Consistent, PartsArePlaced
<1>4. OffsetOf(store, <<name>>, b) = o.offset
  <2>1. \A p \in {p \in store.offsets : p.mesh = <<name>>} : p.name = b.name => p = o
    BY <1>1 DEF Consistent, MeshesAreKnown
  <2> QED BY <1>1, <2>1 DEF OffsetOf
<1>5. PartMoved(store, <<name>>, pose, b)
        = [name |-> b.name, at |-> DerivedCentre(o.offset, pose), quat |-> pose.quat, size |-> b.size]
  BY <1>4 DEF PartMoved
<1> QED BY <1>2, <1>3, <1>5


-----------------------------------------------------------------------------
(* The voxels of a mesh and the cubes they are merged into.                *)
LEMMA LeastExists ==
  ASSUME NEW S \in SUBSET Nat, S # {}
  PROVE  Least(S) \in S /\ \A m \in S : Least(S) <= m
<1> DEFINE Less == {p \in Nat \X Nat : p[1] < p[2]}
<1>1. OpToRel(<, Nat) = Less
  BY Zenon DEF OpToRel
<1>2. PICK n \in S : \A m \in S : ~ (<<m, n>> \in Less)
  <2> HIDE DEF Less
  <2>1. IsWellFoundedOn(Less, Nat)
    BY <1>1, NatLessThanWellFounded, Zenon
  <2> QED BY <2>1, WFMin, Zenon
<1>3. ASSUME NEW m \in S
      PROVE  n <= m
  <2>1. ~ (<<m, n>> \in Less)
    BY <1>2
  <2>2. <<m, n>> \in Nat \X Nat
    OBVIOUS
  <2>3. ~ (m < n)
    BY <2>1, <2>2
  <2> QED BY <2>3
<1>4. \E k \in S : \A m \in S : k <= m
  BY <1>3
<1> HIDE DEF Less
<1> QED BY <1>4 DEF Least

LEMMA GreatestExists ==
  ASSUME NEW bound \in Nat, NEW S \in SUBSET (0 .. bound), S # {}
  PROVE  Greatest(S) \in S /\ \A m \in S : m <= Greatest(S)
<1> DEFINE T == {bound - n : n \in S}
<1>1. T \in SUBSET Nat /\ T # {}
  <2>1. \A n \in S : bound - n \in Nat
    OBVIOUS
  <2> QED BY <2>1
<1>2. Least(T) \in T /\ \A m \in T : Least(T) <= m
  BY <1>1, LeastExists
<1>3. PICK k \in S : Least(T) = bound - k
  BY <1>2
<1>4. \A n \in S : bound - k <= bound - n
  BY <1>2, <1>3
<1>5. \A n \in S : k >= n
  BY <1>4
<1>6. \E n \in S : \A m \in S : n >= m
  BY <1>5
<1> QED BY <1>6 DEF Greatest

LEMMA MergedIsRecursive ==
  ASSUME NEW occupied, NEW shape
  PROVE  Merged(occupied, shape) =
           [n \in 0 .. 5 |-> IF n = 0 THEN occupied
                             ELSE MergeLevel(Merged(occupied, shape)[n - 1], ShapeAt(shape, n - 1))]
<1> DEFINE Up(level, n) == MergeLevel(level, ShapeAt(shape, n - 1))
           l0 == occupied
           l1 == Up(l0, 1)
           l2 == Up(l1, 2)
           l3 == Up(l2, 3)
           l4 == Up(l3, 4)
           l5 == Up(l4, 5)
           level == [n \in 0 .. 5 |-> IF n = 0 THEN l0 ELSE IF n = 1 THEN l1 ELSE IF n = 2 THEN l2
                                      ELSE IF n = 3 THEN l3 ELSE IF n = 4 THEN l4 ELSE l5]
           IsMerged(f) == f = [n \in 0 .. 5 |-> IF n = 0 THEN occupied ELSE Up(f[n - 1], n)]
<1>1. /\ level[0] = l0 /\ level[1] = l1 /\ level[2] = l2 /\ level[3] = l3 /\ level[4] = l4 /\ level[5] = l5
      /\ level = [n \in 0 .. 5 |-> level[n]]
  <2> HIDE DEF l0, l1, l2, l3, l4, l5
  <2> QED OBVIOUS
<1>2. \A n \in 0 .. 5 : level[n] = IF n = 0 THEN occupied ELSE Up(level[n - 1], n)
  <2> SUFFICES ASSUME NEW n \in 0 .. 5
               PROVE  level[n] = IF n = 0 THEN occupied ELSE Up(level[n - 1], n)
    OBVIOUS
  <2> HIDE DEF level, Up
  <2>1. n \in {0, 1, 2, 3, 4, 5}
    OBVIOUS
  <2>2. /\ 1 - 1 = 0 /\ 2 - 1 = 1 /\ 3 - 1 = 2 /\ 4 - 1 = 3 /\ 5 - 1 = 4
    OBVIOUS
  <2> QED BY <1>1, <2>1, <2>2
<1>3. IsMerged(level)
  <2> HIDE DEF level, Up
  <2> QED BY <1>1, <1>2
<1>4. Merged(occupied, shape) = CHOOSE f : IsMerged(f)
  BY DEF Merged
<1> HIDE DEF IsMerged, level
<1>5. IsMerged(Merged(occupied, shape))
  BY <1>3, <1>4
<1> QED BY <1>5 DEF IsMerged

(* What a block of voxels consists of.                                     *)
LEMMA BlockIs ==
  ASSUME NEW i \in Vector, NEW factor \in Nat, NEW v
  PROVE  v \in Block(i, factor) <=>
           /\ v \in Vector
           /\ \A a \in Axes : factor * i[a] <= v[a] /\ v[a] < factor * i[a] + factor
<1>1. PICK x \in Int, y \in Int, z \in Int : i = <<x, y, z>>
  BY DEF Vector
<1> DEFINE X == factor * x
           Y == factor * y
           Z == factor * z
           D == 0 .. factor - 1
<1>2. X \in Int /\ Y \in Int /\ Z \in Int
  OBVIOUS
<1>3. Times(factor, i) = <<X, Y, Z>>
  BY <1>1 DEF Times
<1>4. factor * i[1] = X /\ factor * i[2] = Y /\ factor * i[3] = Z
  BY <1>1
<1>5. Indices([a \in Axes |-> factor]) = D \X D \X D
  BY DEF Indices, Axes
<1> HIDE DEF X, Y, Z
<1>6. ASSUME v \in Block(i, factor)
      PROVE  /\ v \in Vector
             /\ \A a \in Axes : factor * i[a] <= v[a] /\ v[a] < factor * i[a] + factor
  <2>1. PICK d \in D \X D \X D : v = Plus(<<X, Y, Z>>, d)
    BY <1>3, <1>5, <1>6 DEF Block
  <2>2. PICK k \in D, l \in D, m \in D : d = <<k, l, m>>
    OBVIOUS
  <2>3. v = <<X + k, Y + l, Z + m>>
    BY <2>1, <2>2 DEF Plus
  <2>4. k \in Int /\ l \in Int /\ m \in Int
    OBVIOUS
  <2>5. v \in Vector
    BY <1>2, <2>3, <2>4 DEF Vector
  <2>6. /\ X <= X + k /\ X + k < X + factor
        /\ Y <= Y + l /\ Y + l < Y + factor
        /\ Z <= Z + m /\ Z + m < Z + factor
    BY <1>2
  <2> QED BY <1>4, <2>3, <2>5, <2>6 DEF Axes
<1>7. ASSUME v \in Vector, \A a \in Axes : factor * i[a] <= v[a] /\ v[a] < factor * i[a] + factor
      PROVE  v \in Block(i, factor)
  <2>1. PICK k \in Int, l \in Int, m \in Int : v = <<k, l, m>>
    BY <1>7 DEF Vector
  <2>2. /\ X <= k /\ k < X + factor
        /\ Y <= l /\ l < Y + factor
        /\ Z <= m /\ m < Z + factor
    BY <1>4, <1>7, <2>1 DEF Axes
  <2>3. k - X \in D /\ l - Y \in D /\ m - Z \in D
    BY <1>2, <2>2
  <2>4. v = Plus(<<X, Y, Z>>, <<k - X, l - Y, m - Z>>)
    BY <1>2, <2>1 DEF Plus
  <2> QED BY <1>3, <1>5, <2>3, <2>4 DEF Block
<1> QED BY <1>6, <1>7

LEMMA Widths == \A n \in 1 .. 6 : 2 ^ (n - 1) = IF n = 1 THEN 1 ELSE IF n = 2 THEN 2 ELSE IF n = 3 THEN 4
                                               ELSE IF n = 4 THEN 8 ELSE IF n = 5 THEN 16 ELSE 32
<1> SUFFICES ASSUME NEW n \in 1 .. 6
             PROVE  2 ^ (n - 1) = IF n = 1 THEN 1 ELSE IF n = 2 THEN 2 ELSE IF n = 3 THEN 4
                                  ELSE IF n = 4 THEN 8 ELSE IF n = 5 THEN 16 ELSE 32
  OBVIOUS
<1>1. CASE n = 1
  BY <1>1
<1>2. CASE n = 2
  BY <1>2
<1>3. CASE n = 3
  BY <1>3
<1>4. CASE n = 4
  BY <1>4
<1>5. CASE n = 5
  BY <1>5
<1>6. CASE n = 6
  BY <1>6
<1> QED BY <1>1, <1>2, <1>3, <1>4, <1>5, <1>6

(* The levels of a mesh: a voxel of one is a block of the one before.      *)
AreLevels(levels, occupied) ==
  /\ DOMAIN levels = 1 .. Len(levels) /\ Len(levels) \in 1 .. 6
  /\ \A n \in DOMAIN levels : levels[n] \in SUBSET Vector
  /\ levels[1] = occupied
  /\ \A n \in 1 .. Len(levels) - 1 : \A i \in levels[n + 1] : Block(i, 2) \subseteq levels[n]

LEMMA IndicesAreVectors == \A shape : Indices(shape) \subseteq Vector
BY DEF Indices, Vector

LEMMA BuiltAreLevels ==
  ASSUME NEW occupied \in SUBSET Vector, NEW shape
  PROVE  AreLevels(BuildLevels(occupied, shape), occupied)
<1> DEFINE level == Merged(occupied, shape)
           Built(n) == \A i \in 1 .. n : level[i] # {} /\ \A a \in Axes : ShapeAt(shape, i - 1)[a] % 2 = 0
           depth == Greatest({i \in 0 .. 5 : Built(i)})
           levels == BuildLevels(occupied, shape)
<1>1. levels = [n \in 1 .. 1 + depth |-> level[n - 1]]
  BY DEF BuildLevels
<1>2. level = [n \in 0 .. 5 |-> IF n = 0 THEN occupied
                                 ELSE MergeLevel(level[n - 1], ShapeAt(shape, n - 1))]
  BY MergedIsRecursive
<1>3. depth \in 0 .. 5
  <2>1. Built(0)
    OBVIOUS
  <2> HIDE DEF Built
  <2>2. {i \in 0 .. 5 : Built(i)} # {}
    BY <2>1
  <2>3. {i \in 0 .. 5 : Built(i)} \in SUBSET (0 .. 5)
    OBVIOUS
  <2>4. 5 \in Nat
    OBVIOUS
  <2> QED BY <2>2, <2>3, <2>4, GreatestExists
<1> HIDE DEF level, depth, levels, Built
<1>4. level[0] = occupied
  BY <1>2
<1>5. \A n \in 1 .. 5 : level[n] = MergeLevel(level[n - 1], ShapeAt(shape, n - 1))
  BY <1>2
<1>6. \A n \in 1 .. 5 : level[n] \subseteq Vector /\ \A i \in level[n] : Block(i, 2) \subseteq level[n - 1]
  BY <1>5, IndicesAreVectors DEF MergeLevel
<1>7. DOMAIN levels = 1 .. 1 + depth /\ Len(levels) = 1 + depth
  <2>1. 1 + depth \in Nat
    BY <1>3
  <2> QED BY <1>1, <2>1
<1>8. \A n \in 1 .. 1 + depth : levels[n] = level[n - 1]
  BY <1>1
<1>9. \A n \in DOMAIN levels : levels[n] \in SUBSET Vector
  <2> SUFFICES ASSUME NEW n \in 1 .. 1 + depth
               PROVE  levels[n] \subseteq Vector
    BY <1>7
  <2>1. n - 1 = 0 \/ n - 1 \in 1 .. 5
    BY <1>3
  <2> QED BY <1>4, <1>6, <1>8, <2>1
<1>10. ASSUME NEW n \in 1 .. Len(levels) - 1, NEW i \in levels[n + 1]
       PROVE  Block(i, 2) \subseteq levels[n]
  <2>1. n \in 1 .. 5 /\ n + 1 \in 1 .. 1 + depth /\ (n + 1) - 1 = n /\ n \in 1 .. 1 + depth
    BY <1>3, <1>7
  <2>2. i \in level[n] /\ levels[n] = level[n - 1]
    BY <1>8, <2>1
  <2> QED BY <1>6, <2>1, <2>2
<1>11. levels[1] = occupied
  <2>1. 1 \in 1 .. 1 + depth /\ 1 - 1 = 0
    BY <1>3
  <2> QED BY <1>4, <1>8, <2>1
<1>12. Len(levels) \in 1 .. 6 /\ DOMAIN levels = 1 .. Len(levels)
  BY <1>3, <1>7
<1> QED BY <1>9, <1>10, <1>11, <1>12 DEF AreLevels, levels

LEMMA HalfBlock ==
  ASSUME NEW w \in Nat \ {0}, NEW x \in Int, NEW v \in Int,
         (2 * w) * x <= v, v < (2 * w) * x + 2 * w
  PROVE  LET u == IF v < (2 * w) * x + w THEN 2 * x ELSE 2 * x + 1
         IN  /\ u \in Int /\ 2 * x <= u /\ u < 2 * x + 2
             /\ w * u <= v /\ v < w * u + w
<1> DEFINE X == w * x
<1>1. X \in Int /\ (2 * w) * x = 2 * X /\ w * (2 * x) = 2 * X /\ w * (2 * x + 1) = 2 * X + w
  OBVIOUS
<1> HIDE DEF X
<1>2. CASE v < 2 * X + w
  BY <1>1, <1>2
<1>3. CASE ~ (v < 2 * X + w)
  BY <1>1, <1>3
<1> QED BY <1>2, <1>3

LEMMA LargerBlocks ==
  ASSUME NEW upper \in SUBSET Vector, NEW lower \in SUBSET Vector, NEW occupied, NEW w \in Nat \ {0},
         \A i \in upper : Block(i, 2) \subseteq lower,
         \A i \in lower : Block(i, w) \subseteq occupied
  PROVE  \A i \in upper : Block(i, 2 * w) \subseteq occupied
<1> SUFFICES ASSUME NEW i \in upper, NEW v \in Block(i, 2 * w)
             PROVE  v \in occupied
  OBVIOUS
<1> DEFINE U(a) == IF v[a] < (2 * w) * i[a] + w THEN 2 * i[a] ELSE 2 * i[a] + 1
           u == <<U(1), U(2), U(3)>>
<1>1. i \in Vector /\ 2 * w \in Nat /\ 2 \in Nat
  OBVIOUS
<1>2. v \in Vector /\ \A a \in Axes : (2 * w) * i[a] <= v[a] /\ v[a] < (2 * w) * i[a] + 2 * w
  BY <1>1, BlockIs
<1>3. \A a \in Axes : i[a] \in Int /\ v[a] \in Int
  BY <1>1, <1>2 DEF Vector, Axes
<1>4. \A a \in Axes : /\ U(a) \in Int /\ 2 * i[a] <= U(a) /\ U(a) < 2 * i[a] + 2
                      /\ w * U(a) <= v[a] /\ v[a] < w * U(a) + w
  <2> SUFFICES ASSUME NEW a \in Axes
               PROVE  /\ U(a) \in Int /\ 2 * i[a] <= U(a) /\ U(a) < 2 * i[a] + 2
                      /\ w * U(a) <= v[a] /\ v[a] < w * U(a) + w
    OBVIOUS
  <2>1. i[a] \in Int /\ v[a] \in Int /\ (2 * w) * i[a] <= v[a] /\ v[a] < (2 * w) * i[a] + 2 * w
    BY <1>2, <1>3
  <2> QED BY <2>1, HalfBlock
<1> HIDE DEF U
<1>5. u \in Vector /\ \A a \in Axes : u[a] = U(a)
  BY <1>4 DEF Vector, Axes
<1> HIDE DEF u
<1>6. u \in Block(i, 2)
  BY <1>1, <1>4, <1>5, BlockIs
<1>7. u \in lower
  BY <1>6
<1>8. v \in Block(u, w)
  BY <1>2, <1>4, <1>5, BlockIs
<1> QED BY <1>7, <1>8

LEMMA BlocksAreOccupied ==
  ASSUME NEW levels, NEW occupied, AreLevels(levels, occupied)
  PROVE  \A n \in DOMAIN levels : \A i \in levels[n] : Block(i, 2 ^ (n - 1)) \subseteq occupied
<1> DEFINE Good(n) == n \in DOMAIN levels => \A i \in levels[n] : Block(i, 2 ^ (n - 1)) \subseteq occupied
<1>1. Good(1)
  <2>1. levels[1] = occupied /\ levels[1] \in SUBSET Vector
    BY DEF AreLevels
  <2>2. ASSUME NEW i \in levels[1], NEW v \in Block(i, 1)
        PROVE  v = i
    <3>1. v \in Vector /\ \A a \in Axes : 1 * i[a] <= v[a] /\ v[a] < 1 * i[a] + 1
      BY <2>1, BlockIs
    <3>2. PICK x \in Int, y \in Int, z \in Int : i = <<x, y, z>>
      BY <2>1 DEF Vector
    <3>3. PICK k \in Int, l \in Int, m \in Int : v = <<k, l, m>>
      BY <3>1 DEF Vector
    <3>4. k = x /\ l = y /\ m = z
      BY <3>1, <3>2, <3>3 DEF Axes
    <3> QED BY <3>2, <3>3, <3>4
  <2>3. 2 ^ (1 - 1) = 1
    BY Widths
  <2> QED BY <2>1, <2>2, <2>3
<1>2. ASSUME NEW n \in 1 .. 5, Good(n)
      PROVE  Good(n + 1)
  <2> SUFFICES ASSUME n + 1 \in DOMAIN levels
               PROVE  \A i \in levels[n + 1] : Block(i, 2 ^ ((n + 1) - 1)) \subseteq occupied
    OBVIOUS
  <2>1. n \in DOMAIN levels /\ n \in 1 .. Len(levels) - 1
    BY DEF AreLevels
  <2>2. /\ levels[n] \in SUBSET Vector /\ levels[n + 1] \in SUBSET Vector
        /\ \A i \in levels[n + 1] : Block(i, 2) \subseteq levels[n]
    BY <2>1 DEF AreLevels
  <2>3. 2 ^ (n - 1) \in Nat \ {0} /\ 2 ^ ((n + 1) - 1) = 2 * 2 ^ (n - 1)
    <3>1. n \in 1 .. 6 /\ n + 1 \in 1 .. 6
      OBVIOUS
    <3> DEFINE w == 2 ^ (n - 1)
               x == 2 ^ ((n + 1) - 1)
    <3>2. /\ w = IF n = 1 THEN 1 ELSE IF n = 2 THEN 2 ELSE IF n = 3 THEN 4
                 ELSE IF n = 4 THEN 8 ELSE IF n = 5 THEN 16 ELSE 32
          /\ x = IF n + 1 = 1 THEN 1 ELSE IF n + 1 = 2 THEN 2 ELSE IF n + 1 = 3 THEN 4
                 ELSE IF n + 1 = 4 THEN 8 ELSE IF n + 1 = 5 THEN 16 ELSE 32
      BY <3>1, Widths
    <3> HIDE DEF w, x
    <3>3. w \in Nat \ {0} /\ x = 2 * w
      BY <3>2
    <3> QED BY <3>3 DEF w, x
  <2>4. \A i \in levels[n] : Block(i, 2 ^ (n - 1)) \subseteq occupied
    BY <1>2, <2>1
  <2> DEFINE w == 2 ^ (n - 1)
  <2>5. /\ w \in Nat \ {0}
        /\ \A i \in levels[n] : Block(i, w) \subseteq occupied
    BY <2>3, <2>4
  <2>6. 2 ^ ((n + 1) - 1) = 2 * w
    BY <2>3
  <2> HIDE DEF w
  <2>7. \A i \in levels[n + 1] : Block(i, 2 * w) \subseteq occupied
    BY <2>2, <2>5, LargerBlocks
  <2> QED BY <2>6, <2>7
<1> HIDE DEF Good
<1>3. Good(1) /\ Good(2) /\ Good(3) /\ Good(4) /\ Good(5) /\ Good(6)
  BY <1>1, <1>2
<1>4. \A n \in DOMAIN levels : n \in {1, 2, 3, 4, 5, 6}
  BY DEF AreLevels
<1> QED BY <1>3, <1>4 DEF Good

(* The voxels of a cube.                                                   *)
VoxelsOf(cube) == {Plus(cube.corner, d) : d \in Indices([a \in Axes |-> cube.size])}
CubeAt(i, n) == [corner |-> Times(2 ^ (n - 1), i), size |-> 2 ^ (n - 1)]

LEMMA CubeIsBlock == \A i, n : VoxelsOf(CubeAt(i, n)) = Block(i, 2 ^ (n - 1))
BY DEF VoxelsOf, CubeAt, Block

LEMMA CubesOfLevel ==
  ASSUME NEW levels, NEW n
  PROVE  CubesOf(levels, n) =
           {CubeAt(i, n) : i \in {i \in levels[n] :
                                 ~ Block(i, 2 ^ (n - 1)) \subseteq
                                     UNION {Covered(levels, m) : m \in n + 1 .. Len(levels)}}}
BY DEF CubesOf, CubeAt

LEMMA WidthsDouble ==
  \A n \in 1 .. 6, m \in 1 .. 6 :
    /\ 2 ^ (n - 1) \in Nat \ {0}
    /\ n < m => \E g \in Nat \ {0} : 2 ^ (m - 1) = 2 ^ (n - 1) * g
<1> SUFFICES ASSUME NEW n \in 1 .. 6, NEW m \in 1 .. 6
             PROVE  /\ 2 ^ (n - 1) \in Nat \ {0}
                    /\ n < m => \E g \in Nat \ {0} : 2 ^ (m - 1) = 2 ^ (n - 1) * g
  OBVIOUS
<1> DEFINE w == 2 ^ (n - 1)
           x == 2 ^ (m - 1)
<1>1. /\ w = IF n = 1 THEN 1 ELSE IF n = 2 THEN 2 ELSE IF n = 3 THEN 4
             ELSE IF n = 4 THEN 8 ELSE IF n = 5 THEN 16 ELSE 32
      /\ x = IF m = 1 THEN 1 ELSE IF m = 2 THEN 2 ELSE IF m = 3 THEN 4
             ELSE IF m = 4 THEN 8 ELSE IF m = 5 THEN 16 ELSE 32
  BY Widths
<1> HIDE DEF w, x
<1>2. w \in Nat \ {0}
  BY <1>1
<1>3. n < m => \/ x = w * 2 \/ x = w * 4 \/ x = w * 8 \/ x = w * 16 \/ x = w * 32
  BY <1>1
<1> QED BY <1>2, <1>3 DEF w, x

LEMMA Monotone ==
  ASSUME NEW w \in Nat \ {0}, NEW a \in Int, NEW b \in Int
  PROVE  /\ a <= b => w * a <= w * b
         /\ w * a < w * b => a < b
<1>1. ASSUME a <= b
      PROVE  w * a <= w * b
  <2>1. w * (b - a) >= 0
    BY <1>1
  <2>2. w * (b - a) = w * b - w * a
    OBVIOUS
  <2> QED BY <2>1, <2>2
<1>2. ASSUME w * a < w * b, a >= b
      PROVE  FALSE
  <2>1. w * (a - b) >= 0
    BY <1>2
  <2>2. w * (a - b) = w * a - w * b
    OBVIOUS
  <2> QED BY <1>2, <2>1, <2>2
<1> QED BY <1>1, <1>2

(* Blocks of two widths, one a multiple of the other, are nested along an  *)
(* axis when they meet; of one width, they are the same.                   *)
LEMMA Nested ==
  ASSUME NEW w \in Nat \ {0}, NEW g \in Nat \ {0}, NEW i \in Int, NEW j \in Int, NEW v \in Int,
         w * i <= v, v < w * i + w,
         (w * g) * j <= v, v < (w * g) * j + w * g
  PROVE  (w * g) * j <= w * i /\ w * i + w <= (w * g) * j + w * g
<1> DEFINE l == g * j
           h == g * j + g
<1>1. l \in Int /\ h \in Int
  OBVIOUS
<1>2. /\ (w * g) * j = w * l
      /\ (w * g) * j + w * g = w * h
      /\ w * (i + 1) = w * i + w
  OBVIOUS
<1> HIDE DEF l, h
<1>3. w * l < w * (i + 1) /\ w * i < w * h
  BY <1>1, <1>2
<1>4. l < i + 1 /\ i < h
  BY <1>1, <1>3, Monotone
<1>5. l <= i /\ i + 1 <= h
  BY <1>1, <1>4
<1>6. w * l <= w * i /\ w * (i + 1) <= w * h
  BY <1>1, <1>5, Monotone
<1> QED BY <1>2, <1>6

LEMMA NestedBlocks ==
  ASSUME NEW w \in Nat \ {0}, NEW g \in Nat \ {0}, NEW i \in Vector, NEW j \in Vector,
         NEW v, v \in Block(i, w), v \in Block(j, w * g)
  PROVE  Block(i, w) \subseteq Block(j, w * g)
<1> SUFFICES ASSUME NEW u \in Block(i, w)
             PROVE  u \in Block(j, w * g)
  OBVIOUS
<1> DEFINE f == w * g
<1>0. f \in Nat /\ w \in Nat
  OBVIOUS
<1>1. /\ v \in Vector
      /\ \A a \in Axes : w * i[a] <= v[a] /\ v[a] < w * i[a] + w
  BY BlockIs
<1>2. \A a \in Axes : f * j[a] <= v[a] /\ v[a] < f * j[a] + f
  <2> HIDE DEF f
  <2>1. v \in Block(j, f)
    BY DEF f
  <2> QED BY <1>0, <2>1, BlockIs
<1>3. /\ u \in Vector
      /\ \A a \in Axes : w * i[a] <= u[a] /\ u[a] < w * i[a] + w
  BY BlockIs
<1>4. \A a \in Axes : i[a] \in Int /\ j[a] \in Int /\ v[a] \in Int /\ u[a] \in Int
  BY <1>1, <1>3 DEF Vector, Axes
<1>5. \A a \in Axes : f * j[a] <= w * i[a] /\ w * i[a] + w <= f * j[a] + f
  BY <1>1, <1>2, <1>4, Nested
<1>6. \A a \in Axes : f * j[a] <= u[a] /\ u[a] < f * j[a] + f
  <2> SUFFICES ASSUME NEW a \in Axes
               PROVE  f * j[a] <= u[a] /\ u[a] < f * j[a] + f
    OBVIOUS
  <2>1. /\ w * i[a] \in Int /\ f * j[a] \in Int
    BY <1>0, <1>4
  <2> HIDE DEF f
  <2> QED BY <1>0, <1>3, <1>4, <1>5, <2>1
<1>7. u \in Block(j, f)
  <2> HIDE DEF f
  <2> QED BY <1>0, <1>3, <1>6, BlockIs
<1> QED BY <1>7

LEMMA SameBlock ==
  ASSUME NEW w \in Nat \ {0}, NEW i \in Vector, NEW j \in Vector,
         NEW v, v \in Block(i, w), v \in Block(j, w)
  PROVE  i = j
<1>0. w \in Nat
  OBVIOUS
<1>1. /\ v \in Vector
      /\ \A a \in Axes : /\ w * i[a] <= v[a] /\ v[a] < w * i[a] + w
                         /\ w * j[a] <= v[a] /\ v[a] < w * j[a] + w
  BY <1>0, BlockIs
<1>2. \A a \in Axes : i[a] \in Int /\ j[a] \in Int /\ v[a] \in Int
  BY <1>1 DEF Vector, Axes
<1>3. \A a \in Axes : i[a] = j[a]
  <2> SUFFICES ASSUME NEW a \in Axes
               PROVE  i[a] = j[a]
    OBVIOUS
  <2>1. /\ w * (i[a] + 1) = w * i[a] + w /\ w * (j[a] + 1) = w * j[a] + w
        /\ w * i[a] \in Int /\ w * j[a] \in Int
    BY <1>2
  <2>2. w * i[a] < w * (j[a] + 1) /\ w * j[a] < w * (i[a] + 1)
    BY <1>1, <1>2, <2>1
  <2>3. i[a] < j[a] + 1 /\ j[a] < i[a] + 1
    BY <1>2, <2>2, Monotone
  <2> QED BY <1>2, <2>3
<1> QED BY <1>3 DEF Vector, Axes

(* The cubes of levels: they share no voxel, and what they consist of is   *)
(* what the levels consist of.                                             *)
LEMMA CubesOfLevels ==
  ASSUME NEW levels, NEW occupied, AreLevels(levels, occupied)
  PROVE  /\ \A c \in ExtractCubes(levels) : \E n \in 1 .. 6 : \E i \in Vector : c = CubeAt(i, n)
         /\ UNION {VoxelsOf(c) : c \in ExtractCubes(levels)} = occupied
         /\ \A c, d \in ExtractCubes(levels) : c = d \/ VoxelsOf(c) \cap VoxelsOf(d) = {}
<1> DEFINE cubes == ExtractCubes(levels)
           Over(n) == UNION {Covered(levels, m) : m \in n + 1 .. Len(levels)}
           Taken(n, i) == n \in DOMAIN levels /\ i \in levels[n] /\ ~ Block(i, 2 ^ (n - 1)) \subseteq Over(n)
<1>1. \A c : c \in cubes <=> \E n, i : Taken(n, i) /\ c = CubeAt(i, n)
  <2>1. \A c : c \in cubes <=> \E n \in DOMAIN levels : c \in CubesOf(levels, n)
    BY DEF ExtractCubes
  <2>2. \A n : CubesOf(levels, n) = {CubeAt(i, n) : i \in {i \in levels[n] : ~ Block(i, 2 ^ (n - 1)) \subseteq Over(n)}}
    BY CubesOfLevel
  <2> HIDE DEF cubes, Over
  <2> QED BY <2>1, <2>2
<1>2. /\ DOMAIN levels = 1 .. Len(levels) /\ Len(levels) \in 1 .. 6
      /\ \A n \in DOMAIN levels : n \in 1 .. 6 /\ levels[n] \subseteq Vector
      /\ levels[1] = occupied
  BY DEF AreLevels
<1>3. \A n, v : v \in Over(n) <=>
        \E m \in n + 1 .. Len(levels) : \E j \in levels[m] : v \in Block(j, 2 ^ (m - 1))
  BY DEF Covered
<1> HIDE DEF cubes, Over
<1>4. \A c \in cubes : \E n \in 1 .. 6 : \E i \in Vector : c = CubeAt(i, n)
  BY <1>1, <1>2
<1>5. ASSUME NEW c \in cubes, NEW v \in VoxelsOf(c)
      PROVE  v \in occupied
  <2>1. PICK n, i : Taken(n, i) /\ c = CubeAt(i, n)
    BY <1>1
  <2>2. v \in Block(i, 2 ^ (n - 1))
    BY <2>1, CubeIsBlock
  <2>3. Block(i, 2 ^ (n - 1)) \subseteq occupied
    BY <2>1, BlocksAreOccupied
  <2> QED BY <2>2, <2>3
<1>6. ASSUME NEW v \in occupied
      PROVE  \E c \in cubes : v \in VoxelsOf(c)
  <2> DEFINE S == {n \in 1 .. Len(levels) : \E i \in levels[n] : v \in Block(i, 2 ^ (n - 1))}
             g == Greatest(S)
  <2>1. 1 \in S
    <3>1. v \in levels[1] /\ v \in Vector /\ 1 \in 1 .. Len(levels) /\ 1 \in Nat
      BY <1>2
    <3>2. 2 ^ (1 - 1) = 1
      BY Widths
    <3>3. \A a \in Axes : 1 * v[a] <= v[a] /\ v[a] < 1 * v[a] + 1
      BY <3>1 DEF Vector, Axes
    <3>4. v \in Block(v, 1)
      BY <3>1, <3>3, BlockIs
    <3> QED BY <3>1, <3>2, <3>4
  <2>2. S \in SUBSET (0 .. Len(levels)) /\ Len(levels) \in Nat
    BY <1>2
  <2>3. g \in S /\ \A m \in S : m <= g
    BY <2>1, <2>2, GreatestExists
  <2>4. PICK i \in levels[g] : v \in Block(i, 2 ^ (g - 1))
    BY <2>3
  <2>5. g \in 1 .. Len(levels)
    BY <2>3
  <2> HIDE DEF g
  <2>6. v \notin Over(g)
    <3> SUFFICES ASSUME NEW m \in g + 1 .. Len(levels), NEW j \in levels[m], v \in Block(j, 2 ^ (m - 1))
                 PROVE  FALSE
      BY <1>3
    <3>1. m \in 1 .. Len(levels)
      BY <1>2, <2>5
    <3>2. m \in S
      BY <3>1
    <3>3. m <= g
      BY <2>3, <3>2
    <3> QED BY <1>2, <2>5, <3>3
  <2>7. Taken(g, i)
    BY <1>2, <2>4, <2>5, <2>6
  <2>8. CubeAt(i, g) \in cubes /\ v \in VoxelsOf(CubeAt(i, g))
    BY <1>1, <2>4, <2>7, CubeIsBlock
  <2> QED BY <2>8
<1>7. ASSUME NEW n, NEW i, Taken(n, i), NEW m, NEW j, Taken(m, j), n < m,
             NEW v, v \in Block(i, 2 ^ (n - 1)), v \in Block(j, 2 ^ (m - 1))
      PROVE  FALSE
  <2>1. n \in 1 .. 6 /\ m \in 1 .. 6 /\ i \in Vector /\ j \in Vector
    BY <1>2, <1>7
  <2> DEFINE w == 2 ^ (n - 1)
             x == 2 ^ (m - 1)
  <2>2. w \in Nat \ {0} /\ \E g \in Nat \ {0} : x = w * g
    BY <1>7, <2>1, WidthsDouble
  <2>3. v \in Block(i, w) /\ v \in Block(j, x)
    BY <1>7
  <2> HIDE DEF w, x
  <2>4. Block(i, w) \subseteq Block(j, x)
    BY <2>1, <2>2, <2>3, NestedBlocks
  <2>5. m \in n + 1 .. Len(levels)
    BY <1>2, <1>7, <2>1
  <2>6. \A u \in Block(i, w) : u \in Over(n)
    BY <1>3, <1>7, <2>4, <2>5 DEF x
  <2> QED BY <1>7, <2>6 DEF w
<1>8. ASSUME NEW c \in cubes, NEW d \in cubes, NEW v \in VoxelsOf(c) \cap VoxelsOf(d)
      PROVE  c = d
  <2>1. PICK n, i : Taken(n, i) /\ c = CubeAt(i, n)
    BY <1>1
  <2>2. PICK m, j : Taken(m, j) /\ d = CubeAt(j, m)
    BY <1>1
  <2>3. v \in Block(i, 2 ^ (n - 1)) /\ v \in Block(j, 2 ^ (m - 1))
    BY <1>8, <2>1, <2>2, CubeIsBlock
  <2>4. n \in 1 .. 6 /\ m \in 1 .. 6 /\ i \in Vector /\ j \in Vector
    BY <1>2, <2>1, <2>2
  <2>5. ~ (n < m) /\ ~ (m < n)
    BY <1>7, <2>1, <2>2, <2>3
  <2>6. n = m
    BY <2>4, <2>5
  <2> DEFINE w == 2 ^ (n - 1)
  <2>7. w \in Nat \ {0} /\ v \in Block(i, w) /\ v \in Block(j, w)
    BY <2>3, <2>4, <2>6, WidthsDouble
  <2> HIDE DEF w
  <2>8. i = j
    BY <2>4, <2>7, SameBlock
  <2> QED BY <2>1, <2>2, <2>6, <2>8
<1>9. UNION {VoxelsOf(c) : c \in cubes} = occupied
  BY <1>5, <1>6
<1> QED BY <1>4, <1>8, <1>9 DEF cubes

(* However voxels are merged, the cubes of a mesh consist of its voxels,   *)
(* each of which is in one cube alone, and of no others                    *)
(* (compute_occupancy, build_levels, merge_level, extract_cubes).          *)
THEOREM CubesPartitionTheVoxels ==
  ASSUME NEW occupied \in SUBSET Vector, NEW shape
  PROVE  LET cubes == ExtractCubes(BuildLevels(occupied, shape))
         IN  /\ UNION {VoxelsOf(c) : c \in cubes} = occupied
             /\ \A c, d \in cubes : c = d \/ VoxelsOf(c) \cap VoxelsOf(d) = {}
BY BuiltAreLevels, CubesOfLevels

-----------------------------------------------------------------------------
(* The grid of a mesh: the place of its corner, and of its cubes.          *)
(* A mesh of points between bounds, and a place for its centre.            *)
Bounded(solid) ==
  /\ solid # {} /\ solid \subseteq Vector
  /\ \E bound \in Nat : \A p \in solid, a \in Axes : -bound <= p[a] /\ p[a] <= bound
Put(mesh, pose, p) == Plus(pose.at, Plus(mesh.centre, Turn(pose.quat, Minus(p, mesh.centre))))
PutSolid(mesh, pose) == {Put(mesh, pose, p) : p \in mesh.solid}

LEMMA VectorsAdd ==
  ASSUME NEW p \in Vector, NEW q \in Vector
  PROVE  /\ Plus(p, q) \in Vector /\ Minus(p, q) \in Vector
         /\ \A a \in Axes : /\ p[a] \in Int /\ q[a] \in Int
                            /\ Plus(p, q)[a] = p[a] + q[a] /\ Minus(p, q)[a] = p[a] - q[a]
<1>1. PICK x \in Int, y \in Int, z \in Int : p = <<x, y, z>>
  BY DEF Vector
<1>2. PICK u \in Int, v \in Int, w \in Int : q = <<u, v, w>>
  BY DEF Vector
<1>3. Plus(p, q) = <<x + u, y + v, z + w>> /\ Minus(p, q) = <<x - u, y - v, z - w>>
  BY <1>1, <1>2 DEF Plus, Minus
<1> QED BY <1>1, <1>2, <1>3 DEF Vector, Axes

(* A turn swaps and negates coordinates, the same for all points.          *)
LEMMA TurnedCoordinates ==
  ASSUME NEW quat \in 0 .. 3
  PROVE  /\ \A p \in Vector : Turn(quat, p) \in Vector
         /\ \A a \in Axes : \E e \in Axes : \/ \A p \in Vector : Turn(quat, p)[a] = p[e]
                                          \/ \A p \in Vector : Turn(quat, p)[a] = -p[e]
<1>1. \A p \in Vector : p[1] \in Int /\ p[2] \in Int /\ p[3] \in Int /\ p = <<p[1], p[2], p[3]>>
  BY DEF Vector
<1>2. \/ \A p \in Vector : Turn(quat, p) = <<p[1], p[2], p[3]>>
      \/ \A p \in Vector : Turn(quat, p) = <<-p[2], p[1], p[3]>>
      \/ \A p \in Vector : Turn(quat, p) = <<-p[1], -p[2], p[3]>>
      \/ \A p \in Vector : Turn(quat, p) = <<p[2], -p[1], p[3]>>
  <2>1. quat = 0 \/ quat = 1 \/ quat = 2 \/ quat = 3
    OBVIOUS
  <2> QED BY <1>1, <2>1 DEF Turn
<1>3. \A p \in Vector : Turn(quat, p) \in Vector
  BY <1>1, <1>2 DEF Vector
<1>4. 1 \in Axes /\ 2 \in Axes /\ 3 \in Axes /\ \A a \in Axes : a = 1 \/ a = 2 \/ a = 3
  BY DEF Axes
<1>5. ASSUME NEW a \in Axes
      PROVE  \E e \in Axes : \/ \A p \in Vector : Turn(quat, p)[a] = p[e]
                             \/ \A p \in Vector : Turn(quat, p)[a] = -p[e]
  <2>1. CASE \A p \in Vector : Turn(quat, p) = <<p[1], p[2], p[3]>>
    BY <1>4, <2>1
  <2>2. CASE \A p \in Vector : Turn(quat, p) = <<-p[2], p[1], p[3]>>
    BY <1>4, <2>2
  <2>3. CASE \A p \in Vector : Turn(quat, p) = <<-p[1], -p[2], p[3]>>
    BY <1>4, <2>3
  <2>4. CASE \A p \in Vector : Turn(quat, p) = <<p[2], -p[1], p[3]>>
    BY <1>4, <2>4
  <2> QED BY <1>2, <2>1, <2>2, <2>3, <2>4
<1> QED BY <1>3, <1>5

LEMMA LeastOfBounded ==
  ASSUME NEW S \in SUBSET Int, S # {}, NEW bound \in Int, \A n \in S : bound <= n
  PROVE  Least(S) \in S /\ \A m \in S : Least(S) <= m
<1> DEFINE T == {n - bound : n \in S}
<1>1. T \in SUBSET Nat /\ T # {}
  <2>1. \A n \in S : n - bound \in Nat
    OBVIOUS
  <2> QED BY <2>1
<1>2. Least(T) \in T /\ \A m \in T : Least(T) <= m
  BY <1>1, LeastExists
<1>3. PICK k \in S : Least(T) = k - bound
  BY <1>2
<1>4. \A n \in S : k - bound <= n - bound
  BY <1>2, <1>3
<1>5. \A n \in S : k <= n
  BY <1>4
<1>6. \E n \in S : \A m \in S : n <= m
  BY <1>5
<1> QED BY <1>6 DEF Least

LEMMA GreatestOfBounded ==
  ASSUME NEW S \in SUBSET Int, S # {}, NEW bound \in Int, \A n \in S : n <= bound
  PROVE  Greatest(S) \in S /\ \A m \in S : m <= Greatest(S)
<1> DEFINE T == {bound - n : n \in S}
<1>1. T \in SUBSET Nat /\ T # {}
  <2>1. \A n \in S : bound - n \in Nat
    OBVIOUS
  <2> QED BY <2>1
<1>2. Least(T) \in T /\ \A m \in T : Least(T) <= m
  BY <1>1, LeastExists
<1>3. PICK k \in S : Least(T) = bound - k
  BY <1>2
<1>4. \A n \in S : bound - k <= bound - n
  BY <1>2, <1>3
<1>5. \A n \in S : k >= n
  BY <1>4
<1>6. \E n \in S : \A m \in S : n >= m
  BY <1>5
<1> QED BY <1>6 DEF Greatest

LEMMA PutIsBounded ==
  ASSUME NEW mesh, Bounded(mesh.solid), mesh.centre \in Vector, NEW pose \in Poses
  PROVE  Bounded(PutSolid(mesh, pose))
<1> DEFINE c == mesh.centre
           T(p) == Turn(pose.quat, Minus(p, c))
<1>1. pose.at \in Vector /\ pose.quat \in 0 .. 3 /\ c \in Vector
  BY DEF Poses
<1>2. PICK bound \in Nat : \A p \in mesh.solid, a \in Axes : -bound <= p[a] /\ p[a] <= bound
  BY DEF Bounded
<1>3. PICK far \in Nat : \A a \in Axes : /\ -far <= c[a] /\ c[a] <= far
                                         /\ -far <= pose.at[a] /\ pose.at[a] <= far
  <2>1. \A n \in Int : \E k \in Nat : -k <= n /\ n <= k
    <3> SUFFICES ASSUME NEW n \in Int PROVE \E k \in Nat : -k <= n /\ n <= k
      OBVIOUS
    <3>1. CASE n >= 0
      <4>1. n \in Nat /\ -n <= n /\ n <= n
        BY <3>1
      <4> QED BY <4>1
    <3>2. CASE n < 0
      <4>1. -n \in Nat /\ -(-n) <= n /\ n <= -n
        BY <3>2
      <4> QED BY <4>1
    <3> QED BY <3>1, <3>2
  <2>2. PICK x \in Int, y \in Int, z \in Int : c = <<x, y, z>>
    BY <1>1 DEF Vector
  <2>3. PICK u \in Int, v \in Int, w \in Int : pose.at = <<u, v, w>>
    BY <1>1 DEF Vector
  <2>4. PICK k1 \in Nat : -k1 <= x /\ x <= k1
    BY <2>1
  <2>5. PICK k2 \in Nat : -k2 <= y /\ y <= k2
    BY <2>1
  <2>6. PICK k3 \in Nat : -k3 <= z /\ z <= k3
    BY <2>1
  <2>7. PICK k4 \in Nat : -k4 <= u /\ u <= k4
    BY <2>1
  <2>8. PICK k5 \in Nat : -k5 <= v /\ v <= k5
    BY <2>1
  <2>9. PICK k6 \in Nat : -k6 <= w /\ w <= k6
    BY <2>1
  <2> DEFINE k == k1 + k2 + k3 + k4 + k5 + k6
  <2>10. /\ k \in Nat
         /\ -k <= x /\ x <= k /\ -k <= y /\ y <= k /\ -k <= z /\ z <= k
         /\ -k <= u /\ u <= k /\ -k <= v /\ v <= k /\ -k <= w /\ w <= k
    BY <2>4, <2>5, <2>6, <2>7, <2>8, <2>9
  <2> HIDE DEF k
  <2>11. \A a \in Axes : -k <= c[a] /\ c[a] <= k /\ -k <= pose.at[a] /\ pose.at[a] <= k
    BY <2>2, <2>3, <2>10 DEF Axes
  <2> QED BY <2>10, <2>11
<1> DEFINE reach == bound + 3 * far
<1>4. ASSUME NEW p \in mesh.solid
      PROVE  /\ Put(mesh, pose, p) \in Vector
             /\ \A a \in Axes : -reach <= Put(mesh, pose, p)[a] /\ Put(mesh, pose, p)[a] <= reach
  <2>1. p \in Vector
    BY DEF Bounded
  <2> DEFINE d == Minus(p, c)
             t == Turn(pose.quat, d)
  <2>2. d \in Vector /\ \A a \in Axes : d[a] \in Int /\ -(bound + far) <= d[a] /\ d[a] <= bound + far
    <3>1. d \in Vector /\ \A a \in Axes : p[a] \in Int /\ c[a] \in Int /\ d[a] = p[a] - c[a]
      BY <1>1, <2>1, VectorsAdd
    <3> HIDE DEF d
    <3>2. ASSUME NEW a \in Axes
          PROVE  d[a] \in Int /\ -(bound + far) <= d[a] /\ d[a] <= bound + far
      <4>1. /\ p[a] \in Int /\ c[a] \in Int /\ d[a] = p[a] - c[a] /\ bound \in Nat /\ far \in Nat
            /\ -bound <= p[a] /\ p[a] <= bound /\ -far <= c[a] /\ c[a] <= far
        BY <1>2, <1>3, <3>1
      <4> HIDE DEF c
      <4> QED BY <4>1
    <3> QED BY <3>1, <3>2
  <2> HIDE DEF d
  <2>3. t \in Vector /\ \A a \in Axes : t[a] \in Int /\ -(bound + far) <= t[a] /\ t[a] <= bound + far
    <3>1. t \in Vector /\ \A a \in Axes : \E e \in Axes : t[a] = d[e] \/ t[a] = -d[e]
      BY <1>1, <2>2, TurnedCoordinates
    <3> HIDE DEF t
    <3> QED BY <2>2, <3>1
  <2> HIDE DEF t, c
  <2> DEFINE s == Plus(c, t)
  <2>4. s \in Vector /\ \A a \in Axes : s[a] = c[a] + t[a] /\ c[a] \in Int
    BY <1>1, <2>3, VectorsAdd
  <2>5. Put(mesh, pose, p) = Plus(pose.at, s)
    BY DEF Put, t, d, c
  <2> HIDE DEF s
  <2>6. Plus(pose.at, s) \in Vector /\ \A a \in Axes : Plus(pose.at, s)[a] = pose.at[a] + s[a] /\ pose.at[a] \in Int
    BY <1>1, <2>4, VectorsAdd
  <2>7. ASSUME NEW a \in Axes
        PROVE  -reach <= pose.at[a] + s[a] /\ pose.at[a] + s[a] <= reach
    BY <1>3, <2>3, <2>4, <2>6
  <2> QED BY <2>5, <2>6, <2>7
<1>5. reach \in Nat
  OBVIOUS
<1> HIDE DEF reach
<1>6. PutSolid(mesh, pose) # {}
  BY DEF PutSolid, Bounded
<1> QED BY <1>4, <1>5, <1>6 DEF Bounded, PutSolid

LEMMA CoordinatesOfBounded ==
  ASSUME NEW solid, Bounded(solid), NEW a \in Axes
  PROVE  LET coordinates == {p[a] : p \in solid}
         IN  /\ Least(coordinates) \in Int /\ Least(coordinates) \in coordinates
             /\ Greatest(coordinates) \in Int /\ Greatest(coordinates) \in coordinates
             /\ \A p \in solid : Least(coordinates) <= p[a] /\ p[a] <= Greatest(coordinates)
<1> DEFINE S == {p[a] : p \in solid}
<1>1. PICK bound \in Nat : \A p \in solid, b \in Axes : -bound <= p[b] /\ p[b] <= bound
  BY DEF Bounded
<1>2. \A p \in solid : p[a] \in Int
  BY DEF Bounded, Vector, Axes
<1>3. S \in SUBSET Int /\ S # {}
  BY <1>2 DEF Bounded
<1>4. -bound \in Int /\ \A n \in S : -bound <= n
  BY <1>1
<1>5. bound \in Int /\ \A n \in S : n <= bound
  BY <1>1
<1>6. Least(S) \in S /\ \A m \in S : Least(S) <= m
  BY <1>3, <1>4, LeastOfBounded
<1>7. Greatest(S) \in S /\ \A m \in S : m <= Greatest(S)
  BY <1>3, <1>5, GreatestOfBounded
<1>8. Least(S) \in Int /\ Greatest(S) \in Int /\ \A p \in solid : p[a] \in S
  BY <1>3, <1>6, <1>7
<1> QED BY <1>6, <1>7, <1>8

LEMMA LowOfGrid ==
  ASSUME NEW solid, Bounded(solid), NEW voxel
  PROVE  /\ DenseGrid(solid, voxel).low \in Vector
         /\ \A a \in Axes : DenseGrid(solid, voxel).low[a] = Least({p[a] : p \in solid}) - 1
<1> DEFINE L(a) == Least({p[a] : p \in solid})
           low == [a \in Axes |-> L(a) - 1]
<1>1. DenseGrid(solid, voxel).low = low
  BY DEF DenseGrid
<1>2. \A a \in Axes : L(a) \in Int
  BY CoordinatesOfBounded
<1> HIDE DEF L
<1>3. low = <<L(1) - 1, L(2) - 1, L(3) - 1>>
  BY DEF Axes
<1>4. 1 \in Axes /\ 2 \in Axes /\ 3 \in Axes
  BY DEF Axes
<1>5. low \in Vector
  BY <1>2, <1>3, <1>4 DEF Vector
<1> QED BY <1>1, <1>5 DEF L

(* The cubes of a solid, and the cuboid of a cube.                         *)
MeshCubes(solid, voxel) ==
  LET grid == DenseGrid(solid, voxel)
  IN  ExtractCubes(BuildLevels(Occupancy(solid, grid, voxel), grid.shape))
CuboidOf(low, voxel, c) == [corner |-> Plus(low, Times(2 * voxel, c.corner)), size |-> 2 * voxel * c.size]

LEMMA PipelineIs ==
  ASSUME NEW mesh, NEW pose, NEW voxel
  PROVE  LET solid == PutSolid(mesh, pose)
         IN  Pipeline(mesh, pose, voxel) = {CuboidOf(DenseGrid(solid, voxel).low, voxel, c) : c \in MeshCubes(solid, voxel)}
BY DEF Pipeline, PutSolid, Put, MeshCubes, CuboidOf

LEMMA CubesOfMesh ==
  ASSUME NEW solid, NEW voxel
  PROVE  LET cubes == MeshCubes(solid, voxel)
         IN  /\ \A c \in cubes : /\ c.corner \in Vector /\ c.size \in Nat \ {0}
                                 /\ c = [corner |-> c.corner, size |-> c.size]
                                 /\ c.corner \in VoxelsOf(c)
                                 /\ \A v : v \in VoxelsOf(c) <=>
                                      /\ v \in Vector
                                      /\ \A a \in Axes : c.corner[a] <= v[a] /\ v[a] < c.corner[a] + c.size
             /\ UNION {VoxelsOf(c) : c \in cubes} = Occupancy(solid, DenseGrid(solid, voxel), voxel)
             /\ \A c, d \in cubes : c = d \/ VoxelsOf(c) \cap VoxelsOf(d) = {}
<1> DEFINE grid == DenseGrid(solid, voxel)
           occupied == Occupancy(solid, grid, voxel)
           levels == BuildLevels(occupied, grid.shape)
<1>1. occupied \in SUBSET Vector
  BY IndicesAreVectors DEF Occupancy
<1>2. AreLevels(levels, occupied)
  <2> HIDE DEF grid, occupied
  <2> QED BY <1>1, BuiltAreLevels
<1>3. MeshCubes(solid, voxel) = ExtractCubes(levels)
  BY DEF MeshCubes
<1> HIDE DEF levels, occupied, grid
<1>4. /\ \A c \in ExtractCubes(levels) : \E n \in 1 .. 6 : \E i \in Vector : c = CubeAt(i, n)
      /\ UNION {VoxelsOf(c) : c \in ExtractCubes(levels)} = occupied
      /\ \A c, d \in ExtractCubes(levels) : c = d \/ VoxelsOf(c) \cap VoxelsOf(d) = {}
  BY <1>2, CubesOfLevels
<1>5. ASSUME NEW n \in 1 .. 6, NEW i \in Vector
      PROVE  LET c == CubeAt(i, n)
             IN  /\ c.corner \in Vector /\ c.size \in Nat \ {0}
                 /\ c = [corner |-> c.corner, size |-> c.size]
                 /\ c.corner \in VoxelsOf(c)
                 /\ \A v : v \in VoxelsOf(c) <=>
                      /\ v \in Vector
                      /\ \A a \in Axes : c.corner[a] <= v[a] /\ v[a] < c.corner[a] + c.size
  <2> DEFINE w == 2 ^ (n - 1)
             k == Times(w, i)
             c == CubeAt(i, n)
  <2>1. w \in Nat \ {0}
    BY WidthsDouble
  <2>2. c = [corner |-> k, size |-> w]
    BY DEF CubeAt
  <2> HIDE DEF w, c
  <2>3. k \in Vector
    <3>1. PICK x \in Int, y \in Int, z \in Int : i = <<x, y, z>>
      BY DEF Vector
    <3>2. w * x \in Int /\ w * y \in Int /\ w * z \in Int
      BY <2>1
    <3> QED BY <3>1, <3>2 DEF Times, Vector
  <2> HIDE DEF k
  <2>4. c.corner = k /\ c.size = w
    BY <2>2
  <2>5. \A a \in Axes : k[a] = w * i[a] /\ k[a] \in Int
    BY <2>3 DEF Times, Axes, Vector, k
  <2>6. \A v : v \in VoxelsOf(c) <=>
               /\ v \in Vector
               /\ \A a \in Axes : k[a] <= v[a] /\ v[a] < k[a] + w
    <3>1. VoxelsOf(c) = Block(i, w)
      BY CubeIsBlock DEF c, w
    <3>2. \A v : v \in Block(i, w) <=>
                 /\ v \in Vector
                 /\ \A a \in Axes : w * i[a] <= v[a] /\ v[a] < w * i[a] + w
      BY <2>1, BlockIs
    <3> QED BY <2>5, <3>1, <3>2
  <2>7. k \in VoxelsOf(c)
    BY <2>1, <2>3, <2>5, <2>6
  <2> QED BY <2>1, <2>2, <2>3, <2>4, <2>6, <2>7 DEF c
<1>6. \A c \in ExtractCubes(levels) :
        /\ c.corner \in Vector /\ c.size \in Nat \ {0}
        /\ c = [corner |-> c.corner, size |-> c.size]
        /\ c.corner \in VoxelsOf(c)
        /\ \A v : v \in VoxelsOf(c) <=>
             /\ v \in Vector
             /\ \A a \in Axes : c.corner[a] <= v[a] /\ v[a] < c.corner[a] + c.size
  BY <1>4, <1>5
<1> QED BY <1>3, <1>4, <1>6 DEF occupied, grid

LEMMA CuboidOfCube ==
  ASSUME NEW low \in Vector, NEW voxel \in Nat \ {0},
         NEW c, c.corner \in Vector, c.size \in Nat
  PROVE  LET b == CuboidOf(low, voxel, c)
         IN  /\ b.corner \in Vector /\ b.size \in Nat /\ b = [corner |-> b.corner, size |-> b.size]
             /\ b.size = 2 * voxel * c.size
             /\ \A a \in Axes : b.corner[a] = low[a] + (2 * voxel) * c.corner[a] /\ c.corner[a] \in Int /\ low[a] \in Int
<1> DEFINE b == CuboidOf(low, voxel, c)
           k == Times(2 * voxel, c.corner)
           p == Plus(low, k)
           n == 2 * voxel * c.size
<1>1. n \in Nat
  OBVIOUS
<1>2. k \in Vector /\ \A a \in Axes : k[a] = (2 * voxel) * c.corner[a] /\ c.corner[a] \in Int
  <2>1. PICK x \in Int, y \in Int, z \in Int : c.corner = <<x, y, z>>
    BY DEF Vector
  <2> DEFINE w == 2 * voxel
  <2>2. w * x \in Int /\ w * y \in Int /\ w * z \in Int
    OBVIOUS
  <2> HIDE DEF w
  <2>3. Times(w, c.corner) = <<w * x, w * y, w * z>>
    BY <2>1 DEF Times
  <2> QED BY <2>1, <2>2, <2>3 DEF Vector, Axes, w
<1> HIDE DEF k
<1>3. p \in Vector /\ \A a \in Axes : p[a] = low[a] + k[a] /\ low[a] \in Int
  BY <1>2, VectorsAdd
<1>4. b = [corner |-> p, size |-> n]
  BY DEF CuboidOf, k
<1> HIDE DEF p, n, b
<1>5. b.corner = p /\ b.size = n
  BY <1>4
<1> QED BY <1>1, <1>2, <1>3, <1>4, <1>5 DEF b, n

LEMMA CubesPlaced ==
  ASSUME NEW low \in Vector, NEW voxel \in Nat \ {0},
         NEW c, c.corner \in Vector, c.size \in Nat, NEW d, d.corner \in Vector, d.size \in Nat,
         CuboidOf(low, voxel, c).corner = CuboidOf(low, voxel, d).corner
  PROVE  c.corner = d.corner
<1>1. \A a \in Axes : /\ low[a] \in Int /\ c.corner[a] \in Int /\ d.corner[a] \in Int
                      /\ low[a] + (2 * voxel) * c.corner[a] = low[a] + (2 * voxel) * d.corner[a]
  BY CuboidOfCube
<1>2. \A a \in Axes : c.corner[a] = d.corner[a]
  <2> SUFFICES ASSUME NEW a \in Axes PROVE c.corner[a] = d.corner[a]
    OBVIOUS
  <2> DEFINE x == c.corner[a]
             y == d.corner[a]
             w == 2 * voxel
  <2>1. x \in Int /\ y \in Int /\ w \in Nat \ {0} /\ w * x = w * y
    <3>1. low[a] \in Int /\ x \in Int /\ y \in Int /\ w * x \in Int /\ w * y \in Int /\ low[a] + w * x = low[a] + w * y
      BY <1>1
    <3> HIDE DEF x, y, w
    <3>2. w * x = w * y
      BY <3>1
    <3> QED BY <3>1, <3>2 DEF w
  <2> HIDE DEF x, y, w
  <2>2. w * (x - y) = 0
    BY <2>1
  <2>3. x - y = 0
    BY <2>1, <2>2
  <2>4. x = y
    BY <2>1, <2>3
  <2> QED BY <2>4 DEF x, y
<1> QED BY <1>2 DEF Vector, Axes

(* The mesh of a bounded solid has cubes of which the lists can be made.   *)
LEMMA MeshesHaveCubes ==
  ASSUME NEW mesh, Bounded(mesh.solid), mesh.centre \in Vector, NEW pose \in Poses, NEW voxel \in Nat \ {0}
  PROVE  AreCubes(Pipeline(mesh, pose, voxel))
<1> DEFINE solid == PutSolid(mesh, pose)
           low == DenseGrid(solid, voxel).low
           cubes == MeshCubes(solid, voxel)
<1>1. low \in Vector
  BY PutIsBounded, LowOfGrid
<1>2. Pipeline(mesh, pose, voxel) = {CuboidOf(low, voxel, c) : c \in cubes}
  BY PipelineIs
<1>3. /\ \A c \in cubes : c.corner \in Vector /\ c.size \in Nat /\ c.corner \in VoxelsOf(c)
      /\ \A c, d \in cubes : c = d \/ VoxelsOf(c) \cap VoxelsOf(d) = {}
  BY CubesOfMesh
<1> HIDE DEF low, cubes
<1>4. \A c \in cubes : CuboidOf(low, voxel, c) \in [corner : Vector, size : Nat]
  <2> SUFFICES ASSUME NEW c \in cubes PROVE CuboidOf(low, voxel, c) \in [corner : Vector, size : Nat]
    OBVIOUS
  <2> DEFINE b == CuboidOf(low, voxel, c)
  <2>1. b.corner \in Vector /\ b.size \in Nat /\ b = [corner |-> b.corner, size |-> b.size]
    BY <1>1, <1>3, CuboidOfCube
  <2> HIDE DEF b
  <2>2. b \in [corner : Vector, size : Nat]
    BY <2>1
  <2> QED BY <2>2 DEF b
<1>5. \A c, d \in cubes : CuboidOf(low, voxel, c).corner = CuboidOf(low, voxel, d).corner => c = d
  <2> SUFFICES ASSUME NEW c \in cubes, NEW d \in cubes,
                      CuboidOf(low, voxel, c).corner = CuboidOf(low, voxel, d).corner
               PROVE  c = d
    OBVIOUS
  <2>1. c.corner = d.corner
    BY <1>1, <1>3, CubesPlaced
  <2>2. c.corner \in VoxelsOf(c) \cap VoxelsOf(d)
    BY <1>3, <2>1
  <2> QED BY <1>3, <2>2
<1> QED BY <1>2, <1>4, <1>5 DEF AreCubes

-----------------------------------------------------------------------------
(* What fits into the grid that is modelled: cells, at most 32 in a row.   *)
Fits(solid) ==
  /\ solid # {} /\ solid \subseteq Vector
  /\ \A p \in solid, a \in Axes : p[a] % 2 = 1
  /\ \A p, q \in solid, a \in Axes : p[a] - q[a] < 64
Even(p) == p \in Vector /\ \A a \in Axes : p[a] % 2 = 0

LEMMA FitsIsBounded ==
  ASSUME NEW solid, Fits(solid)
  PROVE  Bounded(solid)
<1>1. PICK q : q \in solid /\ q \in Vector
  BY DEF Fits
<1>2. PICK x \in Int, y \in Int, z \in Int : q = <<x, y, z>>
  BY <1>1 DEF Vector
<1>3. \E bound \in Nat : \A n \in {x, y, z} : -bound <= n - 64 /\ n + 64 <= bound
  <2> DEFINE Abs(n) == IF n < 0 THEN -n ELSE n
             bound == Abs(x) + Abs(y) + Abs(z) + 64
  <2>1. \A n \in Int : Abs(n) \in Nat /\ -Abs(n) <= n /\ n <= Abs(n)
    OBVIOUS
  <2> HIDE DEF Abs
  <2>2. bound \in Nat /\ \A n \in {x, y, z} : -bound <= n - 64 /\ n + 64 <= bound
    BY <2>1
  <2> QED BY <2>2
<1>4. PICK bound \in Nat : \A n \in {x, y, z} : -bound <= n - 64 /\ n + 64 <= bound
  BY <1>3
<1>5. ASSUME NEW p \in solid, NEW a \in Axes
      PROVE  -bound <= p[a] /\ p[a] <= bound
  <2>1. p[a] \in Int /\ q[a] \in Int /\ p[a] - q[a] < 64 /\ q[a] - p[a] < 64
    BY <1>1 DEF Fits, Vector, Axes
  <2>2. q[a] \in {x, y, z}
    BY <1>2 DEF Axes
  <2> DEFINE n == q[a]
             m == p[a]
  <2>3. -bound <= n - 64 /\ n + 64 <= bound
    BY <1>4, <2>2
  <2> HIDE DEF n, m
  <2>4. n \in Int /\ m \in Int /\ m - n < 64 /\ n - m < 64
    BY <2>1 DEF n, m
  <2>5. -bound <= m /\ m <= bound
    BY <2>3, <2>4
  <2> QED BY <2>5 DEF m
<1> QED BY <1>4, <1>5 DEF Bounded, Fits

LEMMA PutCoordinates ==
  ASSUME NEW mesh, mesh.centre \in Vector, NEW pose \in Poses
  PROVE  /\ \A p \in Vector : Put(mesh, pose, p) \in Vector
         /\ \A a \in Axes : \E e \in Axes :
              LET shift == pose.at[a] + mesh.centre[a]
                  middle == mesh.centre[e]
              IN  /\ pose.at[a] \in Int /\ mesh.centre[a] \in Int /\ middle \in Int
                  /\ \/ \A p \in Vector : Put(mesh, pose, p)[a] = shift + (p[e] - middle)
                     \/ \A p \in Vector : Put(mesh, pose, p)[a] = shift - (p[e] - middle)
<1> DEFINE c == mesh.centre
           t(p) == Turn(pose.quat, Minus(p, c))
<1>1. pose.at \in Vector /\ pose.quat \in 0 .. 3 /\ c \in Vector
  BY DEF Poses
<1>2. \A p \in Vector : Minus(p, c) \in Vector /\ \A a \in Axes : Minus(p, c)[a] = p[a] - c[a] /\ p[a] \in Int /\ c[a] \in Int
  BY <1>1, VectorsAdd
<1>3. \A p \in Vector : t(p) \in Vector
  BY <1>1, <1>2, TurnedCoordinates
<1>4. \A p \in Vector : /\ Put(mesh, pose, p) \in Vector
                        /\ \A a \in Axes : /\ Put(mesh, pose, p)[a] = pose.at[a] + (c[a] + t(p)[a])
                                           /\ pose.at[a] \in Int /\ c[a] \in Int /\ t(p)[a] \in Int
  <2> SUFFICES ASSUME NEW p \in Vector
               PROVE  /\ Put(mesh, pose, p) \in Vector
                      /\ \A a \in Axes : /\ Put(mesh, pose, p)[a] = pose.at[a] + (c[a] + t(p)[a])
                                         /\ pose.at[a] \in Int /\ c[a] \in Int /\ t(p)[a] \in Int
    OBVIOUS
  <2> DEFINE s == Plus(c, t(p))
  <2>1. Put(mesh, pose, p) = Plus(pose.at, s)
    BY DEF Put
  <2>2. t(p) \in Vector
    BY <1>3
  <2> HIDE DEF c, t
  <2>3. s \in Vector /\ \A a \in Axes : s[a] = c[a] + t(p)[a] /\ c[a] \in Int /\ t(p)[a] \in Int
    BY <1>1, <2>2, VectorsAdd
  <2> HIDE DEF s
  <2>4. Plus(pose.at, s) \in Vector /\ \A a \in Axes : Plus(pose.at, s)[a] = pose.at[a] + s[a] /\ pose.at[a] \in Int
    BY <1>1, <2>3, VectorsAdd
  <2> QED BY <2>1, <2>3, <2>4
<1>5. ASSUME NEW a \in Axes
      PROVE  \E e \in Axes :
               LET shift == pose.at[a] + c[a]
                   middle == c[e]
               IN  /\ pose.at[a] \in Int /\ c[a] \in Int /\ middle \in Int
                   /\ \/ \A p \in Vector : Put(mesh, pose, p)[a] = shift + (p[e] - middle)
                      \/ \A p \in Vector : Put(mesh, pose, p)[a] = shift - (p[e] - middle)
  <2>1. PICK e \in Axes : \/ \A p \in Vector : Turn(pose.quat, p)[a] = p[e]
                          \/ \A p \in Vector : Turn(pose.quat, p)[a] = -p[e]
    BY <1>1, TurnedCoordinates
  <2>2. \/ \A p \in Vector : t(p)[a] = p[e] - c[e]
        \/ \A p \in Vector : t(p)[a] = -(p[e] - c[e])
    BY <1>2, <2>1
  <2>3. /\ pose.at[a] \in Int /\ c[a] \in Int /\ c[e] \in Int
        /\ \A p \in Vector : p[e] \in Int
    BY <1>1, VectorsAdd
  <2> HIDE DEF c, t
  <2>4. CASE \A p \in Vector : t(p)[a] = p[e] - c[e]
    <3>1. \A p \in Vector : Put(mesh, pose, p)[a] = (pose.at[a] + c[a]) + (p[e] - c[e])
      BY <1>4, <2>3, <2>4
    <3> QED BY <2>3, <3>1
  <2>5. CASE \A p \in Vector : t(p)[a] = -(p[e] - c[e])
    <3>1. \A p \in Vector : Put(mesh, pose, p)[a] = (pose.at[a] + c[a]) - (p[e] - c[e])
      BY <1>4, <2>3, <2>5
    <3> QED BY <2>3, <3>1
  <2> QED BY <2>2, <2>4, <2>5
<1> QED BY <1>4, <1>5

LEMMA FitsWhenPut ==
  ASSUME NEW mesh, Fits(mesh.solid), Even(mesh.centre), NEW pose \in Poses, Even(pose.at)
  PROVE  Fits(PutSolid(mesh, pose))
<1>1. mesh.centre \in Vector
  BY DEF Even
<1>2. PutSolid(mesh, pose) \subseteq Vector /\ PutSolid(mesh, pose) # {}
  BY <1>1, PutCoordinates DEF PutSolid, Fits
<1>3. ASSUME NEW p \in mesh.solid, NEW q \in mesh.solid, NEW a \in Axes
      PROVE  /\ Put(mesh, pose, p)[a] % 2 = 1
             /\ Put(mesh, pose, p)[a] - Put(mesh, pose, q)[a] < 64
  <2>1. p \in Vector /\ q \in Vector
    BY DEF Fits
  <2>2. PICK e \in Axes :
          /\ pose.at[a] \in Int /\ mesh.centre[a] \in Int /\ mesh.centre[e] \in Int
          /\ \/ \A v \in Vector : Put(mesh, pose, v)[a] = (pose.at[a] + mesh.centre[a]) + (v[e] - mesh.centre[e])
             \/ \A v \in Vector : Put(mesh, pose, v)[a] = (pose.at[a] + mesh.centre[a]) - (v[e] - mesh.centre[e])
    BY <1>1, PutCoordinates
  <2> DEFINE k == pose.at[a]
             l == mesh.centre[a]
             m == mesh.centre[e]
             x == p[e]
             y == q[e]
             u == Put(mesh, pose, p)[a]
             v == Put(mesh, pose, q)[a]
  <2>3. /\ k \in Int /\ l \in Int /\ m \in Int /\ x \in Int /\ y \in Int
        /\ \/ u = (k + l) + (x - m) /\ v = (k + l) + (y - m)
           \/ u = (k + l) - (x - m) /\ v = (k + l) - (y - m)
    BY <2>1, <2>2 DEF Vector, Axes
  <2>4. k % 2 = 0 /\ l % 2 = 0 /\ m % 2 = 0 /\ x % 2 = 1 /\ x - y < 64 /\ y - x < 64
    BY DEF Fits, Even
  <2> HIDE DEF k, l, m, x, y, u, v
  <2>5. u % 2 = 1 /\ u - v < 64
    BY <2>3, <2>4
  <2> QED BY <2>5 DEF u, v
<1> QED BY <1>2, <1>3 DEF Fits, PutSolid

(* The cell of a voxel one cell wide.                                      *)
Cell(low, i) == <<low[1] + 2 * i[1] + 1, low[2] + 2 * i[2] + 1, low[3] + 2 * i[3] + 1>>

LEMMA CellIs ==
  ASSUME NEW low \in Vector, NEW i \in Vector
  PROVE  /\ Cell(low, i) \in Vector
         /\ \A a \in Axes : Cell(low, i)[a] = low[a] + 2 * i[a] + 1 /\ low[a] \in Int /\ i[a] \in Int
         /\ Cell(low, i) = [a \in Axes |-> low[a] + 2 * 1 * i[a] + 1]
<1>1. PICK x \in Int, y \in Int, z \in Int : low = <<x, y, z>>
  BY DEF Vector
<1>2. PICK u \in Int, v \in Int, w \in Int : i = <<u, v, w>>
  BY DEF Vector
<1>3. Cell(low, i) = <<x + 2 * u + 1, y + 2 * v + 1, z + 2 * w + 1>>
  BY <1>1, <1>2 DEF Cell
<1> DEFINE f == [a \in Axes |-> low[a] + 2 * 1 * i[a] + 1]
<1>4. f = <<x + 2 * u + 1, y + 2 * v + 1, z + 2 * w + 1>>
  <2>1. f[1] = x + 2 * u + 1 /\ f[2] = y + 2 * v + 1 /\ f[3] = z + 2 * w + 1
    BY <1>1, <1>2 DEF Axes
  <2>2. f = [a \in 1 .. 3 |-> f[a]]
    BY DEF Axes
  <2> HIDE DEF f
  <2> QED BY <2>1, <2>2
<1>5. Cell(low, i) \in Vector /\ Cell(low, i) = f
  BY <1>3, <1>4 DEF Vector
<1>6. \A a \in Axes : Cell(low, i)[a] = low[a] + 2 * i[a] + 1 /\ low[a] \in Int /\ i[a] \in Int
  BY <1>1, <1>2, <1>3 DEF Axes
<1> QED BY <1>5, <1>6

LEMMA CellsDiffer ==
  ASSUME NEW low \in Vector, NEW i \in Vector, NEW j \in Vector, Cell(low, i) = Cell(low, j)
  PROVE  i = j
<1>1. \A a \in Axes : /\ low[a] \in Int /\ i[a] \in Int /\ j[a] \in Int
                      /\ low[a] + 2 * i[a] + 1 = low[a] + 2 * j[a] + 1
  BY CellIs
<1>2. \A a \in Axes : i[a] = j[a]
  <2> SUFFICES ASSUME NEW a \in Axes PROVE i[a] = j[a]
    OBVIOUS
  <2> DEFINE k == low[a]
             x == i[a]
             y == j[a]
  <2>1. k \in Int /\ x \in Int /\ y \in Int /\ k + 2 * x + 1 = k + 2 * y + 1
    BY <1>1
  <2> HIDE DEF k, x, y
  <2>2. x = y
    BY <2>1
  <2> QED BY <2>2 DEF x, y
<1> QED BY <1>2 DEF Vector, Axes

LEMMA PowersCover == \A n \in 1 .. 32 : PowerOfTwo(n) \in Nat /\ n <= PowerOfTwo(n)
<1> SUFFICES ASSUME NEW n \in 1 .. 32 PROVE PowerOfTwo(n) \in Nat /\ n <= PowerOfTwo(n)
  OBVIOUS
<1>1. \E m \in {1, 2, 4, 8, 16, 32} : m >= n /\ m < 2 * n
  <2>1. \/ n = 1 \/ n = 2 \/ n \in 3 .. 4 \/ n \in 5 .. 8 \/ n \in 9 .. 16 \/ n \in 17 .. 32
    OBVIOUS
  <2> QED BY <2>1
<1> DEFINE m == PowerOfTwo(n)
<1>2. m \in {1, 2, 4, 8, 16, 32} /\ m >= n
  BY <1>1 DEF PowerOfTwo
<1> QED BY <1>2

(* A mesh that fits consists of its voxels.                                *)
LEMMA VoxelsAreCells ==
  ASSUME NEW solid, Fits(solid)
  PROVE  LET grid == DenseGrid(solid, 1)
         IN  solid = {Cell(grid.low, i) : i \in Occupancy(solid, grid, 1)}
<1> DEFINE grid == DenseGrid(solid, 1)
           low == grid.low
           shape == grid.shape
           L(a) == Least({p[a] : p \in solid})
           G(a) == Greatest({p[a] : p \in solid})
<1>1. Bounded(solid)
  BY FitsIsBounded
<1>2. low \in Vector /\ \A a \in Axes : low[a] = L(a) - 1
  BY <1>1, LowOfGrid
<1>3. \A a \in Axes : shape[a] = PowerOfTwo(((G(a) + 1) - (L(a) - 1) + 2 * 1 - 1) \div (2 * 1))
  BY DEF DenseGrid
<1>4. \A a \in Axes : /\ L(a) \in Int /\ L(a) \in {p[a] : p \in solid}
                      /\ G(a) \in Int /\ G(a) \in {p[a] : p \in solid}
                      /\ \A p \in solid : L(a) <= p[a] /\ p[a] <= G(a)
  BY <1>1, CoordinatesOfBounded
<1>5. Occupancy(solid, grid, 1) = {i \in Indices(shape) : [a \in Axes |-> low[a] + 2 * 1 * i[a] + 1] \in solid}
  BY DEF Occupancy
<1>6. \A a \in Axes : L(a) % 2 = 1 /\ G(a) % 2 = 1 /\ G(a) - L(a) < 64
  BY <1>4 DEF Fits
<1> HIDE DEF L, G, low, shape, grid
<1>7. \A i \in Indices(shape) : i \in Vector
  BY IndicesAreVectors
<1>8. \A v : v \in Occupancy(solid, grid, 1) <=> v \in Indices(shape) /\ Cell(low, v) \in solid
  BY <1>2, <1>5, <1>7, CellIs
<1>9. ASSUME NEW p \in solid
      PROVE  \E i \in Occupancy(solid, grid, 1) : p = Cell(low, i)
  <2> DEFINE j(a) == (p[a] - L(a)) \div 2
             i == <<j(1), j(2), j(3)>>
  <2>1. \A a \in Axes : j(a) \in 0 .. shape[a] - 1 /\ p[a] = low[a] + 2 * j(a) + 1
    <3> SUFFICES ASSUME NEW a \in Axes
                 PROVE  j(a) \in 0 .. shape[a] - 1 /\ p[a] = low[a] + 2 * j(a) + 1
      OBVIOUS
    <3> DEFINE l == L(a)
               g == G(a)
               x == p[a]
               n == ((g + 1) - (l - 1) + 2 * 1 - 1) \div (2 * 1)
    <3>1. x \in Int /\ x % 2 = 1
      BY DEF Fits, Vector, Axes
    <3>2. l \in Int /\ g \in Int /\ l <= x /\ x <= g /\ l % 2 = 1 /\ g % 2 = 1 /\ g - l < 64
      BY <1>4, <1>6
    <3>3. shape[a] = PowerOfTwo(n) /\ low[a] = l - 1
      BY <1>2, <1>3
    <3> HIDE DEF l, g, x
    <3>4. n \in 1 .. 32 /\ (x - l) \div 2 \in 0 .. n - 1 /\ x = (l - 1) + 2 * ((x - l) \div 2) + 1
      <4>1. n = (g - l + 3) \div 2
        BY <3>2
      <4>2. n \in Int /\ 2 * n = g - l + 2
        BY <3>2, <4>1
      <4>3. (x - l) \div 2 \in Int /\ 2 * ((x - l) \div 2) = x - l
        BY <3>1, <3>2
      <4> HIDE DEF n
      <4> QED BY <3>1, <3>2, <4>2, <4>3
    <3> HIDE DEF n
    <3>5. PowerOfTwo(n) \in Nat /\ n <= PowerOfTwo(n)
      BY <3>4, PowersCover
    <3>6. (x - l) \div 2 \in 0 .. PowerOfTwo(n) - 1
      BY <3>4, <3>5
    <3> QED BY <3>3, <3>4, <3>6 DEF x, l
  <2> HIDE DEF j
  <2>2. 1 \in Axes /\ 2 \in Axes /\ 3 \in Axes
    BY DEF Axes
  <2>3. i \in Indices(shape)
    BY <2>1, <2>2 DEF Indices
  <2>4. Cell(low, i) = <<low[1] + 2 * j(1) + 1, low[2] + 2 * j(2) + 1, low[3] + 2 * j(3) + 1>>
    BY DEF Cell
  <2>5. p = <<p[1], p[2], p[3]>>
    BY DEF Fits, Vector
  <2>6. p = Cell(low, i)
    BY <2>1, <2>2, <2>4, <2>5
  <2> QED BY <1>8, <2>3, <2>6
<1> QED BY <1>8, <1>9 DEF low, grid

-----------------------------------------------------------------------------
(* Along an axis, the cells of a cube two s units wide about its centre.   *)
Near(d, s) == -s <= d /\ d <= s /\ (d + s) % 2 = 1
NearTo(o, s) == {q \in Vector : \A a \in Axes : Near(q[a] - o[a], s)}

LEMMA CellsAre ==
  ASSUME NEW b, b.at \in Vector, NEW s \in Nat, b.size = 2 * s
  PROVE  CellsOf(b) = NearTo(b.at, s)
<1> DEFINE Along(a) == {n \in b.at[a] - s .. b.at[a] + s : (n - b.at[a] + s) % 2 = 1}
<1>1. b.size \div 2 = s
  OBVIOUS
<1>2. CellsOf(b) = Along(1) \X Along(2) \X Along(3)
  BY <1>1 DEF CellsOf
<1>3. b.at[1] \in Int /\ b.at[2] \in Int /\ b.at[3] \in Int
  BY DEF Vector
<1>4. ASSUME NEW a \in {1, 2, 3}
      PROVE  \A n : n \in Along(a) <=> n \in Int /\ Near(n - b.at[a], s)
  <2> DEFINE k == b.at[a]
  <2>1. k \in Int
    BY <1>3
  <2> HIDE DEF k
  <2>2. \A n : n \in {i \in k - s .. k + s : (i - k + s) % 2 = 1} <=> n \in Int /\ Near(n - k, s)
    BY <2>1 DEF Near
  <2> QED BY <2>2 DEF k
<1> HIDE DEF Along
<1>5. ASSUME NEW n
      PROVE  n \in CellsOf(b) <=> n \in NearTo(b.at, s)
  <2>1. n \in Along(1) \X Along(2) \X Along(3) <=>
          /\ n \in Vector
          /\ n[1] \in Along(1) /\ n[2] \in Along(2) /\ n[3] \in Along(3)
    BY <1>4 DEF Vector
  <2>2. n \in Vector => n[1] \in Int /\ n[2] \in Int /\ n[3] \in Int
    BY DEF Vector
  <2>3. \A a \in Axes : a = 1 \/ a = 2 \/ a = 3
    BY DEF Axes
  <2>4. 1 \in Axes /\ 2 \in Axes /\ 3 \in Axes
    BY DEF Axes
  <2> QED BY <1>2, <1>4, <2>1, <2>2, <2>3, <2>4 DEF NearTo
<1> QED BY <1>5

CentreOf(x) == Plus(x.corner, [a \in Axes |-> x.size \div 2])

(* The cells of the cuboid of a cube are those of its voxels.              *)
LEMMA CellsOfCube ==
  ASSUME NEW low \in Vector, NEW c, c.corner \in Vector, c.size \in Nat \ {0},
         \A v : v \in VoxelsOf(c) <=>
                  /\ v \in Vector
                  /\ \A a \in Axes : c.corner[a] <= v[a] /\ v[a] < c.corner[a] + c.size,
         NEW b, b.size = CuboidOf(low, 1, c).size,
         b.at = CentreOf(CuboidOf(low, 1, c))
  PROVE  /\ b.at \in Vector /\ b.size = 2 * c.size
         /\ CellsOf(b) = {Cell(low, v) : v \in VoxelsOf(c)}
<1> DEFINE k == CuboidOf(low, 1, c).corner
           s == c.size
<1>1. /\ k \in Vector /\ b.size = 2 * s /\ s \in Nat \ {0}
      /\ \A a \in Axes : k[a] = low[a] + 2 * c.corner[a] /\ c.corner[a] \in Int /\ low[a] \in Int
  <2>1. 1 \in Nat \ {0} /\ c.size \in Nat
    OBVIOUS
  <2>2. /\ k \in Vector /\ b.size = 2 * 1 * s
        /\ \A a \in Axes : k[a] = low[a] + (2 * 1) * c.corner[a] /\ c.corner[a] \in Int /\ low[a] \in Int
    BY <2>1, CuboidOfCube
  <2> QED BY <2>2
<1>2. CuboidOf(low, 1, c).size \div 2 = s
  <2> DEFINE n == CuboidOf(low, 1, c).size
  <2>1. n = 2 * s
    BY <1>1
  <2> HIDE DEF n, s
  <2>2. n \div 2 = s
    BY <1>1, <2>1
  <2> QED BY <2>2 DEF n
<1>3. b.at \in Vector /\ \A a \in Axes : b.at[a] = k[a] + s
  <2> HIDE DEF s
  <2>1. b.at = Plus(k, [a \in Axes |-> s])
    BY <1>2 DEF CentreOf
  <2> HIDE DEF k
  <2>2. PICK x \in Int, y \in Int, z \in Int : k = <<x, y, z>>
    BY <1>1 DEF Vector
  <2>3. b.at = <<x + s, y + s, z + s>>
    BY <2>1, <2>2 DEF Plus, Axes
  <2> QED BY <1>1, <2>2, <2>3 DEF Vector, Axes
<1> HIDE DEF k
<1>4. CellsOf(b) = NearTo(b.at, s)
  BY <1>1, <1>3, CellsAre
<1>5. ASSUME NEW v \in VoxelsOf(c)
      PROVE  Cell(low, v) \in NearTo(b.at, s)
  <2>1. v \in Vector /\ \A a \in Axes : c.corner[a] <= v[a] /\ v[a] < c.corner[a] + s
    OBVIOUS
  <2>2. /\ Cell(low, v) \in Vector
        /\ \A a \in Axes : Cell(low, v)[a] = low[a] + 2 * v[a] + 1 /\ v[a] \in Int
    BY <2>1, CellIs
  <2>3. ASSUME NEW a \in Axes
        PROVE  Near(Cell(low, v)[a] - b.at[a], s)
    <3> DEFINE l == low[a]
               x == v[a]
               y == c.corner[a]
               d == Cell(low, v)[a] - b.at[a]
    <3>1. l \in Int /\ x \in Int /\ y \in Int /\ y <= x /\ x < y + s /\ d = (l + 2 * x + 1) - (l + 2 * y + s)
      BY <1>1, <1>3, <2>1, <2>2
    <3> HIDE DEF l, x, y, d, s
    <3>2. Near(d, s)
      BY <1>1, <3>1 DEF Near
    <3> QED BY <3>2 DEF d
  <2> QED BY <2>2, <2>3 DEF NearTo
<1>6. ASSUME NEW n \in NearTo(b.at, s)
      PROVE  \E v \in VoxelsOf(c) : n = Cell(low, v)
  <2> DEFINE i(a) == (n[a] - low[a] - 1) \div 2
             v == <<i(1), i(2), i(3)>>
  <2>1. n \in Vector /\ \A a \in Axes : n[a] \in Int /\ Near(n[a] - b.at[a], s)
    BY DEF NearTo, Vector, Axes
  <2>2. ASSUME NEW a \in Axes
        PROVE  i(a) \in Int /\ c.corner[a] <= i(a) /\ i(a) < c.corner[a] + s /\ n[a] = low[a] + 2 * i(a) + 1
    <3> DEFINE l == low[a]
               x == n[a]
               y == c.corner[a]
    <3>1. l \in Int /\ x \in Int /\ y \in Int /\ b.at[a] = l + 2 * y + s
      BY <1>1, <1>3, <2>1
    <3>2. Near(x - (l + 2 * y + s), s)
      BY <2>1, <3>1
    <3> HIDE DEF l, x, y, s
    <3>3. (x - (l + 2 * y + s)) + s = (x - l) - 2 * y
      BY <1>1, <3>1
    <3>4. (x - l) % 2 = 1 /\ x - l >= 2 * y /\ x - l <= 2 * y + 2 * s
      BY <1>1, <3>1, <3>2, <3>3 DEF Near
    <3>5. (x - l - 1) \div 2 \in Int /\ 2 * ((x - l - 1) \div 2) = x - l - 1
      BY <3>1, <3>4
    <3>6. y <= (x - l - 1) \div 2 /\ (x - l - 1) \div 2 < y + s
      BY <1>1, <3>1, <3>4, <3>5
    <3>7. x = l + 2 * ((x - l - 1) \div 2) + 1
      BY <3>1, <3>5
    <3> QED BY <3>5, <3>6, <3>7 DEF x, l, y
  <2> HIDE DEF i
  <2>3. 1 \in Axes /\ 2 \in Axes /\ 3 \in Axes /\ \A a \in Axes : a = 1 \/ a = 2 \/ a = 3
    BY DEF Axes
  <2>4. v \in Vector
    BY <2>2, <2>3 DEF Vector
  <2>5. \A a \in Axes : v[a] = i(a)
    BY <2>3
  <2>6. v \in VoxelsOf(c)
    BY <2>2, <2>4, <2>5
  <2>7. n = <<n[1], n[2], n[3]>>
    BY <2>1 DEF Vector
  <2>8. n = Cell(low, v)
    BY <2>2, <2>3, <2>7 DEF Cell
  <2> QED BY <2>6, <2>8
<1> QED BY <1>1, <1>3, <1>4, <1>5, <1>6

LEMMA FrameOf ==
  ASSUME NEW pose \in Poses, NEW q \in Vector
  PROVE  /\ DerivedCentre(q, pose) \in Vector
         /\ TurnBack(pose.quat, Minus(DerivedCentre(q, pose), pose.at)) = q
<1> DEFINE t == Turn(pose.quat, q)
           k == (4 - pose.quat) % 4
<1>1. pose.quat \in 0 .. 3 /\ pose.at \in Vector
  BY DEF Poses
<1>2. t \in Vector
  BY <1>1, TurnedCoordinates
<1>3. Plus(pose.at, t) \in Vector /\ Minus(Plus(pose.at, t), pose.at) = t
  <2> HIDE DEF t
  <2>1. PICK x \in Int, y \in Int, z \in Int : t = <<x, y, z>>
    BY <1>2 DEF Vector
  <2>2. PICK u \in Int, v \in Int, w \in Int : pose.at = <<u, v, w>>
    BY <1>1 DEF Vector
  <2>3. Plus(pose.at, t) = <<u + x, v + y, w + z>>
    BY <2>1, <2>2 DEF Plus
  <2>4. Minus(<<u + x, v + y, w + z>>, <<u, v, w>>) = <<x, y, z>>
    BY DEF Minus
  <2> QED BY <2>1, <2>2, <2>3, <2>4 DEF Vector
<1>4. TurnBack(pose.quat, t) = q
  <2>1. k \in 0 .. 3 /\ (4 - k) % 4 = pose.quat
    <3>1. pose.quat = 0 \/ pose.quat = 1 \/ pose.quat = 2 \/ pose.quat = 3
      BY <1>1
    <3> QED BY <3>1
  <2>2. Turn(k, TurnBack(k, q)) = q
    BY <2>1, TurnsBack
  <2> QED BY <2>1, <2>2 DEF TurnBack
<1> QED BY <1>3, <1>4 DEF DerivedCentre

(* The cells of a cuboid, in the frame of a pose.                          *)
LEMMA FrameCells ==
  ASSUME NEW pose \in Poses, NEW o \in Vector, NEW s \in Nat,
         NEW b, b.at = DerivedCentre(o, pose), b.size = 2 * s
  PROVE  CellsOf(b) = {DerivedCentre(q, pose) : q \in NearTo(o, s)}
<1> DEFINE D(q) == DerivedCentre(q, pose)
           k == (4 - pose.quat) % 4
           F(n) == TurnBack(pose.quat, Minus(n, pose.at))
<1>1. pose.quat \in 0 .. 3 /\ pose.at \in Vector /\ k \in 0 .. 3
  BY DEF Poses
<1>2. \A q \in Vector : D(q) \in Vector /\ F(D(q)) = q
  BY FrameOf
<1>3. \A n \in Vector : F(n) \in Vector /\ D(F(n)) = n
  BY OffsetsPlace
<1>4. b.at \in Vector /\ b.at = D(o)
  BY <1>2
<1>5. CellsOf(b) = NearTo(b.at, s)
  BY <1>4, CellsAre
<1>6. \A d \in Int : Near(d, s) => Near(-d, s)
  BY DEF Near
<1>7. ASSUME NEW q \in NearTo(o, s)
      PROVE  D(q) \in NearTo(b.at, s)
  <2>1. q \in Vector /\ \A a \in Axes : Near(q[a] - o[a], s) /\ q[a] \in Int /\ o[a] \in Int
    BY DEF NearTo, Vector, Axes
  <2>2. /\ Turn(pose.quat, q) \in Vector /\ Turn(pose.quat, o) \in Vector
    BY <1>1, <2>1, TurnedCoordinates
  <2>3. ASSUME NEW a \in Axes
        PROVE  Near(D(q)[a] - b.at[a], s)
    <3>1. PICK e \in Axes : \/ \A p \in Vector : Turn(pose.quat, p)[a] = p[e]
                            \/ \A p \in Vector : Turn(pose.quat, p)[a] = -p[e]
      BY <1>1, TurnedCoordinates
    <3>2. /\ D(q)[a] = pose.at[a] + Turn(pose.quat, q)[a] /\ D(o)[a] = pose.at[a] + Turn(pose.quat, o)[a]
          /\ pose.at[a] \in Int
      BY <1>1, <2>2, VectorsAdd DEF DerivedCentre
    <3>3. \/ D(q)[a] - D(o)[a] = q[e] - o[e]
          \/ D(q)[a] - D(o)[a] = -(q[e] - o[e])
      BY <2>1, <3>1, <3>2
    <3>4. q[e] - o[e] \in Int /\ Near(q[e] - o[e], s)
      BY <2>1
    <3> QED BY <1>4, <1>6, <3>3, <3>4
  <2> QED BY <1>2, <2>1, <2>3 DEF NearTo
<1>8. ASSUME NEW n \in NearTo(b.at, s)
      PROVE  F(n) \in NearTo(o, s)
  <2>1. n \in Vector /\ \A a \in Axes : Near(n[a] - b.at[a], s) /\ n[a] \in Int /\ b.at[a] \in Int
    BY <1>4 DEF NearTo, Vector, Axes
  <2>2. /\ Minus(n, pose.at) \in Vector /\ Minus(b.at, pose.at) \in Vector
        /\ \A a \in Axes : /\ Minus(n, pose.at)[a] = n[a] - pose.at[a]
                           /\ Minus(b.at, pose.at)[a] = b.at[a] - pose.at[a] /\ pose.at[a] \in Int
    BY <1>1, <1>4, <2>1, VectorsAdd
  <2>3. o = Turn(k, Minus(b.at, pose.at)) /\ F(n) = Turn(k, Minus(n, pose.at))
    BY <1>2, <1>4 DEF TurnBack
  <2>4. ASSUME NEW a \in Axes
        PROVE  Near(F(n)[a] - o[a], s)
    <3>1. PICK e \in Axes : \/ \A p \in Vector : Turn(k, p)[a] = p[e]
                            \/ \A p \in Vector : Turn(k, p)[a] = -p[e]
      BY <1>1, TurnedCoordinates
    <3> DEFINE x == n[e]
               y == b.at[e]
               z == pose.at[e]
               d == F(n)[a] - o[a]
    <3>2. /\ x \in Int /\ y \in Int /\ z \in Int
          /\ \/ d = (x - z) - (y - z)
             \/ d = -(x - z) - (-(y - z))
      BY <2>1, <2>2, <2>3, <3>1
    <3>3. Near(x - y, s)
      BY <2>1
    <3> HIDE DEF x, y, z, d
    <3>4. x - y \in Int /\ (d = x - y \/ d = -(x - y))
      BY <3>2
    <3>5. Near(d, s)
      BY <1>6, <3>3, <3>4
    <3> QED BY <3>5 DEF d
  <2> QED BY <1>3, <2>1, <2>4 DEF NearTo
<1>9. \A n \in NearTo(b.at, s) : n \in Vector
  BY DEF NearTo
<1> HIDE DEF D, F
<1>10. \A n : n \in CellsOf(b) <=> \E q \in NearTo(o, s) : n = D(q)
  BY <1>3, <1>5, <1>7, <1>8, <1>9
<1> QED BY <1>10 DEF D

-----------------------------------------------------------------------------
LEMMA NoPartsYet ==
  ASSUME NEW store, Consistent(store), NEW name, <<name>> \notin store.names
  PROVE  Derived(store, name) = {}
<1> SUFFICES ASSUME NEW b \in store.cuboid, Len(b.name) = 2, b.name[1] = name
             PROVE  FALSE
  BY DEF Derived
<1>1. ~ IsObject(b.name)
  BY DEF IsObject
<1>2. PICK o \in store.offsets : o.name = b.name
  BY <1>1 DEF Consistent, MeshesAreKnown
<1>3. PICK n : o.name = <<o.mesh[1], n>>
  BY DEF Consistent, MeshesAreKnown
<1>4. PICK m \in store.mesh : m.name = o.mesh
  BY DEF Consistent, MeshesAreKnown
<1>5. PICK k : m.name = <<k>>
  BY DEF Consistent, MeshesAreKnown, IsObject
<1>6. k = name
  BY <1>2, <1>3, <1>4, <1>5
<1>7. <<name>> \in store.names
  BY <1>5, <1>6 DEF Consistent, NamesAreListed
<1> QED BY <1>7

(* The cuboids of a mesh that has been added, each of a cube of its own;   *)
(* they are the parts of the mesh.                                         *)
PartOf(low, name, c) ==
  LET x == CuboidOf(low, 1, c)
  IN  [name |-> <<name, x.corner>>, at |-> CentreOf(x), quat |-> 0, size |-> x.size]

ArePartsOf(parts, low, name, cubes) ==
  /\ \A b : b \in parts <=> \E c \in cubes : b = PartOf(low, name, c)
  /\ \A c \in cubes : /\ PartOf(low, name, c).size = CuboidOf(low, 1, c).size
                     /\ PartOf(low, name, c).at = CentreOf(CuboidOf(low, 1, c))

LEMMA DerivedFromCubes ==
  ASSUME NEW store, Consistent(store), NEW name, <<name>> \notin store.names, NEW mesh, NEW pose
  PROVE  LET added == AddMesh(store, name, mesh, pose, 1)
         IN  /\ ArePartsOf(Derived(added, name), DenseGrid(PutSolid(mesh, pose), 1).low, name,
                           MeshCubes(PutSolid(mesh, pose), 1))
             /\ \A b \in Derived(added, name) : IsPart(added, <<name>>, b)
             /\ [name |-> <<name>>, pose |-> pose] \in added.mesh
<1> DEFINE solid == PutSolid(mesh, pose)
           low == DenseGrid(solid, 1).low
           added == AddMesh(store, name, mesh, pose, 1)
           cubes == Pipeline(mesh, pose, 1)
           Part(x) == [name |-> <<name, x.corner>>, at |-> CentreOf(x), quat |-> 0, size |-> x.size]
           Offset(x) == [mesh |-> <<name>>, name |-> <<name, x.corner>>,
                         offset |-> TurnBack(pose.quat, Minus(CentreOf(x), pose.at))]
<1>1. /\ added.mesh = store.mesh \cup {[name |-> <<name>>, pose |-> pose]}
      /\ added.cuboid = store.cuboid \cup {Part(x) : x \in cubes}
      /\ added.offsets = store.offsets \cup {Offset(x) : x \in cubes}
  BY DEF AddMesh, CentreOf
<1>2. \A x : Part(x).name = <<name, x.corner>> /\ Offset(x).mesh = <<name>> /\ Offset(x).name = <<name, x.corner>>
  OBVIOUS
<1>3. \A c : PartOf(low, name, c) = Part(CuboidOf(low, 1, c))
  BY DEF PartOf
<1>4. cubes = {CuboidOf(low, 1, c) : c \in MeshCubes(solid, 1)}
  BY PipelineIs
<1>5. \A c : /\ PartOf(low, name, c).size = CuboidOf(low, 1, c).size
             /\ PartOf(low, name, c).at = CentreOf(CuboidOf(low, 1, c))
  BY DEF PartOf
<1> HIDE DEF added, cubes, Part, Offset, low, solid
<1>6. \A b : b \in Derived(added, name) <=> \E x \in cubes : b = Part(x)
  <2>1. \A b : b \in Derived(added, name) <=> b \in added.cuboid /\ Len(b.name) = 2 /\ b.name[1] = name
    BY DEF Derived
  <2>2. \A b \in store.cuboid : ~ (Len(b.name) = 2 /\ b.name[1] = name)
    BY NoPartsYet DEF Derived
  <2>3. \A x \in cubes : Len(Part(x).name) = 2 /\ Part(x).name[1] = name
    <3>1. \A x : Len(<<name, x.corner>>) = 2 /\ <<name, x.corner>>[1] = name
      OBVIOUS
    <3> QED BY <1>2, <3>1
  <2> QED BY <1>1, <2>1, <2>2, <2>3
<1>7. \A b : b \in Derived(added, name) <=> \E c \in MeshCubes(solid, 1) : b = PartOf(low, name, c)
  BY <1>3, <1>4, <1>6
<1>8. \A b \in Derived(added, name) : IsPart(added, <<name>>, b)
  <2> SUFFICES ASSUME NEW x \in cubes
               PROVE  \E o \in added.offsets : o.mesh = <<name>> /\ o.name = Part(x).name
    BY <1>6 DEF IsPart
  <2>1. Offset(x) \in added.offsets
    BY <1>1
  <2> QED BY <1>2, <2>1
<1>9. [name |-> <<name>>, pose |-> pose] \in added.mesh
  BY <1>1
<1>10. ArePartsOf(Derived(added, name), low, name, MeshCubes(solid, 1))
  BY <1>5, <1>7 DEF ArePartsOf
<1> QED BY <1>8, <1>9, <1>10 DEF solid, low, added

(* The cuboids of a mesh that fits fill it, and do not overlap.            *)
LEMMA AddedFillTheMesh ==
  ASSUME NEW store, Consistent(store), NEW name, <<name>> \notin store.names,
         NEW mesh, Fits(mesh.solid), Even(mesh.centre), NEW pose \in Poses, Even(pose.at)
  PROVE  LET added == AddMesh(store, name, mesh, pose, 1)
         IN  /\ Filled(added, name) = PutSolid(mesh, pose)
             /\ Disjoint(Derived(added, name))
             /\ \A b \in Derived(added, name) : \E s \in Nat : b.size = 2 * s
<1> DEFINE solid == PutSolid(mesh, pose)
           grid == DenseGrid(solid, 1)
           low == grid.low
           occupied == Occupancy(solid, grid, 1)
           added == AddMesh(store, name, mesh, pose, 1)
           cubes == MeshCubes(solid, 1)
           P(c) == PartOf(low, name, c)
<1>1. Fits(solid) /\ Bounded(solid)
  BY FitsWhenPut, FitsIsBounded
<1>2. low \in Vector
  BY <1>1, LowOfGrid
<1>3. solid = {Cell(low, i) : i \in occupied}
  BY <1>1, VoxelsAreCells
<1>4. /\ \A c \in cubes : /\ c.corner \in Vector /\ c.size \in Nat \ {0}
                          /\ \A v : v \in VoxelsOf(c) <=>
                               /\ v \in Vector
                               /\ \A a \in Axes : c.corner[a] <= v[a] /\ v[a] < c.corner[a] + c.size
      /\ UNION {VoxelsOf(c) : c \in cubes} = occupied
      /\ \A c, d \in cubes : c = d \/ VoxelsOf(c) \cap VoxelsOf(d) = {}
  BY CubesOfMesh
<1>5. /\ \A b : b \in Derived(added, name) <=> \E c \in cubes : b = P(c)
      /\ \A c \in cubes :
                /\ P(c).size = CuboidOf(low, 1, c).size
                /\ P(c).at = CentreOf(CuboidOf(low, 1, c))
  <2>1. ArePartsOf(Derived(added, name), low, name, cubes)
    BY DerivedFromCubes
  <2> HIDE DEF added, cubes, low
  <2> QED BY <2>1 DEF ArePartsOf
<1> HIDE DEF solid, grid, low, occupied, added, cubes, P
<1>6. ASSUME NEW c \in cubes
      PROVE  P(c).size = 2 * c.size /\ CellsOf(P(c)) = {Cell(low, v) : v \in VoxelsOf(c)}
  BY <1>2, <1>4, <1>5, CellsOfCube
<1>7. \A p : p \in Filled(added, name) <=> \E c \in cubes : p \in CellsOf(P(c))
  BY <1>5 DEF Filled
<1>8. \A p : p \in Filled(added, name) <=> p \in solid
  <2>1. \A p : p \in Filled(added, name) <=> \E c \in cubes : \E v \in VoxelsOf(c) : p = Cell(low, v)
    BY <1>6, <1>7
  <2>2. \A v : v \in occupied <=> \E c \in cubes : v \in VoxelsOf(c)
    BY <1>4
  <2> QED BY <1>3, <2>1, <2>2
<1>9. Disjoint(Derived(added, name))
  <2> SUFFICES ASSUME NEW c \in cubes, NEW d \in cubes, NEW p \in CellsOf(P(c)) \cap CellsOf(P(d))
               PROVE  c = d
    BY <1>5 DEF Disjoint
  <2>1. PICK v \in VoxelsOf(c) : p = Cell(low, v)
    BY <1>6
  <2>2. PICK w \in VoxelsOf(d) : p = Cell(low, w)
    BY <1>6
  <2>3. v \in Vector /\ w \in Vector
    BY <1>4
  <2>4. v = w
    BY <1>2, <2>1, <2>2, <2>3, CellsDiffer
  <2> QED BY <1>4, <2>4
<1>10. \A b \in Derived(added, name) : \E s \in Nat : b.size = 2 * s
  BY <1>4, <1>5, <1>6
<1>11. Filled(added, name) = solid
  BY <1>8
<1> QED BY <1>9, <1>10, <1>11 DEF solid, added

LEMMA PutIsPlaced ==
  ASSUME NEW mesh, mesh.centre \in Vector, NEW pose \in Poses, pose.quat = 0 \/ mesh.centre = Origin, NEW p \in Vector
  PROVE  Put(mesh, pose, p) = DerivedCentre(p, pose)
<1>1. PICK x \in Int, y \in Int, z \in Int : p = <<x, y, z>>
  BY DEF Vector
<1>2. CASE pose.quat = 0
  <2>1. PICK u \in Int, v \in Int, w \in Int : mesh.centre = <<u, v, w>>
    BY DEF Vector
  <2>2. Minus(p, mesh.centre) = <<x - u, y - v, z - w>>
    BY <1>1, <2>1 DEF Minus
  <2>3. Plus(mesh.centre, <<x - u, y - v, z - w>>) = p
    BY <1>1, <2>1 DEF Plus
  <2> QED BY <1>2, <2>2, <2>3 DEF Put, DerivedCentre, Turn
<1>3. CASE mesh.centre = Origin
  <2>1. Minus(p, Origin) = p
    BY <1>1 DEF Minus, Origin
  <2> DEFINE t == Turn(pose.quat, p)
  <2>2. t \in Vector
    BY TurnedCoordinates DEF Poses
  <2> HIDE DEF t
  <2>3. Plus(Origin, t) = t
    <3>1. PICK k \in Int, l \in Int, m \in Int : t = <<k, l, m>>
      BY <2>2 DEF Vector
    <3> QED BY <3>1 DEF Plus, Origin
  <2> QED BY <1>3, <2>1, <2>3 DEF Put, DerivedCentre, t
<1> QED BY <1>2, <1>3

(* A mesh that is moved is filled where its pose is, if it was filled      *)
(* where its pose was.                                                     *)
LEMMA MovedFillTheMesh ==
  ASSUME NEW store, Consistent(store), NEW name, NEW m \in store.mesh, m.name = <<name>>, NEW to \in Poses,
         \A b \in Derived(store, name) : IsPart(store, <<name>>, b) /\ \E s \in Nat : b.size = 2 * s,
         NEW solid \in SUBSET Vector, Filled(store, name) = {DerivedCentre(p, m.pose) : p \in solid}
  PROVE  Filled(UpdatePose(store, <<name>>, to), name) = {DerivedCentre(p, to) : p \in solid}
<1> DEFINE moved == UpdatePose(store, <<name>>, to)
           Moved(b) == PartMoved(store, <<name>>, to, b)
           D(p) == DerivedCentre(p, m.pose)
           E(p) == DerivedCentre(p, to)
<1>1. moved.cuboid = {Moved(b) : b \in store.cuboid}
  <2>1. IsMesh(store, <<name>>)
    BY DEF IsMesh
  <2>2. moved = [mesh |-> {MeshWithPose(<<name>>, to, l) : l \in store.mesh},
                 cuboid |-> {PartMoved(store, <<name>>, to, b) : b \in store.cuboid},
                 names |-> store.names, offsets |-> store.offsets]
    BY <2>1, MovedMeshShape
  <2> QED BY <2>2
<1>2. \A b : Moved(b).name = b.name
  BY DEF PartMoved
<1>3. Derived(moved, name) = {Moved(b) : b \in Derived(store, name)}
  <2> HIDE DEF moved, Moved
  <2>1. \A b : b \in Derived(moved, name) <=> \E c \in Derived(store, name) : b = Moved(c)
    BY <1>1, <1>2 DEF Derived
  <2> QED BY <2>1
<1>4. m.pose \in Poses
  BY DEF Consistent, MeshesAreKnown
<1>5. \A p \in Vector, q \in Vector : D(p) = D(q) => p = q
  BY <1>4, FrameOf
<1>6. ASSUME NEW b \in Derived(store, name)
      PROVE  \E S \in SUBSET Vector : CellsOf(b) = {D(q) : q \in S} /\ CellsOf(Moved(b)) = {E(q) : q \in S}
  <2>1. b \in store.cuboid /\ IsPart(store, <<name>>, b)
    BY DEF Derived
  <2>2. PICK o \in Vector :
          /\ b.at = DerivedCentre(o, m.pose)
          /\ Moved(b) = [name |-> b.name, at |-> DerivedCentre(o, to), quat |-> to.quat, size |-> b.size]
    BY <2>1, PartsFollow
  <2>3. PICK s \in Nat : b.size = 2 * s
    OBVIOUS
  <2> HIDE DEF Moved
  <2>4. Moved(b).at = DerivedCentre(o, to) /\ Moved(b).size = 2 * s
    BY <2>2, <2>3
  <2>5. CellsOf(b) = {D(q) : q \in NearTo(o, s)}
    BY <1>4, <2>2, <2>3, FrameCells
  <2>6. CellsOf(Moved(b)) = {E(q) : q \in NearTo(o, s)}
    BY <2>4, FrameCells
  <2>7. NearTo(o, s) \in SUBSET Vector
    BY DEF NearTo
  <2> QED BY <2>5, <2>6, <2>7
<1> HIDE DEF moved, Moved, D, E
<1>7. \A z : z \in Filled(moved, name) <=> \E b \in Derived(store, name) : z \in CellsOf(Moved(b))
  BY <1>3 DEF Filled
<1>8. \A z : z \in Filled(store, name) <=> \E b \in Derived(store, name) : z \in CellsOf(b)
  BY DEF Filled
<1>9. ASSUME NEW z \in Filled(moved, name)
      PROVE  \E p \in solid : z = E(p)
  <2>1. PICK b \in Derived(store, name) : z \in CellsOf(Moved(b))
    BY <1>7
  <2>2. PICK S \in SUBSET Vector : CellsOf(b) = {D(q) : q \in S} /\ CellsOf(Moved(b)) = {E(q) : q \in S}
    BY <1>6
  <2>3. PICK q \in S : z = E(q)
    BY <2>1, <2>2
  <2>4. D(q) \in Filled(store, name)
    BY <1>8, <2>2
  <2>5. PICK p \in solid : D(q) = D(p)
    BY <2>4 DEF D
  <2>6. q = p
    BY <1>5, <2>5
  <2> QED BY <2>3, <2>6
<1>10. ASSUME NEW p \in solid
       PROVE  E(p) \in Filled(moved, name)
  <2>1. D(p) \in Filled(store, name)
    BY DEF D
  <2>2. PICK b \in Derived(store, name) : D(p) \in CellsOf(b)
    BY <1>8, <2>1
  <2>3. PICK S \in SUBSET Vector : CellsOf(b) = {D(q) : q \in S} /\ CellsOf(Moved(b)) = {E(q) : q \in S}
    BY <1>6
  <2>4. PICK q \in S : D(p) = D(q)
    BY <2>2, <2>3
  <2>5. q = p
    BY <1>5, <2>4
  <2> QED BY <1>7, <2>3, <2>4, <2>5
<1> QED BY <1>9, <1>10 DEF moved, E

-----------------------------------------------------------------------------
(* A mesh that can be made of cubes: it is bounded, and so is its centre.  *)
IsPlaceable(mesh, voxel) == Bounded(mesh.solid) /\ mesh.centre \in Vector /\ voxel \in Nat \ {0}

(* The lists of the obstacle manager stay consistent under all it is asked *)
(* for, with boxes and meshes, in any order and number: every name that is *)
(* listed is found, once; a cuboid of a mesh is where the pose of the mesh *)
(* puts it, however often the mesh is moved and turned; and none is left   *)
(* without its mesh (add_object, update_object_poses, remove_object,       *)
(* get_obstacles).                                                         *)
THEOREM ListsStayConsistent ==
  /\ Consistent(EmptyStore)
  /\ \A store, name : Consistent(store) =>
            /\ Consistent(RemoveObject(store, <<name>>))
            /\ \A pose \in Poses :
                 /\ Consistent(UpdatePose(store, <<name>>, pose))
                 /\ <<name>> \notin store.names => Consistent(AddCuboid(store, name, pose))
                 /\ \A mesh, voxel : IsPlaceable(mesh, voxel) =>
                      Consistent(AddObject(store, name, mesh, pose, voxel))
<1>1. ASSUME NEW store, Consistent(store), NEW name
      PROVE  /\ Consistent(RemoveObject(store, <<name>>))
             /\ \A pose \in Poses :
                  /\ Consistent(UpdatePose(store, <<name>>, pose))
                  /\ <<name>> \notin store.names => Consistent(AddCuboid(store, name, pose))
                  /\ \A mesh, voxel : IsPlaceable(mesh, voxel) =>
                       Consistent(AddObject(store, name, mesh, pose, voxel))
  <2>1. ASSUME NEW pose \in Poses
        PROVE  Consistent(UpdatePose(store, <<name>>, pose))
    <3>1. CASE <<name>> \in store.names
      BY <1>1, <3>1, MoveKeepsConsistent
    <3>2. CASE <<name>> \notin store.names
      <4>1. ListOf(store, <<name>>) = "none"
        BY <1>1, <3>2 DEF ListOf, Consistent, NamesAreListed
      <4> QED BY <1>1, <4>1 DEF UpdatePose
    <3> QED BY <3>1, <3>2
  <2>2. ASSUME NEW pose \in Poses, <<name>> \notin store.names
        PROVE  Consistent(AddCuboid(store, name, pose))
    BY <1>1, <2>2, AddCuboidKeepsConsistent
  <2>3. ASSUME NEW pose \in Poses, NEW mesh, NEW voxel, IsPlaceable(mesh, voxel)
        PROVE  Consistent(AddObject(store, name, mesh, pose, voxel))
    <3>1. AreCubes(Pipeline(mesh, pose, voxel))
      BY <2>3, MeshesHaveCubes DEF IsPlaceable
    <3> QED BY <1>1, <3>1, AddMeshKeepsConsistent DEF AddObject
  <2> QED BY <1>1, <2>1, <2>2, <2>3, RemoveKeepsConsistent
<1> QED BY <1>1, EmptyIsConsistent

(* What is added, moved and removed leaves the lists as they were.         *)
THEOREM MeshesLeaveNothing ==
  ASSUME NEW store, Consistent(store), NEW name, <<name>> \notin store.names,
         NEW mesh, NEW voxel, IsPlaceable(mesh, voxel), NEW from \in Poses, NEW to \in Poses
  PROVE  RemoveObject(UpdatePose(AddObject(store, name, mesh, from, voxel), <<name>>, to), <<name>>) = store
<1>1. AreCubes(Pipeline(mesh, from, voxel))
  BY MeshesHaveCubes DEF IsPlaceable
<1> QED BY <1>1, AddedAndRemoved

(* Two cuboids of a mesh keep their distance and their sizes wherever the  *)
(* mesh is moved, and their turn is that of the mesh: it stays one body.   *)
THEOREM PartsStayTogether ==
  ASSUME NEW store, Consistent(store), NEW name, IsMesh(store, <<name>>), NEW pose \in Poses,
         NEW b \in store.cuboid, IsPart(store, <<name>>, b),
         NEW c \in store.cuboid, IsPart(store, <<name>>, c)
  PROVE  \E d, e \in UpdatePose(store, <<name>>, pose).cuboid :
           /\ d.name = b.name /\ d.size = b.size /\ d.quat = pose.quat
           /\ e.name = c.name /\ e.size = c.size /\ e.quat = pose.quat
           /\ SquaredDistance(d.at, e.at) = SquaredDistance(b.at, c.at)
<1> DEFINE Moved(x) == PartMoved(store, <<name>>, pose, x)
<1>1. UpdatePose(store, <<name>>, pose).cuboid = {Moved(x) : x \in store.cuboid}
  <2>1. UpdatePose(store, <<name>>, pose)
          = [mesh |-> {MeshWithPose(<<name>>, pose, m) : m \in store.mesh},
             cuboid |-> {PartMoved(store, <<name>>, pose, x) : x \in store.cuboid},
             names |-> store.names, offsets |-> store.offsets]
    BY MovedMeshShape
  <2> QED BY <2>1
<1>2. PICK m \in store.mesh : m.name = <<name>> /\ m.pose \in Poses
  BY DEF IsMesh, Consistent, MeshesAreKnown
<1>3. ASSUME NEW x \in store.cuboid, IsPart(store, <<name>>, x)
      PROVE  \E o \in Vector : /\ x.at = DerivedCentre(o, m.pose)
                               /\ Moved(x).at = DerivedCentre(o, pose)
                               /\ Moved(x).name = x.name /\ Moved(x).size = x.size /\ Moved(x).quat = pose.quat
  <2>1. PICK o \in Vector :
          /\ x.at = DerivedCentre(o, m.pose)
          /\ Moved(x) = [name |-> x.name, at |-> DerivedCentre(o, pose), quat |-> pose.quat, size |-> x.size]
    BY <1>2, <1>3, PartsFollow
  <2> HIDE DEF Moved
  <2> QED BY <2>1
<1> HIDE DEF Moved
<1>4. PICK o \in Vector : /\ b.at = DerivedCentre(o, m.pose) /\ Moved(b).at = DerivedCentre(o, pose)
                          /\ Moved(b).name = b.name /\ Moved(b).size = b.size /\ Moved(b).quat = pose.quat
  BY <1>3
<1>5. PICK p \in Vector : /\ c.at = DerivedCentre(p, m.pose) /\ Moved(c).at = DerivedCentre(p, pose)
                          /\ Moved(c).name = c.name /\ Moved(c).size = c.size /\ Moved(c).quat = pose.quat
  BY <1>3
<1>6. SquaredDistance(Moved(b).at, Moved(c).at) = SquaredDistance(b.at, c.at)
  BY <1>2, <1>4, <1>5, PlacingKeepsDistance
<1> QED BY <1>1, <1>4, <1>5, <1>6

(* Whatever a mesh consists of, in a store of whatever other objects: its  *)
(* cuboids fill it and do not overlap, they still fill it when it is moved *)
(* and turned, every listed name is found, and a mesh that is removed      *)
(* leaves nothing (add_object with MeshBloxilization.pipeline,             *)
(* update_object_poses, remove_object). A mesh fits that is 32 voxels wide *)
(* at most, as wide as the dense grid can be.                              *)
THEOREM CuboidsFollowTheirMesh ==
  ASSUME NEW store, Consistent(store), NEW name, <<name>> \notin store.names,
         NEW mesh, Fits(mesh.solid), Even(mesh.centre),
         NEW from \in Poses, Even(from.at), NEW to \in Poses
  PROVE  CuboidsFollow(store, name, mesh, from, to)
<1> DEFINE added == AddMesh(store, name, mesh, from, 1)
           moved == UpdatePose(added, <<name>>, to)
           m == [name |-> <<name>>, pose |-> from]
<1>1. AddObject(store, name, mesh, from, 1) = added
  BY DEF AddObject
<1>2. mesh.centre \in Vector /\ Bounded(mesh.solid) /\ mesh.solid \in SUBSET Vector
  BY FitsIsBounded DEF Even, Fits
<1>3. AreCubes(Pipeline(mesh, from, 1))
  <2>1. 1 \in Nat \ {0}
    OBVIOUS
  <2> QED BY <1>2, <2>1, MeshesHaveCubes
<1>4. Consistent(added)
  BY <1>3, AddMeshKeepsConsistent
<1>5. m \in added.mesh /\ \A b \in Derived(added, name) : IsPart(added, <<name>>, b)
  BY DerivedFromCubes
<1>6. /\ Filled(added, name) = PutSolid(mesh, from)
      /\ Disjoint(Derived(added, name))
      /\ \A b \in Derived(added, name) : \E s \in Nat : b.size = 2 * s
  BY AddedFillTheMesh
<1>7. m.name = <<name>> /\ m.pose = from
  OBVIOUS
<1> HIDE DEF m, added
<1>8. ASSUME from.quat = 0 \/ mesh.centre = Origin
      PROVE  Filled(moved, name) = PlacedSolid(mesh.solid, to)
  <2>1. Filled(added, name) = {DerivedCentre(p, m.pose) : p \in mesh.solid}
    BY <1>2, <1>6, <1>7, <1>8, PutIsPlaced DEF PutSolid
  <2>2. Filled(moved, name) = {DerivedCentre(p, to) : p \in mesh.solid}
    BY <1>2, <1>4, <1>5, <1>6, <1>7, <2>1, MovedFillTheMesh
  <2> QED BY <2>2 DEF PlacedSolid, Placed, DerivedCentre
<1>9. \A n \in GetObstacles(moved) : ListOf(moved, n) # "none"
  <2>1. <<name>> \in added.names
    BY <1>4, <1>5, <1>7 DEF Consistent, NamesAreListed
  <2>2. Consistent(moved)
    BY <1>4, <2>1, MoveKeepsConsistent
  <2> HIDE DEF moved
  <2> QED BY <2>2 DEF Consistent, NamesAreListed, GetObstacles, ListOf
<1>10. RemoveObject(moved, <<name>>) = store
  BY <1>1, <1>3, AddedAndRemoved
<1> QED BY <1>1, <1>6, <1>8, <1>9, <1>10 DEF CuboidsFollow

(* The meshes and the poses of the run are such meshes and poses.          *)
LEMMA SolidsFit == \A solid \in Solids : Fits(solid)
<1> DEFINE Odd(p) == p \in Vector /\ \A a \in Axes : p[a] % 2 = 1 /\ -5 <= p[a] /\ p[a] <= 9
<1>1. \A p : Odd(p) <=> p \in Vector /\ \A a \in Axes : p[a] % 2 = 1 /\ -5 <= p[a] /\ p[a] <= 9
  OBVIOUS
<1>2. \A x, y, z \in {-5, -3, -1, 1, 3, 5, 7, 9} : Odd(<<x, y, z>>)
  <2>1. \A x \in {-5, -3, -1, 1, 3, 5, 7, 9} : x \in Int /\ x % 2 = 1 /\ -5 <= x /\ x <= 9
    OBVIOUS
  <2> QED BY <2>1 DEF Vector, Axes
<1> HIDE DEF Odd
<1>3. \A n \in {2, 3, 4} : \A p \in Cube(n) : Odd(p)
  <2> SUFFICES ASSUME NEW n \in {2, 3, 4}, NEW p \in Cube(n)
               PROVE  Odd(p)
    OBVIOUS
  <2>1. PICK x \in 0 .. n - 1, y \in 0 .. n - 1, z \in 0 .. n - 1 : p = <<2 * x + 1, 2 * y + 1, 2 * z + 1>>
    BY DEF Cube
  <2>2. \A i \in 0 .. n - 1 : 2 * i + 1 \in {-5, -3, -1, 1, 3, 5, 7, 9}
    OBVIOUS
  <2> QED BY <1>2, <2>1, <2>2
<1>4. \A n \in {2, 3, 4} : <<1, 1, 1>> \in Cube(n)
  <2> SUFFICES ASSUME NEW n \in {2, 3, 4} PROVE <<1, 1, 1>> \in Cube(n)
    OBVIOUS
  <2>1. 0 \in 0 .. n - 1 /\ <<2 * 0 + 1, 2 * 0 + 1, 2 * 0 + 1>> = <<1, 1, 1>>
    OBVIOUS
  <2> QED BY <2>1 DEF Cube
<1>5. ASSUME NEW solid, solid # {}, \A p \in solid : Odd(p)
      PROVE  Fits(solid)
  <2>1. \A p \in solid, a \in Axes : p[a] \in Int /\ p[a] % 2 = 1 /\ -5 <= p[a] /\ p[a] <= 9
    BY <1>1, <1>5 DEF Vector, Axes
  <2>2. \A p, q \in solid, a \in Axes : p[a] - q[a] < 64
    BY <2>1
  <2> QED BY <1>1, <1>5, <2>1, <2>2 DEF Fits
<1>6. ASSUME NEW solid \in Solids
      PROVE  solid # {} /\ \A p \in solid : Odd(p)
  <2>1. CASE solid \in (SUBSET Cube(2)) \ {{}}
    <3>1. solid \subseteq Cube(2) /\ solid # {}
      BY <2>1
    <3> QED BY <1>3, <3>1
  <2>2. CASE solid = Cube(4) \ {<<3, 3, 3>>}
    <3>1. <<1, 1, 1>> # <<3, 3, 3>>
      OBVIOUS
    <3> QED BY <1>3, <1>4, <2>2, <3>1
  <2>3. CASE solid = Cube(4) \cup {<<9, 1, 1>>}
    BY <1>2, <1>3, <2>3
  <2>4. CASE solid = Cube(3)
    BY <1>3, <1>4, <2>4
  <2>5. CASE solid = {<<x, 1, 1>> : x \in {-5, -3, -1, 1, 3, 5}}
    BY <1>2, <2>5
  <2> QED BY <2>1, <2>2, <2>3, <2>4, <2>5 DEF Solids
<1> QED BY <1>5, <1>6

LEMMA RunFollows == CuboidsFollowMeshes
<1> SUFFICES ASSUME NEW mesh \in Meshes, NEW from \in PosesAt(Origin), NEW to \in PosesAt(<<4, -6, 2>>)
             PROVE  CuboidsFollow(BoxStore, "mesh", mesh, from, to)
  BY DEF CuboidsFollowMeshes
<1>1. Fits(mesh.solid)
  BY SolidsFit DEF Meshes
<1>2. Even(Origin) /\ Even(<<2, 0, 2>>) /\ <<4, -6, 2>> \in Vector
  BY DEF Even, Origin, Vector, Axes
<1>3. Even(mesh.centre)
  BY <1>2 DEF Meshes
<1>4. from \in Poses /\ to \in Poses /\ Even(from.at)
  BY <1>2 DEF PosesAt, Poses, Even
<1>5. Consistent(BoxStore) /\ <<"mesh">> \notin BoxStore.names
  <2> DEFINE pose == [at |-> Origin, quat |-> 0]
  <2>1. EmptyStore.names = {} /\ HasLists(EmptyStore)
    BY DEF EmptyStore, HasLists
  <2>2. Consistent(AddCuboid(EmptyStore, "box", pose))
    BY <2>1, EmptyIsConsistent, AddCuboidKeepsConsistent
  <2>3. AddCuboid(EmptyStore, "box", pose).names = {<<"box">>}
    BY <2>1, ListsExtended DEF AddCuboid
  <2>4. <<"mesh">> # <<"box">>
    OBVIOUS
  <2> QED BY <2>2, <2>3, <2>4 DEF BoxStore
<1> QED BY <1>1, <1>3, <1>4, <1>5, CuboidsFollowTheirMesh

(* So they do for the meshes of the runs, whatever the content of the      *)
(* world is (add_object, update_object_poses, remove_object).              *)
THEOREM CuboidsAreKept == Spec => []MeshesKeepTheirCuboids
<1>1. MeshesKeepTheirCuboids
  BY RunFollows DEF MeshesKeepTheirCuboids
<1> QED BY <1>1, PTL
=============================================================================
