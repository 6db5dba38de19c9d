------------------------- MODULE PickAndPlace_proofs -------------------------
(***************************************************************************)
(* Ownership of the target through every path of the sequence, for any     *)
(* number of grasps and every way to launch the node.                      *)
(*                                                                         *)
(* The sequence is a long line of phases with an abort path from nearly    *)
(* each of them. The invariants say, by phase, what the thread has asked   *)
(* for: which representations may exist, and which step of the cleanup is  *)
(* still to come for each. What the other processes make of it is the same *)
(* once they have handled everything they were sent.                       *)
(*                                                                         *)
(* The second half is about the spheres that stand for the target on the   *)
(* robot: whatever an object is made of, they fill it and stay in it.      *)
(***************************************************************************)
EXTENDS MCPickAndPlace, SequenceTheorems, FiniteSetTheorems, WellFoundedInduction, TLAPS

EnvProofs == INSTANCE EnvironmentCollision_proofs
               WITH Objects <- {Target}, Poses <- {Pose}, MaxRestarts <- 0, MaxLost <- 0

(* Nothing of the target is on the robot, or will come back to it.         *)
FreeCurobo == ~spheres /\ \A i \in DOMAIN lateAttach : ~lateAttach[i]
FreeCumotion == ~cumotionSpheres /\ \A i \in DOMAIN lateCumotion : ~lateCumotion[i]

\* The target is withheld, or asked to be.
HiddenPhases == {"verify_suppress", "close_gripper", "attach_in_isaac", "post_grasp_lift",
  "attach_cumotion", "attach_moveit", "attach_curobo", "release_orientation", "pre_drop",
  "release", "open_gripper_at_release"}
\* It may be attached in the planning scene.
CarryPhases == {"attach_curobo", "release_orientation", "pre_drop", "release",
  "open_gripper_at_release", "detach_moveit", "cleanup"}
\* It has been let go.
LetGoPhases == {"retreat", "unsuppress", "verify_unsuppress", "home"}
Straight == Phases \ {"cleanup", "verify_restore", "finally", "done"}

\* Which phases, and which beliefs, belong to which backend.
Route ==
  /\ pc = "attach_cumotion" => UseCumotion
  /\ pc \in {"attach_moveit", "detach_moveit"} => UsesScene
  /\ pc \in {"attach_curobo", "detach_curobo"} => UsesTracker
  /\ pc = "detach_cumotion" => ~UsesTracker
  /\ pc = "surface_off" => ~UsesScene
  /\ attachedId => UsesScene
  /\ trackerAttached => UsesTracker
  /\ cumotionAttached => UseCumotion

\* While the target is attached it is withheld, and a cleanup will detach it first.
Ownership ==
  /\ attachedId <=> WillBeAttached
  /\ HiddenWhileAttached
  /\ attachedId => pc \in CarryPhases
  /\ (pc = "cleanup" /\ attachedId) => "detach_moveit" \in todo
  /\ pc \in HiddenPhases => WillBeSuppressed

\* On the straight way, what the thread believes not attached is free.
Releasing ==
  /\ pc \in LetGoPhases \cup {"detach_curobo", "detach_cumotion"} => ~surface
  /\ (pc \in Straight /\ ~trackerAttached) => FreeCurobo
  /\ (pc \in Straight /\ ~cumotionAttached) => FreeCumotion
  /\ pc \in LetGoPhases => ~trackerAttached /\ ~cumotionAttached
  /\ pc \in {"verify_unsuppress", "home"} => ~WillBeSuppressed
  /\ sequence_success => pc \in {"finally", "done"}
  /\ sequence_success => ~surface /\ ~WillBeAttached /\ ~WillBeSuppressed /\ FreeCurobo /\ FreeCumotion

Inv == ThreadTypeOK /\ Route /\ Ownership /\ Releasing

-----------------------------------------------------------------------------
(* The data.                                                               *)
LEMMA CleanupStepsAre ==
  CleanupSteps = {"detach_curobo", "detach_cumotion", "detach_moveit", "restore", "abort"}
<1>1. 1 .. 5 = {1, 2, 3, 4, 5}
  OBVIOUS
<1> QED BY <1>1 DEF CleanupSteps, CleanupOrder

LEMMA ConfigFacts ==
  ASSUME ThreadTypeOK
  PROVE  /\ config.backend \in {"moveit", "hybrid", "curobo_ros"}
         /\ config.cumotion \in BOOLEAN /\ config.queriesFail \in BOOLEAN
         /\ UseCumotion => UsesScene /\ ~UsesTracker
         /\ ~UsesScene => UsesTracker
         /\ UseCumotion => config.backend = "moveit"
BY ConfigAssumption DEF ThreadTypeOK, ConfigType, UseCumotion, UsesScene, UsesTracker

(* A request of the tracker or of cuMotion.                                *)
LEMMA RequestTyped ==
  ASSUME NEW out \in Outcomes, NEW wanted \in BOOLEAN, NEW current \in BOOLEAN, NEW late \in Seq(BOOLEAN)
  PROVE  /\ Effect(out, wanted, current) \in BOOLEAN
         /\ Queued(out, wanted, late) \in Seq(BOOLEAN)
<1>1. Append(late, wanted) \in Seq(BOOLEAN)
  BY AppendProperties
<1>2. <<>> \in Seq(BOOLEAN)
  OBVIOUS
<1> QED BY <1>1, <1>2, Zenon DEF Effect, Queued

(* A step of the environment keeps its types (EnvironmentCollision).       *)
LEMMA EnvironmentTyped ==
  ASSUME Env!TypeOK, [Env!Next]_(Env!vars)
  PROVE  Env!TypeOK'
BY PoseAssumption, EnvProofs!TypeStep
   DEF Env!TypeOK, Env!Next, Env!vars, Env!pubVars, Env!Publisher, Env!Command, Env!OnControlCommand,
       Env!OnSuppress, Env!OnUnsuppress, Env!Forget, Env!PublishPoses, Env!TickDiff, Env!NeedsAdd,
       Env!Update, Env!ApplyDiff, Env!Applied, Env!MoveObject, Env!RestartMoveGroup,
       Env!RestartPublisher, Env!LoseOldest, Env!Commands, Env!Diffs,
       EnvProofs!TypeOK, EnvProofs!Next, EnvProofs!vars, EnvProofs!pubVars, EnvProofs!Publisher,
       EnvProofs!Command, EnvProofs!OnControlCommand,
       EnvProofs!OnSuppress, EnvProofs!OnUnsuppress, EnvProofs!Forget, EnvProofs!PublishPoses,
       EnvProofs!TickDiff, EnvProofs!NeedsAdd, EnvProofs!Update, EnvProofs!ApplyDiff,
       EnvProofs!Applied, EnvProofs!MoveObject, EnvProofs!RestartMoveGroup,
       EnvProofs!RestartPublisher, EnvProofs!LoseOldest, EnvProofs!Commands, EnvProofs!Diffs,
       EnvProofs!AbsentAssumption

-----------------------------------------------------------------------------
(* What the servers are headed for changes with what they are sent.        *)
LEMMA EnvSame ==
  ASSUME UNCHANGED <<control, suppressed>>
  PROVE  WillBeSuppressed' <=> WillBeSuppressed
BY DEF WillBeSuppressed

LEMMA SceneSame ==
  ASSUME UNCHANGED sceneVars
  PROVE  WillBeAttached' <=> WillBeAttached
BY DEF WillBeAttached, sceneVars

LEMMA CuroboSame ==
  ASSUME UNCHANGED <<spheres, lateAttach>>
  PROVE  FreeCurobo' <=> FreeCurobo
BY DEF FreeCurobo

LEMMA CumotionSame ==
  ASSUME UNCHANGED cumotionVars
  PROVE  FreeCumotion' <=> FreeCumotion
BY DEF FreeCumotion, cumotionVars

LEMMA RemoteSame ==
  ASSUME UNCHANGED remoteVars
  PROVE  /\ WillBeSuppressed' <=> WillBeSuppressed
         /\ WillBeAttached' <=> WillBeAttached
         /\ FreeCurobo' <=> FreeCurobo
         /\ FreeCumotion' <=> FreeCumotion
BY EnvSame, SceneSame, CuroboSame, CumotionSame DEF remoteVars, envVars, curoboVars

LEMMA CommandTold ==
  ASSUME control \in Seq(Env!Commands), NEW op \in Ops, PublishControl(op)
  PROVE  WillBeSuppressed' <=> op = "suppress"
<1> DEFINE c == [op |-> op, id |-> Target]
<1>1. control' = Append(control, c) /\ c \in Env!Commands
  BY DEF PublishControl, Env!Commands, Ops
<1>2. control' # <<>> /\ control'[Len(control')] = c
  BY <1>1
<1> QED BY <1>2 DEF WillBeSuppressed

LEMMA DiffSent ==
  ASSUME sceneDiffs \in Seq({"attach", "detach"}), NEW d \in {"attach", "detach"},
         sceneDiffs' = Append(sceneDiffs, d)
  PROVE  WillBeAttached' <=> d = "attach"
<1>1. sceneDiffs' # <<>> /\ sceneDiffs'[Len(sceneDiffs')] = d
  OBVIOUS
<1> QED BY <1>1 DEF WillBeAttached

LEMMA AttachAnswered ==
  ASSUME AttachRequest("ok", FALSE)
  PROVE  FreeCurobo'
BY DEF AttachRequest, Effect, Queued, FreeCurobo

LEMMA CumotionAnswered ==
  ASSUME CumotionGoal("ok", FALSE)
  PROVE  FreeCumotion'
BY DEF CumotionGoal, Effect, Queued, FreeCumotion

LEMMA ConfigSame ==
  ASSUME config' = config
  PROVE  /\ UseCumotion' <=> UseCumotion
         /\ UsesScene' <=> UsesScene
         /\ UsesTracker' <=> UsesTracker
BY DEF UseCumotion, UsesScene, UsesTracker


(* A phase that fails: whatever became of the requests, the flags of the   *)
(* thread are not wrong about the scene, and the cleanup knows what is     *)
(* attached there.                                                         *)
LEMMA FailKeeps ==
  ASSUME Inv, UNCHANGED <<config, control, suppressed, sceneVars, attachedId, sequence_success>>,
         tries' \in Nat, pc \in Straight, pc' = "cleanup", todo' \in SUBSET CleanupSteps,
         attachedId => "detach_moveit" \in todo',
         targetSuppressed' \in BOOLEAN, linksDisabled' \in BOOLEAN, surface' \in BOOLEAN,
         sequence_failed' \in BOOLEAN,
         trackerAttached' = trackerAttached, cumotionAttached' = cumotionAttached
  PROVE  Inv'
<1> USE ConfigSame, EnvSame, SceneSame
    DEF Inv, Phases, Straight, HiddenPhases, CarryPhases, LetGoPhases
<1>1. ThreadTypeOK'
  BY DEF ThreadTypeOK
<1>2. Route'
  BY DEF Route
<1>3. Ownership'
  BY DEF Ownership, HiddenWhileAttached
<1>4. Releasing'
  BY DEF ThreadTypeOK, Releasing
<1> QED BY <1>1, <1>2, <1>3, <1>4

(* A phase that only waits and moves on.                                   *)
LEMMA AdvanceKeeps ==
  ASSUME Inv, UNCHANGED <<config, todo, outcome, attachedId, cumotionAttached, trackerAttached, remoteVars>>,
         tries' \in Nat, targetSuppressed' \in BOOLEAN, linksDisabled' \in BOOLEAN, surface' \in BOOLEAN,
         pc \in Straight, pc' \in Straight, Route',
         attachedId => pc' \in CarryPhases,
         pc' \in HiddenPhases => pc \in HiddenPhases,
         pc' \in LetGoPhases => pc \in LetGoPhases,
         pc' \in LetGoPhases \cup {"detach_curobo", "detach_cumotion"} => ~surface',
         pc' \in {"verify_unsuppress", "home"} => pc \in {"verify_unsuppress", "home"}
  PROVE  Inv'
<1> USE RemoteSame DEF Inv, Phases, Straight, outcome
<1>1. ThreadTypeOK'
  BY DEF ThreadTypeOK
<1>2. Ownership'
  BY DEF Ownership, HiddenWhileAttached
<1>3. Releasing'
  BY DEF Releasing, LetGoPhases
<1> QED BY <1>1, <1>2, <1>3

-----------------------------------------------------------------------------
(* The phases in which the thread waits and moves on.                      *)
Walk ==
  \/ Connect \/ Lookup \/ OpenGripper \/ PreGrasp \/ Grasp
     \/ SnapshotGeometry \/ Resnapshot \/ VerifySuppress \/ CloseGripper \/ AttachInIsaac
     \/ PostGraspLift \/ ReleaseOrientation \/ PreDrop \/ Release \/ OpenGripperAtRelease
     \/ SurfaceOff \/ Retreat \/ VerifyUnsuppress

\* What these phases have in common: from p to a phase of next, or to the cleanup.
Walks(p, next, cleanup) ==
  /\ pc = p
  /\ UNCHANGED <<config, attachedId, cumotionAttached, trackerAttached, remoteVars, sequence_success>>
  /\ tries' \in Nat
  /\ targetSuppressed' \in BOOLEAN /\ linksDisabled' \in BOOLEAN /\ surface' \in BOOLEAN
  /\ \/ /\ pc' \in next /\ UNCHANGED <<todo, sequence_failed>>
        /\ pc' \in LetGoPhases \cup {"detach_curobo", "detach_cumotion"} => ~surface'
     \/ /\ pc' = "cleanup" /\ todo' \in SUBSET CleanupSteps /\ cleanup \subseteq todo'
        /\ sequence_failed' \in BOOLEAN

\* No phase of next claims more than p about the target.
Forward(p, next) ==
  /\ p \in Straight /\ next \in SUBSET Straight
  /\ \A q \in next :
       /\ q \in HiddenPhases => p \in HiddenPhases
       /\ q \in LetGoPhases => p \in LetGoPhases
       /\ q \in {"verify_unsuppress", "home"} => p \in {"verify_unsuppress", "home"}

LEMMA WalksKeep ==
  ASSUME Inv, NEW p, NEW next, NEW cleanup, Walks(p, next, cleanup), Forward(p, next),
         attachedId => "detach_moveit" \in cleanup /\ (pc' \in next => pc' \in CarryPhases),
         pc' \in next => Route'
  PROVE  Inv'
<1>1. CASE /\ pc' \in next /\ UNCHANGED <<todo, sequence_failed>>
           /\ pc' \in LetGoPhases \cup {"detach_curobo", "detach_cumotion"} => ~surface'
  BY <1>1, AdvanceKeeps DEF Walks, Forward, outcome
<1>2. CASE /\ pc' = "cleanup" /\ todo' \in SUBSET CleanupSteps /\ cleanup \subseteq todo'
           /\ sequence_failed' \in BOOLEAN
  <2>1. UNCHANGED <<control, suppressed, sceneVars>>
    BY DEF Walks, remoteVars, envVars
  <2> QED BY <1>2, <2>1, FailKeeps DEF Walks, Forward
<1> QED BY <1>1, <1>2 DEF Walks

LEMMA Order ==
  /\ Forward("connect", {"lookup"})
  /\ Forward("lookup", {"open_gripper"})
  /\ Forward("open_gripper", {"pre_grasp"})
  /\ Forward("pre_grasp", {"pre_grasp", "grasp"})
  /\ Forward("grasp", {"grasp", "snapshot", "suppress"})
  /\ Forward("snapshot", {"suppress", "recover"})
  /\ Forward("resnapshot", {"suppress"})
  /\ Forward("verify_suppress", {"close_gripper"})
  /\ Forward("close_gripper", {"attach_in_isaac"})
  /\ Forward("attach_in_isaac", {"post_grasp_lift"})
  /\ Forward("post_grasp_lift", {"attach_cumotion", "attach_moveit", "attach_curobo"})
  /\ Forward("release_orientation", {"pre_drop"})
  /\ Forward("pre_drop", {"release"})
  /\ Forward("release", {"open_gripper_at_release"})
  /\ Forward("open_gripper_at_release", {"detach_moveit", "surface_off"})
  /\ Forward("surface_off", {"detach_curobo"})
  /\ Forward("retreat", {"unsuppress"})
  /\ Forward("verify_unsuppress", {"home"})
BY DEF Forward, Phases, Straight, HiddenPhases, LetGoPhases

LEMMA WalkKeeps ==
  ASSUME Inv, Walk
  PROVE  Inv'
<1>0. /\ tries \in Nat /\ sequence_failed \in BOOLEAN
      /\ targetSuppressed \in BOOLEAN /\ linksDisabled \in BOOLEAN /\ surface \in BOOLEAN
      /\ attachedId => pc \in CarryPhases
      /\ pc \in LetGoPhases \cup {"detach_curobo", "detach_cumotion"} => ~surface
  BY DEF Inv, ThreadTypeOK, Ownership, Releasing
<1> USE CleanupStepsAre
    DEF Attempt, Retrying, Goto, FailThenClean, CleanThenFail, outcome, DetachDynamic, flagVars
<1>1. CASE Connect
  <2>1. Walks("connect", {"lookup"}, {})
    BY <1>0, <1>1 DEF Connect, Walks, LetGoPhases
  <2>2. pc' \in {"lookup"} => Route'
    BY <1>1, <2>1, ConfigSame, ConfigFacts DEF Connect, Walks, Inv, Route
  <2>3. attachedId => "detach_moveit" \in {} /\ (pc' \in {"lookup"} => pc' \in CarryPhases)
    BY <1>0, <2>1, <2>2, ConfigSame, ConfigFacts DEF Walks, CarryPhases, Inv, Route
  <2> QED BY <2>1, <2>2, <2>3, Order, WalksKeep
<1>2. CASE Lookup
  <2>1. Walks("lookup", {"open_gripper"}, {})
    BY <1>0, <1>2 DEF Lookup, Walks, LetGoPhases
  <2>2. pc' \in {"open_gripper"} => Route'
    BY <1>2, <2>1, ConfigSame, ConfigFacts DEF Lookup, Walks, Inv, Route
  <2>3. attachedId => "detach_moveit" \in {} /\ (pc' \in {"open_gripper"} => pc' \in CarryPhases)
    BY <1>0, <2>1, <2>2, ConfigSame, ConfigFacts DEF Walks, CarryPhases, Inv, Route
  <2> QED BY <2>1, <2>2, <2>3, Order, WalksKeep
<1>3. CASE OpenGripper
  <2>1. Walks("open_gripper", {"pre_grasp"}, {})
    BY <1>0, <1>3 DEF OpenGripper, Walks, LetGoPhases
  <2>2. pc' \in {"pre_grasp"} => Route'
    BY <1>3, <2>1, ConfigSame, ConfigFacts DEF OpenGripper, Walks, Inv, Route
  <2>3. attachedId => "detach_moveit" \in {} /\ (pc' \in {"pre_grasp"} => pc' \in CarryPhases)
    BY <1>0, <2>1, <2>2, ConfigSame, ConfigFacts DEF Walks, CarryPhases, Inv, Route
  <2> QED BY <2>1, <2>2, <2>3, Order, WalksKeep
<1>4. CASE PreGrasp
  <2>1. Walks("pre_grasp", {"pre_grasp", "grasp"}, {})
    <3>1. tries' \in Nat
      BY <1>0, <1>4, TriesAssumption DEF PreGrasp
    <3>2. \/ pc' \in {"pre_grasp", "grasp"} /\ UNCHANGED <<todo, sequence_failed>>
          \/ pc' = "cleanup" /\ todo' = {} /\ sequence_failed' \in BOOLEAN
      BY <1>4 DEF PreGrasp
    <3>3. pc = "pre_grasp" /\ UNCHANGED <<config, flagVars, surface, remoteVars, sequence_success>>
      BY <1>4, Zenon DEF PreGrasp
    <3> QED BY <1>0, <3>1, <3>2, <3>3 DEF Walks, LetGoPhases
  <2>2. pc' \in {"pre_grasp", "grasp"} => Route'
    BY <1>4, <2>1, ConfigSame, ConfigFacts DEF PreGrasp, Walks, Inv, Route
  <2>3. attachedId => "detach_moveit" \in {} /\ (pc' \in {"pre_grasp", "grasp"} => pc' \in CarryPhases)
    BY <1>0, <2>1, <2>2, ConfigSame, ConfigFacts DEF Walks, CarryPhases, Inv, Route
  <2> QED BY <2>1, <2>2, <2>3, Order, WalksKeep
<1>5. CASE Grasp
  <2>1. Walks("grasp", {"grasp", "snapshot", "suppress"}, {})
    <3>1. tries' \in Nat
      BY <1>0, <1>5, TriesAssumption DEF Grasp
    <3>2. \/ pc' \in {"grasp", "snapshot", "suppress"} /\ UNCHANGED <<todo, sequence_failed>>
          \/ pc' = "cleanup" /\ todo' = {} /\ sequence_failed' \in BOOLEAN
      BY <1>5 DEF Grasp
    <3>3. pc = "grasp" /\ UNCHANGED <<config, flagVars, surface, remoteVars, sequence_success>>
      BY <1>5, Zenon DEF Grasp
    <3> QED BY <1>0, <3>1, <3>2, <3>3 DEF Walks, LetGoPhases
  <2>2. pc' \in {"grasp", "snapshot", "suppress"} => Route'
    BY <1>5, <2>1, ConfigSame, ConfigFacts DEF Grasp, Walks, Inv, Route
  <2>3. attachedId => "detach_moveit" \in {} /\ (pc' \in {"grasp", "snapshot", "suppress"} => pc' \in CarryPhases)
    BY <1>0, <2>1, <2>2, ConfigSame, ConfigFacts DEF Walks, CarryPhases, Inv, Route
  <2> QED BY <2>1, <2>2, <2>3, Order, WalksKeep
<1>6. CASE SnapshotGeometry
  <2>1. Walks("snapshot", {"suppress", "recover"}, {})
    BY <1>0, <1>6 DEF SnapshotGeometry, Walks, LetGoPhases, Snapshot
  <2>2. pc' \in {"suppress", "recover"} => Route'
    BY <1>6, <2>1, ConfigSame, ConfigFacts DEF SnapshotGeometry, Walks, Inv, Route
  <2>3. attachedId => "detach_moveit" \in {} /\ (pc' \in {"suppress", "recover"} => pc' \in CarryPhases)
    BY <1>0, <2>1, <2>2, ConfigSame, ConfigFacts DEF Walks, CarryPhases, Inv, Route
  <2> QED BY <2>1, <2>2, <2>3, Order, WalksKeep
<1>7. CASE Resnapshot
  <2>1. Walks("resnapshot", {"suppress"}, {})
    BY <1>0, <1>7 DEF Resnapshot, Walks, LetGoPhases, Snapshot
  <2>2. pc' \in {"suppress"} => Route'
    BY <1>7, <2>1, ConfigSame, ConfigFacts DEF Resnapshot, Walks, Inv, Route
  <2>3. attachedId => "detach_moveit" \in {} /\ (pc' \in {"suppress"} => pc' \in CarryPhases)
    BY <1>0, <2>1, <2>2, ConfigSame, ConfigFacts DEF Walks, CarryPhases, Inv, Route
  <2> QED BY <2>1, <2>2, <2>3, Order, WalksKeep
<1>8. CASE VerifySuppress
  <2>1. Walks("verify_suppress", {"close_gripper"}, {})
    BY <1>0, <1>8 DEF VerifySuppress, Walks, LetGoPhases
  <2>2. pc' \in {"close_gripper"} => Route'
    BY <1>8, <2>1, ConfigSame, ConfigFacts DEF VerifySuppress, Walks, Inv, Route
  <2>3. attachedId => "detach_moveit" \in {} /\ (pc' \in {"close_gripper"} => pc' \in CarryPhases)
    BY <1>0, <2>1, <2>2, ConfigSame, ConfigFacts DEF Walks, CarryPhases, Inv, Route
  <2> QED BY <2>1, <2>2, <2>3, Order, WalksKeep
<1>9. CASE CloseGripper
  <2>1. Walks("close_gripper", {"attach_in_isaac"}, {})
    BY <1>0, <1>9 DEF CloseGripper, Walks, LetGoPhases
  <2>2. pc' \in {"attach_in_isaac"} => Route'
    BY <1>9, <2>1, ConfigSame, ConfigFacts DEF CloseGripper, Walks, Inv, Route
  <2>3. attachedId => "detach_moveit" \in {} /\ (pc' \in {"attach_in_isaac"} => pc' \in CarryPhases)
    BY <1>0, <2>1, <2>2, ConfigSame, ConfigFacts DEF Walks, CarryPhases, Inv, Route
  <2> QED BY <2>1, <2>2, <2>3, Order, WalksKeep
<1>10. CASE AttachInIsaac
  <2>1. Walks("attach_in_isaac", {"post_grasp_lift"}, {})
    BY <1>0, <1>10 DEF AttachInIsaac, Walks, LetGoPhases
  <2>2. pc' \in {"post_grasp_lift"} => Route'
    BY <1>10, <2>1, ConfigSame, ConfigFacts DEF AttachInIsaac, Walks, Inv, Route
  <2>3. attachedId => "detach_moveit" \in {} /\ (pc' \in {"post_grasp_lift"} => pc' \in CarryPhases)
    BY <1>0, <2>1, <2>2, ConfigSame, ConfigFacts DEF Walks, CarryPhases, Inv, Route
  <2> QED BY <2>1, <2>2, <2>3, Order, WalksKeep
<1>11. CASE PostGraspLift
  <2>1. Walks("post_grasp_lift", {"attach_cumotion", "attach_moveit", "attach_curobo"}, {})
    BY <1>0, <1>11 DEF PostGraspLift, Walks, LetGoPhases
  <2>2. pc' \in {"attach_cumotion", "attach_moveit", "attach_curobo"} => Route'
    BY <1>11, <2>1, ConfigSame, ConfigFacts DEF PostGraspLift, Walks, Inv, Route
  <2>3. attachedId => "detach_moveit" \in {} /\ (pc' \in {"attach_cumotion", "attach_moveit", "attach_curobo"} => pc' \in CarryPhases)
    BY <1>0, <2>1, <2>2, ConfigSame, ConfigFacts DEF Walks, CarryPhases, Inv, Route
  <2> QED BY <2>1, <2>2, <2>3, Order, WalksKeep
<1>12. CASE ReleaseOrientation
  <2>1. Walks("release_orientation", {"pre_drop"}, DetachDynamic)
    BY <1>0, <1>12 DEF ReleaseOrientation, Walks, LetGoPhases, CarryFailed
  <2>2. pc' \in {"pre_drop"} => Route'
    BY <1>12, <2>1, ConfigSame, ConfigFacts DEF ReleaseOrientation, Walks, Inv, Route
  <2>3. attachedId => "detach_moveit" \in DetachDynamic /\ (pc' \in {"pre_drop"} => pc' \in CarryPhases)
    BY <1>0, <2>1, <2>2, ConfigSame, ConfigFacts DEF Walks, CarryPhases, Inv, Route
  <2> QED BY <2>1, <2>2, <2>3, Order, WalksKeep
<1>13. CASE PreDrop
  <2>1. Walks("pre_drop", {"release"}, DetachDynamic)
    BY <1>0, <1>13 DEF PreDrop, Walks, LetGoPhases, CarryFailed
  <2>2. pc' \in {"release"} => Route'
    BY <1>13, <2>1, ConfigSame, ConfigFacts DEF PreDrop, Walks, Inv, Route
  <2>3. attachedId => "detach_moveit" \in DetachDynamic /\ (pc' \in {"release"} => pc' \in CarryPhases)
    BY <1>0, <2>1, <2>2, ConfigSame, ConfigFacts DEF Walks, CarryPhases, Inv, Route
  <2> QED BY <2>1, <2>2, <2>3, Order, WalksKeep
<1>14. CASE Release
  <2>1. Walks("release", {"open_gripper_at_release"}, DetachDynamic)
    BY <1>0, <1>14 DEF Release, Walks, LetGoPhases, CarryFailed
  <2>2. pc' \in {"open_gripper_at_release"} => Route'
    BY <1>14, <2>1, ConfigSame, ConfigFacts DEF Release, Walks, Inv, Route
  <2>3. attachedId => "detach_moveit" \in DetachDynamic /\ (pc' \in {"open_gripper_at_release"} => pc' \in CarryPhases)
    BY <1>0, <2>1, <2>2, ConfigSame, ConfigFacts DEF Walks, CarryPhases, Inv, Route
  <2> QED BY <2>1, <2>2, <2>3, Order, WalksKeep
<1>15. CASE OpenGripperAtRelease
  <2>1. Walks("open_gripper_at_release", {"detach_moveit", "surface_off"}, DetachDynamic)
    BY <1>0, <1>15 DEF OpenGripperAtRelease, Walks, LetGoPhases, CarryFailed
  <2>2. pc' \in {"detach_moveit", "surface_off"} => Route'
    BY <1>15, <2>1, ConfigSame, ConfigFacts DEF OpenGripperAtRelease, Walks, Inv, Route
  <2>3. attachedId => "detach_moveit" \in DetachDynamic /\ (pc' \in {"detach_moveit", "surface_off"} => pc' \in CarryPhases)
    BY <1>0, <2>1, <2>2, ConfigSame, ConfigFacts DEF Walks, CarryPhases, Inv, Route
  <2> QED BY <2>1, <2>2, <2>3, Order, WalksKeep
<1>16. CASE SurfaceOff
  <2>1. Walks("surface_off", {"detach_curobo"}, {})
    BY <1>0, <1>16 DEF SurfaceOff, Walks, LetGoPhases
  <2>2. pc' \in {"detach_curobo"} => Route'
    BY <1>16, <2>1, ConfigSame, ConfigFacts DEF SurfaceOff, Walks, Inv, Route
  <2>3. attachedId => "detach_moveit" \in {} /\ (pc' \in {"detach_curobo"} => pc' \in CarryPhases)
    BY <1>0, <2>1, <2>2, ConfigSame, ConfigFacts DEF Walks, CarryPhases, Inv, Route
  <2> QED BY <2>1, <2>2, <2>3, Order, WalksKeep
<1>17. CASE Retreat
  <2>1. Walks("retreat", {"unsuppress"}, {})
    BY <1>0, <1>17 DEF Retreat, Walks, LetGoPhases
  <2>2. pc' \in {"unsuppress"} => Route'
    BY <1>17, <2>1, ConfigSame, ConfigFacts DEF Retreat, Walks, Inv, Route
  <2>3. attachedId => "detach_moveit" \in {} /\ (pc' \in {"unsuppress"} => pc' \in CarryPhases)
    BY <1>0, <2>1, <2>2, ConfigSame, ConfigFacts DEF Walks, CarryPhases, Inv, Route
  <2> QED BY <2>1, <2>2, <2>3, Order, WalksKeep
<1>18. CASE VerifyUnsuppress
  <2>1. Walks("verify_unsuppress", {"home"}, DetachDynamic)
    BY <1>0, <1>18 DEF VerifyUnsuppress, Walks, LetGoPhases
  <2>2. pc' \in {"home"} => Route'
    BY <1>18, <2>1, ConfigSame, ConfigFacts DEF VerifyUnsuppress, Walks, Inv, Route
  <2>3. attachedId => "detach_moveit" \in DetachDynamic /\ (pc' \in {"home"} => pc' \in CarryPhases)
    BY <1>0, <2>1, <2>2, ConfigSame, ConfigFacts DEF Walks, CarryPhases, Inv, Route
  <2> QED BY <2>1, <2>2, <2>3, Order, WalksKeep
<1> QED BY <1>1, <1>2, <1>3, <1>4, <1>5, <1>6, <1>7, <1>8, <1>9, <1>10, <1>11, <1>12, <1>13, <1>14, <1>15, <1>16, <1>17, <1>18 DEF Walk

-----------------------------------------------------------------------------
(* The phases that hide the target and show it again.                      *)
LEMMA CommandKeeps ==
  ASSUME Inv, RemoteTypeOK, Recover \/ Suppress \/ Unsuppress
  PROVE  Inv'
<1>1. PICK op \in Ops :
        /\ PublishControl(op)
        /\ UNCHANGED <<config, todo, outcome, tries, flagVars, surface, sceneVars, curoboVars, cumotionVars>>
        /\ \/ pc = "recover" /\ pc' = "resnapshot" /\ op = "unsuppress"
           \/ pc = "suppress" /\ pc' = "verify_suppress" /\ op = "suppress"
           \/ pc = "unsuppress" /\ pc' = "verify_unsuppress" /\ op = "unsuppress"
  BY DEF Recover, Suppress, Unsuppress, Goto, Ops
<1>2. /\ WillBeSuppressed' <=> op = "suppress"
      /\ WillBeAttached' <=> WillBeAttached
      /\ FreeCurobo' <=> FreeCurobo
      /\ FreeCumotion' <=> FreeCumotion
  BY <1>1, CommandTold, SceneSame, CuroboSame, CumotionSame DEF RemoteTypeOK, Env!TypeOK, curoboVars
<1>3. ~attachedId /\ ~sequence_success
  BY <1>1 DEF Inv, Ownership, Releasing, CarryPhases
<1> USE <1>1, <1>2, <1>3 DEF Inv, flagVars, outcome, Straight, Phases
<1>4. ThreadTypeOK'
  BY DEF ThreadTypeOK
<1>5. Route'
  BY ConfigSame DEF Route
<1>6. Ownership'
  BY DEF Ownership, HiddenWhileAttached, CarryPhases, HiddenPhases
<1>7. Releasing'
  BY DEF Releasing, LetGoPhases
<1> QED BY <1>4, <1>5, <1>6, <1>7

-----------------------------------------------------------------------------
(* The phases that attach the target.                                      *)
LEMMA AttachCumotionKeeps ==
  ASSUME Inv, AttachCumotion
  PROVE  Inv'
<1>0. /\ pc = "attach_cumotion" /\ ~attachedId
      /\ UNCHANGED <<config, tries, targetSuppressed, attachedId, trackerAttached, linksDisabled, surface,
                     control, suppressed, sceneVars, sequence_success, sequence_failed, spheres, lateAttach>>
  BY DEF AttachCumotion, Goto, CleanThenFail, outcome, envVars, curoboVars, Inv, Ownership, CarryPhases
<1>1. CASE cumotionAttached' = TRUE /\ pc' = "attach_moveit" /\ todo' = todo
  <2> USE <1>0, <1>1, ConfigFacts, ConfigSame DEF Inv
  <2>1. ThreadTypeOK'
    BY DEF ThreadTypeOK, Phases
  <2>2. Route'
    BY DEF Route
  <2>3. Ownership'
    BY EnvSame, SceneSame DEF Ownership, HiddenWhileAttached, HiddenPhases
  <2>4. Releasing'
    BY EnvSame, SceneSame, CuroboSame DEF Releasing, LetGoPhases, Straight, Phases
  <2> QED BY <2>1, <2>2, <2>3, <2>4
<1>2. CASE /\ cumotionAttached' = cumotionAttached /\ pc' = "cleanup" /\ todo' = {"restore", "abort"}
  BY <1>0, <1>2, FailKeeps, CleanupStepsAre DEF Inv, ThreadTypeOK, Straight, Phases
<1> QED BY <1>1, <1>2 DEF AttachCumotion, Goto, CleanThenFail

LEMMA AttachMoveItKeeps ==
  ASSUME Inv, RemoteTypeOK, AttachMoveIt
  PROVE  Inv'
<1>0. /\ pc = "attach_moveit" /\ ~attachedId
      /\ UNCHANGED <<config, tries, targetSuppressed, cumotionAttached, trackerAttached, linksDisabled, surface,
                     control, suppressed, outcome, spheres, lateAttach, cumotionVars>>
  BY DEF AttachMoveIt, Goto, CleanThenFail, envVars, curoboVars, Inv, Ownership, CarryPhases
<1>1. CASE /\ sceneDiffs' = Append(sceneDiffs, "attach") /\ attachedId' = TRUE
           /\ pc' = (IF UsesTracker THEN "attach_curobo" ELSE "release_orientation") /\ todo' = todo
  <2>1. WillBeAttached'
    BY <1>1, DiffSent DEF RemoteTypeOK
  <2> USE <1>0, <1>1, <2>1, ConfigFacts, ConfigSame DEF Inv, outcome
  <2>2. ThreadTypeOK'
    BY DEF ThreadTypeOK, Phases
  <2>3. Route'
    BY DEF Route
  <2>4. Ownership'
    BY EnvSame DEF Ownership, HiddenWhileAttached, HiddenPhases, CarryPhases
  <2>5. Releasing'
    BY EnvSame, CuroboSame, CumotionSame DEF Releasing, LetGoPhases, Straight, Phases
  <2> QED BY <2>2, <2>3, <2>4, <2>5
<1>2. CASE UNCHANGED <<sceneDiffs, attachedId>> /\ pc' = "cleanup" /\ todo' \in SUBSET CleanupSteps
  BY <1>0, <1>2, FailKeeps DEF AttachMoveIt, sceneVars, outcome, Inv, ThreadTypeOK, Straight, Phases
<1> QED BY <1>1, <1>2, CleanupStepsAre DEF AttachMoveIt, Goto, CleanThenFail

LEMMA AttachCuroboKeeps ==
  ASSUME Inv, AttachCurobo
  PROVE  Inv'
<1>0. /\ pc = "attach_curobo" /\ linksDisabled' \in BOOLEAN
      /\ UNCHANGED <<config, tries, targetSuppressed, attachedId, cumotionAttached, surface, cumotionVars,
                     control, suppressed, sceneVars, outcome>>
  BY DEF AttachCurobo, TrackerAttach, Goto, CleanThenFail, envVars, Inv, ThreadTypeOK
<1>1. CASE trackerAttached' = TRUE /\ pc' = "release_orientation" /\ todo' = todo
  <2> USE <1>0, <1>1, ConfigFacts, ConfigSame DEF Inv, outcome
  <2>1. ThreadTypeOK'
    BY DEF ThreadTypeOK, Phases
  <2>2. Route'
    BY DEF Route
  <2>3. Ownership'
    BY EnvSame, SceneSame DEF Ownership, HiddenWhileAttached, HiddenPhases, CarryPhases
  <2>4. Releasing'
    BY EnvSame, SceneSame, CumotionSame DEF Releasing, LetGoPhases, Straight, Phases
  <2> QED BY <2>1, <2>2, <2>3, <2>4
<1>2. CASE /\ trackerAttached' = trackerAttached /\ pc' = "cleanup"
           /\ todo' = (IF config.backend = "hybrid" THEN {"detach_moveit", "restore"} ELSE {"restore"}) \cup {"abort"}
  <2>1. attachedId => config.backend = "hybrid"
    BY <1>0 DEF Inv, Route, UsesTracker, UsesScene
  <2>2. todo' \in SUBSET CleanupSteps /\ (attachedId => "detach_moveit" \in todo')
    BY <1>2, <2>1, CleanupStepsAre
  <2> QED BY <1>0, <1>2, <2>2, FailKeeps DEF outcome, Inv, ThreadTypeOK, Straight, Phases
<1> QED BY <1>1, <1>2 DEF AttachCurobo, TrackerAttach, Goto, CleanThenFail

-----------------------------------------------------------------------------
(* The phases that let it go.                                              *)
LEMMA DetachMoveItKeeps ==
  ASSUME Inv, RemoteTypeOK, DetachMoveIt
  PROVE  Inv'
<1>1. /\ pc = "detach_moveit" /\ attachedId' = FALSE /\ surface' = FALSE
      /\ pc' = (IF UsesTracker THEN "detach_curobo" ELSE "detach_cumotion")
      /\ UNCHANGED <<config, todo, tries, outcome, targetSuppressed, cumotionAttached, trackerAttached,
                     linksDisabled, control, suppressed, spheres, lateAttach, cumotionVars>>
  BY DEF DetachMoveIt, PublishDetach, Goto, envVars, curoboVars
<1>2. ~WillBeAttached'
  BY DiffSent DEF DetachMoveIt, PublishDetach, RemoteTypeOK
<1> USE <1>1, <1>2, ConfigFacts, ConfigSame DEF Inv, outcome
<1>3. ThreadTypeOK'
  BY DEF ThreadTypeOK, Phases
<1>4. Route'
  BY DEF Route
<1>5. Ownership'
  BY EnvSame DEF Ownership, HiddenWhileAttached, HiddenPhases
<1>6. Releasing'
  BY EnvSame, CuroboSame, CumotionSame DEF Releasing, LetGoPhases, Straight, Phases
<1> QED BY <1>3, <1>4, <1>5, <1>6

LEMMA DetachCumotionKeeps ==
  ASSUME Inv, DetachCumotion
  PROVE  Inv'
<1>0. /\ pc = "detach_cumotion" /\ ~attachedId /\ ~UsesTracker /\ ~surface
      /\ UNCHANGED <<config, targetSuppressed, attachedId, trackerAttached, linksDisabled, surface,
                     control, suppressed, sceneVars, spheres, lateAttach, outcome>>
  BY DEF DetachCumotion, CumotionDetach, Goto, CleanThenFail, outcome, envVars, curoboVars,
         Inv, Ownership, CarryPhases, Route, Releasing
<1>1. CASE /\ pc' = "retreat" /\ todo' = todo /\ tries' = 0 /\ cumotionAttached' = FALSE /\ FreeCumotion'
  <2> USE <1>0, <1>1, ConfigSame DEF Inv, outcome
  <2>1. ThreadTypeOK'
    BY DEF ThreadTypeOK, Phases
  <2>2. Route'
    BY DEF Route
  <2>3. Ownership'
    BY EnvSame, SceneSame DEF Ownership, HiddenWhileAttached, HiddenPhases
  <2>4. Releasing'
    BY EnvSame, SceneSame, CuroboSame DEF Releasing, LetGoPhases, Straight, Phases, Route
  <2> QED BY <2>1, <2>2, <2>3, <2>4
<1>2. CASE pc' = pc /\ todo' = todo /\ tries' = tries + 1 /\ cumotionAttached /\ cumotionAttached' = cumotionAttached
  <2> USE <1>0, <1>2, ConfigSame DEF Inv, outcome
  <2>1. ThreadTypeOK'
    BY DEF ThreadTypeOK
  <2>2. Route'
    BY DEF Route
  <2>3. Ownership'
    BY EnvSame, SceneSame DEF Ownership, HiddenWhileAttached, HiddenPhases
  <2>4. Releasing'
    BY EnvSame, SceneSame, CuroboSame DEF Releasing, LetGoPhases, Straight, Phases
  <2> QED BY <2>1, <2>2, <2>3, <2>4
<1>3. CASE pc' = "cleanup" /\ todo' = {"restore", "abort"} /\ tries' = 0 /\ cumotionAttached' = cumotionAttached
  BY <1>0, <1>3, FailKeeps, CleanupStepsAre DEF outcome, Inv, ThreadTypeOK, Straight, Phases
<1>4. (cumotionAttached => cumotionAttached = TRUE) /\ (~cumotionAttached => cumotionAttached = FALSE)
  BY DEF Inv, ThreadTypeOK
<1>5. CASE ~cumotionAttached
  BY <1>0, <1>1, <1>4, <1>5, CumotionSame DEF DetachCumotion, CumotionDetach, Goto, Inv, Releasing, Straight, Phases
<1>6. CASE cumotionAttached
  <2>1. PICK out \in Outcomes :
          /\ CumotionGoal(out, FALSE)
          /\ \/ out = "ok" /\ cumotionAttached' = FALSE /\ Goto("retreat") /\ tries' = 0
             \/ /\ out # "ok" /\ UNCHANGED cumotionAttached
                /\ \/ tries + 1 < 2 /\ tries' = tries + 1 /\ Goto(pc)
                   \/ tries + 1 = 2 /\ tries' = 0 /\ CleanThenFail({"restore"})
    BY <1>6 DEF DetachCumotion, CumotionDetach
  <2> QED BY <1>1, <1>2, <1>3, <1>6, <2>1, CumotionAnswered DEF Goto, CleanThenFail
<1> QED BY <1>5, <1>6

LEMMA DetachCuroboKeeps ==
  ASSUME Inv, DetachCurobo
  PROVE  Inv'
<1>0. /\ pc = "detach_curobo" /\ ~attachedId /\ ~cumotionAttached /\ ~surface
      /\ linksDisabled' \in BOOLEAN
      /\ UNCHANGED <<config, tries, targetSuppressed, attachedId, cumotionAttached, surface,
                     control, suppressed, sceneVars, cumotionVars, outcome>>
  <2>1. linksDisabled' \in BOOLEAN
    BY DEF DetachCurobo, TrackerDetach, Inv, ThreadTypeOK
  <2>2. pc = "detach_curobo" /\ ~attachedId /\ ~surface /\ ~cumotionAttached
    BY ConfigFacts DEF DetachCurobo, Inv, Ownership, CarryPhases, Route, Releasing
  <2> QED BY <2>1, <2>2 DEF DetachCurobo, TrackerDetach, Goto, CleanThenFail, outcome, envVars
<1>1. CASE pc' = "retreat" /\ todo' = todo /\ trackerAttached' = FALSE /\ FreeCurobo'
  <2> USE <1>0, <1>1, ConfigSame DEF Inv, outcome
  <2>1. ThreadTypeOK'
    BY DEF ThreadTypeOK, Phases
  <2>2. Route'
    BY DEF Route
  <2>3. Ownership'
    BY EnvSame, SceneSame DEF Ownership, HiddenWhileAttached, HiddenPhases
  <2>4. Releasing'
    BY EnvSame, SceneSame, CumotionSame DEF Releasing, LetGoPhases, Straight, Phases
  <2> QED BY <2>1, <2>2, <2>3, <2>4
<1>2. CASE pc' = "cleanup" /\ todo' = {"restore", "abort"} /\ trackerAttached' = trackerAttached
  BY <1>0, <1>2, FailKeeps, CleanupStepsAre DEF outcome, Inv, ThreadTypeOK, Straight, Phases
<1>3. trackerAttached \in BOOLEAN
  BY DEF Inv, ThreadTypeOK
<1>4. CASE ~trackerAttached
  BY <1>0, <1>1, <1>3, <1>4, CuroboSame
     DEF DetachCurobo, TrackerDetach, Goto, curoboVars, Inv, Releasing, Straight, Phases
<1>5. CASE trackerAttached /\ CleanThenFail({"restore"}) /\ UNCHANGED trackerAttached
  BY <1>2, <1>5 DEF CleanThenFail
<1>6. ASSUME NEW a \in Outcomes, AttachRequest(a, FALSE), trackerAttached, trackerAttached' = (a # "ok"),
             IF a = "ok" THEN Goto("retreat") ELSE CleanThenFail({"restore"})
      PROVE  Inv'
  BY <1>1, <1>2, <1>3, <1>6, AttachAnswered DEF Goto, CleanThenFail
<1> QED BY <1>4, <1>5, <1>6 DEF DetachCurobo, TrackerDetach

LEMMA HomeKeeps ==
  ASSUME Inv, Home
  PROVE  Inv'
<1>0. /\ pc = "home" /\ ~attachedId
      /\ UNCHANGED <<config, tries, flagVars, surface, remoteVars>>
  BY DEF Home, FailThenClean, Inv, Ownership, CarryPhases
<1>1. CASE sequence_success' = TRUE /\ pc' = "finally" /\ UNCHANGED <<todo, sequence_failed>>
  <2> USE <1>0, <1>1, ConfigSame, RemoteSame DEF Inv, flagVars
  <2>1. ThreadTypeOK'
    BY DEF ThreadTypeOK, Phases
  <2>2. Route'
    BY DEF Route
  <2>3. Ownership'
    BY DEF Ownership, HiddenWhileAttached, HiddenPhases
  <2>4. Releasing'
    BY DEF Releasing, LetGoPhases, Straight, Phases, Ownership
  <2> QED BY <2>1, <2>2, <2>3, <2>4
<1>2. CASE FailThenClean(DetachDynamic)
  <2>1. DetachDynamic \in SUBSET CleanupSteps /\ UNCHANGED <<control, suppressed, sceneVars>>
    BY <1>0, CleanupStepsAre DEF DetachDynamic, remoteVars, envVars
  <2> QED BY <1>0, <1>2, <2>1, FailKeeps DEF FailThenClean, flagVars, Inv, ThreadTypeOK, Straight, Phases
<1> QED BY <1>1, <1>2 DEF Home

-----------------------------------------------------------------------------
(* The cleanup.                                                            *)
CleanupPcs == {"cleanup", "verify_restore", "finally"}

\* No step of the cleanup makes the thread believe more than it did.
LEMMA CleanupKeeps ==
  ASSUME Inv, pc \in {"cleanup", "verify_restore"}, pc' \in CleanupPcs, config' = config,
         todo' \in SUBSET CleanupSteps, tries' \in Nat, sequence_success' = sequence_success,
         sequence_failed' \in BOOLEAN, targetSuppressed' \in BOOLEAN, linksDisabled' \in BOOLEAN,
         surface' \in BOOLEAN, trackerAttached' \in BOOLEAN, cumotionAttached' \in BOOLEAN,
         attachedId' \in BOOLEAN,
         trackerAttached' => trackerAttached, cumotionAttached' => cumotionAttached,
         attachedId' => attachedId, attachedId' <=> WillBeAttached',
         attachedId' => WillBeSuppressed' /\ pc' = "cleanup" /\ "detach_moveit" \in todo'
  PROVE  Inv'
<1> USE ConfigSame DEF Inv, CleanupPcs
<1>1. ThreadTypeOK'
  BY DEF ThreadTypeOK, Phases
<1>2. Route'
  BY DEF Route
<1>3. Ownership'
  BY DEF Ownership, HiddenWhileAttached, HiddenPhases, CarryPhases
<1>4. Releasing'
  BY DEF Releasing, LetGoPhases, Straight, Phases
<1> QED BY <1>1, <1>2, <1>3, <1>4

Cleanup ==
  \/ CleanupDetachCurobo \/ CleanupDetachCumotion \/ CleanupDetachMoveIt
  \/ CleanupRestore \/ VerifyRestore \/ CleanupAbort \/ CleanupFinished

LEMMA CleanupStepKeeps ==
  ASSUME Inv, RemoteTypeOK, Cleanup
  PROVE  Inv'
<1>0. /\ ThreadTypeOK
      /\ attachedId <=> WillBeAttached
      /\ attachedId => WillBeSuppressed
      /\ pc = "cleanup" /\ attachedId => "detach_moveit" \in todo
      /\ pc = "verify_restore" => ~attachedId
  BY DEF Inv, Ownership, HiddenWhileAttached, CarryPhases
<1> USE <1>0 DEF ThreadTypeOK, CleanedUp, outcome, CleanupPcs
<1>1. CASE CleanupDetachCurobo
  <2>1. /\ trackerAttached' \in BOOLEAN /\ linksDisabled' \in BOOLEAN
        /\ trackerAttached' => trackerAttached
    <3>1. CASE UNCHANGED <<trackerAttached, linksDisabled>>
      BY <3>1
    <3>2. CASE trackerAttached /\ linksDisabled' = FALSE /\ trackerAttached' \in BOOLEAN
      BY <3>2
    <3> QED BY <1>1, <3>1, <3>2 DEF CleanupDetachCurobo, TrackerDetach
  <2>2. UNCHANGED <<control, suppressed, sceneVars>>
    BY <1>1 DEF CleanupDetachCurobo, envVars
  <2> QED BY <1>1, <2>1, <2>2, EnvSame, SceneSame, CleanupKeeps DEF CleanupDetachCurobo, NextCleanup
<1>2. CASE CleanupDetachCumotion
  <2>1. /\ cumotionAttached' \in BOOLEAN /\ tries' \in Nat
        /\ cumotionAttached' => cumotionAttached
    <3>1. cumotionAttached' \in {FALSE, cumotionAttached} /\ tries' \in {0, tries + 1}
      BY <1>2 DEF CleanupDetachCumotion, CumotionDetach, Goto
    <3>2. tries' \in Nat
      BY <3>1
    <3>3. cumotionAttached' = FALSE \/ cumotionAttached' = cumotionAttached
      BY <3>1, Zenon
    <3>4. cumotionAttached' \in BOOLEAN
      BY <3>3
    <3>5. cumotionAttached' => cumotionAttached
      BY <3>3, Zenon
    <3> QED BY <3>2, <3>4, <3>5
  <2>2. UNCHANGED <<control, suppressed, sceneVars>>
    BY <1>2 DEF CleanupDetachCumotion, envVars
  <2>3. /\ pc = "cleanup" /\ pc' = pc /\ todo' = todo \ {"detach_cumotion"}
        /\ UNCHANGED <<config, sequence_success, sequence_failed, targetSuppressed, attachedId,
                       trackerAttached, linksDisabled, surface>>
    BY <1>2, Zenon DEF CleanupDetachCumotion, NextCleanup
  <2> QED BY <2>1, <2>2, <2>3, EnvSame, SceneSame, CleanupKeeps
<1>3. CASE CleanupDetachMoveIt
  <2>1. /\ pc = "cleanup" /\ pc' = pc /\ todo' = todo \ {"detach_moveit"}
        /\ UNCHANGED <<config, sequence_success, sequence_failed, tries, targetSuppressed, cumotionAttached,
                       trackerAttached, linksDisabled, surface, control, suppressed, sceneAttached>>
    BY <1>3 DEF CleanupDetachMoveIt, NextCleanup, envVars
  <2>2. attachedId' = FALSE /\ ~WillBeAttached'
    <3>1. CASE attachedId
      BY <1>3, <3>1, DiffSent DEF CleanupDetachMoveIt, PublishDetach, RemoteTypeOK
    <3>2. CASE ~attachedId
      BY <1>3, <2>1, <3>2, SceneSame DEF CleanupDetachMoveIt, sceneVars
    <3> QED BY <3>1, <3>2
  <2> QED BY <2>1, <2>2, CleanupKeeps
<1>4. CASE CleanupRestore
  <2>1. /\ pc = "cleanup" /\ "detach_moveit" \notin todo
        /\ pc' \in CleanupPcs /\ todo' \in SUBSET CleanupSteps
        /\ UNCHANGED <<config, outcome, tries, flagVars, surface, sceneVars>>
    <3>1. 3 \in 1 .. 5 /\ 4 \in 1 .. 5 /\ 3 < 4
      OBVIOUS
    <3>2. CleanupOrder[4] = "restore" /\ CleanupOrder[3] = "detach_moveit"
      BY DEF CleanupOrder
    <3> QED BY <1>4, <3>1, <3>2 DEF CleanupRestore, NextCleanup
  <2> QED BY <2>1, SceneSame, CleanupKeeps DEF flagVars
<1>5. CASE VerifyRestore
  <2>1. /\ pc = "verify_restore" /\ pc' = "cleanup" /\ todo' = todo \ {"restore"}
        /\ targetSuppressed' \in BOOLEAN
        /\ UNCHANGED <<config, outcome, tries, attachedId, cumotionAttached, trackerAttached,
                       linksDisabled, surface, sceneVars>>
    BY <1>5 DEF VerifyRestore, remoteVars
  <2> QED BY <2>1, SceneSame, CleanupKeeps
<1>6. CASE CleanupAbort
  <2>1. UNCHANGED <<control, suppressed, sceneVars>>
    BY <1>6 DEF CleanupAbort, remoteVars, envVars
  <2> QED BY <1>6, <2>1, EnvSame, SceneSame, CleanupKeeps DEF CleanupAbort, NextCleanup, flagVars
<1>7. CASE CleanupFinished
  <2>1. UNCHANGED sceneVars
    BY <1>7 DEF CleanupFinished, remoteVars
  <2> QED BY <1>7, <2>1, SceneSame, CleanupKeeps DEF CleanupFinished, Goto, flagVars
<1> QED BY <1>1, <1>2, <1>3, <1>4, <1>5, <1>6, <1>7 DEF Cleanup

LEMMA FinallyKeeps ==
  ASSUME Inv, Finally
  PROVE  Inv'
<1> USE RemoteSame, ConfigSame DEF Inv, Finally, Goto, outcome, flagVars
<1>1. ThreadTypeOK'
  BY DEF ThreadTypeOK, Phases
<1>2. Route'
  BY DEF Route
<1>3. Ownership'
  BY DEF Ownership, HiddenWhileAttached, HiddenPhases, CarryPhases
<1>4. Releasing'
  BY DEF Releasing, LetGoPhases, Straight, Phases
<1> QED BY <1>1, <1>2, <1>3, <1>4

-----------------------------------------------------------------------------
(* The other processes, which only handle what they were sent.             *)
LEMMA CommandHandled ==
  ASSUME Env!TypeOK, Env!OnControlCommand
  PROVE  WillBeSuppressed' <=> WillBeSuppressed
<1>1. /\ control \in Seq(Env!Commands) /\ control # <<>> /\ control' = Tail(control)
      /\ suppressed \in SUBSET {Target} /\ Head(control) \in Env!Commands
  BY DEF Env!TypeOK, Env!OnControlCommand
<1>2. CASE control' # <<>>
  <2>1. Len(control') = Len(control) - 1 /\ Len(control) - 1 \in 1 .. Len(Tail(control))
    BY <1>1, <1>2
  <2>2. control'[Len(control')] = control[Len(control)]
    BY <1>1, <2>1
  <2> QED BY <1>1, <1>2, <2>2 DEF WillBeSuppressed
<1>3. CASE control' = <<>>
  <2>1. Len(control) = 1 /\ control[Len(control)] = Head(control)
    <3>1. Len(Tail(control)) = Len(control) - 1
      BY <1>1, HeadTailProperties
    <3>2. Tail(control) = <<>>
      BY <1>1, <1>3
    <3>3. Len(Tail(control)) = 0
      BY <3>2, EmptySeq, Zenon
    <3>4. Len(control) \in Nat
      BY <1>1
    <3> QED BY <1>1, <3>1, <3>3, <3>4
  <2>2. (suppressed' = {Target}) <=> Head(control).op = "suppress"
    <3>1. CASE Head(control).op = "suppress" /\ Head(control).id = Target
      BY <1>1, <3>1 DEF Env!OnControlCommand, Env!OnSuppress, Env!Forget, Env!pubVars
    <3>2. CASE Head(control).op \in {"unsuppress", "clear"} /\ (Head(control).op = "unsuppress" => Head(control).id = Target)
      <4>1. suppressed' = suppressed \ {Target}
        BY <3>2 DEF Env!OnControlCommand, Env!OnUnsuppress
      <4> QED BY <3>2, <4>1
    <3> QED BY <1>1, <3>1, <3>2 DEF Env!Commands
  <2> QED BY <1>1, <1>3, <2>1, <2>2 DEF WillBeSuppressed
<1> QED BY <1>2, <1>3

LEMMA DiffHandled ==
  ASSUME RemoteTypeOK, ApplySceneDiff
  PROVE  WillBeAttached' <=> WillBeAttached
<1>1. /\ sceneDiffs \in Seq({"attach", "detach"}) /\ sceneDiffs # <<>> /\ sceneDiffs' = Tail(sceneDiffs)
      /\ sceneAttached' <=> Head(sceneDiffs) = "attach"
  BY DEF RemoteTypeOK, ApplySceneDiff
<1>2. CASE sceneDiffs' # <<>>
  <2>1. Len(sceneDiffs') = Len(sceneDiffs) - 1 /\ Len(sceneDiffs) - 1 \in 1 .. Len(Tail(sceneDiffs))
    BY <1>1, <1>2
  <2>2. sceneDiffs'[Len(sceneDiffs')] = sceneDiffs[Len(sceneDiffs)]
    BY <1>1, <2>1
  <2> QED BY <1>1, <1>2, <2>2 DEF WillBeAttached
<1>3. CASE sceneDiffs' = <<>>
  <2>1. Len(sceneDiffs) = 1 /\ sceneDiffs[Len(sceneDiffs)] = Head(sceneDiffs)
    <3>1. Len(Tail(sceneDiffs)) = Len(sceneDiffs) - 1
      BY <1>1, HeadTailProperties
    <3>2. Tail(sceneDiffs) = <<>>
      BY <1>1, <1>3
    <3>3. Len(Tail(sceneDiffs)) = 0
      BY <3>2
    <3>4. Len(sceneDiffs) \in Nat
      BY <1>1
    <3> QED BY <1>1, <3>1, <3>3, <3>4
  <2> QED BY <1>1, <1>3, <2>1 DEF WillBeAttached
<1> QED BY <1>2, <1>3

LEMMA HeadAndTail ==
  ASSUME NEW s \in Seq(BOOLEAN), s # <<>>, \A i \in DOMAIN s : ~s[i]
  PROVE  ~Head(s) /\ \A i \in DOMAIN Tail(s) : ~Tail(s)[i]
<1>1. Len(s) \in Nat \ {0} /\ DOMAIN s = 1 .. Len(s) /\ Head(s) = s[1]
  BY EmptySeq
<1>2. DOMAIN Tail(s) = 1 .. Len(s) - 1 /\ \A i \in 1 .. Len(s) - 1 : Tail(s)[i] = s[i + 1]
  BY HeadTailProperties
<1>3. ~Head(s)
  <2>1. ~s[1]
    BY <1>1
  <2> QED BY <1>1, <2>1, Zenon
<1>4. ASSUME NEW i \in 1 .. Len(s) - 1
      PROVE  ~Tail(s)[i]
  <2>1. i + 1 \in 1 .. Len(s)
    BY <1>1
  <2> QED BY <1>1, <1>2, <2>1
<1> QED BY <1>2, <1>3, <1>4

LEMMA OthersKeep ==
  ASSUME Inv, RemoteTypeOK, Others
  PROVE  Inv'
<1>0. UNCHANGED threadVars
  BY DEF Others, EnvironmentCommand, EnvironmentTick, ApplyEnvironmentDiff, ApplySceneDiff,
         BridgeCommand, BridgeReconcile, ServeLateAttach, ServeLateLinks, ServeLateCumotion
<1>1. WillBeSuppressed' <=> WillBeSuppressed
  <2>1. CASE EnvironmentCommand
    BY <2>1, CommandHandled DEF EnvironmentCommand, RemoteTypeOK
  <2>2. CASE UNCHANGED <<control, suppressed>>
    BY <2>2, EnvSame
  <2> QED BY <2>1, <2>2 DEF Others, EnvironmentTick, ApplyEnvironmentDiff, ApplySceneDiff,
         BridgeCommand, BridgeReconcile, ServeLateAttach, ServeLateLinks, ServeLateCumotion,
         Env!PublishPoses, Env!ApplyDiff, Env!pubVars, envVars
<1>2. WillBeAttached' <=> WillBeAttached
  BY DiffHandled, SceneSame
     DEF Others, EnvironmentCommand, EnvironmentTick, ApplyEnvironmentDiff,
         BridgeCommand, BridgeReconcile, ServeLateAttach, ServeLateLinks, ServeLateCumotion
<1>3. FreeCurobo => FreeCurobo'
  <2>1. CASE ServeLateAttach
    BY <2>1, HeadAndTail DEF ServeLateAttach, FreeCurobo, RemoteTypeOK
  <2>2. CASE UNCHANGED <<spheres, lateAttach>>
    BY <2>2, CuroboSame
  <2> QED BY <2>1, <2>2 DEF Others, EnvironmentCommand, EnvironmentTick, ApplyEnvironmentDiff, ApplySceneDiff,
         BridgeCommand, BridgeReconcile, ServeLateLinks, ServeLateCumotion, curoboVars
<1>4. FreeCumotion => FreeCumotion'
  <2>1. CASE ServeLateCumotion
    BY <2>1, HeadAndTail DEF ServeLateCumotion, FreeCumotion, RemoteTypeOK
  <2>2. CASE UNCHANGED cumotionVars
    BY <2>2, CumotionSame
  <2> QED BY <2>1, <2>2 DEF Others, EnvironmentCommand, EnvironmentTick, ApplyEnvironmentDiff, ApplySceneDiff,
         BridgeCommand, BridgeReconcile, ServeLateAttach, ServeLateLinks
<1> USE <1>0, <1>1, <1>2, <1>3, <1>4, ConfigSame DEF Inv, threadVars, outcome, flagVars
<1>5. ThreadTypeOK'
  BY DEF ThreadTypeOK
<1>6. Route'
  BY DEF Route
<1>7. Ownership'
  BY DEF Ownership, HiddenWhileAttached
<1>8. Releasing'
  BY DEF Releasing
<1> QED BY <1>5, <1>6, <1>7, <1>8

-----------------------------------------------------------------------------
(* The types of what the thread works on, part by part.                    *)
SceneTyped == sceneDiffs \in Seq({"attach", "detach"}) /\ sceneAttached \in BOOLEAN
BridgeTyped == bridgeControl \in Seq(Ops) /\ bridgeSuppressed \in BOOLEAN /\ obstacle \in BOOLEAN
CuroboTyped ==
  /\ spheres \in BOOLEAN /\ links \in BOOLEAN
  /\ lateAttach \in Seq(BOOLEAN) /\ lateLinks \in Seq(BOOLEAN)
CumotionTyped == cumotionSpheres \in BOOLEAN /\ lateCumotion \in Seq(BOOLEAN)

LEMMA StateParts ==
  /\ RemoteTypeOK <=> Env!TypeOK /\ SceneTyped /\ BridgeTyped /\ CuroboTyped /\ CumotionTyped
  /\ RemoteTypeOK' <=> Env!TypeOK' /\ SceneTyped' /\ BridgeTyped' /\ CuroboTyped' /\ CumotionTyped'
BY DEF RemoteTypeOK, SceneTyped, BridgeTyped, CuroboTyped, CumotionTyped

LEMMA SameTyped ==
  ASSUME RemoteTypeOK
  PROVE  /\ UNCHANGED envVars => Env!TypeOK'
         /\ UNCHANGED sceneVars => SceneTyped'
         /\ UNCHANGED bridgeVars => BridgeTyped'
         /\ UNCHANGED curoboVars => CuroboTyped'
         /\ UNCHANGED cumotionVars => CumotionTyped'
BY StateParts DEF Env!TypeOK, SceneTyped, BridgeTyped, CuroboTyped, CumotionTyped,
             envVars, sceneVars, bridgeVars, curoboVars, cumotionVars

LEMMA CommandTyped ==
  ASSUME RemoteTypeOK, NEW op \in Ops, PublishControl(op)
  PROVE  Env!TypeOK' /\ BridgeTyped'
<1>1. [op |-> op, id |-> Target] \in Env!Commands
  BY DEF Env!Commands, Ops
<1>2. control' \in Seq(Env!Commands)
  BY <1>1, AppendProperties DEF PublishControl, RemoteTypeOK, Env!TypeOK
<1>3. bridgeControl' \in Seq(Ops)
  BY AppendProperties DEF PublishControl, RemoteTypeOK
<1>4. Env!TypeOK'
  BY <1>2 DEF PublishControl, RemoteTypeOK, Env!TypeOK
<1> QED BY <1>3, <1>4 DEF PublishControl, RemoteTypeOK, BridgeTyped

LEMMA GoalTyped ==
  ASSUME RemoteTypeOK, NEW out \in Outcomes, NEW attach \in BOOLEAN, CumotionGoal(out, attach)
  PROVE  CumotionTyped'
BY RequestTyped DEF CumotionGoal, RemoteTypeOK, CumotionTyped

LEMMA TrackerTyped ==
  ASSUME RemoteTypeOK, NEW l \in Outcomes, NEW a \in Outcomes, NEW wanted \in BOOLEAN,
         LinkRequest(l, ~wanted) \/ UNCHANGED <<links, lateLinks>>, AttachRequest(a, wanted)
  PROVE  CuroboTyped'
<1>1. spheres' \in BOOLEAN /\ lateAttach' \in Seq(BOOLEAN)
  BY RequestTyped DEF AttachRequest, RemoteTypeOK
<1>2. links' \in BOOLEAN /\ lateLinks' \in Seq(BOOLEAN)
  <2>1. (~wanted) \in BOOLEAN
    OBVIOUS
  <2>2. CASE LinkRequest(l, ~wanted)
    BY <2>1, <2>2, RequestTyped DEF LinkRequest, RemoteTypeOK
  <2>3. CASE UNCHANGED <<links, lateLinks>>
    BY <2>3 DEF RemoteTypeOK
  <2> QED BY <2>2, <2>3
<1> QED BY <1>1, <1>2 DEF CuroboTyped

LEMMA ServedTyped ==
  ASSUME NEW late \in Seq(BOOLEAN), late # <<>>
  PROVE  Head(late) \in BOOLEAN /\ Tail(late) \in Seq(BOOLEAN)
BY HeadTailProperties

LEMMA ThreadRemoteTyped ==
  ASSUME RemoteTypeOK, Thread
  PROVE  RemoteTypeOK'
<1> USE SameTyped, StateParts
<1>1. CASE Walk \/ Home \/ VerifyRestore \/ CleanupAbort \/ CleanupFinished \/ Finally
  <2>1. UNCHANGED remoteVars
    BY <1>1 DEF Walk, Connect, Lookup, OpenGripper, PreGrasp, Grasp, SnapshotGeometry, Resnapshot, Snapshot,
         VerifySuppress, CloseGripper, AttachInIsaac, PostGraspLift, ReleaseOrientation, PreDrop, Release,
         OpenGripperAtRelease, SurfaceOff, Retreat, VerifyUnsuppress, Attempt, Retrying,
         Home, VerifyRestore, CleanupAbort, CleanupFinished, Finally
  <2> QED BY <2>1 DEF remoteVars
<1>2. CASE Recover \/ Suppress \/ Unsuppress \/ CleanupRestore
  <2>1. /\ UNCHANGED <<sceneVars, curoboVars, cumotionVars>>
        /\ \/ \E op \in Ops : PublishControl(op)
           \/ UNCHANGED <<envVars, bridgeVars>>
    BY <1>2 DEF Recover, Suppress, Unsuppress, CleanupRestore, Ops
  <2> QED BY <2>1, CommandTyped
<1>3. CASE AttachCumotion \/ DetachCumotion \/ CleanupDetachCumotion
  <2>1. /\ UNCHANGED <<envVars, sceneVars, bridgeVars, curoboVars>>
        /\ \/ \E out \in Outcomes, attach \in BOOLEAN : CumotionGoal(out, attach)
           \/ UNCHANGED cumotionVars
    BY <1>3 DEF AttachCumotion, DetachCumotion, CleanupDetachCumotion, CumotionDetach
  <2> QED BY <2>1, GoalTyped
<1>4. CASE AttachMoveIt \/ DetachMoveIt \/ CleanupDetachMoveIt
  <2>1. /\ UNCHANGED <<sceneAttached, envVars, bridgeVars, curoboVars, cumotionVars>>
        /\ (\E d \in {"attach", "detach"} : sceneDiffs' = Append(sceneDiffs, d)) \/ UNCHANGED sceneDiffs
    BY <1>4 DEF AttachMoveIt, DetachMoveIt, CleanupDetachMoveIt, PublishDetach
  <2>2. sceneDiffs' \in Seq({"attach", "detach"})
    <3>1. sceneDiffs \in Seq({"attach", "detach"})
      BY DEF RemoteTypeOK
    <3>2. ASSUME NEW d \in {"attach", "detach"}, sceneDiffs' = Append(sceneDiffs, d)
          PROVE  sceneDiffs' \in Seq({"attach", "detach"})
      BY <3>1, <3>2, AppendProperties
    <3> QED BY <2>1, <3>1, <3>2
  <2> QED BY <2>1, <2>2 DEF SceneTyped
<1>5. CASE AttachCurobo \/ DetachCurobo \/ CleanupDetachCurobo
  <2>1. UNCHANGED <<envVars, sceneVars, bridgeVars, cumotionVars>>
    BY <1>5 DEF AttachCurobo, DetachCurobo, CleanupDetachCurobo
  <2>2. \/ UNCHANGED curoboVars
        \/ \E l \in Outcomes, a \in Outcomes, wanted \in BOOLEAN :
             /\ LinkRequest(l, ~wanted) \/ UNCHANGED <<links, lateLinks>>
             /\ AttachRequest(a, wanted)
    BY <1>5 DEF AttachCurobo, DetachCurobo, CleanupDetachCurobo, TrackerAttach, TrackerDetach
  <2> QED BY <2>1, <2>2, TrackerTyped
<1> QED BY <1>1, <1>2, <1>3, <1>4, <1>5 DEF Thread, Walk

LEMMA OthersRemoteTyped ==
  ASSUME RemoteTypeOK, Others
  PROVE  RemoteTypeOK'
<1> USE SameTyped, StateParts
<1>1. CASE EnvironmentCommand \/ EnvironmentTick \/ ApplyEnvironmentDiff
  <2>1. Env!Next
    BY <1>1 DEF EnvironmentCommand, EnvironmentTick, ApplyEnvironmentDiff, Env!Next, Env!Publisher
  <2> QED BY <1>1, <2>1, EnvironmentTyped DEF EnvironmentCommand, EnvironmentTick, ApplyEnvironmentDiff
<1>2. CASE ApplySceneDiff
  <2>1. /\ UNCHANGED <<pose, control, suppressed, published, sent, topic, restarts, lost,
                       bridgeVars, curoboVars, cumotionVars>>
        /\ sceneDiffs' = Tail(sceneDiffs) /\ sceneDiffs # <<>> /\ sceneAttached' \in BOOLEAN
    BY <1>2 DEF ApplySceneDiff
  <2>2. world' \in [{Target} -> {Pose} \cup {Absent}]
    <3>1. pose[Target] \in {Pose} /\ world \in [{Target} -> {Pose} \cup {Absent}]
      BY DEF RemoteTypeOK, Env!TypeOK
    <3> QED BY <1>2, <3>1 DEF ApplySceneDiff
  <2>3. Env!TypeOK'
    BY <2>1, <2>2 DEF RemoteTypeOK, Env!TypeOK
  <2>4. SceneTyped'
    BY <2>1, HeadTailProperties DEF RemoteTypeOK, SceneTyped
  <2> QED BY <2>1, <2>3, <2>4
<1>3. CASE BridgeCommand \/ BridgeReconcile
  <2>1. BridgeTyped'
    BY <1>3, HeadTailProperties DEF BridgeCommand, BridgeReconcile, RemoteTypeOK, BridgeTyped
  <2> QED BY <1>3, <2>1 DEF BridgeCommand, BridgeReconcile
<1>4. CASE ServeLateAttach \/ ServeLateLinks
  <2>1. CuroboTyped'
    BY <1>4, ServedTyped DEF ServeLateAttach, ServeLateLinks, RemoteTypeOK, CuroboTyped
  <2> QED BY <1>4, <2>1 DEF ServeLateAttach, ServeLateLinks
<1>5. CASE ServeLateCumotion
  <2>1. CumotionTyped'
    BY <1>5, ServedTyped DEF ServeLateCumotion, RemoteTypeOK, CumotionTyped
  <2> QED BY <1>5, <2>1 DEF ServeLateCumotion
<1> QED BY <1>1, <1>2, <1>3, <1>4, <1>5 DEF Others

-----------------------------------------------------------------------------
LEMMA Starts ==
  ASSUME Init
  PROVE  Inv /\ RemoteTypeOK
<1> USE DEF Init
<1>1. ThreadTypeOK
  BY DEF ThreadTypeOK, Phases
<1>2. Route
  BY DEF Route
<1>3. Ownership
  BY DEF Ownership, HiddenWhileAttached, WillBeAttached, HiddenPhases
<1>4. Releasing
  BY DEF Releasing, LetGoPhases, FreeCurobo, FreeCumotion
<1>5. Env!TypeOK
  BY DEF Env!TypeOK
<1>6. RemoteTypeOK
  <2>1. bridgeSuppressed \in BOOLEAN /\ obstacle \in BOOLEAN
    OBVIOUS
  <2>2. <<>> \in Seq({"attach", "detach"}) /\ <<>> \in Seq(Ops) /\ <<>> \in Seq(BOOLEAN)
    BY EmptySeq
  <2> QED BY <1>5, <2>1, <2>2 DEF RemoteTypeOK
<1> QED BY <1>1, <1>2, <1>3, <1>4, <1>6 DEF Inv

LEMMA Steps ==
  ASSUME Inv, RemoteTypeOK, [Next]_vars
  PROVE  Inv' /\ RemoteTypeOK'
<1>1. CASE UNCHANGED vars
  <2>1. UNCHANGED <<threadVars, remoteVars>>
    BY <1>1 DEF vars, threadVars, outcome
  <2>2. RemoteTypeOK'
    BY <2>1, SameTyped, StateParts DEF remoteVars
  <2> USE <2>1, RemoteSame, ConfigSame DEF Inv, threadVars, outcome, flagVars
  <2>3. ThreadTypeOK'
    BY DEF ThreadTypeOK
  <2>4. Route'
    BY DEF Route
  <2>5. Ownership'
    BY DEF Ownership, HiddenWhileAttached
  <2>6. Releasing'
    BY DEF Releasing
  <2> QED BY <2>2, <2>3, <2>4, <2>5, <2>6
<1>2. CASE Thread
  BY <1>2, ThreadRemoteTyped, WalkKeeps, CommandKeeps, AttachCumotionKeeps, AttachMoveItKeeps,
     AttachCuroboKeeps, DetachMoveItKeeps, DetachCumotionKeeps, DetachCuroboKeeps, HomeKeeps,
     CleanupStepKeeps, FinallyKeeps
     DEF Thread, Walk, Cleanup
<1>3. CASE Others
  BY <1>3, OthersRemoteTyped, OthersKeep
<1> QED BY <1>1, <1>2, <1>3 DEF Next

(* Every variable keeps its type, through every abort path of the sequence *)
(* and every late answer of a server.                                      *)
THEOREM TypeCorrect == Spec => []TypeOK
<1>1. Inv /\ RemoteTypeOK => TypeOK
  BY DEF Inv, TypeOK
<1> QED BY <1>1, Starts, Steps, PTL DEF Spec

(* _attached_object_id is right about the planning scene up to the diffs   *)
(* in flight, the publisher has been told to withhold what is attached,    *)
(* and no path of the sequence ends with the target attached: every        *)
(* cleanup that could start with it attached detaches it.                  *)
THEOREM SceneOwned == Spec => []SceneOwnership
<1>1. ASSUME Inv, RemoteTypeOK
      PROVE  SceneOwnership
  <2>1. attachedId \in BOOLEAN /\ WillBeAttached \in BOOLEAN
    BY <1>1 DEF Inv, ThreadTypeOK, RemoteTypeOK, WillBeAttached
  <2>2. attachedId <=> WillBeAttached
    BY <1>1 DEF Inv, Ownership
  <2>3. AttachmentTracked
    BY <2>1, <2>2, Zenon DEF AttachmentTracked
  <2> QED BY <1>1, <2>3 DEF Inv, Ownership, SceneOwnership, DetachedAtTheEnd, CarryPhases
<1> QED BY <1>1, Starts, Steps, PTL DEF Spec

(* A sequence that reports success has let go of the target everywhere, in *)
(* the servers that took its requests and in the requests still served     *)
(* after their client gave up.                                             *)
THEOREM SuccessReleases == Spec => []SuccessMeansReleased
<1>1. Inv => SuccessMeansReleased
  BY DEF Inv, Releasing, SuccessMeansReleased, FreeCurobo, FreeCumotion
<1> QED BY <1>1, Starts, Steps, PTL DEF Spec

-----------------------------------------------------------------------------
(* What is carried is not an obstacle too. The publisher and the bridge    *)
(* have handled the command to withhold the target when its absence is     *)
(* verified: while it is there its removal is still on the way, and        *)
(* nothing sent before the removal can show it again.                      *)
\* The phases before the suppression, after its verification, and with the target on the arm.
Before == {"connect", "lookup", "open_gripper", "pre_grasp", "grasp", "snapshot", "recover", "resnapshot"}
Grasped == {"close_gripper", "attach_in_isaac", "post_grasp_lift", "attach_cumotion", "attach_moveit"}
Carrying == {"attach_curobo", "release_orientation", "pre_drop", "release"}

\* A diff of the topic shows the target, or takes it out.
Shows(diff) == \A u \in diff : u.op # "remove" /\ u.pose # Absent
Removes(diff) == diff = {Env!Update("remove", Target, Absent)}

\* Nothing asks for the target to be withheld: when it is, that is long done.
Unasked ==
  /\ \A i \in DOMAIN control : control[i].op = "unsuppress"
  /\ \A i \in DOMAIN topic : Shows(topic[i])
  /\ suppressed # {} => world[Target] = Absent /\ topic = <<>>
\* The command to withhold the target has not been handled, and the target is there.
Asked ==
  /\ control # <<>> /\ control[Len(control)].op = "suppress"
  /\ \A i \in DOMAIN control : i # Len(control) => control[i].op = "unsuppress"
  /\ \A i \in DOMAIN topic : Shows(topic[i])
  /\ suppressed = {} /\ world[Target] # Absent
\* It has been handled: the target is there as long as its removal is on the way, and no longer.
Withheld ==
  /\ control = <<>> /\ suppressed = {Target}
  /\ topic = <<>> => world[Target] = Absent
  /\ topic # <<>> => /\ world[Target] # Absent
                     /\ Removes(topic[Len(topic)])
                     /\ \A i \in DOMAIN topic : i # Len(topic) => Shows(topic[i])

SceneSeen ==
  UsesScene /\ ~config.queriesFail =>
    /\ pc \in Before \cup {"suppress"} => Unasked
    /\ pc = "suppress" => world[Target] # Absent
    /\ pc = "verify_suppress" => Asked \/ Withheld
    /\ pc \in Grasped \cup Carrying => Withheld /\ topic = <<>>
DiffsSeen ==
  /\ pc \in Before \cup {"suppress", "verify_suppress"} \cup Grasped => sceneDiffs = <<>>
  /\ pc \in Carrying => \A i \in DOMAIN sceneDiffs : sceneDiffs[i] = "attach"
CuroboSeen ==
  ~UsesScene =>
    /\ pc \notin {"snapshot", "recover", "resnapshot"}
    /\ pc \in Before \cup {"suppress", "verify_suppress"} \cup Grasped \cup Carrying =>
         /\ \A i \in DOMAIN bridgeControl : bridgeControl[i] = "suppress"
         /\ obstacle \/ bridgeSuppressed
    /\ pc \in Grasped \cup Carrying => ~obstacle
\* The last the bridge has been told, whatever planner was asked.
BridgeTold ==
  pc \in {"verify_suppress"} \cup Grasped \cup Carrying => BridgeWillWithhold
Seen == SceneSeen /\ DiffsSeen /\ CuroboSeen /\ BridgeTold

LEMMA TailFacts ==
  ASSUME NEW S, NEW s \in Seq(S), s # <<>>
  PROVE  /\ Head(s) = s[1] /\ Len(s) \in DOMAIN s /\ 1 \in DOMAIN s
         /\ \A i \in DOMAIN Tail(s) : i + 1 \in DOMAIN s /\ Tail(s)[i] = s[i + 1]
         /\ Tail(s) = <<>> <=> Len(s) = 1
         /\ \A i \in DOMAIN Tail(s) : i = Len(Tail(s)) <=> i + 1 = Len(s)
         /\ Tail(s) # <<>> => Len(Tail(s)) \in DOMAIN Tail(s) /\ 1 # Len(s)
<1>1. Len(s) \in Nat \ {0} /\ DOMAIN s = 1 .. Len(s) /\ Head(s) = s[1]
  BY EmptySeq
<1>2. /\ Tail(s) \in Seq(S) /\ Len(Tail(s)) = Len(s) - 1 /\ DOMAIN Tail(s) = 1 .. Len(s) - 1
      /\ \A i \in 1 .. Len(s) - 1 : Tail(s)[i] = s[i + 1]
  BY HeadTailProperties
<1>3. Tail(s) = <<>> <=> Len(Tail(s)) = 0
  BY <1>2, EmptySeq
<1> QED BY <1>1, <1>2, <1>3

LEMMA AppendFacts ==
  ASSUME NEW S, NEW s \in Seq(S), NEW e \in S, NEW t, t = Append(s, e)
  PROVE  /\ t # <<>> /\ t[Len(t)] = e
         /\ \A i \in DOMAIN t : i # Len(t) => i \in DOMAIN s /\ t[i] = s[i]
<1>1. Len(s) \in Nat /\ DOMAIN s = 1 .. Len(s)
  OBVIOUS
<1>2. /\ Len(t) = Len(s) + 1 /\ DOMAIN t = 1 .. Len(s) + 1
      /\ \A i \in 1 .. Len(s) : t[i] = s[i]
      /\ t[Len(s) + 1] = e
  BY AppendProperties
<1> QED BY <1>1, <1>2, EmptySeq

\* A step that leaves what the planners know alone.
LEMMA PhaseKeepsSeen ==
  ASSUME Seen, config' = config,
         UNCHANGED <<control, suppressed, topic, world, sceneDiffs, bridgeVars>>,
         pc' \in Before => pc \in Before,
         pc' = "suppress" => pc \in Before /\ (UsesScene /\ ~config.queriesFail => world[Target] # Absent),
         pc' = "verify_suppress" => pc = "verify_suppress",
         pc' \in Grasped => pc \in Grasped \/ (pc = "verify_suppress" /\ Verified(FALSE)),
         pc' \in Carrying => pc \in Grasped \cup Carrying,
         ~UsesScene => pc' \notin {"snapshot", "recover", "resnapshot"}
  PROVE  Seen'
<1> USE ConfigSame DEF Seen, bridgeVars, Before, Grasped, Carrying
<1>1. /\ Unasked' <=> Unasked
      /\ Asked' <=> Asked
      /\ Withheld' <=> Withheld
  BY DEF Unasked, Asked, Withheld
<1>2. UsesScene /\ ~config.queriesFail /\ Verified(FALSE) => world[Target] = Absent
  BY DEF Verified, SceneReads
<1>3. Asked => world[Target] # Absent
  BY DEF Asked
<1>4. Withheld /\ world[Target] = Absent => topic = <<>>
  BY DEF Withheld
<1>5. ~UsesScene /\ Verified(FALSE) => ~obstacle
  BY DEF Verified
<1>6. SceneSeen'
  BY <1>1, <1>2, <1>3, <1>4 DEF SceneSeen
<1>7. DiffsSeen'
  <2>1. DOMAIN <<>> = {}
    OBVIOUS
  <2> QED BY <2>1 DEF DiffsSeen
<1>8. CuroboSeen'
  BY <1>5 DEF CuroboSeen
<1>9. BridgeTold'
  BY DEF BridgeTold, BridgeWillWithhold
<1> QED BY <1>6, <1>7, <1>8, <1>9

\* A step that ends the carrying, or comes after it.
LEMMA OutKeepsSeen ==
  ASSUME pc' \notin Before \cup {"suppress", "verify_suppress"} \cup Grasped \cup Carrying
  PROVE  Seen'
BY DEF Seen, SceneSeen, DiffsSeen, CuroboSeen, BridgeTold, Before

(* A step of another process that leaves the diffs of the thread and the   *)
(* bridge alone.                                                           *)
LEMMA EnvironmentKeepsSeen ==
  ASSUME Seen, UNCHANGED <<config, pc, sceneDiffs, bridgeVars>>,
         Unasked => Unasked' /\ (world[Target] # Absent => world'[Target] # Absent),
         Asked => Asked' \/ Withheld',
         Withheld => Withheld' /\ (topic = <<>> => topic' = <<>>)
  PROVE  Seen'
<1> USE ConfigSame DEF Seen, bridgeVars
<1>1. SceneSeen'
  BY DEF SceneSeen, Before, Grasped, Carrying
<1>2. DiffsSeen'
  BY DEF DiffsSeen, Before, Grasped, Carrying
<1>3. CuroboSeen'
  BY DEF CuroboSeen, Before, Grasped, Carrying
<1>4. BridgeTold'
  BY DEF BridgeTold, BridgeWillWithhold
<1> QED BY <1>1, <1>2, <1>3, <1>4

\* The publisher handles a command.
LEMMA CommandKeepsSeen ==
  ASSUME Seen, Env!TypeOK, EnvironmentCommand
  PROVE  Seen'
<1>1. /\ control \in Seq(Env!Commands) /\ control # <<>> /\ control' = Tail(control)
      /\ suppressed \in SUBSET {Target} /\ UNCHANGED world
      /\ UNCHANGED <<config, pc, sceneDiffs, bridgeVars>>
  BY DEF EnvironmentCommand, Env!OnControlCommand, Env!TypeOK, threadVars, sceneVars
<1>2. /\ Head(control) = control[1] /\ Len(control) \in DOMAIN control /\ 1 \in DOMAIN control
      /\ \A i \in DOMAIN Tail(control) : i + 1 \in DOMAIN control /\ Tail(control)[i] = control[i + 1]
      /\ Tail(control) = <<>> <=> Len(control) = 1
      /\ \A i \in DOMAIN Tail(control) : i = Len(Tail(control)) <=> i + 1 = Len(control)
      /\ Tail(control) # <<>> => Len(Tail(control)) \in DOMAIN Tail(control) /\ 1 # Len(control)
  BY <1>1, TailFacts
<1>3. Head(control) \in Env!Commands
  BY <1>1, HeadTailProperties
<1>4. Head(control).op = "unsuppress" => suppressed' = {} /\ topic' = topic
  BY <1>1, <1>3 DEF EnvironmentCommand, Env!OnControlCommand, Env!OnUnsuppress, Env!Commands
<1>5. Unasked => Unasked' /\ (world[Target] # Absent => world'[Target] # Absent)
  BY <1>1, <1>2, <1>4 DEF Unasked
<1>6. ASSUME Asked
      PROVE  Asked' \/ Withheld'
  <2>1. CASE Tail(control) # <<>>
    <3>1. Head(control).op = "unsuppress"
      BY <1>2, <1>6, <2>1 DEF Asked
    <3>2. Tail(control)[Len(Tail(control))].op = "suppress"
      BY <1>2, <1>6, <2>1 DEF Asked
    <3>3. \A i \in DOMAIN Tail(control) : i # Len(Tail(control)) => Tail(control)[i].op = "unsuppress"
      BY <1>2, <1>6 DEF Asked
    <3> QED BY <1>1, <1>4, <1>6, <2>1, <3>1, <3>2, <3>3 DEF Asked
  <2>2. CASE Tail(control) = <<>>
    <3> DEFINE removal == {Env!Update("remove", Target, Absent)}
    <3>1. Head(control).op = "suppress" /\ suppressed = {}
      BY <1>2, <1>6, <2>2 DEF Asked
    <3>2. Head(control).id = Target
      BY <1>3, <3>1 DEF Env!Commands
    <3>3. suppressed' = {Target} /\ topic' = Append(topic, removal)
      BY <3>1, <3>2 DEF EnvironmentCommand, Env!OnControlCommand, Env!OnSuppress
    <3>4. topic \in Seq(Env!Diffs) /\ removal \in Env!Diffs
      BY DEF Env!TypeOK, Env!Diffs, Env!Update
    <3> HIDE DEF removal
    <3>5. /\ topic' # <<>> /\ topic'[Len(topic')] = removal
          /\ \A i \in DOMAIN topic' : i # Len(topic') => i \in DOMAIN topic /\ topic'[i] = topic[i]
      BY <3>3, <3>4, AppendFacts
    <3>6. Removes(topic'[Len(topic')])
      BY <3>5 DEF Removes, removal
    <3>7. \A i \in DOMAIN topic' : i # Len(topic') => Shows(topic'[i])
      BY <1>6, <3>5 DEF Asked
    <3> QED BY <1>1, <1>6, <2>2, <3>3, <3>5, <3>6, <3>7 DEF Asked, Withheld, Removes, Shows
  <2> QED BY <2>1, <2>2
<1>7. ~Withheld
  BY <1>1 DEF Withheld
<1> QED BY <1>1, <1>5, <1>6, <1>7, EnvironmentKeepsSeen

\* The publisher publishes what it sees.
LEMMA TickKeepsSeen ==
  ASSUME Seen, Env!TypeOK, EnvironmentTick
  PROVE  Seen'
<1>1. UNCHANGED <<config, pc, sceneDiffs, bridgeVars, control, suppressed, world>>
  BY DEF EnvironmentTick, Env!PublishPoses, threadVars, sceneVars
<1>2. PICK located \in SUBSET {Target}, due \in SUBSET published :
        Env!TickDiff(located, due) # {} /\ topic' = Append(topic, Env!TickDiff(located, due))
  BY DEF EnvironmentTick, Env!PublishPoses
<1> DEFINE diff == Env!TickDiff(located, due)
<1>3. pose[Target] = Pose /\ Pose # Absent
  BY PoseAssumption DEF Env!TypeOK
<1>4. suppressed = {}
  BY <1>2 DEF Env!TickDiff, Env!TypeOK
<1>5. Shows(diff) /\ diff \in Env!Diffs
  BY <1>3 DEF Env!TickDiff, Env!Update, Env!Diffs, Shows
<1>6. topic \in Seq(Env!Diffs) /\ topic' = Append(topic, diff)
  BY <1>2 DEF Env!TypeOK
<1> HIDE DEF diff
<1>7. /\ topic'[Len(topic')] = diff
      /\ \A i \in DOMAIN topic' : i # Len(topic') => i \in DOMAIN topic /\ topic'[i] = topic[i]
  BY <1>5, <1>6, AppendFacts
<1>8. (\A i \in DOMAIN topic : Shows(topic[i])) => \A i \in DOMAIN topic' : Shows(topic'[i])
  BY <1>5, <1>7
<1>9. Unasked => Unasked' /\ (world[Target] # Absent => world'[Target] # Absent)
  BY <1>1, <1>4, <1>8 DEF Unasked
<1>10. Asked => Asked'
  BY <1>1, <1>8 DEF Asked
<1>11. ~Withheld
  BY <1>4 DEF Withheld
<1> QED BY <1>1, <1>9, <1>10, <1>11, EnvironmentKeepsSeen

(* A diff that shows the target leaves it where it is in the world, and    *)
(* the removal takes it out.                                               *)
LEMMA AppliedFacts ==
  ASSUME NEW diff
  PROVE  /\ Shows(diff) /\ world[Target] # Absent => Env!Applied(diff, world)[Target] # Absent
         /\ Removes(diff) => Env!Applied(diff, world)[Target] = Absent
<1>1. CASE \E u \in diff : u.id = Target
  <2> DEFINE u == CHOOSE v \in diff : v.id = Target
  <2>1. u \in diff /\ u.id = Target
    BY <1>1
  <2>2. Env!Applied(diff, world)[Target] =
          IF u.op = "move" /\ world[Target] = Absent THEN Absent ELSE u.pose
    BY <1>1 DEF Env!Applied
  <2> HIDE DEF u
  <2> QED BY <2>1, <2>2 DEF Shows, Removes, Env!Update
<1>2. CASE ~\E u \in diff : u.id = Target
  <2>1. Env!Applied(diff, world)[Target] = world[Target]
    BY <1>2 DEF Env!Applied
  <2>2. ~Removes(diff)
    <3>1. Env!Update("remove", Target, Absent).id = Target
      BY DEF Env!Update
    <3> QED BY <1>2, <3>1 DEF Removes
  <2> QED BY <1>2, <2>1, <2>2
<1> QED BY <1>1, <1>2

\* MoveIt applies a diff of the publisher.
LEMMA ApplyKeepsSeen ==
  ASSUME Seen, Env!TypeOK, ApplyEnvironmentDiff
  PROVE  Seen'
<1>1. /\ topic \in Seq(Env!Diffs) /\ topic # <<>> /\ topic' = Tail(topic)
      /\ world' = Env!Applied(Head(topic), world)
      /\ UNCHANGED <<config, pc, sceneDiffs, bridgeVars, control, suppressed>>
  BY DEF ApplyEnvironmentDiff, Env!ApplyDiff, Env!pubVars, Env!TypeOK, threadVars, sceneVars
<1>2. /\ Head(topic) = topic[1] /\ Len(topic) \in DOMAIN topic /\ 1 \in DOMAIN topic
      /\ \A i \in DOMAIN Tail(topic) : i + 1 \in DOMAIN topic /\ Tail(topic)[i] = topic[i + 1]
      /\ Tail(topic) = <<>> <=> Len(topic) = 1
      /\ \A i \in DOMAIN Tail(topic) : i = Len(Tail(topic)) <=> i + 1 = Len(topic)
      /\ Tail(topic) # <<>> => Len(Tail(topic)) \in DOMAIN Tail(topic) /\ 1 # Len(topic)
  BY <1>1, TailFacts
<1>3. /\ Shows(topic[1]) /\ world[Target] # Absent => world'[Target] # Absent
      /\ Removes(topic[1]) => world'[Target] = Absent
  BY <1>1, <1>2, AppliedFacts
<1>4. (\A i \in DOMAIN topic : Shows(topic[i])) => \A i \in DOMAIN Tail(topic) : Shows(Tail(topic)[i])
  BY <1>2
<1>5. Unasked => Unasked' /\ (world[Target] # Absent => world'[Target] # Absent)
  BY <1>1, <1>2, <1>3, <1>4 DEF Unasked
<1>6. Asked => Asked'
  BY <1>1, <1>2, <1>3, <1>4 DEF Asked
<1>7. ASSUME Withheld
      PROVE  Withheld'
  <2>1. CASE Tail(topic) = <<>>
    BY <1>1, <1>2, <1>3, <1>7, <2>1 DEF Withheld
  <2>2. CASE Tail(topic) # <<>>
    <3>1. Shows(topic[1]) /\ world[Target] # Absent
      BY <1>1, <1>2, <1>7, <2>2 DEF Withheld
    <3>2. Removes(Tail(topic)[Len(Tail(topic))])
      BY <1>1, <1>2, <1>7, <2>2 DEF Withheld
    <3>3. \A i \in DOMAIN Tail(topic) : i # Len(Tail(topic)) => Shows(Tail(topic)[i])
      BY <1>1, <1>2, <1>7 DEF Withheld
    <3> QED BY <1>1, <1>3, <1>7, <2>2, <3>1, <3>2, <3>3 DEF Withheld
  <2> QED BY <2>1, <2>2
<1> QED BY <1>1, <1>5, <1>6, <1>7, EnvironmentKeepsSeen

\* MoveIt applies a diff of the thread: the one that attaches the target, while it is carried.
LEMMA DiffKeepsSeen ==
  ASSUME Seen, RemoteTypeOK, ApplySceneDiff
  PROVE  Seen'
<1>1. /\ UNCHANGED <<config, pc, control, suppressed, topic, bridgeVars>>
      /\ sceneDiffs # <<>> /\ sceneDiffs' = Tail(sceneDiffs)
      /\ world \in [{Target} -> {Pose} \cup {Absent}] /\ sceneDiffs \in Seq({"attach", "detach"})
  BY DEF ApplySceneDiff, threadVars, RemoteTypeOK, Env!TypeOK
<1>2. pc \notin Before \cup {"suppress", "verify_suppress"} \cup Grasped
  BY <1>1 DEF Seen, DiffsSeen
<1>3. CASE pc \in Carrying
  <2>1. /\ Head(sceneDiffs) = sceneDiffs[1] /\ 1 \in DOMAIN sceneDiffs
        /\ \A i \in DOMAIN Tail(sceneDiffs) : i + 1 \in DOMAIN sceneDiffs /\ Tail(sceneDiffs)[i] = sceneDiffs[i + 1]
    BY <1>1, TailFacts
  <2>2. Head(sceneDiffs) = "attach" /\ \A i \in DOMAIN sceneDiffs' : sceneDiffs'[i] = "attach"
    BY <1>1, <1>3, <2>1 DEF Seen, DiffsSeen
  <2>3. world'[Target] = Absent
    BY <1>1, <2>2 DEF ApplySceneDiff
  <2>4. SceneSeen'
    BY <1>1, <1>2, <1>3, <2>3, ConfigSame DEF Seen, SceneSeen, Withheld
  <2>5. DiffsSeen'
    BY <1>1, <1>2, <2>2 DEF DiffsSeen
  <2>6. CuroboSeen'
    BY <1>1, ConfigSame DEF Seen, CuroboSeen, bridgeVars
  <2>7. BridgeTold'
    BY <1>1 DEF Seen, BridgeTold, BridgeWillWithhold, bridgeVars
  <2> QED BY <2>4, <2>5, <2>6, <2>7 DEF Seen
<1>4. CASE pc \notin Carrying
  BY <1>1, <1>2, <1>4, OutKeepsSeen
<1> QED BY <1>3, <1>4

\* The bridge follows the commands, which ask for one thing only until the target is released.
LEMMA BridgeKeepsSeen ==
  ASSUME Seen, RemoteTypeOK, BridgeCommand \/ BridgeReconcile
  PROVE  Seen'
<1>1. /\ UNCHANGED <<config, pc, control, suppressed, topic, world, sceneDiffs>>
      /\ bridgeControl \in Seq(Ops) /\ bridgeSuppressed \in BOOLEAN /\ obstacle \in BOOLEAN
  BY DEF BridgeCommand, BridgeReconcile, threadVars, envVars, sceneVars, RemoteTypeOK
<1>2. /\ Unasked' <=> Unasked
      /\ Asked' <=> Asked
      /\ Withheld' <=> Withheld
  BY <1>1 DEF Unasked, Asked, Withheld
<1>3. SceneSeen'
  BY <1>1, <1>2, ConfigSame DEF Seen, SceneSeen
<1>4. DiffsSeen'
  BY <1>1 DEF Seen, DiffsSeen
<1>5. ASSUME \A i \in DOMAIN bridgeControl : bridgeControl[i] = "suppress", obstacle \/ bridgeSuppressed
      PROVE  /\ \A i \in DOMAIN bridgeControl' : bridgeControl'[i] = "suppress"
             /\ obstacle' \/ bridgeSuppressed'
             /\ ~obstacle => ~obstacle'
  <2>1. CASE BridgeCommand
    <3>1. /\ bridgeControl # <<>> /\ bridgeControl' = Tail(bridgeControl)
          /\ obstacle' = obstacle /\ bridgeSuppressed' = (Head(bridgeControl) = "suppress")
      BY <2>1 DEF BridgeCommand
    <3>2. /\ Head(bridgeControl) = bridgeControl[1] /\ 1 \in DOMAIN bridgeControl
          /\ \A i \in DOMAIN Tail(bridgeControl) :
               i + 1 \in DOMAIN bridgeControl /\ Tail(bridgeControl)[i] = bridgeControl[i + 1]
      BY <1>1, <3>1, TailFacts
    <3> QED BY <1>5, <3>1, <3>2
  <2>2. CASE BridgeReconcile
    BY <1>1, <1>5, <2>2 DEF BridgeReconcile
  <2> QED BY <2>1, <2>2
<1>6. CuroboSeen'
  BY <1>1, <1>5, ConfigSame DEF Seen, CuroboSeen, Before, Grasped, Carrying
<1>7. BridgeWillWithhold => BridgeWillWithhold'
  <2>1. CASE BridgeCommand
    <3>1. /\ bridgeControl # <<>> /\ bridgeControl' = Tail(bridgeControl)
          /\ bridgeSuppressed' = (Head(bridgeControl) = "suppress")
      BY <2>1 DEF BridgeCommand
    <3>2. /\ Head(bridgeControl) = bridgeControl[1] /\ 1 \in DOMAIN bridgeControl
          /\ Tail(bridgeControl) = <<>> <=> Len(bridgeControl) = 1
          /\ Tail(bridgeControl) # <<>> =>
               Tail(bridgeControl)[Len(Tail(bridgeControl))] = bridgeControl[Len(bridgeControl)]
      <4>1. /\ Head(bridgeControl) = bridgeControl[1] /\ 1 \in DOMAIN bridgeControl
            /\ \A i \in DOMAIN Tail(bridgeControl) :
                 i + 1 \in DOMAIN bridgeControl /\ Tail(bridgeControl)[i] = bridgeControl[i + 1]
            /\ Tail(bridgeControl) = <<>> <=> Len(bridgeControl) = 1
            /\ \A i \in DOMAIN Tail(bridgeControl) : i = Len(Tail(bridgeControl)) <=> i + 1 = Len(bridgeControl)
            /\ Tail(bridgeControl) # <<>> => Len(Tail(bridgeControl)) \in DOMAIN Tail(bridgeControl)
        BY <1>1, <3>1, TailFacts
      <4> QED BY <4>1
    <3> QED BY <3>1, <3>2 DEF BridgeWillWithhold
  <2>2. CASE BridgeReconcile
    BY <2>2 DEF BridgeReconcile, BridgeWillWithhold
  <2> QED BY <2>1, <2>2
<1>8. BridgeTold'
  BY <1>1, <1>7 DEF Seen, BridgeTold
<1> QED BY <1>3, <1>4, <1>6, <1>8 DEF Seen

LEMMA OthersKeepSeen ==
  ASSUME Seen, RemoteTypeOK, Others
  PROVE  Seen'
<1>1. Env!TypeOK
  BY DEF RemoteTypeOK
<1>2. CASE ServeLateAttach \/ ServeLateLinks \/ ServeLateCumotion
  <2>1. UNCHANGED <<config, pc, control, suppressed, topic, world, sceneDiffs, bridgeVars>>
    BY <1>2 DEF ServeLateAttach, ServeLateLinks, ServeLateCumotion, threadVars, envVars, sceneVars
  <2>2. /\ Unasked' <=> Unasked
        /\ Asked' <=> Asked
        /\ Withheld' <=> Withheld
    BY <2>1 DEF Unasked, Asked, Withheld
  <2> QED BY <2>1, <2>2, EnvironmentKeepsSeen
<1> QED BY <1>1, <1>2, CommandKeepsSeen, TickKeepsSeen, ApplyKeepsSeen, DiffKeepsSeen, BridgeKeepsSeen DEF Others

-----------------------------------------------------------------------------
\* What a phase of the thread that sends nothing may do to pc.
LEMMA WalkKeepsSeen ==
  ASSUME Seen, Walk
  PROVE  Seen'
<1>1. config' = config /\ UNCHANGED <<control, suppressed, topic, world, sceneDiffs, bridgeVars>>
  <2>1. config' = config
    BY DEF Walk, Connect, Lookup, OpenGripper, PreGrasp, Grasp, SnapshotGeometry, Resnapshot, Snapshot,
         VerifySuppress, CloseGripper, AttachInIsaac, PostGraspLift, ReleaseOrientation, PreDrop, Release,
         OpenGripperAtRelease, SurfaceOff, Retreat, VerifyUnsuppress, Attempt, Retrying, Goto,
         FailThenClean, CleanThenFail
  <2>2. UNCHANGED remoteVars
    BY DEF Walk, Connect, Lookup, OpenGripper, PreGrasp, Grasp, SnapshotGeometry, Resnapshot, Snapshot,
         VerifySuppress, CloseGripper, AttachInIsaac, PostGraspLift, ReleaseOrientation, PreDrop, Release,
         OpenGripperAtRelease, SurfaceOff, Retreat, VerifyUnsuppress, Attempt, Retrying
  <2> QED BY <2>1, <2>2 DEF remoteVars, envVars, sceneVars
<1>2. \/ pc' = "cleanup"
      \/ pc = "connect" /\ pc' = "lookup"
      \/ pc = "lookup" /\ pc' = "open_gripper"
      \/ pc = "open_gripper" /\ pc' = "pre_grasp"
      \/ pc = "pre_grasp" /\ pc' \in {"pre_grasp", "grasp"}
      \/ pc = "grasp" /\ pc' \in {"grasp", IF UsesScene THEN "snapshot" ELSE "suppress"}
      \/ pc = "snapshot" /\ (pc' = "recover" \/ (pc' = "suppress" /\ TRUE \in SceneReads))
      \/ pc = "resnapshot" /\ pc' = "suppress" /\ TRUE \in SceneReads
      \/ pc = "verify_suppress" /\ pc' = "close_gripper" /\ Verified(FALSE)
      \/ pc = "close_gripper" /\ pc' = "attach_in_isaac"
      \/ pc = "attach_in_isaac" /\ pc' = "post_grasp_lift"
      \/ pc = "post_grasp_lift" /\ pc' \in {"attach_cumotion", "attach_moveit", "attach_curobo"}
      \/ pc = "release_orientation" /\ pc' = "pre_drop"
      \/ pc = "pre_drop" /\ pc' = "release"
      \/ pc' \in {"open_gripper_at_release", "detach_moveit", "surface_off", "detach_curobo",
                  "unsuppress", "home"}
  <2> USE DEF Goto, FailThenClean, CleanThenFail
  <2>1. CASE Connect \/ Lookup \/ OpenGripper
    BY <2>1 DEF Connect, Lookup, OpenGripper, Attempt
  <2>2. CASE PreGrasp
    BY <2>2 DEF PreGrasp, Retrying
  <2>3. CASE Grasp
    BY <2>3 DEF Grasp, Retrying
  <2>4. CASE SnapshotGeometry \/ Resnapshot
    BY <2>4 DEF SnapshotGeometry, Resnapshot, Snapshot
  <2>5. CASE VerifySuppress \/ CloseGripper \/ AttachInIsaac \/ PostGraspLift
    BY <2>5 DEF VerifySuppress, CloseGripper, AttachInIsaac, PostGraspLift, Attempt
  <2>6. CASE ReleaseOrientation \/ PreDrop \/ Release \/ OpenGripperAtRelease \/ SurfaceOff
    BY <2>6 DEF ReleaseOrientation, PreDrop, Release, OpenGripperAtRelease, SurfaceOff, Attempt
  <2>7. CASE Retreat \/ VerifyUnsuppress
    BY <2>7 DEF Retreat, VerifyUnsuppress, Attempt
  <2> QED BY <2>1, <2>2, <2>3, <2>4, <2>5, <2>6, <2>7 DEF Walk
<1>3. TRUE \in SceneReads /\ ~config.queriesFail => world[Target] # Absent
  BY DEF SceneReads
<1>4. ~UsesScene => pc \notin {"snapshot", "recover", "resnapshot"}
  BY DEF Seen, CuroboSeen
<1>5. CASE pc' \notin Before \cup {"suppress", "verify_suppress"} \cup Grasped \cup Carrying
  BY <1>5, OutKeepsSeen
<1>6. CASE pc' \in Before \cup {"suppress", "verify_suppress"} \cup Grasped \cup Carrying
  <2>1. pc' \in Before => pc \in Before
    BY <1>2 DEF Before
  <2>2. pc' = "suppress" => pc \in Before /\ (UsesScene /\ ~config.queriesFail => world[Target] # Absent)
    BY <1>2, <1>3 DEF Before
  <2>3. pc' # "verify_suppress"
    BY <1>2
  <2>4. pc' \in Grasped => pc \in Grasped \/ (pc = "verify_suppress" /\ Verified(FALSE))
    BY <1>2 DEF Grasped
  <2>5. pc' \in Carrying => pc \in Grasped \cup Carrying
    BY <1>2 DEF Grasped, Carrying
  <2>6. ~UsesScene => pc' \notin {"snapshot", "recover", "resnapshot"}
    BY <1>2, <1>4
  <2> QED BY <1>1, <2>1, <2>2, <2>3, <2>4, <2>5, <2>6, PhaseKeepsSeen
<1> QED BY <1>5, <1>6

\* The thread asks for the target to be shown before it asks for it to be withheld.
LEMMA ControlKeepsSeen ==
  ASSUME Seen, RemoteTypeOK, Recover \/ Suppress
  PROVE  Seen'
<1>1. PICK op \in Ops :
        /\ control' = Append(control, [op |-> op, id |-> Target])
        /\ bridgeControl' = Append(bridgeControl, op)
        /\ UNCHANGED <<config, suppressed, topic, world, sceneDiffs, bridgeSuppressed, obstacle>>
        /\ \/ pc = "recover" /\ pc' = "resnapshot" /\ op = "unsuppress"
           \/ pc = "suppress" /\ pc' = "verify_suppress" /\ op = "suppress"
  BY DEF Recover, Suppress, PublishControl, Goto, Ops, sceneVars
<1>2. control \in Seq(Env!Commands) /\ [op |-> op, id |-> Target] \in Env!Commands
  BY DEF RemoteTypeOK, Env!TypeOK, Env!Commands, Ops
<1>3. /\ control' # <<>> /\ control'[Len(control')] = [op |-> op, id |-> Target]
      /\ \A i \in DOMAIN control' : i # Len(control') => i \in DOMAIN control /\ control'[i] = control[i]
  BY <1>1, <1>2, AppendFacts
<1>4. /\ bridgeControl' # <<>> /\ bridgeControl'[Len(bridgeControl')] = op
      /\ \A i \in DOMAIN bridgeControl' : i # Len(bridgeControl') =>
           i \in DOMAIN bridgeControl /\ bridgeControl'[i] = bridgeControl[i]
  BY <1>1, AppendFacts DEF RemoteTypeOK
<1>5. SceneSeen'
  <2>1. SUFFICES ASSUME UsesScene, ~config.queriesFail
                 PROVE  /\ pc' = "resnapshot" => Unasked'
                        /\ pc' = "verify_suppress" => Asked'
    BY <1>1, ConfigSame DEF SceneSeen, Before, Grasped, Carrying
  <2>2. Unasked /\ (pc = "suppress" => world[Target] # Absent)
    BY <1>1, <2>1 DEF Seen, SceneSeen, Before
  <2>3. ASSUME op = "unsuppress"
        PROVE  Unasked'
    <3>1. \A i \in DOMAIN control' : control'[i].op = "unsuppress"
      BY <1>3, <2>2, <2>3 DEF Unasked
    <3> QED BY <1>1, <2>2, <3>1 DEF Unasked
  <2>4. ASSUME op = "suppress", world[Target] # Absent
        PROVE  Asked'
    <3>1. control'[Len(control')].op = "suppress"
      BY <1>3, <2>4
    <3>2. \A i \in DOMAIN control' : i # Len(control') => control'[i].op = "unsuppress"
      BY <1>3, <2>2 DEF Unasked
    <3> QED BY <1>1, <1>3, <2>2, <2>4, <3>1, <3>2 DEF Unasked, Asked
  <2> QED BY <1>1, <2>2, <2>3, <2>4
<1>6. DiffsSeen'
  BY <1>1 DEF Seen, DiffsSeen, Before, Grasped, Carrying
<1>7. CuroboSeen'
  <2>1. SUFFICES ASSUME ~UsesScene
                 PROVE  /\ pc' # "resnapshot"
                        /\ \A i \in DOMAIN bridgeControl' : bridgeControl'[i] = "suppress"
                        /\ obstacle' \/ bridgeSuppressed'
    BY <1>1, ConfigSame DEF CuroboSeen, Before, Grasped, Carrying
  <2>2. pc = "suppress" /\ op = "suppress"
    BY <1>1, <2>1 DEF Seen, CuroboSeen
  <2>3. (\A i \in DOMAIN bridgeControl : bridgeControl[i] = "suppress") /\ (obstacle \/ bridgeSuppressed)
    BY <2>1, <2>2 DEF Seen, CuroboSeen
  <2> QED BY <1>1, <1>4, <2>2, <2>3
<1>8. BridgeTold'
  BY <1>1, <1>4 DEF BridgeTold, BridgeWillWithhold, Grasped, Carrying
<1> QED BY <1>5, <1>6, <1>7, <1>8 DEF Seen

\* The phases that put the target on the robot.
LEMMA AttachKeepsSeen ==
  ASSUME Seen, RemoteTypeOK, AttachCumotion \/ AttachMoveIt \/ AttachCurobo
  PROVE  Seen'
<1>1. CASE AttachCumotion \/ AttachCurobo
  <2>1. /\ config' = config
        /\ UNCHANGED <<control, suppressed, topic, world, sceneDiffs, bridgeVars>>
        /\ \/ pc = "attach_cumotion" /\ pc' = "attach_moveit"
           \/ pc = "attach_curobo" /\ pc' = "release_orientation"
           \/ pc' = "cleanup"
    BY <1>1 DEF AttachCumotion, AttachCurobo, TrackerAttach, Goto, CleanThenFail, envVars, sceneVars
  <2>2. CASE pc' = "cleanup"
    BY <2>2, OutKeepsSeen DEF Before, Grasped, Carrying
  <2>3. CASE pc' # "cleanup"
    BY <2>1, <2>3, PhaseKeepsSeen DEF Before, Grasped, Carrying
  <2> QED BY <2>2, <2>3
<1>2. CASE AttachMoveIt
  <2>1. CASE pc' = "cleanup"
    BY <2>1, OutKeepsSeen DEF Before, Grasped, Carrying
  <2>2. CASE /\ sceneDiffs' = Append(sceneDiffs, "attach")
             /\ pc' \in {"attach_curobo", "release_orientation"}
    <3>1. UNCHANGED <<config, control, suppressed, topic, world, bridgeVars>> /\ pc = "attach_moveit"
      BY <1>2, <2>2 DEF AttachMoveIt, Goto, CleanThenFail, envVars
    <3>2. sceneDiffs = <<>>
      BY <3>1 DEF Seen, DiffsSeen, Grasped
    <3>3. \A i \in DOMAIN sceneDiffs' : sceneDiffs'[i] = "attach"
      BY <2>2, <3>2
    <3>4. Withheld' <=> Withheld
      BY <3>1 DEF Withheld
    <3>5. SceneSeen'
      BY <2>2, <3>1, <3>4, ConfigSame DEF Seen, SceneSeen, Before, Grasped, Carrying
    <3>6. DiffsSeen'
      BY <2>2, <3>3 DEF DiffsSeen, Before, Grasped
    <3>7. CuroboSeen'
      BY <2>2, <3>1, ConfigSame DEF Seen, CuroboSeen, Before, Grasped, Carrying, bridgeVars
    <3>8. BridgeTold'
      BY <3>1 DEF Seen, BridgeTold, BridgeWillWithhold, Grasped, bridgeVars
    <3> QED BY <3>5, <3>6, <3>7, <3>8 DEF Seen
  <2> QED BY <1>2, <2>1, <2>2 DEF AttachMoveIt, Goto, CleanThenFail
<1> QED BY <1>1, <1>2

LEMMA ThreadKeepsSeen ==
  ASSUME Seen, RemoteTypeOK, Thread
  PROVE  Seen'
<1>1. CASE DetachMoveIt \/ DetachCumotion \/ DetachCurobo \/ Unsuppress \/ Home
  <2>1. pc' \in {"detach_curobo", "detach_cumotion", "retreat", "cleanup", "verify_unsuppress", "finally"}
    BY <1>1 DEF DetachMoveIt, DetachCumotion, DetachCurobo, CumotionDetach, TrackerDetach, Unsuppress, Home,
                Goto, FailThenClean, CleanThenFail
  <2> QED BY <2>1, OutKeepsSeen DEF Before, Grasped, Carrying
<1>2. CASE \/ CleanupDetachCurobo \/ CleanupDetachCumotion \/ CleanupDetachMoveIt \/ CleanupRestore
           \/ VerifyRestore \/ CleanupAbort \/ CleanupFinished \/ Finally
  <2>1. pc' \in {"cleanup", "verify_restore", "finally", "done"}
    BY <1>2 DEF CleanupDetachCurobo, CleanupDetachCumotion, CleanupDetachMoveIt, CleanupRestore,
                VerifyRestore, CleanupAbort, CleanupFinished, Finally, NextCleanup, CleanedUp, Goto
  <2> QED BY <2>1, OutKeepsSeen DEF Before, Grasped, Carrying
<1> QED BY <1>1, <1>2, WalkKeepsSeen, ControlKeepsSeen, AttachKeepsSeen DEF Thread, Walk

LEMMA StartsSeen ==
  ASSUME Init
  PROVE  Seen
<1>1. DOMAIN <<>> = {}
  OBVIOUS
<1> USE <1>1 DEF Init
<1>2. Unasked
  BY DEF Unasked
<1>3. SceneSeen
  BY <1>2 DEF SceneSeen, Before, Grasped, Carrying
<1>4. DiffsSeen
  BY DEF DiffsSeen, Carrying
<1>5. CuroboSeen
  BY DEF CuroboSeen, Grasped, Carrying
<1>6. BridgeTold
  BY DEF BridgeTold, Grasped, Carrying
<1> QED BY <1>3, <1>4, <1>5, <1>6 DEF Seen

LEMMA StepsSeen ==
  ASSUME Seen, RemoteTypeOK, [Next]_vars
  PROVE  Seen'
<1>1. CASE UNCHANGED vars
  <2>1. UNCHANGED <<config, pc, control, suppressed, topic, world, sceneDiffs, bridgeVars>>
    BY <1>1 DEF vars, remoteVars, envVars, sceneVars
  <2>2. /\ Unasked' <=> Unasked
        /\ Asked' <=> Asked
        /\ Withheld' <=> Withheld
    BY <2>1 DEF Unasked, Asked, Withheld
  <2> QED BY <2>1, <2>2, EnvironmentKeepsSeen
<1> QED BY <1>1, ThreadKeepsSeen, OthersKeepSeen DEF Next

(* While the arm carries the target, the planner whose world was asked     *)
(* before the gripper closed does not have it as an obstacle and on the    *)
(* robot, as long as the queries got their answers: at that moment the     *)
(* removal has been applied, with every diff that could show the target    *)
(* before it.  cuRobo under hybrid planning was not asked: it may have the *)
(* target twice, and only as long as the bridge has not carried out the    *)
(* suppression, the last command it has been sent.                         *)
THEOREM NeverCarriedAsObstacle == Spec => []NeverCarriedTwice
<1>1. ASSUME Seen
      PROVE  NeverCarriedTwice
  <2> SUFFICES ASSUME pc \in {"pre_drop", "release"}
               PROVE  /\ UsesScene /\ ~config.queriesFail => world[Target] = Absent
                      /\ config.backend = "curobo_ros" => ~obstacle
                      /\ BridgeWillWithhold
    BY DEF NeverCarriedTwice
  <2>1. UsesScene /\ ~config.queriesFail => world[Target] = Absent
    BY <1>1 DEF Seen, SceneSeen, Withheld, Carrying
  <2>2. config.backend = "curobo_ros" => ~obstacle
    BY <1>1 DEF Seen, CuroboSeen, Carrying, UsesScene
  <2>3. BridgeWillWithhold
    BY <1>1 DEF Seen, BridgeTold, Carrying
  <2> QED BY <2>1, <2>2, <2>3
<1> QED BY <1>1, Starts, Steps, StartsSeen, StepsSeen, PTL DEF Spec

-----------------------------------------------------------------------------
(* What the spheres are built from: lists joined, grids capped.            *)

(* What holds of 0, and of a number when it holds of the one before, holds *)
(* of all.                                                                 *)
LEMMA Climb ==
  ASSUME NEW n \in Nat, NEW P, 0 \in P, \A i \in 1 .. n : i - 1 \in P => i \in P
  PROVE  \A i \in 0 .. n : i \in P
<1> DEFINE Less == {p \in Nat \X Nat : p[1] < p[2]}
           missed == {i \in 0 .. n : i \notin P}
<1>1. OpToRel(<, Nat) = Less
  BY Zenon DEF OpToRel
<1>2. IsWellFoundedOn(Less, Nat)
  <2> HIDE DEF Less
  <2> QED BY <1>1, NatLessThanWellFounded, Zenon
<1>3. ASSUME missed # {} PROVE FALSE
  <2>1. missed \in SUBSET Nat
    OBVIOUS
  <2>2. PICK k \in missed : \A m \in missed : ~ (<<m, k>> \in Less)
    <3> HIDE DEF Less, missed
    <3> QED BY <1>2, <1>3, <2>1, WFMin, Zenon
  <2>3. k \in 1 .. n
    OBVIOUS
  <2>4. k - 1 \in 0 .. n /\ <<k - 1, k>> \in Less
    BY <2>3
  <2>5. k - 1 \in P
    BY <2>2, <2>4
  <2> QED BY <2>3, <2>5
<1> QED BY <1>3

(* A function that is defined step by step exists.                         *)
Stepwise(f, n, x, g) == f = [i \in 0 .. n |-> IF i = 0 THEN x ELSE g[i][f[i - 1]]]
LEMMA StepwiseExists ==
  ASSUME NEW n \in Nat, NEW V, NEW x \in V, NEW g \in [1 .. n -> [V -> V]]
  PROVE  \E f \in [0 .. n -> V] : Stepwise(f, n, x, g)
<1> DEFINE P == {k \in 0 .. n : \E f \in [0 .. k -> V] : Stepwise(f, k, x, g)}
<1>1. 0 \in P
  <2> DEFINE f == [i \in 0 .. 0 |-> x]
  <2>1. f = [i \in 0 .. 0 |-> IF i = 0 THEN x ELSE g[i][f[i - 1]]]
    OBVIOUS
  <2> HIDE DEF f
  <2>2. Stepwise(f, 0, x, g)
    BY <2>1 DEF Stepwise
  <2>3. f \in [0 .. 0 -> V]
    BY DEF f
  <2> QED BY <2>2, <2>3
<1>2. ASSUME NEW k \in 1 .. n, k - 1 \in P PROVE k \in P
  <2>1. PICK h \in [0 .. k - 1 -> V] : Stepwise(h, k - 1, x, g)
    BY <1>2
  <2>2. \A i \in 0 .. k - 1 : h[i] = IF i = 0 THEN x ELSE g[i][h[i - 1]]
    BY <2>1 DEF Stepwise
  <2> DEFINE f == [i \in 0 .. k |-> IF i = k THEN g[k][h[k - 1]] ELSE h[i]]
             F == [i \in 0 .. k |-> IF i = 0 THEN x ELSE g[i][f[i - 1]]]
  <2>3. \A i \in 0 .. k - 1 : f[i] = h[i]
    OBVIOUS
  <2>4. f[k] = g[k][f[k - 1]]
    BY <2>3
  <2>5. \A i \in 0 .. k : f[i] \in V
    <3>1. g[k][h[k - 1]] \in V
      OBVIOUS
    <3> QED BY <3>1
  <2>6. f \in [0 .. k -> V]
    <3>1. f = [i \in 0 .. k |-> f[i]]
      OBVIOUS
    <3> HIDE DEF f
    <3> QED BY <3>1, <2>5
  <2>7. \A i \in 0 .. k : f[i] = F[i]
    <3>1. \A i \in 1 .. k - 1 : f[i - 1] = h[i - 1]
      BY <2>3
    <3>2. \A i \in 0 .. k - 1 : f[i] = F[i]
      <4> HIDE DEF f
      <4> QED BY <2>2, <2>3, <3>1
    <3>3. F[k] = g[k][f[k - 1]]
      OBVIOUS
    <3>4. \A i \in 0 .. k : i \in 0 .. k - 1 \/ i = k
      OBVIOUS
    <3> HIDE DEF f, F
    <3> QED BY <3>2, <3>3, <3>4, <2>4
  <2>8. f = F
    <3>1. f = [i \in 0 .. k |-> f[i]] /\ F = [i \in 0 .. k |-> F[i]]
      OBVIOUS
    <3> HIDE DEF f, F
    <3> QED BY <3>1, <2>7
  <2>9. Stepwise(f, k, x, g)
    BY <2>8 DEF Stepwise
  <2> HIDE DEF f
  <2> QED BY <2>6, <2>9
<1>3. \A k \in 0 .. n : k \in P
  <2> HIDE DEF P
  <2> QED BY <1>1, <1>2, Climb
<1> QED BY <1>3

(* What lists make when they are joined.                                   *)
LEMMA JoinedIs ==
  ASSUME NEW S, NEW lists \in Seq(Seq(S))
  PROVE  \E f \in [0 .. Len(lists) -> Seq(S)] :
           /\ f[0] = <<>> /\ \A i \in 1 .. Len(lists) : f[i] = f[i - 1] \o lists[i]
           /\ Joined(lists) = f[Len(lists)]
<1> DEFINE n == Len(lists)
           g == [i \in 1 .. n |-> [v \in Seq(S) |-> v \o lists[i]]]
           Is(f) == f = [i \in 0 .. n |-> IF i = 0 THEN <<>> ELSE f[i - 1] \o lists[i]]
           joined == CHOOSE f : Is(f)
<1>1. n \in Nat /\ <<>> \in Seq(S) /\ \A i \in 1 .. n : lists[i] \in Seq(S)
  OBVIOUS
<1>2. g \in [1 .. n -> [Seq(S) -> Seq(S)]]
  <2> HIDE DEF n
  <2> QED BY <1>1
<1>3. PICK f \in [0 .. n -> Seq(S)] : Stepwise(f, n, <<>>, g)
  <2> HIDE DEF n, g
  <2> QED BY <1>1, <1>2, StepwiseExists
<1>4. f = [i \in 0 .. n |-> IF i = 0 THEN <<>> ELSE g[i][f[i - 1]]]
  BY <1>3 DEF Stepwise
<1>5. ASSUME NEW i \in 1 .. n PROVE g[i][f[i - 1]] = f[i - 1] \o lists[i]
  <2>1. f[i - 1] \in Seq(S)
    <3> HIDE DEF n
    <3> QED BY <1>1
  <2>2. g[i] = [v \in Seq(S) |-> v \o lists[i]]
    OBVIOUS
  <2> HIDE DEF g, n
  <2> QED BY <2>1, <2>2
<1>6. Is(f)
  <2>1. \A i \in 0 .. n : f[i] = IF i = 0 THEN <<>> ELSE f[i - 1] \o lists[i]
    <3>1. \A i \in 0 .. n : f[i] = IF i = 0 THEN <<>> ELSE g[i][f[i - 1]]
      <4> HIDE DEF g, n
      <4> QED BY <1>4
    <3>2. \A i \in 0 .. n : i = 0 \/ i \in 1 .. n
      BY <1>1
    <3> HIDE DEF g, n
    <3> QED BY <1>5, <3>1, <3>2
  <2>2. f = [i \in 0 .. n |-> f[i]]
    <3> HIDE DEF n
    <3> QED OBVIOUS
  <2> DEFINE Over(i) == IF i = 0 THEN <<>> ELSE f[i - 1] \o lists[i]
  <2>3. \A i \in 0 .. n : f[i] = Over(i)
    BY <2>1
  <2>4. f = [i \in 0 .. n |-> Over(i)]
    <3> HIDE DEF Over, n
    <3> QED BY <2>2, <2>3
  <2> QED BY <2>4
<1>7. Is(joined)
  <2> HIDE DEF Is
  <2> QED BY <1>6
<1>8. ASSUME NEW h, Is(h)
      PROVE  h[0] = <<>> /\ \A i \in 1 .. n : h[i] = h[i - 1] \o lists[i]
  <2> DEFINE Over(i) == IF i = 0 THEN <<>> ELSE h[i - 1] \o lists[i]
  <2>1. h = [i \in 0 .. n |-> Over(i)]
    BY <1>8
  <2>2. \A i \in 0 .. n : h[i] = Over(i)
    <3> HIDE DEF Over, n
    <3> QED BY <2>1
  <2>3. 0 \in 0 .. n /\ \A i \in 1 .. n : i \in 0 .. n /\ i # 0
    BY <1>1
  <2>4. Over(0) = <<>> /\ \A i \in 1 .. n : Over(i) = h[i - 1] \o lists[i]
    BY <2>3
  <2> HIDE DEF Over, n
  <2> QED BY <2>2, <2>3, <2>4
<1>9. Joined(lists) = joined[n]
  BY DEF Joined
<1> HIDE DEF joined, Is
<1>10. \A i \in 0 .. n : joined[i] \in Seq(S)
  <2> DEFINE P == {i \in 0 .. n : joined[i] \in Seq(S)}
  <2>0. joined[0] = <<>> /\ \A i \in 1 .. n : joined[i] = joined[i - 1] \o lists[i]
    BY <1>7, <1>8
  <2>1. 0 \in P
    <3>1. 0 \in 0 .. n /\ joined[0] \in Seq(S)
      BY <1>1, <2>0
    <3> HIDE DEF n
    <3> QED BY <3>1
  <2>2. ASSUME NEW i \in 1 .. n, i - 1 \in P PROVE i \in P
    <3>1. joined[i - 1] \in Seq(S) /\ lists[i] \in Seq(S) /\ joined[i] = joined[i - 1] \o lists[i]
      BY <1>1, <2>0, <2>2
    <3>2. joined[i] \in Seq(S)
      BY <3>1
    <3> QED BY <3>2, <1>1
  <2> HIDE DEF P, n
  <2>3. \A i \in 0 .. n : i \in P
    BY <1>1, <2>1, <2>2, Climb
  <2> QED BY <2>3 DEF P
<1>11. joined = [i \in 0 .. n |-> joined[i]]
  BY <1>7 DEF Is
<1>12. joined \in [0 .. n -> Seq(S)]
  <2> HIDE DEF n
  <2> QED BY <1>10, <1>11
<1>13. joined[0] = <<>> /\ \A i \in 1 .. n : joined[i] = joined[i - 1] \o lists[i]
  BY <1>7, <1>8
<1> HIDE DEF n
<1>14. \E k \in [0 .. n -> Seq(S)] :
           /\ k[0] = <<>> /\ \A i \in 1 .. n : k[i] = k[i - 1] \o lists[i]
           /\ Joined(lists) = k[n]
  BY <1>9, <1>12, <1>13
<1> QED BY <1>14 DEF n

IsJoined(list, lists, S) ==
  /\ list \in Seq(S)
  /\ \A m \in 1 .. Len(list) : \E i \in 1 .. Len(lists) : \E k \in 1 .. Len(lists[i]) : list[m] = lists[i][k]
  /\ \A i \in 1 .. Len(lists) : \A k \in 1 .. Len(lists[i]) : \E m \in 1 .. Len(list) : list[m] = lists[i][k]
LEMMA JoinedHasAll ==
  ASSUME NEW S, NEW lists \in Seq(Seq(S))
  PROVE  IsJoined(Joined(lists), lists, S)
<1> DEFINE n == Len(lists)
<1>1. n \in Nat /\ \A i \in 1 .. n : lists[i] \in Seq(S)
  OBVIOUS
<1>2. PICK f \in [0 .. n -> Seq(S)] :
           /\ f[0] = <<>> /\ \A i \in 1 .. n : f[i] = f[i - 1] \o lists[i]
           /\ Joined(lists) = f[n]
  BY JoinedIs
<1> DEFINE From(j) == \A m \in 1 .. Len(f[j]) : \E i \in 1 .. j : \E k \in 1 .. Len(lists[i]) : f[j][m] = lists[i][k]
           To(j) == \A i \in 1 .. j : \A k \in 1 .. Len(lists[i]) : \E m \in 1 .. Len(f[j]) : f[j][m] = lists[i][k]
           P == {j \in 0 .. n : From(j) /\ To(j)}
<1>3. 0 \in P
  <2>1. Len(f[0]) = 0
    BY <1>2
  <2> QED BY <1>1, <2>1
<1>4. ASSUME NEW j \in 1 .. n, j - 1 \in P PROVE j \in P
  <2> DEFINE a == f[j - 1]
             b == lists[j]
             c == f[j]
  <2>1. a \in Seq(S) /\ b \in Seq(S) /\ c = a \o b
    <3>1. j - 1 \in 0 .. n /\ j \in 1 .. n
      BY <1>1
    <3>2. f[j - 1] \in Seq(S) /\ f[j] = f[j - 1] \o lists[j]
      <4> HIDE DEF n
      <4> QED BY <1>2, <3>1
    <3> QED BY <3>2, <1>1
  <2>2. From(j - 1) /\ To(j - 1)
    BY <1>4
  <2>3. \A m \in 1 .. Len(a) : \E i \in 1 .. j - 1 : \E k \in 1 .. Len(lists[i]) : a[m] = lists[i][k]
    BY <2>2
  <2>4. \A i \in 1 .. j - 1 : \A k \in 1 .. Len(lists[i]) : \E m \in 1 .. Len(a) : a[m] = lists[i][k]
    BY <2>2
  <2>5. /\ Len(a) \in Nat /\ Len(b) \in Nat /\ Len(c) = Len(a) + Len(b)
        /\ \A m \in 1 .. Len(a) : c[m] = a[m]
        /\ \A m \in 1 .. Len(b) : c[Len(a) + m] = b[m]
    <3> HIDE DEF a, b, c
    <3> QED BY <2>1
  <2>6. From(j)
    <3> SUFFICES ASSUME NEW m \in 1 .. Len(c)
                 PROVE  \E i \in 1 .. j : \E k \in 1 .. Len(lists[i]) : c[m] = lists[i][k]
      OBVIOUS
    <3>1. CASE m <= Len(a)
      <4>1. m \in 1 .. Len(a) /\ c[m] = a[m]
        <5> HIDE DEF a, b, c
        <5> QED BY <2>5, <3>1
      <4>2. PICK i \in 1 .. j - 1 : \E k \in 1 .. Len(lists[i]) : a[m] = lists[i][k]
        <5> HIDE DEF a
        <5> QED BY <2>3, <4>1
      <4>3. i \in 1 .. j
        BY <1>1
      <4> HIDE DEF a, b, c
      <4> QED BY <4>1, <4>2, <4>3
    <3>2. CASE m > Len(a)
      <4> DEFINE k == m - Len(a)
      <4>1. k \in 1 .. Len(b) /\ c[m] = b[k]
        <5>1. k \in 1 .. Len(b) /\ Len(a) + k = m
          <6> HIDE DEF a, b, c
          <6> QED BY <2>5, <3>2
        <5> HIDE DEF a, b, c, k
        <5> QED BY <5>1, <2>5
      <4>2. j \in 1 .. j
        BY <1>1
      <4> HIDE DEF a, c, k
      <4> QED BY <4>1, <4>2
    <3>3. m <= Len(a) \/ m > Len(a)
      <4> HIDE DEF a, b, c
      <4> QED BY <2>5
    <3> QED BY <3>1, <3>2, <3>3
  <2>7. To(j)
    <3> SUFFICES ASSUME NEW i \in 1 .. j, NEW k \in 1 .. Len(lists[i])
                 PROVE  \E m \in 1 .. Len(c) : c[m] = lists[i][k]
      OBVIOUS
    <3>1. CASE i \in 1 .. j - 1
      <4>1. PICK m \in 1 .. Len(a) : a[m] = lists[i][k]
        <5> HIDE DEF a
        <5> QED BY <2>4, <3>1
      <4>2. m \in 1 .. Len(c) /\ c[m] = a[m]
        <5> HIDE DEF a, b, c
        <5> QED BY <2>5
      <4> QED BY <4>1, <4>2
    <3>2. CASE i = j
      <4>1. k \in 1 .. Len(b) /\ lists[i][k] = b[k]
        BY <3>2
      <4>2. Len(a) + k \in 1 .. Len(c) /\ c[Len(a) + k] = b[k]
        <5> HIDE DEF a, b, c
        <5> QED BY <4>1, <2>5
      <4> HIDE DEF a, b, c
      <4> QED BY <4>1, <4>2
    <3>3. i \in 1 .. j - 1 \/ i = j
      BY <1>1
    <3> QED BY <3>1, <3>2, <3>3
  <2> QED BY <2>6, <2>7
<1>5. \A j \in 0 .. n : j \in P
  <2> HIDE DEF P, n
  <2> QED BY <1>1, <1>3, <1>4, Climb
<1>6. From(n) /\ To(n)
  <2>1. n \in 0 .. n
    BY <1>1
  <2>2. n \in P
    <3> HIDE DEF P, n
    <3> QED BY <1>5, <2>1
  <2> HIDE DEF From, To, n
  <2> QED BY <2>2
<1>7. Joined(lists) \in Seq(S) /\ Joined(lists) = f[n]
  <2> HIDE DEF n
  <2> QED BY <1>1, <1>2
<1>8. /\ \A m \in 1 .. Len(f[n]) : \E i \in 1 .. n : \E k \in 1 .. Len(lists[i]) : f[n][m] = lists[i][k]
      /\ \A i \in 1 .. n : \A k \in 1 .. Len(lists[i]) : \E m \in 1 .. Len(f[n]) : f[n][m] = lists[i][k]
  BY <1>6
<1> QED BY <1>7, <1>8 DEF IsJoined

Counts == [Axes -> Nat \ {0}]
Shrunk(c, cap) == IF Cells(c) <= cap THEN c ELSE [c EXCEPT ![Longest(c)] = @ - 1]

(* The axis that gives way has the most cells, one more than 1 while the   *)
(* cap is exceeded.                                                        *)
LEMMA LongestIs ==
  ASSUME NEW c \in Counts
  PROVE  Longest(c) \in Axes /\ \A b \in Axes : c[Longest(c)] >= c[b]
<1> DEFINE Is(a) == \A b \in Axes : c[a] > c[b] \/ (c[a] = c[b] /\ a <= b)
<1>1. c[1] \in Nat /\ c[2] \in Nat /\ c[3] \in Nat
  BY DEF Counts, Axes
<1>2. \E a \in Axes : Is(a)
  <2>1. Axes = {1, 2, 3}
    BY DEF Axes
  <2>2. Is(1) \/ Is(2) \/ Is(3)
    BY <1>1, <2>1
  <2> QED BY <2>1, <2>2
<1>3. Longest(c) = CHOOSE a \in Axes : Is(a)
  BY DEF Longest
<1>4. Longest(c) \in Axes /\ Is(Longest(c))
  <2> HIDE DEF Is
  <2> QED BY <1>2, <1>3
<1>5. \A b \in Axes : c[Longest(c)] >= c[b]
  <2>1. \A b \in Axes : c[b] \in Nat
    BY DEF Counts
  <2> DEFINE a == Longest(c)
  <2>2. a \in Axes /\ \A b \in Axes : c[a] > c[b] \/ c[a] = c[b]
    BY <1>4
  <2> HIDE DEF a
  <2>3. ASSUME NEW b \in Axes PROVE c[a] >= c[b]
    <3> DEFINE m == c[a]
               n == c[b]
    <3>1. m \in Nat /\ n \in Nat /\ (m > n \/ m = n)
      BY <2>1, <2>2
    <3> HIDE DEF m, n
    <3>2. m >= n
      BY <3>1
    <3> QED BY <3>2 DEF m, n
  <2> QED BY <2>3 DEF a
<1> QED BY <1>4, <1>5

LEMMA ShrunkIs ==
  ASSUME NEW c \in Counts, NEW cap \in Nat \ {0}
  PROVE  /\ Shrunk(c, cap) \in Counts
         /\ Cells(c) > cap => Together(Shrunk(c, cap)) = Together(c) - 1
<1>1. c[1] \in Nat \ {0} /\ c[2] \in Nat \ {0} /\ c[3] \in Nat \ {0}
  BY DEF Counts, Axes
<1>2. Cells(c) \in Nat
  BY <1>1 DEF Cells
<1>3. CASE Cells(c) <= cap
  BY <1>2, <1>3 DEF Shrunk
<1>4. CASE Cells(c) > cap
  <2> DEFINE a == Longest(c)
             d == [c EXCEPT ![a] = c[a] - 1]
  <2>1. a \in Axes /\ \A b \in Axes : c[a] >= c[b]
    BY LongestIs
  <2>2. Shrunk(c, cap) = d
    BY <1>2, <1>4 DEF Shrunk
  <2>3. c[a] >= 2
    <3>1. ASSUME c[a] = 1 PROVE FALSE
      <4>1. c[1] = 1 /\ c[2] = 1 /\ c[3] = 1
        <5>1. c[1] <= 1 /\ c[2] <= 1 /\ c[3] <= 1
          <6> HIDE DEF a
          <6> QED BY <2>1, <3>1 DEF Axes
        <5> QED BY <5>1, <1>1
      <4>2. Cells(c) = 1
        BY <4>1 DEF Cells
      <4> QED BY <4>2, <1>4
    <3>2. c[a] \in Nat \ {0}
      <4> HIDE DEF a
      <4> QED BY <2>1 DEF Counts
    <3> HIDE DEF a
    <3> QED BY <3>1, <3>2
  <2>4. d \in Counts
    <3>1. c[a] - 1 \in Nat \ {0}
      <4>1. c[a] \in Nat
        <5> HIDE DEF a
        <5> QED BY <2>1 DEF Counts
      <4> HIDE DEF a
      <4> QED BY <2>3, <4>1
    <3> HIDE DEF a
    <3> QED BY <2>1, <3>1 DEF Counts
  <2>5. Together(d) = Together(c) - 1
    <3>1. a \in {1, 2, 3}
      BY <2>1 DEF Axes
    <3>2. DOMAIN c = {1, 2, 3}
      BY DEF Counts, Axes
    <3> HIDE DEF a
    <3>3. CASE a = 1
      <4>1. d[1] = c[1] - 1 /\ d[2] = c[2] /\ d[3] = c[3]
        BY <3>2, <3>3
      <4> QED BY <4>1, <1>1 DEF Together
    <3>4. CASE a = 2
      <4>1. d[1] = c[1] /\ d[2] = c[2] - 1 /\ d[3] = c[3]
        BY <3>2, <3>4
      <4> QED BY <4>1, <1>1 DEF Together
    <3>5. CASE a = 3
      <4>1. d[1] = c[1] /\ d[2] = c[2] /\ d[3] = c[3] - 1
        BY <3>2, <3>5
      <4> QED BY <4>1, <1>1 DEF Together
    <3> QED BY <3>1, <3>3, <3>4, <3>5
  <2> HIDE DEF d
  <2> QED BY <2>2, <2>4, <2>5
<1> QED BY <1>2, <1>3, <1>4

(* Every step takes one away while there are too many cells, and three     *)
(* axes have at least one each.                                            *)
LEMMA CapHolds ==
  ASSUME NEW counts \in Counts, NEW cap \in Nat \ {0}
  PROVE  CapGridCounts(counts, cap) \in Counts /\ Cells(CapGridCounts(counts, cap)) <= cap
<1> DEFINE n == Together(counts)
           g == [i \in 1 .. n |-> [c \in Counts |-> Shrunk(c, cap)]]
           Step(i, h) == IF i = 0 THEN counts ELSE Shrunk(h[i - 1], cap)
           Is(f) == f = [i \in 0 .. n |-> Step(i, f)]
           capped == CHOOSE f : Is(f)
<1>1. n \in Nat
  <2>1. counts[1] \in Nat /\ counts[2] \in Nat /\ counts[3] \in Nat
    BY DEF Counts, Axes
  <2> QED BY <2>1 DEF Together
<1>2. g \in [1 .. n -> [Counts -> Counts]]
  <2> HIDE DEF n
  <2> QED BY ShrunkIs
<1>3. PICK f \in [0 .. n -> Counts] : Stepwise(f, n, counts, g)
  <2> HIDE DEF n, g
  <2> QED BY <1>1, <1>2, StepwiseExists
<1>4. Is(f)
  <2>1. \A i \in 0 .. n : f[i] = IF i = 0 THEN counts ELSE g[i][f[i - 1]]
    <3> HIDE DEF n, g
    <3> QED BY <1>3 DEF Stepwise
  <2>2. ASSUME NEW i \in 0 .. n PROVE f[i] = Step(i, f)
    <3>1. CASE i = 0
      BY <2>1, <3>1
    <3>2. CASE i # 0
      <4>1. i \in 1 .. n /\ f[i - 1] \in Counts
        <5>1. i \in 1 .. n /\ i - 1 \in 0 .. n
          BY <1>1, <3>2
        <5> HIDE DEF n
        <5> QED BY <5>1
      <4>2. g[i] = [c \in Counts |-> Shrunk(c, cap)]
        BY <4>1
      <4> HIDE DEF g, n
      <4> QED BY <2>1, <3>2, <4>1, <4>2
    <3> QED BY <3>1, <3>2
  <2>3. f = [i \in 0 .. n |-> f[i]]
    <3> HIDE DEF n
    <3> QED OBVIOUS
  <2>4. f = [i \in 0 .. n |-> Step(i, f)]
    <3> HIDE DEF n, Step
    <3> QED BY <2>2, <2>3
  <2> QED BY <2>4
<1>5. Is(capped)
  <2> HIDE DEF Is
  <2> QED BY <1>4
<1>6. CapGridCounts(counts, cap) = capped[n]
  BY DEF CapGridCounts, Shrunk
<1> HIDE DEF capped
<1>7. \A i \in 0 .. n : capped[i] = Step(i, capped)
  <2> HIDE DEF Step, n
  <2> QED BY <1>5
<1> DEFINE Held(i) == Cells(capped[i]) <= cap \/ Together(capped[i]) <= n - i
           P == {i \in 0 .. n : capped[i] \in Counts /\ Held(i)}
<1>8. 0 \in P
  <2>1. capped[0] = counts
    BY <1>1, <1>7
  <2> QED BY <1>1, <2>1
<1>9. ASSUME NEW i \in 1 .. n, i - 1 \in P PROVE i \in P
  <2> DEFINE c == capped[i - 1]
  <2>1. c \in Counts /\ Held(i - 1)
    BY <1>9
  <2>2. capped[i] = Shrunk(c, cap)
    BY <1>1, <1>7
  <2>3. capped[i] \in Counts
    <3> HIDE DEF c
    <3> QED BY <2>1, <2>2, ShrunkIs
  <2>4. c[1] \in Nat /\ c[2] \in Nat /\ c[3] \in Nat
    BY <2>1 DEF Counts, Axes
  <2>5. Cells(c) \in Nat /\ Together(c) \in Nat
    <3> HIDE DEF c
    <3>1. c[1] * c[2] \in Nat
      BY <2>4
    <3> QED BY <2>4, <3>1 DEF Cells, Together
  <2>6. CASE Cells(c) <= cap
    <3>1. capped[i] = c
      BY <2>2, <2>6 DEF Shrunk
    <3>2. Held(i)
      BY <3>1, <2>6
    <3> QED BY <2>3, <3>2, <1>1
  <2>7. CASE Cells(c) > cap
    <3>1. Together(capped[i]) = Together(c) - 1
      <4> HIDE DEF c
      <4> QED BY <2>1, <2>2, <2>7, ShrunkIs
    <3>2. Together(c) <= n - (i - 1)
      <4>1. Cells(c) <= cap \/ Together(c) <= n - (i - 1)
        BY <2>1
      <4> HIDE DEF c, n
      <4> QED BY <4>1, <2>5, <2>7
    <3>3. Held(i)
      <4>1. Together(capped[i]) <= n - i
        <5> HIDE DEF c, n
        <5> QED BY <1>1, <2>5, <3>1, <3>2
      <4> QED BY <4>1
    <3> QED BY <2>3, <3>3, <1>1
  <2> HIDE DEF c
  <2> QED BY <2>5, <2>6, <2>7
<1>10. \A i \in 0 .. n : i \in P
  <2> HIDE DEF P, n
  <2> QED BY <1>1, <1>8, <1>9, Climb
<1>11. capped[n] \in Counts /\ Held(n)
  <2>1. n \in 0 .. n
    BY <1>1
  <2>2. n \in P
    <3> HIDE DEF P, n
    <3> QED BY <1>10, <2>1
  <2> HIDE DEF Held, n
  <2> QED BY <2>2
<1>12. Cells(capped[n]) <= cap
  <2> DEFINE c == capped[n]
  <2>1. c[1] \in Nat \ {0} /\ c[2] \in Nat \ {0} /\ c[3] \in Nat \ {0}
    BY <1>11 DEF Counts, Axes
  <2>2. Together(c) >= 3
    <3> HIDE DEF c
    <3> QED BY <2>1 DEF Together
  <2>3. ~ (Together(c) <= n - n)
    <3>1. n - n = 0
      <4> HIDE DEF n
      <4> QED BY <1>1
    <3>2. Together(c) \in Nat
      <4> HIDE DEF c
      <4> QED BY <2>1 DEF Together
    <3> HIDE DEF c, n
    <3> QED BY <2>2, <3>1, <3>2
  <2> QED BY <1>11, <2>3
<1> QED BY <1>6, <1>11, <1>12

(* The counts of a grid are at least one along each axis, and no more      *)
(* cells than the budget of _preclamp_budget, whatever is asked for.       *)
IsAim(target) == target.num \in Nat \ {0} /\ target.den \in Nat \ {0}
THEOREM GridCountsAreCapped ==
  ASSUME NEW extents, \A a \in Axes : extents[a] \in Nat, NEW target, IsAim(target), NEW maximum \in Int
  PROVE  /\ GridCounts(extents, target, maximum) \in Counts
         /\ Cells(GridCounts(extents, target, maximum)) <= Budget(maximum)
<1> DEFINE counts == [a \in Axes |-> Larger(1, Ceiling(extents[a] * target.den, target.num))]
<1>1. Budget(maximum) \in Nat \ {0}
  BY DEF Budget, Larger
<1>2. counts \in Counts
  <2>1. ASSUME NEW a \in Axes PROVE counts[a] \in Nat \ {0}
    <3> DEFINE n == extents[a] * target.den + target.num - 1
               q == n \div target.num
    <3>1. extents[a] * target.den \in Nat
      <4>1. extents[a] \in Nat /\ target.den \in Nat
        BY DEF IsAim
      <4> QED BY <4>1
    <3>2. n \in Int /\ target.num \in Int /\ target.num > 0
      BY <3>1 DEF IsAim
    <3>3. q \in Int
      <4> HIDE DEF n
      <4> QED BY <3>2
    <3>4. counts[a] = Larger(1, q)
      BY DEF Ceiling
    <3> HIDE DEF q, counts
    <3> QED BY <3>3, <3>4 DEF Larger
  <2> HIDE DEF Axes
  <2> QED BY <2>1 DEF Counts
<1>3. GridCounts(extents, target, maximum) = CapGridCounts(counts, Budget(maximum))
  BY DEF GridCounts
<1> HIDE DEF counts
<1> QED BY <1>1, <1>2, <1>3, CapHolds

(* What a try aims at is a positive fraction.                              *)
LEMMA AimIs ==
  ASSUME NEW diameter \in Nat \ {0}
  PROVE  \A k \in 0 .. 5 : IsAim(Aim(diameter, k))
<1> DEFINE Aims == [num : Nat \ {0}, den : Nat \ {0}]
           Finer(a) == [num |-> 7 * a.num, den |-> 10 * a.den]
           first == [num |-> diameter, den |-> 1]
           g == [i \in 1 .. 5 |-> [a \in Aims |-> Finer(a)]]
           Step(j, h) == IF j = 0 THEN first ELSE Finer(h[j - 1])
           Is(f) == f = [j \in 0 .. 5 |-> Step(j, f)]
           aim == CHOOSE f : Is(f)
<1>1. first \in Aims /\ \A a \in Aims : Finer(a) \in Aims
  OBVIOUS
<1>2. g \in [1 .. 5 -> [Aims -> Aims]]
  <2> HIDE DEF Aims, Finer
  <2> QED BY <1>1
<1>3. PICK f \in [0 .. 5 -> Aims] : Stepwise(f, 5, first, g)
  <2> HIDE DEF Aims, g, first
  <2> QED BY <1>1, <1>2, StepwiseExists
<1>4. Is(f)
  <2>1. \A i \in 0 .. 5 : f[i] = IF i = 0 THEN first ELSE g[i][f[i - 1]]
    <3> HIDE DEF g, first
    <3> QED BY <1>3 DEF Stepwise
  <2>2. ASSUME NEW i \in 0 .. 5 PROVE f[i] = Step(i, f)
    <3>1. CASE i = 0
      BY <2>1, <3>1
    <3>2. CASE i # 0
      <4>1. i \in 1 .. 5 /\ f[i - 1] \in Aims
        <5>1. i \in 1 .. 5 /\ i - 1 \in 0 .. 5
          BY <3>2
        <5> HIDE DEF Aims
        <5> QED BY <5>1
      <4>2. g[i] = [a \in Aims |-> Finer(a)]
        BY <4>1
      <4> HIDE DEF g, Aims, Finer, first
      <4> QED BY <2>1, <3>2, <4>1, <4>2
    <3> QED BY <3>1, <3>2
  <2>3. f = [i \in 0 .. 5 |-> f[i]]
    OBVIOUS
  <2>4. f = [i \in 0 .. 5 |-> Step(i, f)]
    <3> HIDE DEF Step
    <3> QED BY <2>2, <2>3
  <2> QED BY <2>4
<1>5. Is(aim)
  <2> HIDE DEF Is
  <2> QED BY <1>4
<1>6. \A k : Aim(diameter, k) = aim[k]
  BY DEF Aim
<1> HIDE DEF aim
<1>7. \A i \in 0 .. 5 : aim[i] = Step(i, aim)
  <2> HIDE DEF Step
  <2> QED BY <1>5
<1> DEFINE P == {i \in 0 .. 5 : aim[i] \in Aims}
<1>8. 0 \in P
  BY <1>1, <1>7
<1>9. ASSUME NEW i \in 1 .. 5, i - 1 \in P PROVE i \in P
  <2>1. aim[i - 1] \in Aims
    BY <1>9
  <2>2. aim[i] = Finer(aim[i - 1])
    BY <1>7
  <2> HIDE DEF Aims, Finer
  <2> QED BY <1>1, <2>1, <2>2
<1>10. \A i \in 0 .. 5 : i \in P
  <2> HIDE DEF P
  <2> QED BY <1>8, <1>9, Climb
<1>11. \A a \in Aims : IsAim(a)
  BY DEF IsAim
<1> QED BY <1>6, <1>10, <1>11

-----------------------------------------------------------------------------
(* Where the cells of a grid lie.                                          *)

Vector == Int \X Int \X Int
(* Quotients.                                                              *)
LEMMA Quotient ==
  ASSUME NEW n \in Int, NEW d \in Nat \ {0}
  PROVE  n \div d \in Int /\ n % d \in 0 .. d - 1 /\ n = d * (n \div d) + (n % d)
<1>1. d \in Int /\ d > 0
  OBVIOUS
<1>2. n \div d \in Int /\ n % d \in 0 .. d - 1
  BY <1>1
<1>3. n = d * (n \div d) + (n % d)
  BY <1>1
<1> QED BY <1>2, <1>3

LEMMA QuotientIs ==
  ASSUME NEW d \in Nat \ {0}, NEW q \in Int, NEW r \in 0 .. d - 1
  PROVE  (d * q + r) \div d = q /\ (d * q + r) % d = r
<1> DEFINE n == d * q + r
           s == n \div d
           t == n % d
<1>1. n \in Int
  OBVIOUS
<1>2. s \in Int /\ t \in 0 .. d - 1 /\ n = d * s + t
  BY <1>1, Quotient
<1>3. n = d * q + r
  OBVIOUS
<1> HIDE DEF n, s, t
<1>4. ASSUME s <= q - 1 PROVE FALSE
  <2>1. d * s <= d * (q - 1)
    BY <1>2, <1>4
  <2>2. d * (q - 1) = d * q - d
    OBVIOUS
  <2> QED BY <1>2, <1>3, <2>1, <2>2
<1>5. ASSUME s >= q + 1 PROVE FALSE
  <2>1. d * s >= d * (q + 1)
    BY <1>2, <1>5
  <2>2. d * (q + 1) = d * q + d
    OBVIOUS
  <2> QED BY <1>2, <1>3, <2>1, <2>2
<1>6. s = q
  BY <1>2, <1>4, <1>5
<1>7. t = r
  BY <1>2, <1>3, <1>6
<1> QED BY <1>6, <1>7 DEF s, t, n

IsNumber(i, x, y, z, k, m, n) ==
  i \in 0 .. k * m * n - 1 /\ i \div (m * n) = x /\ (i \div n) % m = y /\ i % n = z
LEMMA Numbered ==
  ASSUME NEW k \in Nat, NEW m \in Nat, NEW n \in Nat,
         NEW x \in 0 .. k - 1, NEW y \in 0 .. m - 1, NEW z \in 0 .. n - 1,
         NEW i, i = (x * m + y) * n + z
  PROVE  IsNumber(i, x, y, z, k, m, n)
<1> DEFINE row == x * m + y
           rest == y * n + z
<1>1. m \in Nat \ {0} /\ n \in Nat \ {0}
  OBVIOUS
<1>2. row \in Int /\ i \in Int /\ rest \in Int
  OBVIOUS
<1>3. row >= 0 /\ row <= k * m - 1
  <2>1. x * m >= 0
    OBVIOUS
  <2>2. x * m <= (k - 1) * m
    OBVIOUS
  <2>3. (k - 1) * m = k * m - m
    OBVIOUS
  <2> QED BY <2>1, <2>2, <2>3
<1>4. rest \in 0 .. m * n - 1
  <2>1. y * n >= 0
    OBVIOUS
  <2>2. y * n <= (m - 1) * n
    OBVIOUS
  <2>3. (m - 1) * n = m * n - n
    OBVIOUS
  <2> QED BY <2>1, <2>2, <2>3
<1>5. i >= 0 /\ i <= k * m * n - 1
  <2>0. i = row * n + z
    OBVIOUS
  <2> HIDE DEF row
  <2>1. row * n >= 0
    BY <1>2, <1>3
  <2>2. row * n <= (k * m - 1) * n
    <3> DEFINE most == k * m - 1
    <3>1. most \in Int /\ row <= most
      BY <1>3
    <3> HIDE DEF most
    <3>2. row * n <= most * n
      BY <1>2, <3>1
    <3> QED BY <3>2 DEF most
  <2>3. (k * m - 1) * n = k * m * n - n
    OBVIOUS
  <2> QED BY <1>2, <2>0, <2>1, <2>2, <2>3
<1>6. i \div n = row /\ i % n = z
  <2>1. i = n * row + z
    <3>1. i = row * n + z
      OBVIOUS
    <3> HIDE DEF row
    <3> QED BY <1>2, <3>1
  <2> HIDE DEF row
  <2> QED BY <1>1, <1>2, <2>1, QuotientIs
<1>7. row % m = y
  <2>1. row = m * x + y
    OBVIOUS
  <2> HIDE DEF row
  <2> QED BY <1>1, <1>2, <2>1, QuotientIs
<1>8. i \div (m * n) = x
  <2>1. i = (m * n) * x + rest
    OBVIOUS
  <2>2. m * n \in Nat \ {0}
    BY <1>1
  <2> DEFINE mn == m * n
  <2> HIDE DEF rest, mn
  <2>3. i = mn * x + rest /\ mn \in Nat \ {0} /\ rest \in 0 .. mn - 1
    BY <1>4, <2>1, <2>2 DEF mn
  <2>4. i \div mn = x
    BY <2>3, QuotientIs
  <2> QED BY <2>4 DEF mn
<1> QED BY <1>2, <1>5, <1>6, <1>7, <1>8 DEF IsNumber

(* What is multiplied by the same number keeps its bounds; squares too.    *)
LEMMA ScaledBounds ==
  ASSUME NEW c \in Int, NEW n \in Nat, NEW k \in Nat, -n <= c, c <= n
  PROVE  -(n * k) <= c * k /\ c * k <= n * k
<1>1. (n - c) * k >= 0 /\ (n + c) * k >= 0
  <2> DEFINE u == n - c
             v == n + c
  <2>1. u \in Nat /\ v \in Nat
    OBVIOUS
  <2> HIDE DEF u, v
  <2>2. u * k >= 0 /\ v * k >= 0
    BY <2>1
  <2> QED BY <2>2 DEF u, v
<1>2. (n - c) * k = n * k - c * k /\ (n + c) * k = n * k + c * k
  OBVIOUS
<1> DEFINE x == c * k
           y == n * k
           u == (n - c) * k
           v == (n + c) * k
<1>3. x \in Int /\ y \in Int /\ u = y - x /\ v = y + x /\ u >= 0 /\ v >= 0
  BY <1>1, <1>2
<1> HIDE DEF x, y, u, v
<1>4. -y <= x /\ x <= y
  BY <1>3
<1> QED BY <1>4 DEF x, y

LEMMA SquareBounds ==
  ASSUME NEW c \in Int, NEW n \in Nat, -n <= c, c <= n
  PROVE  c * c <= n * n /\ c * c >= 0
<1> DEFINE u == n - c
           v == n + c
<1>1. u \in Nat /\ v \in Nat
  OBVIOUS
<1>2. u * v = n * n - c * c
  OBVIOUS
<1>3. u * v >= 0
  <2> HIDE DEF u, v
  <2> QED BY <1>1
<1>4. c * c >= 0
  OBVIOUS
<1> HIDE DEF u, v
<1> QED BY <1>2, <1>3, <1>4

(* The cells of a grid, and half of one.                                   *)
LEMMA CellsOf ==
  ASSUME NEW n \in Counts
  PROVE  /\ n[1] \in Nat \ {0} /\ n[2] \in Nat \ {0} /\ n[3] \in Nat \ {0}
         /\ Cells(n) \in Nat \ {0}
         /\ Cells(n) = n[1] * (n[2] * n[3]) /\ Cells(n) = n[2] * (n[1] * n[3]) /\ Cells(n) = n[3] * (n[1] * n[2])
<1>1. n[1] \in Nat \ {0} /\ n[2] \in Nat \ {0} /\ n[3] \in Nat \ {0}
  BY DEF Counts, Axes
<1>2. \A x, y \in Nat \ {0} : x * y \in Nat \ {0}
  OBVIOUS
<1>3. Cells(n) \in Nat \ {0}
  <2>1. n[1] * n[2] \in Nat \ {0}
    BY <1>1, <1>2
  <2> QED BY <1>1, <1>2, <2>1 DEF Cells
<1>4. \A x, y, z \in Nat : x * y * z = x * (y * z) /\ x * y * z = y * (x * z) /\ x * y * z = z * (x * y)
  OBVIOUS
<1>5. /\ Cells(n) = n[1] * (n[2] * n[3]) /\ Cells(n) = n[2] * (n[1] * n[3])
      /\ Cells(n) = n[3] * (n[1] * n[2])
  BY <1>1, <1>4 DEF Cells
<1> QED BY <1>1, <1>3, <1>5

(* The cells of a grid: as many as the counts say, each between the ends   *)
(* of its axes, and one for every three numbers.                           *)
CellAt(n, x, y, z) == <<AxisCenter(n[1], x), AxisCenter(n[2], y), AxisCenter(n[3], z)>>
LEMMA CentersAre ==
  ASSUME NEW n \in Counts
  PROVE  /\ Centers(n) \in Seq(Vector) /\ Len(Centers(n)) = Cells(n) /\ DOMAIN Centers(n) = 1 .. Cells(n)
         /\ \A m \in 1 .. Cells(n) :
              \E x \in 0 .. n[1] - 1 : \E y \in 0 .. n[2] - 1 : \E z \in 0 .. n[3] - 1 :
                Centers(n)[m] = CellAt(n, x, y, z)
         /\ \A x \in 0 .. n[1] - 1 : \A y \in 0 .. n[2] - 1 : \A z \in 0 .. n[3] - 1 :
              \E m \in 1 .. Cells(n) : Centers(n)[m] = CellAt(n, x, y, z)
<1> DEFINE At(m) == CellAt(n, (m - 1) \div (n[2] * n[3]), ((m - 1) \div n[3]) % n[2], (m - 1) % n[3])
           k == n[1]
           l == n[2]
           o == n[3]
<1>1. /\ k \in Nat \ {0} /\ l \in Nat \ {0} /\ o \in Nat \ {0}
      /\ Cells(n) \in Nat \ {0} /\ Cells(n) = k * (l * o) /\ Cells(n) = k * l * o
  BY CellsOf DEF Cells
<1>2. Centers(n) = [m \in 1 .. Cells(n) |-> At(m)]
  BY DEF Centers, CellAt
<1>3. \A m \in 1 .. Cells(n) : Centers(n)[m] = At(m)
  <2> HIDE DEF At
  <2> QED BY <1>2
<1>4. ASSUME NEW x \in Int, NEW y \in Int, NEW z \in Int PROVE CellAt(n, x, y, z) \in Vector
  BY <1>1 DEF CellAt, AxisCenter, Vector
<1>5. ASSUME NEW m \in 1 .. Cells(n)
      PROVE  /\ (m - 1) \div (l * o) \in 0 .. k - 1 /\ ((m - 1) \div o) % l \in 0 .. l - 1
             /\ (m - 1) % o \in 0 .. o - 1
  <2> DEFINE i == m - 1
             lo == l * o
             x == i \div lo
  <2>1. lo \in Nat \ {0}
    BY <1>1
  <2>2. i \in Int /\ i >= 0 /\ i < k * lo
    BY <1>1
  <2>3. i % o \in 0 .. o - 1 /\ i \div o \in Int
    <3> HIDE DEF i, o
    <3> QED BY <1>1, <2>2, Quotient
  <2>4. (i \div o) % l \in 0 .. l - 1
    <3> DEFINE j == i \div o
    <3>1. j \in Int
      BY <2>3
    <3> HIDE DEF j, l
    <3>2. j % l \in 0 .. l - 1
      BY <1>1, <3>1, Quotient
    <3> QED BY <3>2 DEF j
  <2> HIDE DEF i, lo
  <2>5. x \in Int /\ i % lo \in 0 .. lo - 1 /\ i = lo * x + (i % lo)
    BY <2>1, <2>2, Quotient
  <2>6. x \in 0 .. k - 1
    <3> DEFINE r == i % lo
    <3>0. r \in 0 .. lo - 1 /\ i = lo * x + r
      BY <2>5
    <3> HIDE DEF x, k, r
    <3>1. ASSUME x <= -1 PROVE FALSE
      <4>1. lo * x <= -lo
        <5>1. lo * (x + 1) <= 0
          BY <2>1, <2>5, <3>1
        <5>2. lo * (x + 1) = lo * x + lo
          BY <2>1, <2>5
        <5> QED BY <2>1, <2>5, <5>1, <5>2
      <4> QED BY <2>1, <2>2, <2>5, <3>0, <4>1
    <3>2. ASSUME x >= k PROVE FALSE
      <4>1. lo * x >= lo * k
        BY <1>1, <2>1, <2>5, <3>2
      <4>2. lo * k = k * lo
        BY <1>1, <2>1
      <4> QED BY <1>1, <2>1, <2>2, <2>5, <3>0, <4>1, <4>2
    <3> QED BY <1>1, <2>5, <3>1, <3>2
  <2> QED BY <2>3, <2>4, <2>6 DEF i, lo
<1>6. \A m \in 1 .. Cells(n) :
        \E x \in 0 .. n[1] - 1 : \E y \in 0 .. n[2] - 1 : \E z \in 0 .. n[3] - 1 : Centers(n)[m] = CellAt(n, x, y, z)
  BY <1>3, <1>5
<1>7. ASSUME NEW x \in 0 .. k - 1, NEW y \in 0 .. l - 1, NEW z \in 0 .. o - 1
      PROVE  \E m \in 1 .. Cells(n) : Centers(n)[m] = CellAt(n, x, y, z)
  <2> DEFINE i == (x * l + y) * o + z
  <2>1. IsNumber(i, x, y, z, k, l, o)
    <3>1. k \in Nat /\ l \in Nat /\ o \in Nat
      BY <1>1
    <3> HIDE DEF k, l, o
    <3> QED BY <3>1, Numbered
  <2>2. i \in 0 .. k * l * o - 1 /\ i \div (l * o) = x /\ (i \div o) % l = y /\ i % o = z
    BY <2>1 DEF IsNumber
  <2> HIDE DEF i
  <2>3. i + 1 \in 1 .. Cells(n) /\ (i + 1) - 1 = i
    BY <1>1, <2>2
  <2>4. At(i + 1) = CellAt(n, x, y, z)
    BY <2>2, <2>3
  <2> HIDE DEF At
  <2> QED BY <1>3, <2>3, <2>4
<1>8. Centers(n) \in Seq(Vector) /\ Len(Centers(n)) = Cells(n) /\ DOMAIN Centers(n) = 1 .. Cells(n)
  <2>1. ASSUME NEW m \in 1 .. Cells(n) PROVE At(m) \in Vector
    <3>1. /\ (m - 1) \div (n[2] * n[3]) \in Int /\ ((m - 1) \div n[3]) % n[2] \in Int
          /\ (m - 1) % n[3] \in Int
      BY <1>5
    <3> QED BY <3>1, <1>4
  <2> HIDE DEF At
  <2> QED BY <1>1, <1>2, <2>1
<1> HIDE DEF At
<1> QED BY <1>6, <1>7, <1>8

LEMMA CenterBounds ==
  ASSUME NEW n \in Counts, NEW m \in 1 .. Cells(n), NEW a \in Axes
  PROVE  /\ Centers(n)[m][a] \in Int
         /\ -n[a] <= Centers(n)[m][a] /\ Centers(n)[m][a] <= n[a]
<1>1. PICK x \in 0 .. n[1] - 1, y \in 0 .. n[2] - 1, z \in 0 .. n[3] - 1 : Centers(n)[m] = CellAt(n, x, y, z)
  BY CentersAre
<1>2. n[1] \in Nat \ {0} /\ n[2] \in Nat \ {0} /\ n[3] \in Nat \ {0}
  BY CellsOf
<1>3. /\ Centers(n)[m][1] = 2 * x + 1 - n[1]
      /\ Centers(n)[m][2] = 2 * y + 1 - n[2]
      /\ Centers(n)[m][3] = 2 * z + 1 - n[3]
  BY <1>1 DEF CellAt, AxisCenter
<1>4. a = 1 \/ a = 2 \/ a = 3
  BY DEF Axes
<1> QED BY <1>2, <1>3, <1>4

(* Along one axis every point of the extent is in a cell.                  *)
AxisCell(n, e, q, d, i) ==
  /\ -(d * e) <= 2 * (n * q) - (d * e) * AxisCenter(n, i)
  /\ 2 * (n * q) - (d * e) * AxisCenter(n, i) <= d * e
LEMMA AxisCovered ==
  ASSUME NEW n \in Nat \ {0}, NEW e \in Nat, NEW q \in Int, NEW d \in Nat \ {0},
         -(d * e) <= 2 * q, 2 * q <= d * e
  PROVE  \E i \in 0 .. n - 1 : AxisCell(n, e, q, d, i)
<1> DEFINE h == d * e
           N == 2 * (n * q) + n * h
<1>1. h \in Nat /\ n * q \in Int /\ n * h \in Nat /\ N \in Int /\ 2 * q + h >= 0 /\ 2 * q - h <= 0
  OBVIOUS
<1>2. N >= 0 /\ N <= (2 * h) * n
  <2> HIDE DEF h
  <2>1. n * (2 * q + h) >= 0 /\ n * (h - 2 * q) >= 0
    BY <1>1
  <2>2. n * (2 * q + h) = 2 * (n * q) + n * h /\ n * (h - 2 * q) = n * h - 2 * (n * q) /\ (2 * h) * n = 2 * (n * h)
    BY <1>1
  <2> DEFINE x == n * q
             y == n * h
             u == n * (2 * q + h)
             v == n * (h - 2 * q)
  <2>3. u >= 0 /\ v >= 0 /\ u = 2 * x + y /\ v = y - 2 * x /\ x \in Int /\ y \in Int /\ (2 * h) * n = 2 * y
    BY <1>1, <2>1, <2>2
  <2>4. N = 2 * x + y
    OBVIOUS
  <2> HIDE DEF x, y, u, v, N
  <2> QED BY <2>3, <2>4
<1>3. ASSUME NEW i \in Int
      PROVE  2 * (n * q) - h * AxisCenter(n, i) = N - (2 * h) * i - h
  <2> HIDE DEF h
  <2>1. h * (2 * i + 1 - n) = (2 * h) * i + h - n * h
    BY <1>1
  <2> QED BY <1>1, <2>1 DEF AxisCenter
<1>4. CASE h = 0
  <2>1. N = 0
    BY <1>1, <1>2, <1>4
  <2>2. 2 * (n * q) - h * AxisCenter(n, 0) = 0
    <3>1. (2 * h) * 0 = 0
      BY <1>4
    <3> HIDE DEF h, N
    <3> QED BY <1>3, <1>4, <2>1, <3>1
  <2>3. AxisCell(n, e, q, d, 0)
    <3>1. h = d * e
      OBVIOUS
    <3> HIDE DEF h
    <3> QED BY <3>1, <2>2, <1>4 DEF AxisCell
  <2> QED BY <2>3
<1>5. CASE h # 0
  <2> DEFINE D == 2 * h
             k == N \div D
             r == N % D
  <2>1. D \in Nat \ {0}
    BY <1>1, <1>5
  <2>2. k \in Int /\ r \in 0 .. D - 1 /\ N = D * k + r
    <3> HIDE DEF N, D
    <3> QED BY <1>1, <2>1, Quotient
  <2> HIDE DEF k, r
  <2>3. k >= 0
    <3> SUFFICES ASSUME k <= -1 PROVE FALSE
      BY <2>2
    <3> HIDE DEF N, D
    <3>1. D * (k + 1) <= 0
      BY <2>1, <2>2
    <3>2. D * (k + 1) = D * k + D
      BY <2>1, <2>2
    <3> QED BY <1>2, <2>1, <2>2, <3>1, <3>2
  <2>4. CASE k <= n - 1
    <3>1. 2 * (n * q) - h * AxisCenter(n, k) = r - h
      <4>1. 2 * (n * q) - h * AxisCenter(n, k) = N - D * k - h
        BY <2>2, <1>3
      <4> DEFINE x == 2 * (n * q) - h * AxisCenter(n, k)
                 y == D * k
      <4>2. x = N - y - h /\ N = y + r /\ y \in Int
        BY <2>1, <2>2, <4>1
      <4> HIDE DEF x, y, N, D, h
      <4>3. x = r - h
        <5>1. r \in Int /\ h \in Int
          BY <1>1, <2>1, <2>2
        <5> QED BY <5>1, <4>2
      <4> QED BY <4>3 DEF x
    <3>2. -h <= r - h /\ r - h <= h
      BY <1>1, <2>2
    <3>3. AxisCell(n, e, q, d, k)
      <4>1. h = d * e
        OBVIOUS
      <4> HIDE DEF h, D
      <4> QED BY <4>1, <3>1, <3>2 DEF AxisCell
    <3> QED BY <2>2, <2>3, <2>4, <3>3
  <2>5. CASE k >= n
    <3>1. N = D * n
      <4> HIDE DEF N, D
      <4>1. D * k >= D * n
        BY <2>1, <2>2, <2>5
      <4>2. N <= D * n
        BY <1>2 DEF D
      <4> DEFINE x == D * k
                 y == D * n
      <4>3. x \in Int /\ y \in Int /\ x >= y /\ N <= y /\ N = x + r
        BY <2>1, <2>2, <4>1, <4>2
      <4> HIDE DEF x, y
      <4>4. N = y
        BY <4>3, <2>2
      <4> QED BY <4>4 DEF y
    <3>2. 2 * (n * q) - h * AxisCenter(n, n - 1) = h
      <4>1. 2 * (n * q) - h * AxisCenter(n, n - 1) = N - D * (n - 1) - h
        BY <1>3
      <4>2. D * (n - 1) = D * n - D
        OBVIOUS
      <4> DEFINE x == 2 * (n * q) - h * AxisCenter(n, n - 1)
                 y == D * n
                 z == D * (n - 1)
      <4>3. x = N - z - h /\ z = y - D /\ N = y /\ D = 2 * h /\ y \in Int
        BY <4>1, <4>2, <3>1, <2>1
      <4> HIDE DEF x, y, z, N, D, h
      <4>4. x = h
        BY <1>1, <4>3
      <4> QED BY <4>4 DEF x
    <3>3. AxisCell(n, e, q, d, n - 1)
      <4>1. h = d * e
        OBVIOUS
      <4> HIDE DEF h, D
      <4> QED BY <4>1, <3>2, <1>1 DEF AxisCell
    <3> QED BY <3>3
  <2> QED BY <2>2, <2>4, <2>5
<1> QED BY <1>4, <1>5

-----------------------------------------------------------------------------
(* The spheres of a box fill it.                                           *)

Balls == [at : Vector, den : Nat \ {0}, squared : Nat]
IsExtents(e) == \A a \in Axes : e[a] \in Nat

LEMMA BallIs ==
  ASSUME NEW p \in Vector, NEW den \in Nat \ {0}, NEW squared \in Nat
  PROVE  /\ Ball(p, den, squared) \in Balls
         /\ Ball(p, den, squared).at = p /\ Ball(p, den, squared).den = den /\ Ball(p, den, squared).squared = squared
BY DEF Ball, Balls

LEMMA AtIs ==
  ASSUME NEW p \in Vector
  PROVE  p[1] \in Int /\ p[2] \in Int /\ p[3] \in Int /\ p = <<p[1], p[2], p[3]>>
BY DEF Vector

(* Half of a cell, and its diagonal.                                       *)
LEMMA HalfCellIs ==
  ASSUME NEW e, IsExtents(e), NEW n \in Counts, NEW a \in Axes
  PROVE  /\ HalfCell(e, n)[a] \in Nat /\ n[a] * HalfCell(e, n)[a] = e[a] * Cells(n)
         /\ \E w \in Nat : Cells(n) = n[a] * w /\ HalfCell(e, n)[a] = e[a] * w
<1>1. /\ n[1] \in Nat \ {0} /\ n[2] \in Nat \ {0} /\ n[3] \in Nat \ {0}
      /\ Cells(n) = n[1] * (n[2] * n[3]) /\ Cells(n) = n[2] * (n[1] * n[3]) /\ Cells(n) = n[3] * (n[1] * n[2])
  BY CellsOf
<1>2. /\ HalfCell(e, n)[1] = e[1] * (n[2] * n[3])
      /\ HalfCell(e, n)[2] = e[2] * (n[1] * n[3])
      /\ HalfCell(e, n)[3] = e[3] * (n[1] * n[2])
  BY DEF HalfCell
<1>3. \A x, y \in Nat : x * y \in Nat
  OBVIOUS
<1>4. e[a] \in Nat
  BY DEF IsExtents
<1>5. PICK w \in Nat : Cells(n) = n[a] * w /\ HalfCell(e, n)[a] = e[a] * w
  <2>1. n[2] * n[3] \in Nat /\ n[1] * n[3] \in Nat /\ n[1] * n[2] \in Nat
    BY <1>1, <1>3
  <2>2. a = 1 \/ a = 2 \/ a = 3
    BY DEF Axes
  <2>3. CASE a = 1
    BY <1>1, <1>2, <2>1, <2>3
  <2>4. CASE a = 2
    BY <1>1, <1>2, <2>1, <2>4
  <2>5. CASE a = 3
    BY <1>1, <1>2, <2>1, <2>5
  <2> QED BY <2>2, <2>3, <2>4, <2>5
<1>6. n[a] \in Nat
  BY DEF Counts
<1>7. HalfCell(e, n)[a] \in Nat
  BY <1>3, <1>4, <1>5
<1>8. n[a] * HalfCell(e, n)[a] = e[a] * Cells(n)
  <2>1. \A x, y, z \in Nat : x * (y * z) = y * (x * z)
    OBVIOUS
  <2> QED BY <1>4, <1>5, <1>6, <2>1
<1> QED BY <1>5, <1>7, <1>8

LEMMA DiagonalIs ==
  ASSUME NEW e, IsExtents(e), NEW n \in Counts
  PROVE  LET h == HalfCell(e, n) IN
         /\ h[1] \in Nat /\ h[2] \in Nat /\ h[3] \in Nat /\ Diagonal(e, n) \in Nat
         /\ Diagonal(e, n) = h[1] * h[1] + h[2] * h[2] + h[3] * h[3]
<1> DEFINE h == HalfCell(e, n)
<1>1. h[1] \in Nat /\ h[2] \in Nat /\ h[3] \in Nat
  <2>1. 1 \in Axes /\ 2 \in Axes /\ 3 \in Axes
    BY DEF Axes
  <2> QED BY <2>1, HalfCellIs
<1>2. Diagonal(e, n) = Square(h[1] - 0) + Square(h[2] - 0) + Square(h[3] - 0)
  BY DEF Diagonal, SquaredDistance, Origin
<1> HIDE DEF h
<1>3. h[1] - 0 = h[1] /\ h[2] - 0 = h[2] /\ h[3] - 0 = h[3]
  BY <1>1
<1>4. Diagonal(e, n) = h[1] * h[1] + h[2] * h[2] + h[3] * h[3]
  BY <1>2, <1>3 DEF Square
<1>5. \A x \in Nat : x * x \in Nat
  OBVIOUS
<1>6. Diagonal(e, n) \in Nat
  BY <1>1, <1>4, <1>5
<1> QED BY <1>1, <1>4, <1>6 DEF h

(* The spheres around centres of cells.                                    *)
LEMMA SpheresAre ==
  ASSUME NEW e, IsExtents(e), NEW n \in Counts, NEW centers \in Seq(Vector), NEW squared \in Nat
  PROVE  /\ Spheres(centers, e, n, squared) \in Seq(Balls)
         /\ Len(Spheres(centers, e, n, squared)) = Len(centers)
         /\ \A m \in 1 .. Len(centers) :
              /\ Spheres(centers, e, n, squared)[m].at = Stretch(centers[m], HalfCell(e, n))
              /\ Spheres(centers, e, n, squared)[m].den = 2 * Cells(n)
              /\ Spheres(centers, e, n, squared)[m].squared = squared
<1> DEFINE h == HalfCell(e, n)
           den == 2 * Cells(n)
           B(m) == Ball(Stretch(centers[m], h), den, squared)
           N == Len(centers)
           L == Spheres(centers, e, n, squared)
<1>1. N \in Nat /\ DOMAIN centers = 1 .. N /\ \A m \in 1 .. N : centers[m] \in Vector
  OBVIOUS
<1>2. L = [m \in 1 .. N |-> B(m)]
  BY <1>1 DEF Spheres, Stretch
<1>3. h[1] \in Nat /\ h[2] \in Nat /\ h[3] \in Nat
  BY DiagonalIs
<1>4. den \in Nat \ {0}
  BY CellsOf
<1>5. ASSUME NEW m \in 1 .. N
      PROVE  /\ B(m) \in Balls /\ B(m).at = Stretch(centers[m], h)
             /\ B(m).den = den /\ B(m).squared = squared
  <2>1. centers[m][1] \in Int /\ centers[m][2] \in Int /\ centers[m][3] \in Int
    BY <1>1, AtIs
  <2>2. Stretch(centers[m], h) \in Vector
    <3>1. \A x \in Int, y \in Nat : x * y \in Int
      OBVIOUS
    <3> HIDE DEF h
    <3> QED BY <1>3, <2>1, <3>1 DEF Stretch, Vector
  <2> HIDE DEF h, den
  <2> QED BY <1>4, <2>2, BallIs
<1> HIDE DEF L, N, den, h
<1>6. L \in Seq(Balls) /\ Len(L) = N /\ \A m \in 1 .. N : L[m] = B(m)
  <2>1. \A m \in 1 .. N : B(m) \in Balls
    BY <1>5
  <2> HIDE DEF B
  <2> QED BY <1>1, <1>2, <2>1
<1>7. \A m \in 1 .. N : L[m].at = Stretch(centers[m], h) /\ L[m].den = den /\ L[m].squared = squared
  BY <1>5, <1>6
<1> QED BY <1>6, <1>7 DEF L, N, den, h

(* A cell that holds a point along one axis is not farther from it than    *)
(* half of its width.                                                      *)
LEMMA AxisGap ==
  ASSUME NEW n \in Nat, NEW w \in Nat, NEW e \in Nat, NEW d \in Nat, NEW q \in Int, NEW c \in Int,
         NEW cells, cells = n * w, NEW h, h = e * w,
         -(d * e) <= 2 * (n * q) - (d * e) * c, 2 * (n * q) - (d * e) * c <= d * e
  PROVE  Square((2 * cells) * q - d * (c * h)) <= Square(d) * (h * h)
<1> DEFINE g == 2 * (n * q) - (d * e) * c
           k == d * e
           x == (2 * cells) * q - d * (c * h)
<1>1. g \in Int /\ k \in Nat /\ -k <= g /\ g <= k
  OBVIOUS
<1>2. x = g * w
  <2>1. (2 * (n * w)) * q = (2 * (n * q)) * w
    OBVIOUS
  <2>2. d * (c * (e * w)) = ((d * e) * c) * w
    OBVIOUS
  <2>3. (2 * (n * q)) * w - ((d * e) * c) * w = (2 * (n * q) - (d * e) * c) * w
    OBVIOUS
  <2> QED BY <2>1, <2>2, <2>3
<1>3. k * w = d * h
  OBVIOUS
<1> HIDE DEF g, k, x
<1>4. -(k * w) <= x /\ x <= k * w /\ x \in Int
  BY <1>1, <1>2, ScaledBounds
<1>5. x * x <= (k * w) * (k * w)
  <2> DEFINE y == k * w
  <2>1. y \in Nat /\ -y <= x /\ x <= y
    BY <1>1, <1>4
  <2> HIDE DEF y
  <2>2. x * x <= y * y
    BY <1>4, <2>1, SquareBounds
  <2> QED BY <2>2 DEF y
<1>6. (d * h) * (d * h) = (d * d) * (h * h)
  <2>1. h \in Nat
    OBVIOUS
  <2> QED BY <2>1
<1>7. x * x <= (d * d) * (h * h)
  BY <1>3, <1>5, <1>6
<1> QED BY <1>7 DEF x, Square

(* The spheres of a box have their centres in it and cover it.             *)
InBox(q, d, e) == \A a \in Axes : 2 * Larger(q[a], -q[a]) <= d * e[a]
LEMMA BoxFills ==
  ASSUME NEW e, IsExtents(e), NEW n \in Counts
  PROVE  /\ BoxGrid(e, n) \in Seq(Balls) /\ Len(BoxGrid(e, n)) = Cells(n)
         /\ \A m \in 1 .. Cells(n) : InBox(BoxGrid(e, n)[m].at, BoxGrid(e, n)[m].den, e)
         /\ \A q \in Vector, d \in Nat \ {0} :
              InBox(q, d, e) => CoveredBy(BoxGrid(e, n), [at |-> q, den |-> d])
<1> DEFINE h == HalfCell(e, n)
           C == Centers(n)
           L == BoxGrid(e, n)
           N == Cells(n)
           den == 2 * N
<1>1. C \in Seq(Vector) /\ Len(C) = N /\ N \in Nat \ {0}
  BY CentersAre, CellsOf
<1>2. /\ h[1] \in Nat /\ h[2] \in Nat /\ h[3] \in Nat /\ Diagonal(e, n) \in Nat
      /\ Diagonal(e, n) = h[1] * h[1] + h[2] * h[2] + h[3] * h[3]
  BY DiagonalIs
<1>3. /\ L \in Seq(Balls) /\ Len(L) = N
      /\ \A m \in 1 .. N : L[m].at = Stretch(C[m], h) /\ L[m].den = den /\ L[m].squared = Diagonal(e, n)
  <2>1. L = Spheres(C, e, n, Diagonal(e, n))
    BY DEF BoxGrid
  <2> HIDE DEF L, C
  <2> QED BY <1>1, <1>2, <2>1, SpheresAre
<1>4. ASSUME NEW m \in 1 .. N PROVE InBox(L[m].at, L[m].den, e)
  <2>1. L[m].at = Stretch(C[m], h) /\ L[m].den = den
    BY <1>3
  <2>2. ASSUME NEW a \in Axes PROVE 2 * Larger(L[m].at[a], -(L[m].at[a])) <= den * e[a]
    <3> DEFINE c == C[m][a]
               k == h[a]
               x == c * k
    <3>1. c \in Int /\ -n[a] <= c /\ c <= n[a]
      BY CenterBounds
    <3>2. k \in Nat /\ n[a] * k = e[a] * N /\ n[a] \in Nat /\ e[a] \in Nat
      <4>1. n[a] \in Nat /\ e[a] \in Nat
        BY DEF IsExtents, Counts
      <4> QED BY <4>1, HalfCellIs
    <3>3. L[m].at[a] = x
      <4>1. a = 1 \/ a = 2 \/ a = 3
        BY DEF Axes
      <4> HIDE DEF h, C, L
      <4> QED BY <2>1, <4>1 DEF Stretch
    <3> HIDE DEF c, k
    <3>4. -(n[a] * k) <= x /\ x <= n[a] * k /\ x \in Int
      BY <3>1, <3>2, ScaledBounds
    <3>5. den * e[a] = 2 * (e[a] * N)
      <4> HIDE DEF N
      <4> QED BY <1>1, <3>2
    <3> DEFINE y == e[a] * N
    <3>6. y \in Int /\ -y <= x /\ x <= y
      <4>1. y \in Int
        <5> HIDE DEF N
        <5> QED BY <1>1, <3>2
      <4> QED BY <4>1, <3>2, <3>4
    <3>7. den * e[a] = 2 * y
      BY <3>5
    <3> HIDE DEF x, y, den
    <3> QED BY <3>3, <3>4, <3>6, <3>7 DEF Larger
  <2> HIDE DEF L, den
  <2> QED BY <2>1, <2>2 DEF InBox
<1>5. ASSUME NEW q \in Vector, NEW d \in Nat \ {0}, InBox(q, d, e)
      PROVE  CoveredBy(L, [at |-> q, den |-> d])
  <2>1. ASSUME NEW a \in Axes PROVE \E i \in 0 .. n[a] - 1 : AxisCell(n[a], e[a], q[a], d, i)
    <3>1. q[a] \in Int
      <4>1. a = 1 \/ a = 2 \/ a = 3
        BY DEF Axes
      <4> QED BY <4>1, AtIs
    <3>2. n[a] \in Nat \ {0} /\ e[a] \in Nat
      BY DEF IsExtents, Counts
    <3>3. -(d * e[a]) <= 2 * q[a] /\ 2 * q[a] <= d * e[a]
      <4>1. 2 * Larger(q[a], -q[a]) <= d * e[a]
        BY <1>5 DEF InBox
      <4> DEFINE y == d * e[a]
                 x == q[a]
      <4>2. y \in Int /\ x \in Int /\ 2 * Larger(x, -x) <= y
        BY <3>1, <3>2, <4>1
      <4> HIDE DEF x, y
      <4>3. -y <= 2 * x /\ 2 * x <= y
        BY <4>2 DEF Larger
      <4> QED BY <4>3 DEF x, y
    <3> QED BY <3>1, <3>2, <3>3, AxisCovered
  <2>2. 1 \in Axes /\ 2 \in Axes /\ 3 \in Axes
    BY DEF Axes
  <2>3. PICK x \in 0 .. n[1] - 1 : AxisCell(n[1], e[1], q[1], d, x)
    BY <2>1, <2>2
  <2>4. PICK y \in 0 .. n[2] - 1 : AxisCell(n[2], e[2], q[2], d, y)
    BY <2>1, <2>2
  <2>5. PICK z \in 0 .. n[3] - 1 : AxisCell(n[3], e[3], q[3], d, z)
    BY <2>1, <2>2
  <2>6. PICK m \in 1 .. N : C[m] = CellAt(n, x, y, z)
    BY CentersAre
  <2>7. C[m][1] = AxisCenter(n[1], x) /\ C[m][2] = AxisCenter(n[2], y) /\ C[m][3] = AxisCenter(n[3], z)
    BY <2>6 DEF CellAt
  <2> DEFINE Gap(a) == Square(den * q[a] - d * (C[m][a] * h[a]))
  <2>8. ASSUME NEW a \in Axes, AxisCell(n[a], e[a], q[a], d, IF a = 1 THEN x ELSE IF a = 2 THEN y ELSE z)
        PROVE  Gap(a) \in Int /\ Gap(a) <= Square(d) * (h[a] * h[a])
    <3> DEFINE c == C[m][a]
               i == IF a = 1 THEN x ELSE IF a = 2 THEN y ELSE z
               k == h[a]
    <3>1. c \in Int
      BY CenterBounds
    <3>2. c = AxisCenter(n[a], i)
      <4>1. a = 1 \/ a = 2 \/ a = 3
        BY DEF Axes
      <4> HIDE DEF C
      <4> QED BY <2>7, <4>1
    <3>3. n[a] \in Nat /\ e[a] \in Nat /\ d \in Nat /\ q[a] \in Int
      <4>1. a = 1 \/ a = 2 \/ a = 3
        BY DEF Axes
      <4>2. q[a] \in Int
        BY <4>1, AtIs
      <4> QED BY <4>2 DEF IsExtents, Counts
    <3>4. PICK w \in Nat : N = n[a] * w /\ k = e[a] * w
      BY HalfCellIs
    <3>5. -(d * e[a]) <= 2 * (n[a] * q[a]) - (d * e[a]) * c /\ 2 * (n[a] * q[a]) - (d * e[a]) * c <= d * e[a]
      BY <2>8, <3>2 DEF AxisCell
    <3>6. Square((2 * N) * q[a] - d * (c * k)) <= Square(d) * (k * k)
      <4> HIDE DEF N, k, c, i
      <4> QED BY <3>1, <3>3, <3>4, <3>5, AxisGap
    <3>7. Gap(a) \in Int
      <4>1. k \in Nat /\ N \in Nat
        BY <1>1, HalfCellIs
      <4>2. \A u, v \in Int : u * v \in Int /\ u - v \in Int
        OBVIOUS
      <4> HIDE DEF N, k, c
      <4>3. (2 * N) * q[a] \in Int /\ d * (c * k) \in Int
        BY <3>1, <3>3, <4>1, <4>2
      <4>4. (2 * N) * q[a] - d * (c * k) \in Int
        BY <4>2, <4>3
      <4>5. Square((2 * N) * q[a] - d * (c * k)) \in Int
        BY <4>2, <4>4 DEF Square
      <4> QED BY <4>5 DEF N, k, c
    <3> QED BY <3>6, <3>7
  <2> HIDE DEF Gap
  <2>9. /\ Gap(1) \in Int /\ Gap(1) <= Square(d) * (h[1] * h[1])
        /\ Gap(2) \in Int /\ Gap(2) <= Square(d) * (h[2] * h[2])
        /\ Gap(3) \in Int /\ Gap(3) <= Square(d) * (h[3] * h[3])
    BY <2>2, <2>3, <2>4, <2>5, <2>8
  <2>10. Gap(1) + Gap(2) + Gap(3) <= Square(d) * Diagonal(e, n)
    <3> DEFINE s == Square(d)
               u == h[1] * h[1]
               v == h[2] * h[2]
               w == h[3] * h[3]
    <3>1. s \in Int /\ u \in Int /\ v \in Int /\ w \in Int /\ Diagonal(e, n) = u + v + w
      <4>1. \A k \in Nat : k * k \in Int
        OBVIOUS
      <4> HIDE DEF h
      <4> QED BY <1>2, <4>1 DEF Square
    <3>2. Gap(1) <= s * u /\ Gap(2) <= s * v /\ Gap(3) <= s * w
      BY <2>9
    <3> HIDE DEF s, u, v, w
    <3>3. s * (u + v + w) = s * u + s * v + s * w
      BY <3>1
    <3>4. s * u \in Int /\ s * v \in Int /\ s * w \in Int
      BY <3>1
    <3>5. Gap(1) + Gap(2) + Gap(3) <= s * (u + v + w)
      BY <2>9, <3>2, <3>3, <3>4
    <3> QED BY <3>1, <3>5 DEF s
  <2>11. SquaredDistance(Times(L[m].den, q), Times(d, L[m].at)) = Gap(1) + Gap(2) + Gap(3)
    <3>1. L[m].at = Stretch(C[m], h) /\ L[m].den = den
      BY <1>3
    <3> HIDE DEF L, C, h, den
    <3>2. Times(den, q) = <<den * q[1], den * q[2], den * q[3]>>
      BY DEF Times
    <3>3. Times(d, Stretch(C[m], h)) = <<d * (C[m][1] * h[1]), d * (C[m][2] * h[2]), d * (C[m][3] * h[3])>>
      BY DEF Times, Stretch
    <3> QED BY <3>1, <3>2, <3>3 DEF SquaredDistance, Gap
  <2>12. m \in DOMAIN L /\ L[m].squared = Diagonal(e, n)
    BY <1>3
  <2> HIDE DEF L
  <2>13. SquaredDistance(Times(L[m].den, q), Times(d, L[m].at)) <= Square(d) * L[m].squared
    BY <2>10, <2>11, <2>12
  <2> QED BY <2>12, <2>13 DEF CoveredBy
<1> HIDE DEF L
<1> QED BY <1>3, <1>4, <1>5 DEF L

-----------------------------------------------------------------------------
(* The spheres of the round shapes stay in them.                           *)

(* The cells of a grid that are kept have what they are kept for.          *)
LEMMA KeptAre ==
  ASSUME NEW n \in Counts, NEW S, S \in SUBSET Vector, NEW lists,
         lists = [m \in 1 .. Cells(n) |-> IF Centers(n)[m] \in S THEN <<Centers(n)[m]>> ELSE <<>>]
  PROVE  Joined(lists) \in Seq(S)
<1>1. Cells(n) \in Nat
  BY CellsOf
<1>2. lists \in Seq(Seq(S))
  <2> DEFINE L(m) == IF Centers(n)[m] \in S THEN <<Centers(n)[m]>> ELSE <<>>
  <2>1. ASSUME NEW m \in 1 .. Cells(n) PROVE L(m) \in Seq(S)
    OBVIOUS
  <2>2. lists = [m \in 1 .. Cells(n) |-> L(m)]
    OBVIOUS
  <2> HIDE DEF L
  <2> QED BY <1>1, <2>1, <2>2
<1> QED BY <1>2, JoinedHasAll DEF IsJoined

(* A centre that counts is in the shape.                                   *)
LEMMA InscribedIsInside ==
  ASSUME NEW s \in Nat, NEW half \in Nat, NEW r \in Nat, Inscribed(s, half, r)
  PROVE  s <= r * r
<1>1. r * r \in Nat
  OBVIOUS
<1> DEFINE R == r * r
<1>2. s = 0 \/ s + half <= R
  BY DEF Inscribed
<1> HIDE DEF R
<1>3. s <= R
  BY <1>1, <1>2 DEF R
<1> QED BY <1>3 DEF R

InCylinder(q, d, height, r) ==
  /\ Square(q[1]) + Square(q[2]) <= Square(d * r)
  /\ 2 * Larger(q[3], -q[3]) <= d * height
InSphere(q, d, r) == SquaredDistance(q, Origin) <= Square(d * r)
FitsSphere(ball, r) ==
  /\ ball.squared <= (ball.den * r) * (ball.den * r)
  /\ Inscribed(SquaredDistance(ball.at, Origin), ball.squared, ball.den * r)

LEMMA OriginIs == Origin \in Vector /\ Origin[1] = 0 /\ Origin[2] = 0 /\ Origin[3] = 0
BY DEF Origin, Vector

LEMMA NotNegative ==
  ASSUME NEW x \in Int
  PROVE  Square(x) \in Nat
BY DEF Square

(* The spheres of a cylinder have their centres in it.                     *)
LEMMA CylinderFills ==
  ASSUME NEW height \in Nat, NEW r \in Nat, NEW n \in Counts
  PROVE  /\ CylinderGrid(height, r, n) \in Seq(Balls) /\ Len(CylinderGrid(height, r, n)) >= 1
         /\ \A m \in 1 .. Len(CylinderGrid(height, r, n)) :
              InCylinder(CylinderGrid(height, r, n)[m].at, CylinderGrid(height, r, n)[m].den, height, r)
<1> DEFINE e == <<2 * r, 2 * r, height>>
           Across(c) == Square(c[1] * n[2]) + Square(c[2] * n[1])
           Round(c) == Inscribed(Across(c), Square(n[1]) + Square(n[2]), n[1] * n[2])
           S == {c \in Vector : Round(c) /\ -n[3] <= c[3] /\ c[3] <= n[3]}
           lists == [m \in 1 .. Cells(n) |-> IF Round(Centers(n)[m]) THEN <<Centers(n)[m]>> ELSE <<>>]
           kept == Joined(lists)
           some == Spheres(kept, e, n, Diagonal(e, n))
           one == Ball(Origin, 2, Square(Larger(2 * r, height)))
           h == HalfCell(e, n)
           N == Cells(n)
<1>1. CylinderGrid(height, r, n) = OrOne(some, one)
  BY CentersAre DEF CylinderGrid
<1>2. IsExtents(e)
  BY DEF IsExtents, Axes
<1>3. n[1] \in Nat \ {0} /\ n[2] \in Nat \ {0} /\ n[3] \in Nat \ {0} /\ N \in Nat \ {0} /\ N = n[3] * (n[1] * n[2])
  BY CellsOf
<1>4. kept \in Seq(S)
  <2>1. \A m \in 1 .. Cells(n) : Centers(n)[m] \in S <=> Round(Centers(n)[m])
    <3> SUFFICES ASSUME NEW m \in 1 .. Cells(n)
                 PROVE  Centers(n)[m] \in S <=> Round(Centers(n)[m])
      OBVIOUS
    <3>1. Centers(n)[m] \in Vector
      BY CentersAre
    <3>2. -n[3] <= Centers(n)[m][3] /\ Centers(n)[m][3] <= n[3]
      BY CenterBounds DEF Axes
    <3> HIDE DEF Round
    <3> QED BY <3>1, <3>2
  <2>2. lists = [m \in 1 .. Cells(n) |-> IF Centers(n)[m] \in S THEN <<Centers(n)[m]>> ELSE <<>>]
    <3> HIDE DEF S, Round
    <3> QED BY <2>1
  <2>3. S \in SUBSET Vector
    OBVIOUS
  <2> HIDE DEF lists, S
  <2> QED BY <2>2, <2>3, KeptAre
<1>5. kept \in Seq(Vector) /\ \A m \in 1 .. Len(kept) : kept[m] \in S
  <2> HIDE DEF kept
  <2>1. \A c \in S : c \in Vector
    OBVIOUS
  <2> HIDE DEF S
  <2> QED BY <1>4, <2>1
<1> HIDE DEF kept, lists
<1>6. Diagonal(e, n) \in Nat
  BY <1>2, DiagonalIs
<1>7. /\ some \in Seq(Balls) /\ Len(some) = Len(kept)
      /\ \A m \in 1 .. Len(kept) : some[m].at = Stretch(kept[m], h) /\ some[m].den = 2 * N
  <2> HIDE DEF e
  <2> QED BY <1>2, <1>5, <1>6, SpheresAre
<1>8. ASSUME NEW m \in 1 .. Len(kept) PROVE InCylinder(some[m].at, some[m].den, height, r)
  <2> DEFINE c == kept[m]
             x == c[1] * n[2]
             y == c[2] * n[1]
             k == (2 * r) * n[3]
             R == n[1] * n[2]
  <2>1. c \in Vector /\ Round(c) /\ -n[3] <= c[3] /\ c[3] <= n[3]
    BY <1>5
  <2>2. c[1] \in Int /\ c[2] \in Int /\ c[3] \in Int
    BY <2>1, AtIs
  <2>3. x \in Int /\ y \in Int /\ k \in Nat /\ R \in Nat
    <3> HIDE DEF c
    <3>1. \A u \in Int, v \in Nat : u * v \in Int
      OBVIOUS
    <3>2. \A u \in Nat, v \in Nat : u * v \in Nat
      OBVIOUS
    <3> QED BY <1>3, <2>2, <3>1, <3>2
  <2>4. Square(x) + Square(y) <= R * R
    <3>1. Inscribed(Square(x) + Square(y), Square(n[1]) + Square(n[2]), R)
      BY <2>1
    <3> HIDE DEF x, y, R
    <3>2. Square(x) \in Nat /\ Square(y) \in Nat /\ Square(n[1]) \in Nat /\ Square(n[2]) \in Nat
      <4>1. n[1] \in Int /\ n[2] \in Int
        BY <1>3
      <4> QED BY <2>3, <4>1, NotNegative
    <3>3. Square(x) + Square(y) \in Nat /\ Square(n[1]) + Square(n[2]) \in Nat
      BY <3>2
    <3> QED BY <2>3, <3>1, <3>3, InscribedIsInside
  <2>5. h[1] = (2 * r) * (n[2] * n[3]) /\ h[2] = (2 * r) * (n[1] * n[3])
    BY DEF HalfCell
  <2>6. c[1] * h[1] = x * k /\ c[2] * h[2] = y * k
    <3> HIDE DEF c, h
    <3>1. \A u \in Int, v, w, z \in Nat : u * (v * (w * z)) = (u * w) * (v * z)
      OBVIOUS
    <3>2. 2 * r \in Nat /\ n[1] \in Nat /\ n[2] \in Nat /\ n[3] \in Nat
      BY <1>3
    <3> QED BY <2>2, <2>5, <3>1, <3>2
  <2>7. (2 * N) * r = R * k
    <3> HIDE DEF N
    <3>1. \A u, v \in Nat : (2 * (v * u)) * r = u * ((2 * r) * v)
      OBVIOUS
    <3>2. n[3] \in Nat /\ R \in Nat /\ N = n[3] * R
      BY <1>3, <2>3
    <3> HIDE DEF R
    <3> QED BY <3>1, <3>2
  <2>8. some[m].at[1] = x * k /\ some[m].at[2] = y * k /\ some[m].at[3] = c[3] * h[3] /\ some[m].den = 2 * N
    <3> HIDE DEF h, x, y, k, N, some
    <3> QED BY <1>7, <2>6 DEF Stretch
  <2>9. Square(x * k) + Square(y * k) <= Square(R * k)
    <3> HIDE DEF x, y, k, R
    <3>1. Square(x * k) + Square(y * k) = (Square(x) + Square(y)) * (k * k) /\ Square(R * k) = (R * R) * (k * k)
      BY <2>3 DEF Square
    <3> DEFINE u == Square(x) + Square(y)
               v == R * R
               w == k * k
    <3>2. u \in Int /\ v \in Int /\ w \in Nat /\ u <= v
      BY <2>3, <2>4 DEF Square
    <3> HIDE DEF u, v, w
    <3>3. u * w <= v * w
      BY <3>2
    <3> QED BY <3>1, <3>3 DEF u, v, w
  <2>10. 2 * Larger(c[3] * h[3], -(c[3] * h[3])) <= (2 * N) * height
    <3> DEFINE g == h[3]
               z == c[3]
               t == z * g
               b == n[3] * g
    <3>1. g \in Nat /\ n[3] * g = e[3] * N
      BY <1>2, HalfCellIs DEF Axes
    <3>2. z \in Int /\ -n[3] <= z /\ z <= n[3]
      BY <2>1, <2>2
    <3> HIDE DEF g, z, N
    <3>3. -b <= t /\ t <= b /\ t \in Int /\ b \in Int
      <4>1. n[3] \in Nat
        BY <1>3
      <4>2. \A u \in Int, v \in Nat : u * v \in Int
        OBVIOUS
      <4>3. t \in Int /\ b \in Int
        BY <3>1, <3>2, <4>1, <4>2
      <4>4. -(n[3] * g) <= z * g /\ z * g <= n[3] * g
        BY <3>1, <3>2, <4>1, ScaledBounds
      <4> QED BY <4>3, <4>4
    <3>4. (2 * N) * height = 2 * b
      <4>1. b = height * N
        BY <3>1
      <4> HIDE DEF b
      <4> QED BY <1>3, <4>1
    <3> HIDE DEF t, b
    <3>5. 2 * Larger(t, -t) <= (2 * N) * height
      BY <3>3, <3>4 DEF Larger
    <3> QED BY <3>5 DEF t, z, g
  <2> HIDE DEF x, y, k, R, c, h, N, some
  <2> QED BY <2>7, <2>8, <2>9, <2>10 DEF InCylinder
<1>9. one \in Balls /\ one.at = Origin /\ one.den = 2
  <2>1. Square(Larger(2 * r, height)) \in Nat
    <3>1. Larger(2 * r, height) \in Int
      BY DEF Larger
    <3> QED BY <3>1, NotNegative
  <2> QED BY <2>1, OriginIs, BallIs
<1>10. InCylinder(one.at, one.den, height, r)
  <2> DEFINE x == one.at[1]
             y == one.at[2]
             z == one.at[3]
  <2>1. x = 0 /\ y = 0 /\ z = 0
    BY <1>9, OriginIs
  <2> HIDE DEF x, y, z
  <2>2. Square(x) + Square(y) <= Square(2 * r)
    BY <2>1, NotNegative DEF Square
  <2>3. 2 * Larger(z, -z) <= 2 * height
    <3>1. z \in Int /\ 2 * height >= 0
      BY <2>1
    <3> QED BY <2>1, <3>1 DEF Larger
  <2> QED BY <1>9, <2>2, <2>3 DEF InCylinder, x, y, z
<1> HIDE DEF some, one, e, N
<1>11. CASE some = <<>>
  <2>1. CylinderGrid(height, r, n) = <<one>>
    BY <1>1, <1>11 DEF OrOne
  <2> QED BY <1>9, <1>10, <2>1
<1>12. CASE some # <<>>
  <2>1. CylinderGrid(height, r, n) = some
    BY <1>1, <1>12 DEF OrOne
  <2>2. Len(some) >= 1
    BY <1>7, <1>12
  <2> QED BY <1>7, <1>8, <2>1, <2>2
<1> QED BY <1>11, <1>12

(* The spheres of a sphere lie in it.                                      *)
LEMMA SphereFills ==
  ASSUME NEW r \in Nat, NEW n \in Nat \ {0}
  PROVE  /\ SphereGrid(r, n) \in Seq(Balls) /\ Len(SphereGrid(r, n)) >= 1
         /\ \A m \in 1 .. Len(SphereGrid(r, n)) :
              /\ InSphere(SphereGrid(r, n)[m].at, SphereGrid(r, n)[m].den, r)
              /\ FitsSphere(SphereGrid(r, n)[m], r)
<1> DEFINE k == <<n, n, n>>
           Round(c) == Inscribed(SquaredDistance(c, Origin), 3, n)
           S == {c \in Vector : Round(c)}
           lists == [m \in 1 .. Cells(k) |-> IF Round(Centers(k)[m]) THEN <<Centers(k)[m]>> ELSE <<>>]
           kept == Joined(lists)
           some == SphereCells(r, n, kept)
           one == Ball(Origin, 1, r * r)
           Good(ball) == ball \in Balls /\ InSphere(ball.at, ball.den, r) /\ FitsSphere(ball, r)
<1>1. k \in Counts
  BY DEF Counts, Axes
<1>2. SphereGrid(r, n) = IF n = 1 \/ 3 >= n * n THEN <<one>> ELSE OrOne(some, one)
  <2> HIDE DEF k
  <2>1. DOMAIN Centers(k) = 1 .. Cells(k)
    BY <1>1, CentersAre
  <2> QED BY <2>1 DEF SphereGrid, k
<1> HIDE DEF k
<1>3. kept \in Seq(S)
  <2>1. \A m \in 1 .. Cells(k) : Centers(k)[m] \in S <=> Round(Centers(k)[m])
    <3>1. \A m \in 1 .. Cells(k) : Centers(k)[m] \in Vector
      BY <1>1, CentersAre
    <3> HIDE DEF Round
    <3> QED BY <3>1
  <2>2. lists = [m \in 1 .. Cells(k) |-> IF Centers(k)[m] \in S THEN <<Centers(k)[m]>> ELSE <<>>]
    <3> HIDE DEF S, Round
    <3> QED BY <2>1
  <2>3. S \in SUBSET Vector
    OBVIOUS
  <2> HIDE DEF lists, S
  <2> QED BY <1>1, <2>2, <2>3, KeptAre
<1>4. \A m \in 1 .. Len(kept) : kept[m] \in Vector /\ Round(kept[m])
  <2> HIDE DEF kept
  <2>1. \A m \in 1 .. Len(kept) : kept[m] \in S
    <3> HIDE DEF S
    <3> QED BY <1>3
  <2> HIDE DEF Round
  <2> QED BY <2>1
<1>5. Len(kept) \in Nat /\ DOMAIN kept = 1 .. Len(kept)
  <2> HIDE DEF kept, S
  <2> QED BY <1>3
<1> HIDE DEF kept, lists, S
<1>6. ASSUME NEW x \in Int PROVE x - 0 = x
  OBVIOUS
<1>7. ASSUME NEW p \in Vector
      PROVE  /\ SquaredDistance(p, Origin) = Square(p[1]) + Square(p[2]) + Square(p[3])
             /\ SquaredDistance(p, Origin) \in Nat
  <2>1. p[1] \in Int /\ p[2] \in Int /\ p[3] \in Int
    BY AtIs
  <2>2. SquaredDistance(p, Origin) = Square(p[1]) + Square(p[2]) + Square(p[3])
    BY <1>6, <2>1, OriginIs DEF SquaredDistance
  <2>3. Square(p[1]) \in Nat /\ Square(p[2]) \in Nat /\ Square(p[3]) \in Nat
    BY <2>1, NotNegative
  <2> QED BY <2>2, <2>3
<1>8. Good(one)
  <2>1. r * r \in Nat
    OBVIOUS
  <2>2. one \in Balls /\ one.at = Origin /\ one.den = 1 /\ one.squared = r * r
    BY <2>1, OriginIs, BallIs
  <2>3. SquaredDistance(Origin, Origin) = 0
    BY OriginIs DEF SquaredDistance, Square
  <2> HIDE DEF one
  <2>4. 1 * r = r /\ Square(r) >= 0
    BY <2>1 DEF Square
  <2>5. InSphere(one.at, one.den, r)
    BY <2>2, <2>3, <2>4 DEF InSphere
  <2>6. FitsSphere(one, r)
    BY <2>1, <2>2, <2>3, <2>4 DEF FitsSphere, Inscribed
  <2> QED BY <2>2, <2>5, <2>6
<1>9. ASSUME ~ (3 >= n * n), NEW m \in 1 .. Len(kept)
      PROVE  Good(Ball(Times(r, kept[m]), n, 3 * Square(r)))
  <2> DEFINE c == kept[m]
             s == SquaredDistance(c, Origin)
             t == Square(r)
             q == n * n
             ball == Ball(Times(r, c), n, 3 * t)
  <2>1. c \in Vector /\ Inscribed(s, 3, n)
    BY <1>4
  <2>2. s \in Nat /\ t \in Nat /\ q \in Nat /\ q > 3
    <3>1. s \in Nat
      <4> HIDE DEF c
      <4> QED BY <1>7, <2>1
    <3>2. t \in Nat
      BY NotNegative
    <3>3. q \in Nat
      OBVIOUS
    <3> QED BY <3>1, <3>2, <3>3, <1>9
  <2>3. c[1] \in Int /\ c[2] \in Int /\ c[3] \in Int
    BY <2>1, AtIs
  <2>4. Times(r, c) \in Vector
    <3>1. \A u \in Int : r * u \in Int
      OBVIOUS
    <3> HIDE DEF c
    <3> QED BY <2>3, <3>1 DEF Times, Vector
  <2>5. ball \in Balls /\ ball.at = Times(r, c) /\ ball.den = n /\ ball.squared = 3 * t
    <3>1. 3 * t \in Nat
      <4> HIDE DEF t
      <4> QED BY <2>2
    <3> HIDE DEF c, t
    <3> QED BY <2>4, <3>1, BallIs
  <2>6. SquaredDistance(Times(r, c), Origin) = s * t
    <3>1. SquaredDistance(Times(r, c), Origin) = Square(r * c[1]) + Square(r * c[2]) + Square(r * c[3])
      <4> HIDE DEF c
      <4> QED BY <1>7, <2>4 DEF Times
    <3>2. s = Square(c[1]) + Square(c[2]) + Square(c[3])
      <4> HIDE DEF c
      <4> QED BY <1>7, <2>1
    <3>3. \A x, y, z \in Int :
            Square(r * x) + Square(r * y) + Square(r * z) = (Square(x) + Square(y) + Square(z)) * Square(r)
      BY DEF Square
    <3> HIDE DEF c, s
    <3> QED BY <2>3, <3>1, <3>2, <3>3
  <2>7. Square(n * r) = q * t /\ (n * r) * (n * r) = q * t
    BY DEF Square
  <2> HIDE DEF ball, s, t, q
  <2>8. s = 0 \/ (s + 3 <= q /\ 4 * (s * 3) <= Square(q - s - 3))
    BY <2>1 DEF Inscribed, q
  <2>9. s * t <= q * t /\ 3 * t <= q * t
    <3>1. s <= q
      BY <2>2, <2>8
    <3> QED BY <2>2, <3>1
  <2>10. Inscribed(s * t, 3 * t, n * r)
    <3>1. CASE s = 0
      <4>1. s * t = 0
        BY <2>2, <3>1
      <4> QED BY <4>1 DEF Inscribed
    <3>2. CASE s + 3 <= q /\ 4 * (s * 3) <= Square(q - s - 3)
      <4>1. s * t + 3 * t <= q * t
        <5>1. (s + 3) * t <= q * t
          BY <2>2, <3>2
        <5>2. (s + 3) * t = s * t + 3 * t
          BY <2>2
        <5> QED BY <5>1, <5>2
      <4>2. 4 * ((s * t) * (3 * t)) = (4 * (s * 3)) * (t * t)
        BY <2>2
      <4>3. Square(q * t - s * t - 3 * t) = Square(q - s - 3) * (t * t)
        <5>1. q * t - s * t - 3 * t = (q - s - 3) * t
          BY <2>2
        <5> DEFINE u == q - s - 3
        <5>2. u \in Int
          BY <2>2
        <5> HIDE DEF u
        <5>3. Square(u * t) = Square(u) * (t * t)
          BY <2>2, <5>2 DEF Square
        <5> QED BY <5>1, <5>3 DEF u
      <4>4. (4 * (s * 3)) * (t * t) <= Square(q - s - 3) * (t * t)
        <5> DEFINE u == 4 * (s * 3)
                   v == Square(q - s - 3)
                   w == t * t
        <5>1. u \in Int /\ v \in Int /\ w \in Nat /\ u <= v
          BY <2>2, <3>2 DEF Square
        <5> HIDE DEF u, v, w
        <5>2. u * w <= v * w
          BY <5>1
        <5> QED BY <5>2 DEF u, v, w
      <4> QED BY <2>7, <4>1, <4>2, <4>3, <4>4 DEF Inscribed
    <3> QED BY <2>8, <3>1, <3>2
  <2>11. InSphere(ball.at, ball.den, r)
    BY <2>5, <2>6, <2>7, <2>9 DEF InSphere
  <2>12. FitsSphere(ball, r)
    BY <2>5, <2>6, <2>7, <2>9, <2>10 DEF FitsSphere
  <2>13. Good(ball)
    BY <2>5, <2>11, <2>12
  <2> HIDE DEF Good
  <2> QED BY <2>13 DEF ball, t
<1> HIDE DEF one
<1>10. CASE n = 1 \/ 3 >= n * n \/ kept = <<>>
  <2>1. SphereGrid(r, n) = <<one>>
    <3>1. kept = <<>> => some = <<>>
      BY DEF SphereCells
    <3> HIDE DEF some
    <3> QED BY <1>2, <1>10, <3>1 DEF OrOne
  <2> QED BY <1>8, <2>1
<1>11. CASE ~ (3 >= n * n) /\ n # 1 /\ kept # <<>>
  <2> DEFINE B(m) == Ball(Times(r, kept[m]), n, 3 * Square(r))
             K == Len(kept)
  <2>1. some = [m \in 1 .. K |-> B(m)]
    BY <1>5 DEF SphereCells
  <2>2. \A m \in 1 .. K : Good(B(m))
    BY <1>9, <1>11
  <2>3. K \in Nat /\ K # 0
    <3>1. Len(kept) # 0
      BY <1>3, <1>11
    <3> QED BY <1>5, <3>1
  <2> HIDE DEF B, K, Good
  <2>4. \A m \in 1 .. K : some[m] = B(m)
    BY <2>1
  <2>5. \A m \in 1 .. K : B(m) \in Balls
    BY <2>2 DEF Good
  <2>6. some \in Seq(Balls) /\ Len(some) = K
    BY <2>1, <2>3, <2>5
  <2>7. some # <<>>
    <3> HIDE DEF some
    <3> QED BY <2>3, <2>6
  <2>8. SphereGrid(r, n) = some
    BY <1>2, <1>11, <2>7 DEF OrOne
  <2> HIDE DEF some
  <2> QED BY <2>2, <2>3, <2>4, <2>6, <2>8 DEF Good
<1> QED BY <1>10, <1>11

-----------------------------------------------------------------------------
(* Frames.                                                                 *)

(* A pose turns by quarters, and what it does can be taken back.           *)
IsPlace(place) == place.at \in Vector /\ place.quat \in 0 .. 3

(* The four turns, and the turns back.                                     *)
LEMMA TurnIs ==
  ASSUME NEW quat \in 0 .. 3, NEW p \in Vector
  PROVE  /\ Turn(quat, p) \in Vector
         /\ quat = 0 => Turn(quat, p) = p
         /\ quat = 1 => Turn(quat, p) = <<-p[2], p[1], p[3]>>
         /\ quat = 2 => Turn(quat, p) = <<-p[1], -p[2], p[3]>>
         /\ quat = 3 => Turn(quat, p) = <<p[2], -p[1], p[3]>>
<1>1. p[1] \in Int /\ p[2] \in Int /\ p[3] \in Int
  BY AtIs
<1>2. /\ quat = 0 => Turn(quat, p) = p
      /\ quat = 1 => Turn(quat, p) = <<-p[2], p[1], p[3]>>
      /\ quat = 2 => Turn(quat, p) = <<-p[1], -p[2], p[3]>>
      /\ quat = 3 => Turn(quat, p) = <<p[2], -p[1], p[3]>>
  BY DEF Turn
<1>3. Turn(quat, p) \in Vector
  <2>1. CASE quat = 0
    BY <1>2, <2>1
  <2>2. CASE quat = 1
    BY <1>1, <1>2, <2>2 DEF Vector
  <2>3. CASE quat = 2
    BY <1>1, <1>2, <2>3 DEF Vector
  <2>4. CASE quat = 3
    BY <1>1, <1>2, <2>4 DEF Vector
  <2> QED BY <2>1, <2>2, <2>3, <2>4
<1> QED BY <1>2, <1>3

LEMMA BackIs ==
  ASSUME NEW quat \in 0 .. 3
  PROVE  /\ (4 - quat) % 4 \in 0 .. 3
         /\ quat = 0 => (4 - quat) % 4 = 0
         /\ quat = 1 => (4 - quat) % 4 = 3
         /\ quat = 2 => (4 - quat) % 4 = 2
         /\ quat = 3 => (4 - quat) % 4 = 1
OBVIOUS

LEMMA TurnsBack ==
  ASSUME NEW quat \in 0 .. 3, NEW p \in Vector
  PROVE  /\ TurnBack(quat, p) \in Vector
         /\ TurnBack(quat, Turn(quat, p)) = p
         /\ Turn(quat, TurnBack(quat, p)) = p
<1> DEFINE back == (4 - quat) % 4
<1>1. /\ back \in 0 .. 3
      /\ quat = 0 => back = 0
      /\ quat = 1 => back = 3
      /\ quat = 2 => back = 2
      /\ quat = 3 => back = 1
  BY BackIs
<1>2. \A v : TurnBack(quat, v) = Turn(back, v)
  BY DEF TurnBack
<1> HIDE DEF back
<1>3. p[1] \in Int /\ p[2] \in Int /\ p[3] \in Int /\ p = <<p[1], p[2], p[3]>>
  BY AtIs
<1>4. Turn(quat, p) \in Vector /\ Turn(back, p) \in Vector
  BY <1>1, TurnIs
<1> DEFINE there == Turn(quat, p)
           undo == Turn(back, p)
<1>5. \A x \in Int : -(-x) = x
  OBVIOUS
<1>6. Turn(back, there) = p /\ Turn(quat, undo) = p
  <2>1. CASE quat = 0
    <3>1. there = p /\ undo = p
      BY <1>1, <2>1, TurnIs
    <3> HIDE DEF there, undo
    <3> QED BY <1>1, <2>1, <3>1, TurnIs
  <2>2. CASE quat = 1
    <3>1. there = <<-p[2], p[1], p[3]>> /\ undo = <<p[2], -p[1], p[3]>>
      BY <1>1, <2>2, TurnIs
    <3> HIDE DEF there, undo
    <3>2. /\ Turn(back, there) = <<there[2], -there[1], there[3]>>
          /\ Turn(quat, undo) = <<-undo[2], undo[1], undo[3]>>
      BY <1>1, <1>4, <2>2, TurnIs DEF there, undo
    <3> QED BY <1>3, <1>5, <3>1, <3>2
  <2>3. CASE quat = 2
    <3>1. there = <<-p[1], -p[2], p[3]>> /\ undo = <<-p[1], -p[2], p[3]>>
      BY <1>1, <2>3, TurnIs
    <3> HIDE DEF there, undo
    <3>2. /\ Turn(back, there) = <<-there[1], -there[2], there[3]>>
          /\ Turn(quat, undo) = <<-undo[1], -undo[2], undo[3]>>
      BY <1>1, <1>4, <2>3, TurnIs DEF there, undo
    <3> QED BY <1>3, <1>5, <3>1, <3>2
  <2>4. CASE quat = 3
    <3>1. there = <<p[2], -p[1], p[3]>> /\ undo = <<-p[2], p[1], p[3]>>
      BY <1>1, <2>4, TurnIs
    <3> HIDE DEF there, undo
    <3>2. /\ Turn(back, there) = <<-there[2], there[1], there[3]>>
          /\ Turn(quat, undo) = <<undo[2], -undo[1], undo[3]>>
      BY <1>1, <1>4, <2>4, TurnIs DEF there, undo
    <3> QED BY <1>3, <1>5, <3>1, <3>2
  <2> QED BY <2>1, <2>2, <2>3, <2>4
<1> QED BY <1>2, <1>4, <1>6

(* A turn keeps the distance between what is turned.                       *)
LEMMA TurnKeepsGaps ==
  ASSUME NEW quat \in 0 .. 3, NEW p \in Vector, NEW q \in Vector, NEW d \in Int, NEW e \in Int
  PROVE  SquaredDistance(Times(d, Turn(quat, p)), Times(e, Turn(quat, q)))
           = SquaredDistance(Times(d, p), Times(e, q))
<1>1. p[1] \in Int /\ p[2] \in Int /\ p[3] \in Int /\ q[1] \in Int /\ q[2] \in Int /\ q[3] \in Int
  BY AtIs
<1>2. ASSUME NEW x \in Int, NEW y \in Int
      PROVE  Square(d * (-x) - e * (-y)) = Square(d * x - e * y)
  BY DEF Square
<1> DEFINE A(a) == Square(d * p[a] - e * q[a])
           u == Turn(quat, p)
           v == Turn(quat, q)
<1>3. SquaredDistance(Times(d, p), Times(e, q)) = A(1) + A(2) + A(3)
  BY DEF SquaredDistance, Times
<1>4. SquaredDistance(Times(d, u), Times(e, v))
        = Square(d * u[1] - e * v[1]) + Square(d * u[2] - e * v[2]) + Square(d * u[3] - e * v[3])
  BY DEF SquaredDistance, Times
<1>5. A(1) \in Int /\ A(2) \in Int /\ A(3) \in Int
  <2>1. \A x, y \in Int : Square(d * x - e * y) \in Int
    BY DEF Square
  <2> QED BY <1>1, <2>1
<1>6. CASE quat = 0
  BY <1>3, <1>6, TurnIs
<1>7. CASE quat = 1
  <2>1. u = <<-p[2], p[1], p[3]>> /\ v = <<-q[2], q[1], q[3]>>
    BY <1>7, TurnIs
  <2> HIDE DEF u, v
  <2>2. /\ Square(d * u[1] - e * v[1]) = A(2) /\ Square(d * u[2] - e * v[2]) = A(1)
        /\ Square(d * u[3] - e * v[3]) = A(3)
    BY <1>1, <1>2, <2>1
  <2> HIDE DEF A
  <2>3. SquaredDistance(Times(d, u), Times(e, v)) = SquaredDistance(Times(d, p), Times(e, q))
    BY <1>3, <1>4, <1>5, <2>2
  <2> QED BY <2>3 DEF u, v
<1>8. CASE quat = 2
  <2>1. u = <<-p[1], -p[2], p[3]>> /\ v = <<-q[1], -q[2], q[3]>>
    BY <1>8, TurnIs
  <2> HIDE DEF u, v
  <2>2. /\ Square(d * u[1] - e * v[1]) = A(1) /\ Square(d * u[2] - e * v[2]) = A(2)
        /\ Square(d * u[3] - e * v[3]) = A(3)
    BY <1>1, <1>2, <2>1
  <2> HIDE DEF A
  <2>3. SquaredDistance(Times(d, u), Times(e, v)) = SquaredDistance(Times(d, p), Times(e, q))
    BY <1>3, <1>4, <1>5, <2>2
  <2> QED BY <2>3 DEF u, v
<1>9. CASE quat = 3
  <2>1. u = <<p[2], -p[1], p[3]>> /\ v = <<q[2], -q[1], q[3]>>
    BY <1>9, TurnIs
  <2> HIDE DEF u, v
  <2>2. /\ Square(d * u[1] - e * v[1]) = A(2) /\ Square(d * u[2] - e * v[2]) = A(1)
        /\ Square(d * u[3] - e * v[3]) = A(3)
    BY <1>1, <1>2, <2>1
  <2> HIDE DEF A
  <2>3. SquaredDistance(Times(d, u), Times(e, v)) = SquaredDistance(Times(d, p), Times(e, q))
    BY <1>3, <1>4, <1>5, <2>2
  <2> QED BY <2>3 DEF u, v
<1> QED BY <1>6, <1>7, <1>8, <1>9

(* Poses compose.                                                          *)
LEMMA ComposeIs ==
  ASSUME NEW parent, IsPlace(parent), NEW child, IsPlace(child)
  PROVE  IsPlace(Compose(parent, child))
<1>1. Turn(parent.quat, child.at) \in Vector
  BY TurnIs DEF IsPlace
<1>2. Placed(parent, child.at) \in Vector
  BY <1>1, AtIs DEF Placed, Plus, IsPlace, Vector
<1>3. (parent.quat + child.quat) % 4 \in 0 .. 3
  BY DEF IsPlace
<1> QED BY <1>2, <1>3 DEF Compose, IsPlace

(* The point of a frame that a point of the world is.                      *)
InFrame(place, v, d) == TurnBack(place.quat, Minus(v, Times(d, place.at)))
Framed(place, ball) == Ball(Plus(Times(ball.den, place.at), Turn(place.quat, ball.at)), ball.den, ball.squared)

LEMMA MinusIs ==
  ASSUME NEW v \in Vector, NEW at \in Vector, NEW d \in Int
  PROVE  /\ Minus(v, Times(d, at)) \in Vector
         /\ Plus(Times(d, at), v) \in Vector
         /\ Minus(Plus(Times(d, at), v), Times(d, at)) = v
<1>1. /\ v[1] \in Int /\ v[2] \in Int /\ v[3] \in Int /\ at[1] \in Int /\ at[2] \in Int /\ at[3] \in Int
      /\ v = <<v[1], v[2], v[3]>>
  BY AtIs
<1> DEFINE x == d * at[1]
           y == d * at[2]
           z == d * at[3]
<1>2. x \in Int /\ y \in Int /\ z \in Int
  <2>1. \A u \in Int : d * u \in Int
    OBVIOUS
  <2> QED BY <1>1, <2>1
<1>3. Times(d, at) = <<x, y, z>>
  BY DEF Times
<1> HIDE DEF x, y, z
<1>4. Minus(v, Times(d, at)) = <<v[1] - x, v[2] - y, v[3] - z>>
  BY <1>3 DEF Minus
<1>5. Plus(Times(d, at), v) = <<x + v[1], y + v[2], z + v[3]>>
  BY <1>3 DEF Plus
<1>6. Minus(Plus(Times(d, at), v), Times(d, at)) = <<(x + v[1]) - x, (y + v[2]) - y, (z + v[3]) - z>>
  BY <1>3, <1>5 DEF Minus
<1>7. (x + v[1]) - x = v[1] /\ (y + v[2]) - y = v[2] /\ (z + v[3]) - z = v[3]
  BY <1>1, <1>2
<1>8. v[1] - x \in Int /\ v[2] - y \in Int /\ v[3] - z \in Int /\ x + v[1] \in Int /\ y + v[2] \in Int /\ z + v[3] \in Int
  BY <1>1, <1>2
<1> QED BY <1>1, <1>4, <1>5, <1>6, <1>7, <1>8 DEF Vector

LEMMA FramedIs ==
  ASSUME NEW place, IsPlace(place), NEW ball \in Balls
  PROVE  /\ Framed(place, ball) \in Balls
         /\ Framed(place, ball).den = ball.den /\ Framed(place, ball).squared = ball.squared
         /\ InFrame(place, Framed(place, ball).at, ball.den) = ball.at
<1> DEFINE there == Turn(place.quat, ball.at)
           at == Plus(Times(ball.den, place.at), there)
<1>1. ball.at \in Vector /\ ball.den \in Nat \ {0} /\ ball.squared \in Nat /\ place.at \in Vector /\ place.quat \in 0 .. 3
  BY DEF Balls, IsPlace
<1>2. there \in Vector
  BY <1>1, TurnIs
<1>3. at \in Vector /\ Minus(at, Times(ball.den, place.at)) = there
  <2> DEFINE d == ball.den
  <2>1. d \in Int
    BY <1>1
  <2> HIDE DEF there, d
  <2>2. /\ Plus(Times(d, place.at), there) \in Vector
        /\ Minus(Plus(Times(d, place.at), there), Times(d, place.at)) = there
    BY <1>1, <1>2, <2>1, MinusIs
  <2> QED BY <2>2 DEF d
<1>4. /\ Framed(place, ball) \in Balls /\ Framed(place, ball).at = at
      /\ Framed(place, ball).den = ball.den /\ Framed(place, ball).squared = ball.squared
  <2>1. Framed(place, ball) = Ball(at, ball.den, ball.squared)
    BY DEF Framed
  <2> HIDE DEF at
  <2> QED BY <1>1, <1>3, <2>1, BallIs
<1>5. TurnBack(place.quat, there) = ball.at
  BY <1>1, TurnsBack
<1> HIDE DEF at, there
<1> QED BY <1>3, <1>4, <1>5 DEF InFrame

(* Distances are the same in every frame.                                  *)
LEMMA FramedGap ==
  ASSUME NEW place, IsPlace(place), NEW ball \in Balls, NEW v \in Vector, NEW d \in Nat \ {0}
  PROVE  /\ InFrame(place, v, d) \in Vector
         /\ SquaredDistance(Times(ball.den, v), Times(d, Framed(place, ball).at))
              = SquaredDistance(Times(ball.den, InFrame(place, v, d)), Times(d, ball.at))
<1> DEFINE u == Minus(v, Times(d, place.at))
           t == Turn(place.quat, ball.at)
           q == InFrame(place, v, d)
           D == ball.den
           o == place.at
<1>1. ball.at \in Vector /\ D \in Nat \ {0} /\ ball.squared \in Nat /\ o \in Vector /\ place.quat \in 0 .. 3
  BY DEF Balls, IsPlace
<1>2. u \in Vector /\ t \in Vector
  <2>1. d \in Int
    OBVIOUS
  <2>2. u \in Vector
    <3> HIDE DEF o
    <3> QED BY <1>1, <2>1, MinusIs DEF o
  <2>3. t \in Vector
    BY <1>1, TurnIs
  <2> QED BY <2>2, <2>3
<1>3. q \in Vector /\ Turn(place.quat, q) = u
  <2>1. q = TurnBack(place.quat, u)
    BY DEF InFrame
  <2> HIDE DEF u, q
  <2> QED BY <1>1, <1>2, <2>1, TurnsBack
<1>4. SquaredDistance(Times(D, u), Times(d, t)) = SquaredDistance(Times(D, q), Times(d, ball.at))
  <2> HIDE DEF q, D
  <2>1. SquaredDistance(Times(D, Turn(place.quat, q)), Times(d, Turn(place.quat, ball.at)))
          = SquaredDistance(Times(D, q), Times(d, ball.at))
    <3>1. D \in Int /\ d \in Int
      BY <1>1
    <3> QED BY <1>1, <1>3, <3>1, TurnKeepsGaps
  <2> QED BY <1>3, <2>1
<1>5. Framed(place, ball).at = Plus(Times(D, o), t)
  <2>1. Plus(Times(D, o), t) \in Vector
    <3> HIDE DEF t, D, o
    <3> QED BY <1>1, <1>2, MinusIs
  <2>2. Framed(place, ball) = Ball(Plus(Times(D, o), t), D, ball.squared)
    BY DEF Framed
  <2> HIDE DEF D, t, o
  <2> QED BY <1>1, <2>1, <2>2, BallIs
<1>6. SquaredDistance(Times(D, v), Times(d, Plus(Times(D, o), t))) = SquaredDistance(Times(D, u), Times(d, t))
  <2>1. /\ v[1] \in Int /\ v[2] \in Int /\ v[3] \in Int /\ o[1] \in Int /\ o[2] \in Int /\ o[3] \in Int
        /\ t[1] \in Int /\ t[2] \in Int /\ t[3] \in Int
    <3> HIDE DEF t, o
    <3> QED BY <1>1, <1>2, AtIs
  <2>2. u[1] = v[1] - d * o[1] /\ u[2] = v[2] - d * o[2] /\ u[3] = v[3] - d * o[3]
    BY DEF Minus, Times
  <2> HIDE DEF t, o, D, u
  <2>3. ASSUME NEW a \in Axes
        PROVE  D * v[a] - d * (D * o[a] + t[a]) = D * u[a] - d * t[a]
    <3> DEFINE x == v[a]
               y == o[a]
               z == t[a]
               w == u[a]
    <3>1. x \in Int /\ y \in Int /\ z \in Int /\ w = x - d * y
      <4>1. a = 1 \/ a = 2 \/ a = 3
        BY DEF Axes
      <4> QED BY <4>1, <2>1, <2>2
    <3> HIDE DEF x, y, z, w
    <3>2. D * x - d * (D * y + z) = D * w - d * z
      BY <1>1, <3>1
    <3> QED BY <3>2 DEF x, y, z, w
  <2>4. SquaredDistance(Times(D, v), Times(d, Plus(Times(D, o), t)))
          = Square(D * v[1] - d * (D * o[1] + t[1])) + Square(D * v[2] - d * (D * o[2] + t[2]))
            + Square(D * v[3] - d * (D * o[3] + t[3]))
    BY DEF SquaredDistance, Times, Plus
  <2>5. SquaredDistance(Times(D, u), Times(d, t))
          = Square(D * u[1] - d * t[1]) + Square(D * u[2] - d * t[2]) + Square(D * u[3] - d * t[3])
    BY DEF SquaredDistance, Times
  <2>6. /\ D * v[1] - d * (D * o[1] + t[1]) = D * u[1] - d * t[1]
        /\ D * v[2] - d * (D * o[2] + t[2]) = D * u[2] - d * t[2]
        /\ D * v[3] - d * (D * o[3] + t[3]) = D * u[3] - d * t[3]
    BY <2>3 DEF Axes
  <2> QED BY <2>4, <2>5, <2>6
<1> HIDE DEF u, t, D, o, q
<1>7. SquaredDistance(Times(D, v), Times(d, Framed(place, ball).at)) = SquaredDistance(Times(D, q), Times(d, ball.at))
  BY <1>4, <1>5, <1>6
<1> QED BY <1>3, <1>7 DEF D, q

-----------------------------------------------------------------------------
(* The spheres of one try.                                                 *)

(* What the scene or a URDF says of an object.                             *)
IsShape(s) ==
  /\ s.type \in Primitives /\ IsPlace(s.pose)
  /\ s.type = "box" => IsExtents(s.dimensions)
  /\ s.type = "cylinder" => s.dimensions[1] \in Nat /\ s.dimensions[2] \in Nat
  /\ s.type = "sphere" => s.dimensions[1] \in Nat
IsSpecs(specs) ==
  /\ Len(specs) \in Nat /\ DOMAIN specs = 1 .. Len(specs) /\ specs = [i \in 1 .. Len(specs) |-> specs[i]]
  /\ \A i \in 1 .. Len(specs) : IsShape(specs[i])
Points == [at : Vector, den : Nat \ {0}]

InLocal(q, d, s) ==
  /\ s.type = "box" => InBox(q, d, s.dimensions)
  /\ s.type = "cylinder" => InCylinder(q, d, s.dimensions[1], s.dimensions[2])
  /\ s.type = "sphere" => InSphere(q, d, s.dimensions[1])

(* A point is in a shape when it is, as the frame of the shape sees it.    *)
LEMMA InShapeIs ==
  ASSUME NEW p, NEW s, s.type \in Primitives, NEW object
  PROVE  InShape(p, s, object) <=> InLocal(InFrame(Compose(object, s.pose), p.at, p.den), p.den, s)
<1> DEFINE q == InFrame(Compose(object, s.pose), p.at, p.den)
<1>0. q = TurnBack(Compose(object, s.pose).quat, Minus(p.at, Times(p.den, Compose(object, s.pose).at)))
  BY DEF InFrame
<1>1. s.type = "box" \/ s.type = "cylinder" \/ s.type = "sphere"
  BY DEF Primitives
<1> HIDE DEF q
<1>2. CASE s.type = "box"
  <2>1. InShape(p, s, object) <=> InBox(q, p.den, s.dimensions)
    BY <1>0, <1>2 DEF InShape, InBox
  <2>2. InLocal(q, p.den, s) <=> InBox(q, p.den, s.dimensions)
    BY <1>2 DEF InLocal
  <2> QED BY <2>1, <2>2 DEF q
<1>3. CASE s.type = "cylinder"
  <2>1. InShape(p, s, object) <=> InCylinder(q, p.den, s.dimensions[1], s.dimensions[2])
    BY <1>0, <1>3 DEF InShape, InCylinder
  <2>2. InLocal(q, p.den, s) <=> InCylinder(q, p.den, s.dimensions[1], s.dimensions[2])
    BY <1>3 DEF InLocal
  <2> QED BY <2>1, <2>2 DEF q
<1>4. CASE s.type = "sphere"
  <2>1. InShape(p, s, object) <=> InSphere(q, p.den, s.dimensions[1])
    BY <1>0, <1>4 DEF InShape, InSphere
  <2>2. InLocal(q, p.den, s) <=> InSphere(q, p.den, s.dimensions[1])
    BY <1>4 DEF InLocal
  <2> QED BY <2>1, <2>2 DEF q
<1> QED BY <1>1, <1>2, <1>3, <1>4

(* The spheres of a shape, in its own frame.                               *)
FillsLocally(list, s) ==
  /\ list \in Seq(Balls) /\ Len(list) >= 1
  /\ \A m \in 1 .. Len(list) :
       /\ InLocal(list[m].at, list[m].den, s)
       /\ s.type = "sphere" => FitsSphere(list[m], s.dimensions[1])
  /\ s.type = "box" => \A q \in Vector, d \in Nat \ {0} :
       InLocal(q, d, s) => CoveredBy(list, [at |-> q, den |-> d])
LEMMA LocalSpheresFill ==
  ASSUME NEW s, IsShape(s), NEW target, IsAim(target), NEW maximum \in Int
  PROVE  FillsLocally(LocalSpheres(s, target, maximum), s)
<1> DEFINE list == LocalSpheres(s, target, maximum)
           e == s.dimensions
<1>1. s.type = "box" \/ s.type = "cylinder" \/ s.type = "sphere"
  BY DEF Primitives, IsShape
<1>2. CASE s.type = "box"
  <2> DEFINE n == GridCounts(e, target, maximum)
  <2>1. IsExtents(e)
    BY <1>2 DEF IsShape
  <2>2. n \in Counts
    BY <2>1, GridCountsAreCapped DEF IsExtents
  <2>3. list = BoxGrid(e, n)
    BY <1>2 DEF LocalSpheres, BuildBox
  <2> HIDE DEF n, list, e
  <2>4. /\ list \in Seq(Balls) /\ Len(list) = Cells(n)
        /\ \A m \in 1 .. Cells(n) : InBox(list[m].at, list[m].den, e)
        /\ \A q \in Vector, d \in Nat \ {0} : InBox(q, d, e) => CoveredBy(list, [at |-> q, den |-> d])
    BY <2>1, <2>2, <2>3, BoxFills
  <2>5. Cells(n) \in Nat \ {0}
    BY <2>2, CellsOf
  <2>6. \A q, d : InLocal(q, d, s) <=> InBox(q, d, e)
    BY <1>2 DEF InLocal, e
  <2> QED BY <1>2, <2>4, <2>5, <2>6 DEF FillsLocally, list
<1>3. CASE s.type = "cylinder"
  <2> DEFINE h == e[1]
             r == e[2]
             extents == <<2 * r, 2 * r, h>>
             n == GridCounts(extents, target, maximum)
  <2>1. h \in Nat /\ r \in Nat
    BY <1>3 DEF IsShape
  <2>2. n \in Counts
    <3>1. \A a \in Axes : extents[a] \in Nat
      BY <2>1 DEF Axes
    <3> HIDE DEF extents
    <3> QED BY <3>1, GridCountsAreCapped
  <2>3. list = CylinderGrid(h, r, n)
    BY <1>3 DEF LocalSpheres, BuildCylinder
  <2> HIDE DEF n, list, h, r, extents
  <2>4. /\ list \in Seq(Balls) /\ Len(list) >= 1
        /\ \A m \in 1 .. Len(list) : InCylinder(list[m].at, list[m].den, h, r)
    BY <2>1, <2>2, <2>3, CylinderFills
  <2>6. \A q, d : InLocal(q, d, s) <=> InCylinder(q, d, h, r)
    BY <1>3 DEF InLocal, h, r
  <2> QED BY <1>3, <2>4, <2>6 DEF FillsLocally, list
<1>4. CASE s.type = "sphere"
  <2> DEFINE r == e[1]
             extents == <<2 * r, 2 * r, 2 * r>>
             n == GridCounts(extents, target, maximum)
             k == n[1]
  <2>1. r \in Nat
    BY <1>4 DEF IsShape
  <2>2. n \in Counts
    <3>1. \A a \in Axes : extents[a] \in Nat
      BY <2>1 DEF Axes
    <3> HIDE DEF extents
    <3> QED BY <3>1, GridCountsAreCapped
  <2>3. k \in Nat \ {0}
    <3> HIDE DEF n
    <3> QED BY <2>2, CellsOf
  <2>4. list = SphereGrid(r, k)
    BY <1>4 DEF LocalSpheres, BuildSphere
  <2> HIDE DEF n, k, list, r, extents
  <2>5. /\ list \in Seq(Balls) /\ Len(list) >= 1
        /\ \A m \in 1 .. Len(list) : InSphere(list[m].at, list[m].den, r) /\ FitsSphere(list[m], r)
    BY <2>1, <2>3, <2>4, SphereFills
  <2>6. \A q, d : InLocal(q, d, s) <=> InSphere(q, d, r)
    BY <1>4 DEF InLocal, r
  <2>7. \A m \in 1 .. Len(list) : FitsSphere(list[m], s.dimensions[1])
    BY <2>5 DEF r
  <2> QED BY <1>4, <2>5, <2>6, <2>7 DEF FillsLocally, list
<1> QED BY <1>1, <1>2, <1>3, <1>4

LEMMA MinusZero ==
  ASSUME NEW x \in Int, x = 0
  PROVE  -x = 0
<1> DEFINE y == -x
<1>1. y \in Int /\ x + y = 0
  OBVIOUS
<1> HIDE DEF y
<1>2. y = 0
  BY <1>1
<1> QED BY <1>2 DEF y

(* The same in the frame of the gripper.                                   *)
Fills(list, s, object) ==
  /\ list \in Seq(Balls)
  /\ \A m \in 1 .. Len(list) :
       /\ InShape(list[m], s, object)
       /\ s.type = "sphere" => Fits(list[m], s, object)
  /\ s.type = "box" => \A p \in Points : InShape(p, s, object) => CoveredBy(list, p)
LEMMA FramedFill ==
  ASSUME NEW s, IsShape(s), NEW object, IsPlace(object), NEW list, FillsLocally(list, s)
  PROVE  /\ Fills(ToFrame(Compose(object, s.pose), list), s, object)
         /\ Len(ToFrame(Compose(object, s.pose), list)) >= 1
<1> DEFINE place == Compose(object, s.pose)
           there == ToFrame(place, list)
           N == Len(list)
<1>1. IsPlace(place) /\ s.type \in Primitives
  BY ComposeIs DEF IsShape
<1>2. list \in Seq(Balls) /\ N \in Nat /\ N >= 1 /\ DOMAIN list = 1 .. N /\ \A m \in 1 .. N : list[m] \in Balls
  BY DEF FillsLocally
<1>3. there = [m \in 1 .. N |-> Framed(place, list[m])]
  BY <1>2 DEF ToFrame, Framed
<1> HIDE DEF place
<1>4. \A m \in 1 .. N : Framed(place, list[m]) \in Balls
  BY <1>1, <1>2, FramedIs
<1> HIDE DEF N, there
<1>5. /\ there \in Seq(Balls) /\ Len(there) = N /\ DOMAIN there = 1 .. N
      /\ \A m \in 1 .. N : there[m] = Framed(place, list[m])
  <2> DEFINE F(m) == Framed(place, list[m])
  <2>1. there = [m \in 1 .. N |-> F(m)] /\ \A m \in 1 .. N : F(m) \in Balls
    BY <1>3, <1>4
  <2> HIDE DEF F
  <2>2. /\ there \in Seq(Balls) /\ Len(there) = N /\ DOMAIN there = 1 .. N
        /\ \A m \in 1 .. N : there[m] = F(m)
    BY <1>2, <2>1
  <2> QED BY <2>2 DEF F
<1>6. ASSUME NEW m \in 1 .. N
      PROVE  /\ InShape(there[m], s, object)
             /\ s.type = "sphere" => Fits(there[m], s, object)
  <2> DEFINE b == list[m]
             c == there[m]
  <2>1. b \in Balls /\ c = Framed(place, b)
    BY <1>2, <1>5
  <2>2. b.at \in Vector /\ b.den \in Nat \ {0}
    <3> HIDE DEF b
    <3> QED BY <2>1 DEF Balls
  <2>3. InLocal(b.at, b.den, s) /\ (s.type = "sphere" => FitsSphere(b, s.dimensions[1]))
    BY DEF FillsLocally, N
  <2> HIDE DEF b, c
  <2>4. c \in Balls /\ c.den = b.den /\ c.squared = b.squared /\ InFrame(place, c.at, b.den) = b.at
    BY <1>1, <2>1, FramedIs
  <2>5. InShape(c, s, object)
    <3>1. InShape(c, s, object) <=> InLocal(InFrame(place, c.at, c.den), c.den, s)
      BY <1>1, InShapeIs DEF place
    <3> QED BY <2>3, <2>4, <3>1
  <2>6. ASSUME s.type = "sphere" PROVE Fits(c, s, object)
    <3>1. FitsSphere(b, s.dimensions[1])
      BY <2>3, <2>6
    <3> DEFINE o == place.at
    <3>2. SquaredDistance(c.at, Times(c.den, o)) = SquaredDistance(b.at, Origin)
      <4> DEFINE D == b.den
                 t == Turn(place.quat, b.at)
                 p == Times(D, o)
      <4>1. o \in Vector /\ place.quat \in 0 .. 3
        BY <1>1 DEF IsPlace
      <4>2. t \in Vector
        BY <2>2, <4>1, TurnIs
      <4>3. c.at = Plus(p, t)
        <5>1. Plus(p, t) \in Vector
          <6>1. D \in Int
            BY <2>2
          <6> HIDE DEF D, t, o
          <6> QED BY <4>1, <4>2, <6>1, MinusIs
        <5>2. c = Ball(Plus(p, t), D, b.squared) /\ b.squared \in Nat
          BY <2>1 DEF Framed, Balls
        <5> HIDE DEF t, p, D
        <5> QED BY <2>2, <5>1, <5>2, BallIs DEF D
      <4>4. t[1] \in Int /\ t[2] \in Int /\ t[3] \in Int /\ p[1] \in Int /\ p[2] \in Int /\ p[3] \in Int
        <5>1. t[1] \in Int /\ t[2] \in Int /\ t[3] \in Int
          <6> HIDE DEF t
          <6> QED BY <4>2, AtIs
        <5>2. o[1] \in Int /\ o[2] \in Int /\ o[3] \in Int /\ D \in Int
          <6> HIDE DEF o
          <6> QED BY <2>2, <4>1, AtIs
        <5>3. p[1] = D * o[1] /\ p[2] = D * o[2] /\ p[3] = D * o[3]
          BY DEF Times
        <5>4. \A x, y \in Int : x * y \in Int
          OBVIOUS
        <5> HIDE DEF o, D, t, p
        <5> QED BY <5>1, <5>2, <5>3, <5>4
      <4> HIDE DEF t, p
      <4>5. (p[1] + t[1]) - p[1] = t[1] /\ (p[2] + t[2]) - p[2] = t[2] /\ (p[3] + t[3]) - p[3] = t[3]
        BY <4>4
      <4>6. SquaredDistance(c.at, p) = Square(t[1]) + Square(t[2]) + Square(t[3])
        BY <4>3, <4>5 DEF SquaredDistance, Plus
      <4>7. SquaredDistance(b.at, Origin) = Square(t[1]) + Square(t[2]) + Square(t[3])
        <5>0. /\ 1 \in Int /\ Origin \in Vector
          BY OriginIs
        <5>1. SquaredDistance(Times(1, Turn(place.quat, b.at)), Times(1, Turn(place.quat, Origin)))
                = SquaredDistance(Times(1, b.at), Times(1, Origin))
          BY <2>2, <4>1, <5>0, TurnKeepsGaps
        <5>2. Turn(place.quat, Origin)[1] = 0 /\ Turn(place.quat, Origin)[2] = 0 /\ Turn(place.quat, Origin)[3] = 0
          <6>2. place.quat = 0 \/ place.quat = 1 \/ place.quat = 2 \/ place.quat = 3
            BY <4>1
          <6>3. Origin[1] = 0 /\ Origin[2] = 0 /\ Origin[3] = 0 /\ -Origin[1] = 0 /\ -Origin[2] = 0
            <7>1. Origin[1] \in Int /\ Origin[2] \in Int /\ Origin[1] = 0 /\ Origin[2] = 0 /\ Origin[3] = 0
              BY OriginIs
            <7> QED BY <7>1, MinusZero
          <6> QED BY <4>1, <5>0, <6>2, <6>3, TurnIs
        <5>3. \A x \in Int : 1 * x = x /\ 1 * x - 1 * 0 = x
          OBVIOUS
        <5>4. SquaredDistance(Times(1, b.at), Times(1, Origin)) = SquaredDistance(b.at, Origin)
          <6>1. b.at[1] \in Int /\ b.at[2] \in Int /\ b.at[3] \in Int
            BY <2>2, AtIs
          <6> QED BY <5>3, <6>1, OriginIs DEF SquaredDistance, Times
        <5>5. SquaredDistance(Times(1, t), Times(1, Turn(place.quat, Origin)))
                = Square(t[1]) + Square(t[2]) + Square(t[3])
          BY <4>4, <5>2, <5>3 DEF SquaredDistance, Times
        <5> QED BY <5>1, <5>4, <5>5 DEF t
      <4> QED BY <2>4, <4>6, <4>7 DEF p
    <3> QED BY <2>4, <3>1, <3>2 DEF Fits, FitsSphere, place
  <2> QED BY <2>5, <2>6 DEF c
<1>7. ASSUME s.type = "box", NEW p \in Points, InShape(p, s, object)
      PROVE  CoveredBy(there, p)
  <2> DEFINE q == InFrame(place, p.at, p.den)
             d == p.den
  <2>1. p.at \in Vector /\ d \in Nat \ {0}
    BY DEF Points
  <2>2. InLocal(q, d, s)
    BY <1>1, <1>7, InShapeIs DEF place
  <2>3. q \in Vector
    <3>1. PICK b : b \in Balls
      BY <1>2
    <3> HIDE DEF d
    <3> QED BY <1>1, <2>1, <3>1, FramedGap DEF d
  <2>4. CoveredBy(list, [at |-> q, den |-> d])
    <3> HIDE DEF q, d
    <3> QED BY <1>7, <2>1, <2>2, <2>3 DEF FillsLocally
  <2> HIDE DEF q
  <2>5. PICK m \in 1 .. N :
          SquaredDistance(Times(list[m].den, q), Times(d, list[m].at)) <= Square(d) * list[m].squared
    BY <1>2, <2>4 DEF CoveredBy
  <2> DEFINE b == list[m]
             c == there[m]
  <2>6. b \in Balls /\ c = Framed(place, b)
    BY <1>2, <1>5
  <2>7. SquaredDistance(Times(b.den, q), Times(d, b.at)) <= Square(d) * b.squared
    BY <2>5
  <2> HIDE DEF b, c, d
  <2>8. c.den = b.den /\ c.squared = b.squared
    BY <1>1, <2>6, FramedIs
  <2>9. SquaredDistance(Times(b.den, p.at), Times(d, c.at)) = SquaredDistance(Times(b.den, q), Times(d, b.at))
    BY <1>1, <2>1, <2>6, FramedGap DEF q, d
  <2>10. SquaredDistance(Times(c.den, p.at), Times(p.den, c.at)) <= Square(p.den) * c.squared
    BY <2>7, <2>8, <2>9 DEF d
  <2> QED BY <1>5, <2>10 DEF CoveredBy, c
<1> QED BY <1>2, <1>5, <1>6, <1>7 DEF Fills, there, place

(* All the spheres of one try.                                             *)
FillsAll(list, specs, object) ==
  /\ list \in Seq(Balls) /\ (Len(list) = 0 <=> Len(specs) = 0)
  /\ \A m \in 1 .. Len(list) : \E i \in 1 .. Len(specs) :
       InShape(list[m], specs[i], object) /\ (specs[i].type = "sphere" => Fits(list[m], specs[i], object))
  /\ \A i \in 1 .. Len(specs) : specs[i].type = "box" =>
       \A p \in Points : InShape(p, specs[i], object) => CoveredBy(list, p)
LEMMA BuildOnceFills ==
  ASSUME NEW specs, IsSpecs(specs), NEW object, IsPlace(object),
         NEW target, IsAim(target), NEW maximum \in Int
  PROVE  FillsAll(BuildOnce(specs, object, target, maximum), specs, object)
<1> DEFINE n == Len(specs)
           F(i) == ToFrame(Compose(object, specs[i].pose), LocalSpheres(specs[i], target, maximum))
           lists == [i \in 1 .. n |-> F(i)]
           list == BuildOnce(specs, object, target, maximum)
<1>1. n \in Nat /\ DOMAIN specs = 1 .. n /\ \A i \in 1 .. n : IsShape(specs[i])
  BY DEF IsSpecs
<1>2. ASSUME NEW i \in 1 .. n PROVE Fills(F(i), specs[i], object) /\ Len(F(i)) >= 1
  BY <1>1, LocalSpheresFill, FramedFill
<1>3. list = Joined(lists)
  BY <1>1 DEF BuildOnce
<1> HIDE DEF F, list, n
<1>4. \A i \in 1 .. n : F(i) \in Seq(Balls)
  BY <1>2 DEF Fills
<1>5. lists \in Seq(Seq(Balls)) /\ Len(lists) = n /\ \A i \in 1 .. n : lists[i] = F(i)
  BY <1>1, <1>4
<1> HIDE DEF lists
<1>6. /\ list \in Seq(Balls)
      /\ \A m \in 1 .. Len(list) : \E i \in 1 .. n : \E k \in 1 .. Len(F(i)) : list[m] = F(i)[k]
      /\ \A i \in 1 .. n : \A k \in 1 .. Len(F(i)) : \E m \in 1 .. Len(list) : list[m] = F(i)[k]
  <2>1. IsJoined(list, lists, Balls)
    BY <1>3, <1>5, JoinedHasAll
  <2>2. list \in Seq(Balls)
    BY <2>1 DEF IsJoined
  <2>3. ASSUME NEW m \in 1 .. Len(list) PROVE \E i \in 1 .. n : \E k \in 1 .. Len(F(i)) : list[m] = F(i)[k]
    <3>1. PICK i \in 1 .. Len(lists) : \E k \in 1 .. Len(lists[i]) : list[m] = lists[i][k]
      BY <2>1 DEF IsJoined
    <3> QED BY <1>5, <3>1
  <2>4. ASSUME NEW i \in 1 .. n, NEW k \in 1 .. Len(F(i)) PROVE \E m \in 1 .. Len(list) : list[m] = F(i)[k]
    <3>1. i \in 1 .. Len(lists) /\ lists[i] = F(i)
      BY <1>5
    <3>2. \A l \in 1 .. Len(lists[i]) : \E m \in 1 .. Len(list) : list[m] = lists[i][l]
      BY <2>1, <3>1 DEF IsJoined
    <3> QED BY <3>1, <3>2
  <2> QED BY <2>2, <2>3, <2>4
<1>7. Len(list) \in Nat /\ DOMAIN list = 1 .. Len(list)
  BY <1>6
<1>8. Len(list) = 0 <=> n = 0
  <2>1. ASSUME n # 0 PROVE Len(list) # 0
    <3>1. 1 \in 1 .. n
      BY <1>1, <2>1
    <3>2. Len(F(1)) >= 1 /\ Len(F(1)) \in Nat
      BY <1>2, <1>4, <3>1
    <3>3. 1 \in 1 .. Len(F(1))
      BY <3>2
    <3>4. \E m \in 1 .. Len(list) : list[m] = F(1)[1]
      BY <1>6, <3>1, <3>3
    <3> QED BY <1>7, <3>4
  <2>2. ASSUME n = 0 PROVE Len(list) = 0
    <3>1. ~ (1 \in 1 .. Len(list))
      BY <1>6, <2>2
    <3> QED BY <1>7, <3>1
  <2> QED BY <2>1, <2>2
<1>9. ASSUME NEW m \in 1 .. Len(list)
      PROVE  \E i \in 1 .. n : InShape(list[m], specs[i], object)
                               /\ (specs[i].type = "sphere" => Fits(list[m], specs[i], object))
  <2>0. PICK i \in 1 .. n : \E k \in 1 .. Len(F(i)) : list[m] = F(i)[k]
    BY <1>6
  <2>1. PICK k \in 1 .. Len(F(i)) : list[m] = F(i)[k]
    BY <2>0
  <2>2. InShape(F(i)[k], specs[i], object) /\ (specs[i].type = "sphere" => Fits(F(i)[k], specs[i], object))
    BY <1>2 DEF Fills
  <2> QED BY <2>1, <2>2
<1>10. ASSUME NEW i \in 1 .. n, specs[i].type = "box", NEW p \in Points, InShape(p, specs[i], object)
       PROVE  CoveredBy(list, p)
  <2>1. CoveredBy(F(i), p)
    BY <1>2, <1>10 DEF Fills
  <2>2. DOMAIN F(i) = 1 .. Len(F(i))
    BY <1>4
  <2>3. PICK k \in 1 .. Len(F(i)) :
          SquaredDistance(Times(F(i)[k].den, p.at), Times(p.den, F(i)[k].at)) <= Square(p.den) * F(i)[k].squared
    BY <2>1, <2>2 DEF CoveredBy
  <2>4. PICK m \in 1 .. Len(list) : list[m] = F(i)[k]
    BY <1>6
  <2> QED BY <1>7, <2>3, <2>4 DEF CoveredBy
<1> QED BY <1>6, <1>8, <1>9, <1>10 DEF FillsAll, list, n

-----------------------------------------------------------------------------
(* A sphere that fits does not protrude.                                   *)

(* The product of two vectors is no more than that of their lengths.       *)
Product(c, d) == c[1] * d[1] + c[2] * d[2] + c[3] * d[3]
Length(c) == Square(c[1]) + Square(c[2]) + Square(c[3])
LEMMA ProductIs ==
  ASSUME NEW c \in Vector, NEW d \in Vector
  PROVE  /\ Product(c, d) \in Int /\ Length(c) \in Nat /\ Length(d) \in Nat /\ Length(Plus(c, d)) \in Nat
         /\ Product(c, d) * Product(c, d) <= Length(c) * Length(d)
         /\ Length(Plus(c, d)) = Length(c) + 2 * Product(c, d) + Length(d)
<1>1. c[1] \in Int /\ c[2] \in Int /\ c[3] \in Int /\ d[1] \in Int /\ d[2] \in Int /\ d[3] \in Int
  BY AtIs
<1>2. ASSUME NEW x \in Int, NEW y \in Int, NEW z \in Int, NEW u \in Int, NEW v \in Int, NEW w \in Int
      PROVE  /\ x * u + y * v + z * w \in Int /\ x * x + y * y + z * z \in Nat
             /\ (x + u) * (x + u) + (y + v) * (y + v) + (z + w) * (z + w)
                  = (x * x + y * y + z * z) + 2 * (x * u + y * v + z * w) + (u * u + v * v + w * w)
             /\ (x * u + y * v + z * w) * (x * u + y * v + z * w)
                  <= (x * x + y * y + z * z) * (u * u + v * v + w * w)
  <2>1. /\ x * x \in Nat /\ y * y \in Nat /\ z * z \in Nat
        /\ x * u \in Int /\ y * v \in Int /\ z * w \in Int
    OBVIOUS
  <2>2. (x + u) * (x + u) + (y + v) * (y + v) + (z + w) * (z + w)
          = (x * x + y * y + z * z) + 2 * (x * u + y * v + z * w) + (u * u + v * v + w * w)
    OBVIOUS
  <2> DEFINE a == x * v - y * u
             b == x * w - z * u
             g == y * w - z * v
             P == (x * x + y * y + z * z) * (u * u + v * v + w * w)
             Q == (x * u + y * v + z * w) * (x * u + y * v + z * w)
  <2>3. P = Q + a * a + b * b + g * g
    OBVIOUS
  <2>4. a \in Int /\ b \in Int /\ g \in Int /\ P \in Int /\ Q \in Int
    OBVIOUS
  <2>5. Q <= P
    <3> HIDE DEF a, b, g, P, Q
    <3>1. a * a \in Nat /\ b * b \in Nat /\ g * g \in Nat
      BY <2>4
    <3> QED BY <2>3, <2>4, <3>1
  <2> QED BY <2>1, <2>2, <2>5
<1>3. /\ Plus(c, d)[1] = c[1] + d[1] /\ Plus(c, d)[2] = c[2] + d[2] /\ Plus(c, d)[3] = c[3] + d[3]
  BY DEF Plus
<1>4. c[1] + d[1] \in Int /\ c[2] + d[2] \in Int /\ c[3] + d[3] \in Int
  BY <1>1
<1>5. Length(Plus(c, d)) \in Nat
  BY <1>2, <1>3, <1>4 DEF Length, Square
<1>6. /\ Product(c, d) \in Int /\ Length(c) \in Nat
      /\ Product(c, d) * Product(c, d) <= Length(c) * Length(d)
  BY <1>1, <1>2 DEF Product, Length, Square
<1>7. Length(d) \in Nat
  BY <1>1, <1>2 DEF Length, Square
<1>8. Length(Plus(c, d)) = Length(c) + 2 * Product(c, d) + Length(d)
  BY <1>1, <1>2, <1>3 DEF Product, Length, Square
<1> QED BY <1>5, <1>6, <1>7, <1>8

(* What fits stays within the greater radius.                              *)
LEMMA StaysWithin ==
  ASSUME NEW c \in Vector, NEW d \in Vector, NEW h \in Nat, NEW R \in Nat, Length(d) <= h, h <= R,
         \/ Length(c) = 0
         \/ /\ Length(c) + h <= R
            /\ 4 * (Length(c) * h) <= (R - Length(c) - h) * (R - Length(c) - h)
  PROVE  Length(Plus(c, d)) <= R
<1> DEFINE s == Length(c)
           e == Length(d)
           x == Product(c, d)
           t == R - s - h
<1>1. /\ x \in Int /\ s \in Nat /\ e \in Nat /\ x * x <= s * e /\ Length(Plus(c, d)) = s + 2 * x + e
  BY ProductIs
<1> HIDE DEF s, e, x
<1>2. CASE s = 0
  <2>1. x * x <= 0
    BY <1>1, <1>2
  <2>2. x = 0
    BY <1>1, <2>1
  <2> QED BY <1>1, <1>2, <2>2 DEF e
<1>3. CASE s + h <= R /\ 4 * (s * h) <= t * t
  <2>1. t \in Nat /\ R = s + h + t
    BY <1>1, <1>3
  <2>2. s * e <= s * h /\ s * e \in Nat /\ s * h \in Nat
    <3>1. e <= h
      BY DEF e
    <3> QED BY <1>1, <3>1
  <2> HIDE DEF t
  <2>3. 2 * x <= t
    <3>1. SUFFICES ASSUME 2 * x > t PROVE FALSE
      BY <1>1, <2>1
    <3>2. x \in Nat /\ 2 * x >= t + 1
      BY <1>1, <2>1, <3>1
    <3>3. (2 * x) * (2 * x) >= (t + 1) * (t + 1)
      BY <2>1, <3>2
    <3>4. (t + 1) * (t + 1) = t * t + 2 * t + 1 /\ (2 * x) * (2 * x) = 4 * (x * x)
      BY <2>1, <3>2
    <3>5. t * t \in Nat /\ x * x \in Nat
      BY <2>1, <3>2
    <3> DEFINE X == x * x
               T == t * t
    <3>6. 4 * X >= T + 2 * t + 1
      BY <3>3, <3>4
    <3>7. X \in Nat /\ T \in Nat /\ X <= s * e /\ 4 * (s * h) <= T
      BY <1>1, <1>3, <3>5
    <3> DEFINE V == s * e
               W == s * h
    <3> HIDE DEF X, T, V, W
    <3>8. X <= V /\ V <= W /\ 4 * W <= T /\ V \in Nat /\ W \in Nat
      BY <2>2, <3>7 DEF V, W
    <3> QED BY <2>1, <3>6, <3>7, <3>8
  <2>4. e <= h
    BY DEF e
  <2> QED BY <1>1, <2>1, <2>3, <2>4
<1> QED BY <1>2, <1>3 DEF s, t

(* The test does not depend on the unit.                                   *)
LEMMA Scaled ==
  ASSUME NEW D \in Nat, NEW s \in Nat, NEW h \in Nat, NEW R \in Nat
  PROVE  /\ Square(D) * s \in Nat
         /\ h <= R => Square(D) * h <= Square(D) * R
         /\ s + h <= R => Square(D) * s + Square(D) * h <= Square(D) * R
         /\ 4 * (s * h) <= Square(R - s - h) =>
              4 * ((Square(D) * s) * (Square(D) * h))
                <= Square(Square(D) * R - Square(D) * s - Square(D) * h)
<1> DEFINE N == Square(D)
<1>1. N \in Nat
  BY DEF Square
<1> HIDE DEF N
<1>2. ASSUME NEW x \in Int, NEW y \in Int, x <= y
      PROVE  N * x <= N * y
  BY <1>1, <1>2
<1>3. N * s \in Nat /\ N * s + N * h = N * (s + h) /\ N * R - N * s - N * h = N * (R - s - h)
  BY <1>1
<1>4. ASSUME 4 * (s * h) <= Square(R - s - h)
      PROVE  4 * ((N * s) * (N * h)) <= Square(N * R - N * s - N * h)
  <2> DEFINE t == R - s - h
             x == 4 * (s * h)
             y == t * t
  <2>1. t \in Int /\ x \in Int /\ y \in Int /\ x <= y
    BY <1>4 DEF Square
  <2>2. N * x <= N * y
    <3> HIDE DEF x, y
    <3> QED BY <1>2, <2>1
  <2>3. N * x \in Int /\ N * y \in Int
    <3> HIDE DEF x, y
    <3> QED BY <1>1, <2>1
  <2>4. N * (N * x) <= N * (N * y)
    <3> DEFINE u == N * x
               v == N * y
    <3>1. u \in Int /\ v \in Int /\ u <= v
      BY <2>2, <2>3
    <3> HIDE DEF u, v
    <3>2. N * u <= N * v
      BY <1>2, <3>1
    <3> QED BY <3>2 DEF u, v
  <2>5. N * (N * x) = 4 * ((N * s) * (N * h))
    BY <1>1
  <2>6. N * (N * y) = (N * t) * (N * t)
    <3>1. \A a \in Int : N * (N * (a * a)) = (N * a) * (N * a)
      BY <1>1
    <3> HIDE DEF t
    <3> QED BY <2>1, <3>1
  <2>7. N * R - N * s - N * h = N * t
    BY <1>3
  <2> HIDE DEF t, x, y
  <2> QED BY <2>4, <2>5, <2>6, <2>7 DEF Square
<1>5. s + h <= R => N * (s + h) <= N * R
  BY <1>2
<1>6. h <= R => N * h <= N * R
  BY <1>2
<1> QED BY <1>3, <1>4, <1>5, <1>6 DEF N

(* A ball that fits, as Fits tells by squares, has no point outside.       *)
LEMMA FittingIsInside ==
  ASSUME NEW s, IsShape(s), s.type = "sphere", NEW object, IsPlace(object),
         NEW ball \in Balls, Fits(ball, s, object), NEW p \in Points, CoveredBy(<<ball>>, p)
  PROVE  InShape(p, s, object)
<1> DEFINE place == Compose(object, s.pose)
           o == place.at
           r == s.dimensions[1]
           e == ball.den
           D == p.den
           cc == Minus(ball.at, Times(e, o))
           u == Minus(p.at, Times(D, o))
           c == Times(D, cc)
           d == Minus(Times(e, p.at), Times(D, ball.at))
           k == e * r
           S == Length(cc)
           h == ball.squared
<1>1. IsPlace(place) /\ s.type \in Primitives /\ r \in Nat
  BY ComposeIs DEF IsShape
<1>2. o \in Vector /\ place.quat \in 0 .. 3
  BY <1>1 DEF IsPlace
<1>3. ball.at \in Vector /\ e \in Nat \ {0} /\ h \in Nat /\ p.at \in Vector /\ D \in Nat \ {0}
  BY DEF Balls, Points
<1>4. SquaredDistance(Times(e, p.at), Times(D, ball.at)) <= Square(D) * h
  BY DEF CoveredBy
<1>5. h <= k * k /\ Inscribed(SquaredDistance(ball.at, Times(e, o)), h, k)
  BY DEF Fits
<1> HIDE DEF place, o, r, e, D, h
<1>6. cc \in Vector /\ u \in Vector
  <2>1. e \in Int /\ D \in Int
    BY <1>3
  <2> QED BY <1>2, <1>3, <2>1, MinusIs
<1>7. SquaredDistance(ball.at, Times(e, o)) = S
  BY DEF SquaredDistance, Length, Minus
<1>8. k \in Nat /\ k * k \in Nat /\ S \in Nat
  <2>1. k \in Nat
    BY <1>1, <1>3
  <2>2. S \in Nat
    <3> HIDE DEF cc
    <3> QED BY <1>6, ProductIs
  <2> HIDE DEF k
  <2> QED BY <2>1, <2>2
<1>9. /\ ball.at[1] \in Int /\ ball.at[2] \in Int /\ ball.at[3] \in Int
      /\ p.at[1] \in Int /\ p.at[2] \in Int /\ p.at[3] \in Int
      /\ o[1] \in Int /\ o[2] \in Int /\ o[3] \in Int
  BY <1>2, <1>3, AtIs
<1>10. c \in Vector /\ d \in Vector
  <2>1. \A x, y, i, j \in Int : i * x \in Int /\ i * x - j * y \in Int
    OBVIOUS
  <2>2. e \in Int /\ D \in Int
    BY <1>3
  <2>3. cc[1] \in Int /\ cc[2] \in Int /\ cc[3] \in Int
    <3> HIDE DEF cc
    <3> QED BY <1>6, AtIs
  <2>4. c \in Vector
    <3> HIDE DEF cc
    <3> QED BY <2>1, <2>2, <2>3 DEF Times, Vector
  <2>5. d \in Vector
    BY <1>9, <2>1, <2>2 DEF Minus, Times, Vector
  <2> QED BY <2>4, <2>5
<1>11. Plus(c, d) = Times(e, u)
  <2>1. \A x, y, z \in Int : D * (y - e * z) + (e * x - D * y) = e * (x - D * z)
    BY <1>3
  <2>2. \A i \in Axes : D * (ball.at[i] - e * o[i]) + (e * p.at[i] - D * ball.at[i]) = e * (p.at[i] - D * o[i])
    <3> TAKE i \in Axes
    <3>1. i = 1 \/ i = 2 \/ i = 3
      BY DEF Axes
    <3> QED BY <1>9, <2>1, <3>1
  <2>3. 1 \in Axes /\ 2 \in Axes /\ 3 \in Axes
    BY DEF Axes
  <2> QED BY <2>2, <2>3 DEF Plus, Minus, Times
<1>12. Length(c) = Square(D) * S
  <2>1. \A x, y, z \in Int : (D * x) * (D * x) + (D * y) * (D * y) + (D * z) * (D * z)
                               = (D * D) * (x * x + y * y + z * z)
    BY <1>3
  <2> HIDE DEF cc
  <2>2. cc[1] \in Int /\ cc[2] \in Int /\ cc[3] \in Int
    BY <1>6, AtIs
  <2> QED BY <2>1, <2>2 DEF Length, Square, Times
<1>13. Length(d) <= Square(D) * h
  BY <1>4 DEF Length, SquaredDistance, Minus
<1> DEFINE R == k * k
<1>14. /\ D \in Nat /\ Square(D) * S \in Nat /\ Square(D) * h \in Nat /\ Square(D) * R \in Nat
       /\ Square(D) * h <= Square(D) * R
       /\ \/ Square(D) * S = 0
          \/ /\ Square(D) * S + Square(D) * h <= Square(D) * R
             /\ 4 * ((Square(D) * S) * (Square(D) * h))
                  <= Square(Square(D) * R - Square(D) * S - Square(D) * h)
  <2>1. S = 0 \/ (S + h <= R /\ 4 * (S * h) <= Square(R - S - h))
    BY <1>5, <1>7 DEF Inscribed
  <2>2. R \in Nat /\ h <= R
    BY <1>5, <1>8
  <2>3. D \in Nat /\ Square(D) \in Int
    BY <1>3 DEF Square
  <2>4. S = 0 => Square(D) * S = 0
    BY <2>3
  <2> HIDE DEF S, R
  <2> QED BY <1>3, <1>8, <2>1, <2>2, <2>3, <2>4, Scaled DEF S
<1>15. Length(Times(e, u)) <= Square(D) * R
  <2> HIDE DEF c, d, R, S
  <2> QED BY <1>10, <1>11, <1>12, <1>13, <1>14, StaysWithin DEF Square
<1>16. Length(u) <= Square(D * r)
  <2>1. u[1] \in Int /\ u[2] \in Int /\ u[3] \in Int
    <3> HIDE DEF u
    <3> QED BY <1>6, AtIs
  <2>2. Length(Times(e, u)) = (e * e) * Length(u)
    <3>1. \A x, y, z \in Int : (e * x) * (e * x) + (e * y) * (e * y) + (e * z) * (e * z)
                                 = (e * e) * (x * x + y * y + z * z)
      BY <1>3
    <3> HIDE DEF u
    <3> QED BY <2>1, <3>1 DEF Length, Square, Times
  <2>3. Square(D) * R = (e * e) * Square(D * r)
    BY <1>1, <1>3 DEF Square
  <2> DEFINE x == Length(u)
             y == Square(D * r)
             f == e * e
  <2>4. x \in Int /\ y \in Int /\ f \in Nat /\ f > 0
    <3>1. x \in Int
      <4> HIDE DEF u
      <4> QED BY <1>6, ProductIs
    <3>2. y \in Int
      BY <1>1, <1>3 DEF Square
    <3>3. f \in Nat /\ f > 0
      BY <1>3
    <3> QED BY <3>1, <3>2, <3>3
  <2>5. f * x <= f * y
    BY <1>15, <2>2, <2>3
  <2> HIDE DEF x, y, f
  <2>6. x <= y
    BY <2>4, <2>5
  <2> QED BY <2>6 DEF x, y
<1> DEFINE q == TurnBack(place.quat, u)
<1>17. q \in Vector /\ Turn(place.quat, q) = u
  <2> HIDE DEF u
  <2> QED BY <1>2, <1>6, TurnsBack
<1>18. SquaredDistance(q, Origin) = Length(u)
  <2> HIDE DEF q
  <2>1. place.quat = 0 \/ place.quat = 1 \/ place.quat = 2 \/ place.quat = 3
    BY <1>2
  <2>2. q[1] \in Int /\ q[2] \in Int /\ q[3] \in Int
    BY <1>17, AtIs
  <2>3. Length(u) = Length(q)
    <3>1. \A x \in Int : (-x) * (-x) = x * x
      OBVIOUS
    <3>2. \/ u = q \/ u = <<-q[2], q[1], q[3]>> \/ u = <<-q[1], -q[2], q[3]>> \/ u = <<q[2], -q[1], q[3]>>
      <4> HIDE DEF u
      <4> QED BY <1>2, <1>17, <2>1, TurnIs
    <3> HIDE DEF u
    <3>3. q[1] * q[1] \in Nat /\ q[2] * q[2] \in Nat /\ q[3] * q[3] \in Nat
      BY <2>2
    <3> DEFINE a == q[1] * q[1]
               b == q[2] * q[2]
               g == q[3] * q[3]
    <3>4. Length(q) = a + b + g /\ (Length(u) = a + b + g \/ Length(u) = b + a + g)
      BY <2>2, <3>1, <3>2 DEF Length, Square
    <3>5. a + b + g = b + a + g
      <4>1. a \in Nat /\ b \in Nat /\ g \in Nat
        BY <3>3
      <4> HIDE DEF a, b, g
      <4> QED BY <4>1
    <3> HIDE DEF a, b, g
    <3> QED BY <3>4, <3>5
  <2>4. SquaredDistance(q, Origin) = Length(q)
    BY <2>2, OriginIs DEF SquaredDistance, Length
  <2> QED BY <2>3, <2>4
<1>19. InSphere(q, D, r)
  <2> HIDE DEF q, u
  <2> QED BY <1>16, <1>18 DEF InSphere
<1>20. q = InFrame(place, p.at, p.den)
  BY DEF InFrame, o, D
<1>21. InLocal(q, p.den, s)
  <2> HIDE DEF q
  <2> QED BY <1>19 DEF InLocal, D, r
<1> HIDE DEF q
<1> QED BY <1>1, <1>20, <1>21, InShapeIs DEF place

-----------------------------------------------------------------------------
(* The spheres that are kept.                                              *)

(* A finite set of integers that is not empty has a least and a greatest.  *)
LEMMA ExtremesExist ==
  ASSUME NEW S \in SUBSET Int, IsFiniteSet(S), S # {}
  PROVE  /\ Least(S) \in S /\ Greatest(S) \in S
         /\ \A m \in S : Least(S) <= m /\ m <= Greatest(S)
<1> DEFINE n == Cardinality(S)
           Bounded(T) == \E lo \in T : \E hi \in T : \A m \in T : lo <= m /\ m <= hi
           P == {k \in 0 .. n : \A T \in SUBSET S : Cardinality(T) = k /\ T # {} => Bounded(T)}
<1>1. n \in Nat /\ \A T \in SUBSET S : IsFiniteSet(T)
  BY FS_CardinalityType, FS_Subset
<1>2. 0 \in P
  <2>1. ASSUME NEW T \in SUBSET S, Cardinality(T) = 0 PROVE T = {}
    BY <1>1, <2>1, FS_EmptySet
  <2>2. 0 \in 0 .. n
    <3> HIDE DEF n
    <3> QED BY <1>1
  <2>3. \A T \in SUBSET S : Cardinality(T) = 0 /\ T # {} => Bounded(T)
    BY <2>1
  <2> HIDE DEF n, Bounded
  <2> QED BY <2>2, <2>3
<1>3. ASSUME NEW k \in 1 .. n, k - 1 \in P PROVE k \in P
  <2>1. ASSUME NEW T \in SUBSET S, Cardinality(T) = k, T # {} PROVE Bounded(T)
    <3>1. PICK x : x \in T
      BY <2>1
    <3> DEFINE U == T \ {x}
    <3>2. Cardinality(U) = k - 1 /\ U \in SUBSET S
      BY <1>1, <2>1, <3>1, FS_RemoveElement
    <3>3. x \in Int /\ T \in SUBSET Int
      BY <3>1
    <3>4. CASE U = {}
      <4>1. \A m \in T : m = x
        BY <3>4
      <4> QED BY <3>1, <3>3, <4>1
    <3>5. CASE U # {}
      <4>1. Bounded(U)
        <5> HIDE DEF U, Bounded, n
        <5> QED BY <1>3, <3>2, <3>5
      <4>2. PICK lo \in U : \E hi \in U : \A m \in U : lo <= m /\ m <= hi
        BY <4>1
      <4>3. PICK hi \in U : \A m \in U : lo <= m /\ m <= hi
        BY <4>2
      <4> DEFINE l == IF x < lo THEN x ELSE lo
                 h == IF x > hi THEN x ELSE hi
      <4>4. l \in T /\ h \in T
        BY <3>1
      <4>5. ASSUME NEW m \in T PROVE l <= m /\ m <= h
        <5>1. m = x \/ (lo <= m /\ m <= hi)
          BY <4>3
        <5> QED BY <3>3, <5>1
      <4> HIDE DEF l, h
      <4> QED BY <4>4, <4>5
    <3> QED BY <3>4, <3>5
  <2> HIDE DEF n, Bounded
  <2> QED BY <2>1
<1>4. \A k \in 0 .. n : k \in P
  <2> HIDE DEF P, n
  <2> QED BY <1>1, <1>2, <1>3, Climb
<1>5. Bounded(S)
  <2> HIDE DEF Bounded
  <2>1. n \in P
    <3> HIDE DEF P, n
    <3> QED BY <1>1, <1>4
  <2> QED BY <2>1
<1>6. (\E lo \in S : \A m \in S : lo <= m) /\ (\E hi \in S : \A m \in S : hi >= m)
  BY <1>5
<1>7. Least(S) \in S /\ \A m \in S : Least(S) <= m
  BY <1>6 DEF Least
<1>8. Greatest(S) \in S /\ \A m \in S : Greatest(S) >= m
  BY <1>6 DEF Greatest
<1>9. \A x, y \in Int : x >= y => y <= x
  OBVIOUS
<1> QED BY <1>7, <1>8, <1>9

(* The stride through a list that is too long.                             *)
LEMMA StrideIs ==
  ASSUME NEW n \in Nat, NEW c \in Nat \ {0}, n > c, NEW i \in 1 .. c
  PROVE  1 + ((i - 1) * n) \div c \in 1 .. n
<1> DEFINE x == (i - 1) * n
           q == x \div c
           y == c * n
<1>1. i - 1 \in Nat /\ i - 1 <= c - 1
  OBVIOUS
<1>2. x \in Nat /\ y \in Nat /\ x + n <= y
  <2>1. \A a \in Nat, b \in Nat : a <= b => a * n <= b * n /\ a * n \in Nat
    OBVIOUS
  <2>2. c - 1 \in Nat /\ (c - 1) * n + n = c * n /\ c * n \in Nat
    OBVIOUS
  <2>3. x <= (c - 1) * n /\ x \in Nat /\ (c - 1) * n \in Nat
    BY <1>1, <2>1, <2>2
  <2> DEFINE z == (c - 1) * n
  <2> HIDE DEF x, z
  <2>4. z \in Nat /\ x <= z /\ x \in Nat
    BY <2>3 DEF z
  <2>5. z + n = y /\ y \in Nat
    BY <2>2 DEF z
  <2> HIDE DEF y
  <2> QED BY <2>4, <2>5
<1> HIDE DEF x
<1>3. q \in Int /\ (x % c) \in 0 .. c - 1 /\ x = c * q + (x % c)
  BY <1>2, Quotient
<1> HIDE DEF q
<1>4. q >= 0
  <2>1. SUFFICES ASSUME q <= -1 PROVE FALSE
    BY <1>3
  <2>2. c * q <= -c
    BY <1>3, <2>1
  <2> QED BY <1>2, <1>3, <2>2
<1>5. q < n
  <2>1. SUFFICES ASSUME q >= n PROVE FALSE
    BY <1>3
  <2>2. c * q >= y /\ c * q \in Int
    BY <1>3, <2>1
  <2> HIDE DEF y
  <2> QED BY <1>2, <1>3, <2>2
<1>6. 1 + q \in 1 .. n
  BY <1>3, <1>4, <1>5
<1> QED BY <1>6 DEF q, x

(* No more than asked for, all of them when they are few, never none.      *)
LEMMA DownsampleIs ==
  ASSUME NEW S, NEW list \in Seq(S), NEW count \in Nat \ {0}
  PROVE  /\ Downsample(list, count) \in Seq(S)
         /\ Len(Downsample(list, count)) <= count
         /\ Len(Downsample(list, count)) < count => Downsample(list, count) = list
         /\ Len(Downsample(list, count)) = 0 <=> Len(list) = 0
         /\ \A m \in 1 .. Len(Downsample(list, count)) :
              \E k \in 1 .. Len(list) : Downsample(list, count)[m] = list[k]
<1> DEFINE n == Len(list)
           at(i) == 1 + ((i - 1) * n) \div count
           some == Downsample(list, count)
<1>1. n \in Nat /\ \A k \in 1 .. n : list[k] \in S
  OBVIOUS
<1>2. CASE n <= count
  <2>1. some = list
    BY <1>2 DEF Downsample
  <2> HIDE DEF some
  <2>2. \A m \in 1 .. n : some[m] = list[m]
    BY <2>1
  <2>3. some \in Seq(S) /\ Len(some) = n
    BY <2>1
  <2> HIDE DEF n
  <2>4. \A m \in 1 .. Len(some) : \E k \in 1 .. n : some[m] = list[k]
    BY <2>2, <2>3
  <2> QED BY <1>1, <1>2, <2>1, <2>3, <2>4 DEF some, n
<1>3. CASE n > count
  <2>1. \A i \in 1 .. count : at(i) \in 1 .. n
    BY <1>1, <1>3, StrideIs
  <2>2. some = [i \in 1 .. count |-> list[at(i)]]
    BY <1>1, <1>3 DEF Downsample
  <2> HIDE DEF at, some
  <2>3. \A i \in 1 .. count : list[at(i)] \in S
    BY <1>1, <2>1
  <2>4. some \in Seq(S) /\ Len(some) = count /\ \A i \in 1 .. count : some[i] = list[at(i)]
    BY <2>2, <2>3
  <2>5. \A m \in 1 .. Len(some) : \E k \in 1 .. n : some[m] = list[k]
    BY <2>1, <2>4
  <2> HIDE DEF n
  <2> QED BY <1>1, <1>3, <2>4, <2>5 DEF some, n
<1> QED BY <1>1, <1>2, <1>3

(* A try is chosen.                                                        *)
LEMMA FirstEnoughIs ==
  ASSUME NEW attempts, NEW diameter, NEW least
  PROVE  \E k \in 0 .. 5 : FirstEnough(attempts, diameter, least) = attempts[k]
<1> DEFINE floor == IF diameter < DiameterFloor THEN diameter ELSE DiameterFloor
           Enough(k) == Len(attempts[k]) >= least \/ Aim(diameter, k).num <= floor * Aim(diameter, k).den
           K == {k \in 0 .. 5 : \A j \in 0 .. k - 1 : ~ Enough(j)}
<1>1. FirstEnough(attempts, diameter, least) = attempts[Greatest(K)]
  BY DEF FirstEnough
<1> HIDE DEF Enough
<1>2. 0 \in K
  OBVIOUS
<1>3. IsFiniteSet(0 .. 5)
  <2>1. 0 \in Int /\ 5 \in Int
    OBVIOUS
  <2> QED BY <2>1, FS_Interval
<1>4. K \in SUBSET (0 .. 5)
  OBVIOUS
<1>5. K \in SUBSET Int
  BY <1>4
<1> HIDE DEF K
<1>6. Greatest(K) \in K
  BY <1>2, <1>3, <1>4, <1>5, FS_Subset, ExtremesExist
<1> QED BY <1>1, <1>4, <1>6

(* What the spheres of an object promise.                                  *)
Promised(balls, specs, object, most) ==
  /\ balls \in Seq(Balls)
  /\ balls = <<>> <=> specs = <<>>
  /\ Len(balls) <= most
  /\ \A m \in 1 .. Len(balls) : \E i \in 1 .. Len(specs) : InShape(balls[m], specs[i], object)
  /\ Len(balls) < most => \A i \in 1 .. Len(specs) : specs[i].type = "box" =>
       \A p \in Points : InShape(p, specs[i], object) => CoveredBy(balls, p)
  /\ Len(specs) = 1 /\ specs[1].type = "sphere" =>
       /\ \A m \in 1 .. Len(balls) : Fits(balls[m], specs[1], object)
       /\ \A p \in Points : CoveredBy(balls, p) => InShape(p, specs[1], object)
THEOREM SpheresFillTheirObject ==
  ASSUME NEW specs, IsSpecs(specs), NEW object, IsPlace(object),
         NEW diameter \in Nat \ {0}, NEW minimum \in Int, NEW maximum \in Int
  PROVE  Promised(BuildAttachmentSpheres(specs, object, diameter, minimum, maximum), specs, object,
                  Larger(Larger(1, minimum), maximum))
<1> DEFINE least == Larger(1, minimum)
           most == Larger(least, maximum)
           attempts == [k \in 0 .. 5 |-> BuildOnce(specs, object, Aim(diameter, k), most)]
           first == FirstEnough(attempts, diameter, least)
           balls == BuildAttachmentSpheres(specs, object, diameter, minimum, maximum)
<1>1. most \in Nat \ {0}
  BY DEF Larger
<1>2. balls = Downsample(first, most)
  BY DEF BuildAttachmentSpheres
<1> HIDE DEF least, most
<1>3. \A k \in 0 .. 5 : attempts[k] = BuildOnce(specs, object, Aim(diameter, k), most)
  OBVIOUS
<1> HIDE DEF attempts
<1>4. \E k \in 0 .. 5 : first = attempts[k]
  BY FirstEnoughIs
<1> HIDE DEF first, balls
<1>5. PICK k \in 0 .. 5 : first = attempts[k]
  BY <1>4
<1>6. FillsAll(first, specs, object)
  BY <1>1, <1>3, <1>5, AimIs, BuildOnceFills
<1>7. first \in Seq(Balls) /\ (Len(first) = 0 <=> Len(specs) = 0)
  BY <1>6 DEF FillsAll
<1>8. /\ balls \in Seq(Balls) /\ Len(balls) <= most
      /\ Len(balls) < most => balls = first
      /\ Len(balls) = 0 <=> Len(first) = 0
      /\ \A m \in 1 .. Len(balls) : \E l \in 1 .. Len(first) : balls[m] = first[l]
  BY <1>1, <1>2, <1>7, DownsampleIs
<1>9. balls = <<>> <=> specs = <<>>
  <2>1. balls = <<>> <=> Len(balls) = 0
    BY <1>8
  <2>2. specs = <<>> <=> Len(specs) = 0
    <3>1. Len(specs) \in Nat /\ specs = [i \in 1 .. Len(specs) |-> specs[i]]
      BY DEF IsSpecs
    <3>2. ASSUME Len(specs) = 0 PROVE specs = <<>>
      <4>1. \A i \in 1 .. Len(specs) : specs[i] \in {specs[j] : j \in 1 .. Len(specs)}
        OBVIOUS
      <4>2. specs \in Seq({specs[j] : j \in 1 .. Len(specs)})
        BY <3>1
      <4> QED BY <3>2, <4>2
    <3> QED BY <3>2
  <2> QED BY <1>7, <1>8, <2>1, <2>2
<1>10. ASSUME NEW m \in 1 .. Len(balls)
       PROVE  \E i \in 1 .. Len(specs) : InShape(balls[m], specs[i], object)
                /\ (specs[i].type = "sphere" => Fits(balls[m], specs[i], object))
  <2>1. PICK l \in 1 .. Len(first) : balls[m] = first[l]
    BY <1>8
  <2> QED BY <1>6, <2>1 DEF FillsAll
<1>11. ASSUME Len(balls) < most, NEW i \in 1 .. Len(specs), specs[i].type = "box",
              NEW p \in Points, InShape(p, specs[i], object)
       PROVE  CoveredBy(balls, p)
  BY <1>6, <1>8, <1>11 DEF FillsAll
<1>12. ASSUME Len(specs) = 1, specs[1].type = "sphere", NEW m \in 1 .. Len(balls)
       PROVE  Fits(balls[m], specs[1], object)
  <2>1. \A i \in 1 .. Len(specs) : i = 1
    BY <1>12
  <2> QED BY <1>10, <1>12, <2>1
<1>13. ASSUME Len(specs) = 1, specs[1].type = "sphere", NEW p \in Points, CoveredBy(balls, p)
       PROVE  InShape(p, specs[1], object)
  <2>1. PICK m \in 1 .. Len(balls) :
          SquaredDistance(Times(balls[m].den, p.at), Times(p.den, balls[m].at)) <= Square(p.den) * balls[m].squared
    BY <1>8, <1>13 DEF CoveredBy
  <2> DEFINE ball == balls[m]
  <2>2. ball \in Balls
    BY <1>8
  <2>3. Fits(ball, specs[1], object)
    BY <1>12, <1>13
  <2>4. CoveredBy(<<ball>>, p)
    <3>1. 1 \in DOMAIN <<ball>> /\ <<ball>>[1] = ball
      OBVIOUS
    <3> QED BY <2>1, <3>1 DEF CoveredBy
  <2>5. IsShape(specs[1])
    <3>1. 1 \in 1 .. Len(specs)
      BY <1>13
    <3> QED BY <3>1 DEF IsSpecs
  <2> HIDE DEF ball
  <2> QED BY <1>13, <2>2, <2>3, <2>4, <2>5, FittingIsInside
<1>14. Promised(balls, specs, object, most)
  BY <1>8, <1>9, <1>10, <1>11, <1>12, <1>13 DEF Promised
<1> QED BY <1>14 DEF balls, most, least

-----------------------------------------------------------------------------
(* From the scene, or from a file, to shapes.                              *)

(* What is known of a part of an object, in the scene or in its URDF.      *)
IsPart(s) ==
  /\ s.posed \in BOOLEAN /\ s.readable \in BOOLEAN /\ IsPlace(s.pose)
  /\ s.type = "box" /\ Len(s.dimensions) >= 3 => IsExtents(s.dimensions)
  /\ s.type = "cylinder" /\ Len(s.dimensions) >= 2 => s.dimensions[1] \in Nat /\ s.dimensions[2] \in Nat
  /\ s.type = "sphere" /\ Len(s.dimensions) >= 1 => s.dimensions[1] \in Nat
  /\ s.type = "mesh" => IsFiniteSet(s.vertices) /\ s.vertices \in SUBSET Vector
IsSnapshot(snapshot) ==
  /\ Len(snapshot) \in Nat /\ DOMAIN snapshot = 1 .. Len(snapshot)
  /\ \A i \in 1 .. Len(snapshot) : IsPart(snapshot[i])

(* The box around the vertices of a mesh is a shape.                       *)
LEMMA MeshBoxIsShape ==
  ASSUME NEW vertices \in SUBSET Vector, IsFiniteSet(vertices), vertices # {}, NEW place, IsPlace(place)
  PROVE  IsShape(MeshBox(vertices, place))
<1> DEFINE along(a) == {v[a] : v \in vertices}
           low == [a \in Axes |-> Least(along(a))]
           high == [a \in Axes |-> Greatest(along(a))]
           Middle(a) == (low[a] + high[a]) \div 2
           inner == [at |-> <<Middle(1), Middle(2), Middle(3)>>, quat |-> 0]
           box == MeshBox(vertices, place)
<1>1. ASSUME NEW a \in Axes
      PROVE  low[a] \in Int /\ high[a] \in Int /\ low[a] <= high[a]
  <2>1. along(a) \in SUBSET Int
    <3>1. \A v \in vertices : v[a] \in Int
      <4>1. a = 1 \/ a = 2 \/ a = 3
        BY DEF Axes
      <4> QED BY <4>1, AtIs
    <3> QED BY <3>1
  <2>2. IsFiniteSet(along(a))
    <3> DEFINE f == [v \in vertices |-> v[a]]
    <3>1. f \in Surjection(vertices, along(a))
      BY DEF Surjection
    <3> HIDE DEF f, along
    <3> QED BY <3>1, FS_Surjection
  <2>3. along(a) # {}
    OBVIOUS
  <2> HIDE DEF along
  <2>4. /\ Least(along(a)) \in along(a) /\ Greatest(along(a)) \in along(a)
        /\ \A m \in along(a) : Least(along(a)) <= m /\ m <= Greatest(along(a))
    BY <2>1, <2>2, <2>3, ExtremesExist
  <2>5. low[a] = Least(along(a)) /\ high[a] = Greatest(along(a))
    OBVIOUS
  <2> HIDE DEF low, high
  <2> QED BY <2>1, <2>4, <2>5
<1>2. 1 \in Axes /\ 2 \in Axes /\ 3 \in Axes
  BY DEF Axes
<1>3. box = Shape("box", Minus(high, low), Compose(place, inner))
  BY DEF MeshBox
<1> HIDE DEF low, high
<1>4. IsPlace(inner)
  <2>1. \A x, y \in Int : (x + y) \div 2 \in Int
    OBVIOUS
  <2>2. Middle(1) \in Int /\ Middle(2) \in Int /\ Middle(3) \in Int
    BY <1>1, <1>2, <2>1
  <2> HIDE DEF Middle
  <2> QED BY <2>2 DEF IsPlace, Vector
<1>5. IsPlace(Compose(place, inner))
  <2> HIDE DEF inner
  <2> QED BY <1>4, ComposeIs
<1>6. IsExtents(Minus(high, low))
  <2>1. /\ high[1] - low[1] \in Nat /\ high[2] - low[2] \in Nat /\ high[3] - low[3] \in Nat
    BY <1>1, <1>2
  <2> QED BY <2>1 DEF IsExtents, Minus, Axes
<1>7. box.type = "box" /\ box.dimensions = Minus(high, low) /\ box.pose = Compose(place, inner)
  BY <1>3 DEF Shape
<1> HIDE DEF box, inner
<1> QED BY <1>5, <1>6, <1>7 DEF IsShape, Primitives, box

(* A primitive, when it says enough.                                       *)
Says(s) == s.type \in Primitives /\ Len(s.dimensions) >= DimensionsOf(s.type)
Primitive(s, place) == Shape(s.type, s.dimensions, place)
LEMMA PrimitiveIsShape ==
  ASSUME NEW s, IsPart(s), Says(s), NEW place, IsPlace(place)
  PROVE  IsShape(Primitive(s, place))
<1>1. /\ Primitive(s, place).type = s.type /\ Primitive(s, place).dimensions = s.dimensions
      /\ Primitive(s, place).pose = place
  BY DEF Primitive, Shape
<1>2. CASE s.type = "box"
  <2>1. Len(s.dimensions) >= 3
    BY <1>2 DEF Says, DimensionsOf
  <2> QED BY <1>1, <1>2, <2>1 DEF IsShape, IsPart, Primitives
<1>3. CASE s.type = "cylinder"
  <2>1. Len(s.dimensions) >= 2
    BY <1>3 DEF Says, DimensionsOf
  <2> QED BY <1>1, <1>3, <2>1 DEF IsShape, IsPart, Primitives
<1>4. CASE s.type = "sphere"
  <2>1. Len(s.dimensions) >= 1
    BY <1>4 DEF Says, DimensionsOf
  <2> QED BY <1>1, <1>4, <2>1 DEF IsShape, IsPart, Primitives
<1> QED BY <1>2, <1>3, <1>4 DEF Says, Primitives

LEMMA PoseIs ==
  ASSUME NEW s, IsPart(s)
  PROVE  IsPlace(PoseOf(s))
BY OriginIs DEF PoseOf, Identity, IsPlace, IsPart

(* What is read of a scene, part by part.                                  *)
FromScene(s) == IF s.type \in Primitives /\ Len(s.dimensions) >= DimensionsOf(s.type)
                THEN <<Shape(s.type, s.dimensions, PoseOf(s))>> ELSE <<>>
MeshOfScene(s) == IF s.type = "mesh" /\ s.vertices # {} THEN <<MeshBox(s.vertices, PoseOf(s))>> ELSE <<>>
LEMMA SnapshotIs ==
  ASSUME NEW snapshot
  PROVE  SpecsFromSnapshot(snapshot)
           = Joined([i \in DOMAIN snapshot |-> FromScene(snapshot[i])])
             \o Joined([i \in DOMAIN snapshot |-> MeshOfScene(snapshot[i])])
BY DEF SpecsFromSnapshot, FromScene, MeshOfScene

LEMMA ReadsShapes ==
  ASSUME NEW s, IsPart(s)
  PROVE  /\ FromScene(s) = <<>> \/ \E x : IsShape(x) /\ FromScene(s) = <<x>>
         /\ MeshOfScene(s) = <<>> \/ \E x : IsShape(x) /\ MeshOfScene(s) = <<x>>
<1>1. IsPlace(PoseOf(s))
  BY PoseIs
<1>2. FromScene(s) = <<>> \/ \E x : IsShape(x) /\ FromScene(s) = <<x>>
  <2>1. CASE Says(s)
    <3>1. IsShape(Primitive(s, PoseOf(s)))
      BY <1>1, <2>1, PrimitiveIsShape
    <3>2. FromScene(s) = <<Primitive(s, PoseOf(s))>>
      BY <2>1 DEF Says, FromScene, Primitive
    <3> QED BY <3>1, <3>2
  <2>2. CASE ~ Says(s)
    BY <2>2 DEF Says, FromScene
  <2> QED BY <2>1, <2>2
<1>3. MeshOfScene(s) = <<>> \/ \E x : IsShape(x) /\ MeshOfScene(s) = <<x>>
  <2>1. CASE s.type = "mesh" /\ s.vertices # {}
    <3>1. IsShape(MeshBox(s.vertices, PoseOf(s)))
      BY <1>1, <2>1, MeshBoxIsShape DEF IsPart
    <3>2. MeshOfScene(s) = <<MeshBox(s.vertices, PoseOf(s))>>
      BY <2>1 DEF MeshOfScene
    <3> QED BY <3>1, <3>2
  <2>2. CASE ~ (s.type = "mesh" /\ s.vertices # {})
    BY <2>2 DEF MeshOfScene
  <2> QED BY <2>1, <2>2
<1> QED BY <1>2, <1>3

(* What is read of a scene is a list of shapes.                            *)
LEMMA SceneGivesSpecs ==
  ASSUME NEW snapshot, IsSnapshot(snapshot)
  PROVE  IsSpecs(SpecsFromSnapshot(snapshot))
<1> DEFINE n == Len(snapshot)
           F(i) == FromScene(snapshot[i])
           G(i) == MeshOfScene(snapshot[i])
           All == {F(i)[1] : i \in 1 .. n} \cup {G(i)[1] : i \in 1 .. n}
           S == {x \in All : IsShape(x)}
           left == [i \in 1 .. n |-> F(i)]
           right == [i \in 1 .. n |-> G(i)]
           specs == SpecsFromSnapshot(snapshot)
<1>1. n \in Nat /\ DOMAIN snapshot = 1 .. n /\ \A i \in 1 .. n : IsPart(snapshot[i])
  BY DEF IsSnapshot
<1>2. specs = Joined(left) \o Joined(right)
  BY <1>1, SnapshotIs
<1>3. ASSUME NEW i \in 1 .. n PROVE F(i) \in Seq(S) /\ G(i) \in Seq(S)
  <2>1. F(i) = <<>> \/ F(i) \in Seq(S)
    <3>1. F(i) = <<>> \/ \E x : IsShape(x) /\ F(i) = <<x>>
      BY <1>1, ReadsShapes
    <3> HIDE DEF F, G, n
    <3>2. ASSUME NEW x, IsShape(x), F(i) = <<x>> PROVE F(i) \in Seq(S)
      <4>1. x = F(i)[1]
        BY <3>2
      <4>2. x \in S
        BY <3>2, <4>1
      <4> HIDE DEF S
      <4> QED BY <3>2, <4>2
    <3> QED BY <3>1, <3>2
  <2>2. G(i) = <<>> \/ G(i) \in Seq(S)
    <3>1. G(i) = <<>> \/ \E x : IsShape(x) /\ G(i) = <<x>>
      BY <1>1, ReadsShapes
    <3> HIDE DEF F, G, n
    <3>2. ASSUME NEW x, IsShape(x), G(i) = <<x>> PROVE G(i) \in Seq(S)
      <4>1. x = G(i)[1]
        BY <3>2
      <4>2. x \in S
        BY <3>2, <4>1
      <4> HIDE DEF S
      <4> QED BY <3>2, <4>2
    <3> QED BY <3>1, <3>2
  <2>3. <<>> \in Seq(S)
    OBVIOUS
  <2> HIDE DEF S, F, G, n
  <2> QED BY <2>1, <2>2, <2>3
<1>4. \A x \in S : IsShape(x)
  OBVIOUS
<1> HIDE DEF S, F, G, n, specs
<1>5. left \in Seq(Seq(S)) /\ right \in Seq(Seq(S))
  BY <1>1, <1>3
<1> HIDE DEF left, right
<1>6. Joined(left) \in Seq(S) /\ Joined(right) \in Seq(S)
  BY <1>5, JoinedHasAll DEF IsJoined
<1>7. specs \in Seq(S)
  BY <1>2, <1>6
<1>8. /\ Len(specs) \in Nat /\ DOMAIN specs = 1 .. Len(specs) /\ specs = [i \in 1 .. Len(specs) |-> specs[i]]
      /\ \A i \in 1 .. Len(specs) : specs[i] \in S
  BY <1>7
<1> QED BY <1>4, <1>8 DEF IsSpecs, specs

(* One list joined is the list.                                            *)
LEMMA JoinedOne ==
  ASSUME NEW S, NEW list \in Seq(S)
  PROVE  Joined(<<list>>) = list
<1> DEFINE lists == <<list>>
<1>1. lists \in Seq(Seq(S)) /\ Len(lists) = 1 /\ lists[1] = list
  OBVIOUS
<1> HIDE DEF lists
<1>2. PICK f \in [0 .. Len(lists) -> Seq(S)] :
        /\ f[0] = <<>> /\ \A i \in 1 .. Len(lists) : f[i] = f[i - 1] \o lists[i]
        /\ Joined(lists) = f[Len(lists)]
  BY <1>1, JoinedIs
<1>3. f[1] = f[1 - 1] \o list
  <2>1. 1 \in 1 .. Len(lists)
    BY <1>1
  <2> QED BY <1>1, <1>2, <2>1
<1>4. f[1] = <<>> \o list
  BY <1>2, <1>3
<1>5. <<>> \o list = list
  OBVIOUS
<1> QED BY <1>1, <1>2, <1>4, <1>5 DEF lists

(* A file that says what the scene says gives the same shapes.             *)
ReadOf(s) == CASE s.readable /\ s.type = "mesh" -> <<MeshBox(s.vertices, s.pose)>>
               [] s.readable /\ s.type \in Primitives -> <<Shape(s.type, s.dimensions, s.pose)>>
               [] OTHER -> <<>>
LEMMA FileSaysTheSame ==
  ASSUME NEW s, IsPart(s), s.posed, s.readable, SpecsFromSnapshot(<<s>>) # <<>>
  PROVE  SpecsFromUrdf([parses |-> TRUE, shapes |-> <<s>>]) = SpecsFromSnapshot(<<s>>)
<1> DEFINE one == FromScene(s)
           two == MeshOfScene(s)
           read == ReadOf(s)
<1>1. PoseOf(s) = s.pose
  BY DEF PoseOf
<1>2. SpecsFromSnapshot(<<s>>) = Joined(<<one>>) \o Joined(<<two>>)
  <2>1. /\ [i \in DOMAIN <<s>> |-> FromScene(<<s>>[i])] = <<one>>
        /\ [i \in DOMAIN <<s>> |-> MeshOfScene(<<s>>[i])] = <<two>>
    <3> HIDE DEF one, two
    <3>1. DOMAIN <<s>> = 1 .. 1 /\ <<s>>[1] = s
      OBVIOUS
    <3>2. \A x : <<x>> = [i \in 1 .. 1 |-> x]
      OBVIOUS
    <3>3. \A i \in 1 .. 1 : FromScene(<<s>>[i]) = one /\ MeshOfScene(<<s>>[i]) = two
      BY <3>1 DEF one, two
    <3> QED BY <3>1, <3>2, <3>3
  <2> QED BY <2>1, SnapshotIs
<1>3. SpecsFromUrdf([parses |-> TRUE, shapes |-> <<s>>]) = Joined(<<read>>)
  <2>1. SpecsFromUrdf([parses |-> TRUE, shapes |-> <<s>>]) = Joined([i \in DOMAIN <<s>> |-> ReadOf(<<s>>[i])])
    BY DEF SpecsFromUrdf, ReadOf
  <2>2. [i \in DOMAIN <<s>> |-> ReadOf(<<s>>[i])] = <<read>>
    <3> HIDE DEF read
    <3>1. DOMAIN <<s>> = 1 .. 1 /\ <<s>>[1] = s
      OBVIOUS
    <3>2. \A x : <<x>> = [i \in 1 .. 1 |-> x]
      OBVIOUS
    <3>3. \A i \in 1 .. 1 : ReadOf(<<s>>[i]) = read
      BY <3>1 DEF read
    <3> QED BY <3>1, <3>2, <3>3
  <2> QED BY <2>1, <2>2
<1>4. /\ one = <<>> \/ \E x : one = <<x>>
      /\ two = <<>> \/ \E x : two = <<x>>
  BY ReadsShapes
<1> HIDE DEF one, two, read
<1>5. Joined(<<one>>) = one /\ Joined(<<two>>) = two
  <2>1. one \in Seq({one[1]}) /\ two \in Seq({two[1]})
    <3>1. \A x : <<x>>[1] = x /\ <<x>> \in Seq({x})
      OBVIOUS
    <3>2. \A x : <<>> \in Seq({x})
      OBVIOUS
    <3> QED BY <1>4, <3>1, <3>2
  <2> QED BY <2>1, JoinedOne
<1>6. CASE Says(s)
  <2>1. two = <<>> /\ s.type # "mesh"
    BY <1>6 DEF two, MeshOfScene, Says, Primitives
  <2>2. one = <<Shape(s.type, s.dimensions, s.pose)>>
    BY <1>1, <1>6 DEF one, FromScene, Says
  <2>3. read = one
    BY <1>6, <2>1, <2>2 DEF read, ReadOf, Says
  <2>4. one \o two = one
    <3>1. one \in Seq({one[1]})
      BY <2>2
    <3> QED BY <2>1, <3>1
  <2> QED BY <1>2, <1>3, <1>5, <2>3, <2>4
<1>7. CASE s.type = "mesh" /\ s.vertices # {}
  <2>1. one = <<>>
    BY <1>7 DEF one, FromScene, Primitives
  <2>2. two = <<MeshBox(s.vertices, s.pose)>>
    BY <1>1, <1>7 DEF two, MeshOfScene
  <2>3. read = two
    BY <1>7, <2>2 DEF read, ReadOf, Primitives
  <2>4. one \o two = two
    <3>1. two \in Seq({two[1]})
      BY <2>2
    <3> QED BY <2>1, <3>1
  <2> QED BY <1>2, <1>3, <1>5, <2>3, <2>4
<1>8. CASE ~ Says(s) /\ ~ (s.type = "mesh" /\ s.vertices # {})
  <2>1. one = <<>> /\ two = <<>>
    BY <1>8 DEF one, two, FromScene, MeshOfScene, Says
  <2>2. one \o two = <<>>
    BY <2>1
  <2> QED BY <1>2, <1>5, <2>2
<1> QED BY <1>6, <1>7, <1>8

(* The points of a box that a run looks at are in the box.                 *)
LEMMA BoxPointsAreInside ==
  ASSUME NEW s, IsShape(s), s.type = "box", NEW object, IsPlace(object), NEW p \in BoxPoints(s, object)
  PROVE  p \in Points /\ InShape(p, s, object)
<1> DEFINE place == Compose(object, s.pose)
           e == s.dimensions
<1>1. IsPlace(place) /\ IsExtents(e) /\ s.type \in Primitives
  BY ComposeIs DEF IsShape
<1>2. PICK c \in (-2 .. 2) \X (-2 .. 2) \X (-2 .. 2) :
        p = [at |-> Plus(Times(4, place.at), Turn(place.quat, Stretch(c, e))), den |-> 4]
  BY DEF BoxPoints
<1> DEFINE q == Stretch(c, e)
           ball == Ball(q, 4, 0)
<1>3. /\ c[1] \in -2 .. 2 /\ c[2] \in -2 .. 2 /\ c[3] \in -2 .. 2
      /\ e[1] \in Nat /\ e[2] \in Nat /\ e[3] \in Nat
  BY <1>1 DEF IsExtents, Axes
<1>4. ASSUME NEW x \in -2 .. 2, NEW w \in Nat
      PROVE  x * w \in Int /\ 2 * (x * w) <= 4 * w /\ 2 * (-(x * w)) <= 4 * w
  <2>1. x = -2 \/ x = -1 \/ x = 0 \/ x = 1 \/ x = 2
    OBVIOUS
  <2> QED BY <2>1
<1>5. q \in Vector /\ q[1] = c[1] * e[1] /\ q[2] = c[2] * e[2] /\ q[3] = c[3] * e[3]
  BY <1>3, <1>4 DEF Stretch, Vector
<1> HIDE DEF q, e, place
<1>6. ball \in Balls /\ ball.at = q /\ ball.den = 4
  <2>1. 4 \in Nat \ {0} /\ 0 \in Nat
    OBVIOUS
  <2> QED BY <1>5, <2>1, BallIs
<1>7. p.at = Framed(place, ball).at /\ p.den = 4
  <2>1. p.at = Plus(Times(4, place.at), Turn(place.quat, q)) /\ p.den = 4
    BY <1>2 DEF q, e, place
  <2>2. Framed(place, ball) = Ball(Plus(Times(4, place.at), Turn(place.quat, q)), 4, ball.squared)
    BY <1>6 DEF Framed
  <2> QED BY <2>1, <2>2 DEF Ball
<1> HIDE DEF ball
<1>8. Framed(place, ball) \in Balls /\ InFrame(place, p.at, p.den) = q
  BY <1>1, <1>6, <1>7, FramedIs
<1>9. p \in Points
  <2>1. p.at \in Vector /\ p.den \in Nat \ {0}
    BY <1>7, <1>8 DEF Balls
  <2>2. p = [at |-> p.at, den |-> p.den]
    BY <1>2
  <2> QED BY <2>1, <2>2 DEF Points
<1>10. InBox(q, p.den, e)
  <2>1. ASSUME NEW a \in Axes PROVE 2 * Larger(q[a], -q[a]) <= 4 * e[a]
    <3>1. a = 1 \/ a = 2 \/ a = 3
      BY DEF Axes
    <3>2. q[a] \in Int /\ 2 * q[a] <= 4 * e[a] /\ 2 * (-q[a]) <= 4 * e[a]
      BY <1>3, <1>4, <1>5, <3>1
    <3> QED BY <3>2 DEF Larger
  <2> QED BY <1>7, <2>1 DEF InBox
<1>11. InLocal(q, p.den, s)
  BY <1>10 DEF InLocal, e
<1> QED BY <1>1, <1>8, <1>9, <1>11, InShapeIs DEF place

-----------------------------------------------------------------------------
(* The instance that the runs check.                                       *)

(* The instance of the runs: what the parts of its objects are.            *)
LEMMA PlacementIs == IsPlace(Placement)
BY DEF Placement, Turned, IsPlace, Vector

(* A part that the instance has is one.                                    *)
LEMMA PartIs ==
  ASSUME NEW type, type # "mesh", NEW dimensions, NEW posed \in BOOLEAN, NEW place, IsPlace(place),
         type = "box" /\ Len(dimensions) >= 3 => IsExtents(dimensions),
         type = "cylinder" => dimensions[1] \in Nat /\ dimensions[2] \in Nat,
         type = "sphere" => dimensions[1] \in Nat
  PROVE  IsPart(Part(type, dimensions, posed, place)) /\ Part(type, dimensions, posed, place).readable = TRUE
<1> DEFINE s == Part(type, dimensions, posed, place)
<1>1. s.type = type /\ s.dimensions = dimensions /\ s.posed = posed /\ s.pose = place /\ s.readable = TRUE
  BY DEF Part
<1> HIDE DEF s
<1>2. IsPart(s)
  BY <1>1 DEF IsPart
<1> QED BY <1>1, <1>2 DEF s

LEMMA SnapshotOf ==
  ASSUME NEW one, IsPart(one), NEW two, IsPart(two)
  PROVE  IsSnapshot(<<one>>) /\ IsSnapshot(<<one, two>>)
<1>1. Len(<<one>>) = 1 /\ DOMAIN <<one>> = 1 .. 1 /\ \A i \in 1 .. 1 : <<one>>[i] = one
  OBVIOUS
<1>2. /\ Len(<<one, two>>) = 2 /\ DOMAIN <<one, two>> = 1 .. 2
      /\ \A i \in 1 .. 2 : <<one, two>>[i] = one \/ <<one, two>>[i] = two
  OBVIOUS
<1>3. 1 \in Nat /\ 2 \in Nat
  OBVIOUS
<1> QED BY <1>1, <1>2, <1>3 DEF IsSnapshot

(* What the objects of the instance are made of.                           *)
LEMMA PartsAreParts ==
  ASSUME NEW one \in Parts
  PROVE  IsPart(one) /\ one.readable = TRUE
<1> DEFINE sizes == {<<6, 6, 6>>, <<6, 6, 18>>}
           there == Turned(<<3, 0, 6>>, 1)
           low == Turned(<<0, 0, 3>>, 1)
           here == Turned(<<0, 0, 0>>, 0)
           mesh == Turned(<<3, 0, 0>>, 1)
           corners == {<<0, 0, 0>>, <<6, 0, 0>>, <<0, 12, 6>>}
<1>1. IsPlace(there) /\ IsPlace(low) /\ IsPlace(here) /\ IsPlace(mesh)
  BY DEF Turned, IsPlace, Vector
<1>2. \/ \E size \in sizes : \E posed \in BOOLEAN : one = Part("box", size, posed, there)
      \/ \E height \in {6, 12} : one = Part("cylinder", <<height, 3>>, TRUE, low)
      \/ one = Part("sphere", <<3>>, TRUE, here)
      \/ one = Part("cone", <<3, 3>>, TRUE, here)
      \/ one = Part("box", <<3>>, TRUE, here)
      \/ one = [Part("mesh", <<>>, TRUE, mesh) EXCEPT !.vertices = corners]
  <2> DEFINE A == {Part("box", size, posed, there) : size \in sizes, posed \in BOOLEAN}
             B == {Part("cylinder", <<height, 3>>, TRUE, low) : height \in {6, 12}}
             C == {Part("sphere", <<3>>, TRUE, here), Part("cone", <<3, 3>>, TRUE, here),
                   Part("box", <<3>>, TRUE, here), [Part("mesh", <<>>, TRUE, mesh) EXCEPT !.vertices = corners]}
  <2>1. Parts = (A \cup B) \cup C
    BY DEF Parts
  <2>2. one \in A \/ one \in B \/ one \in C
    <3> HIDE DEF A, B, C
    <3> QED BY <2>1
  <2> HIDE DEF sizes, there, low, here, mesh, corners
  <2>3. ASSUME one \in A PROVE \E size \in sizes : \E posed \in BOOLEAN : one = Part("box", size, posed, there)
    BY <2>3
  <2>4. ASSUME one \in B PROVE \E height \in {6, 12} : one = Part("cylinder", <<height, 3>>, TRUE, low)
    BY <2>4
  <2>5. ASSUME one \in C
        PROVE  \/ one = Part("sphere", <<3>>, TRUE, here)
               \/ one = Part("cone", <<3, 3>>, TRUE, here)
               \/ one = Part("box", <<3>>, TRUE, here)
               \/ one = [Part("mesh", <<>>, TRUE, mesh) EXCEPT !.vertices = corners]
    BY <2>5
  <2> HIDE DEF A, B, C
  <2> QED BY <2>2, <2>3, <2>4, <2>5
<1> HIDE DEF there, low, here, mesh
<1>3. CASE \E size \in sizes : \E posed \in BOOLEAN : one = Part("box", size, posed, there)
  <2>1. PICK size \in sizes : \E posed \in BOOLEAN : one = Part("box", size, posed, there)
    BY <1>3
  <2>2. PICK posed \in BOOLEAN : one = Part("box", size, posed, there)
    BY <2>1
  <2>3. IsExtents(size)
    BY DEF IsExtents, Axes
  <2> HIDE DEF sizes
  <2> QED BY <1>1, <2>2, <2>3, PartIs
<1>4. CASE \E height \in {6, 12} : one = Part("cylinder", <<height, 3>>, TRUE, low)
  <2>1. PICK height \in {6, 12} : one = Part("cylinder", <<height, 3>>, TRUE, low)
    BY <1>4
  <2>2. <<height, 3>>[1] \in Nat /\ <<height, 3>>[2] \in Nat
    OBVIOUS
  <2> QED BY <1>1, <2>1, <2>2, PartIs
<1>5. CASE one = Part("sphere", <<3>>, TRUE, here)
  <2>1. <<3>>[1] \in Nat
    OBVIOUS
  <2> QED BY <1>1, <1>5, <2>1, PartIs
<1>6. CASE one = Part("cone", <<3, 3>>, TRUE, here)
  BY <1>1, <1>6, PartIs
<1>7. CASE one = Part("box", <<3>>, TRUE, here)
  <2>1. ~ (Len(<<3>>) >= 3)
    OBVIOUS
  <2> QED BY <1>1, <1>7, <2>1, PartIs
<1>8. CASE one = [Part("mesh", <<>>, TRUE, mesh) EXCEPT !.vertices = corners]
  <2>1. corners \in SUBSET Vector
    BY DEF Vector
  <2>2. IsFiniteSet(corners)
    <3>1. corners = (({} \cup {<<0, 0, 0>>}) \cup {<<6, 0, 0>>}) \cup {<<0, 12, 6>>}
      OBVIOUS
    <3> HIDE DEF corners
    <3> QED BY <3>1, FS_EmptySet, FS_AddElement
  <2> HIDE DEF corners
  <2>3. /\ one.type = "mesh" /\ one.vertices = corners /\ one.posed = TRUE /\ one.pose = mesh
        /\ one.readable = TRUE
    BY <1>8 DEF Part
  <2>4. TRUE \in BOOLEAN /\ "mesh" # "box" /\ "mesh" # "cylinder" /\ "mesh" # "sphere"
    OBVIOUS
  <2> QED BY <1>1, <2>1, <2>2, <2>3, <2>4 DEF IsPart
<1> QED BY <1>2, <1>3, <1>4, <1>5, <1>6, <1>7, <1>8

(* What comes out for a list of parts is what SpheresFillTheirObject says. *)
LEMMA OutcomeFills ==
  ASSUME NEW parts, IsSnapshot(parts), NEW diameter \in Nat \ {0}, NEW least \in Nat \ {0}, NEW most \in Nat
  PROVE  SpheresFill(Outcome(parts, diameter, least, most))
<1> DEFINE o == Outcome(parts, diameter, least, most)
           specs == SpecsFromSnapshot(parts)
           balls == CumotionSpheres(parts, Placement, diameter, least, most)
           limit == Larger(least, most)
<1>1. o.specs = specs /\ o.least = least /\ o.most = most /\ o.balls = balls
  BY DEF Outcome
<1>2. IsSpecs(specs)
  BY SceneGivesSpecs
<1>3. Larger(1, least) = least /\ limit \in Nat /\ most <= limit
  BY DEF Larger
<1>4. balls = BuildAttachmentSpheres(specs, Placement, diameter, least, most)
  BY DEF CumotionSpheres
<1> HIDE DEF specs, balls, o, limit
<1>5. Promised(balls, specs, Placement, limit)
  <2>1. Promised(balls, specs, Placement, Larger(Larger(1, least), most))
    <3>1. least \in Int /\ most \in Int
      OBVIOUS
    <3> QED BY <1>2, <1>4, <3>1, PlacementIs, SpheresFillTheirObject
  <2> QED BY <1>3, <2>1 DEF limit
<1>6. /\ balls \in Seq(Balls) /\ DOMAIN balls = 1 .. Len(balls) /\ Len(balls) \in Nat
      /\ Len(specs) \in Nat /\ DOMAIN specs = 1 .. Len(specs) /\ \A i \in DOMAIN specs : IsShape(specs[i])
  BY <1>2, <1>5 DEF Promised, IsSpecs
<1>7. /\ (o.specs = <<>>) = (o.balls = <<>>)
      /\ Len(o.balls) <= Larger(o.least, o.most)
      /\ \A m \in DOMAIN o.balls : \E i \in DOMAIN o.specs : InShape(o.balls[m], o.specs[i], Placement)
  BY <1>1, <1>5, <1>6 DEF Promised, limit
<1>8. ASSUME Len(o.balls) < o.most, NEW i \in DOMAIN o.specs, o.specs[i].type = "box",
             NEW p \in BoxPoints(o.specs[i], Placement)
      PROVE  CoveredBy(o.balls, p)
  <2>1. Len(balls) < limit
    BY <1>1, <1>3, <1>6, <1>8
  <2>2. p \in Points /\ InShape(p, specs[i], Placement)
    BY <1>1, <1>6, <1>8, PlacementIs, BoxPointsAreInside
  <2> QED BY <1>1, <1>5, <1>6, <1>8, <2>1, <2>2 DEF Promised
<1>9. ASSUME DOMAIN o.specs = {1}, o.specs[1].type = "sphere", NEW m \in DOMAIN o.balls
      PROVE  Fits(o.balls[m], o.specs[1], Placement)
  <2>1. Len(specs) = 1
    <3>1. 1 .. Len(specs) = {1}
      BY <1>1, <1>6, <1>9
    <3>2. 1 \in 1 .. Len(specs) /\ ~ (2 \in 1 .. Len(specs))
      BY <3>1
    <3> QED BY <1>6, <3>2
  <2> QED BY <1>1, <1>5, <1>6, <1>9, <2>1 DEF Promised
<1>10. SpheresFill(o)
  BY <1>7, <1>8, <1>9 DEF SpheresFill
<1> QED BY <1>10 DEF o

(* The tracker of cuRobo has a sphere at least, and the same ones when the *)
(* file says what the scene says.                                          *)
LEMMA TrackerDoesAgree ==
  ASSUME NEW part \in Parts, NEW diameter \in Nat \ {0}, NEW least \in Nat \ {0}, NEW most \in Nat
  PROVE  TrackerAgrees(part, diameter, least, most)
<1>1. \A parts : Tracked(parts, diameter, least, most) # <<>>
  BY DEF Tracked, TrackerSpheres, OrOne
<1>2. ASSUME part.posed, SpecsFromSnapshot(<<part>>) # <<>>
      PROVE  Tracked(<<part>>, diameter, least, most) = Outcome(<<part>>, diameter, least, most).balls
  <2> DEFINE o == Outcome(<<part>>, diameter, least, most)
             specs == SpecsFromSnapshot(<<part>>)
             balls == BuildAttachmentSpheres(specs, Placement, diameter, least, most)
  <2>1. SpecsFromUrdf([parses |-> TRUE, shapes |-> <<part>>]) = specs
    BY <1>2, PartsAreParts, FileSaysTheSame
  <2>2. o.balls = balls /\ o.specs = specs
    BY DEF Outcome, CumotionSpheres
  <2>3. SpheresFill(o)
    BY PartsAreParts, SnapshotOf, OutcomeFills
  <2>4. balls # <<>>
    <3> HIDE DEF o, balls, specs
    <3> QED BY <1>2, <2>2, <2>3 DEF SpheresFill, specs
  <2>5. Tracked(<<part>>, diameter, least, most) = OrOne(balls, Ball(Times(2, Placement.at), 2, Square(diameter)))
    BY <2>1 DEF Tracked, TrackerSpheres
  <2> HIDE DEF o, balls
  <2> QED BY <2>2, <2>4, <2>5 DEF OrOne, o
<1> QED BY <1>1, <1>2 DEF TrackerAgrees

(* The spheres of the instance, for each list of parts of it.              *)
LEMMA AllOutcomes == CarriedIsSpheres
<1>1. ASSUME NEW o \in OutcomesOfTwo PROVE SpheresFill(o)
  <2>1. PICK one \in Parts : \E two \in Parts : \E diameter \in {3, 6} : o = Outcome(<<one, two>>, diameter, 8, 12)
    BY DEF OutcomesOfTwo
  <2>2. PICK two \in Parts : \E diameter \in {3, 6} : o = Outcome(<<one, two>>, diameter, 8, 12)
    BY <2>1
  <2>3. PICK diameter \in {3, 6} : o = Outcome(<<one, two>>, diameter, 8, 12)
    BY <2>2
  <2>4. IsSnapshot(<<one, two>>)
    <3>1. IsPart(one) /\ IsPart(two)
      BY PartsAreParts
    <3> QED BY <3>1, SnapshotOf
  <2>5. diameter \in Nat \ {0} /\ 8 \in Nat \ {0} /\ 12 \in Nat
    OBVIOUS
  <2> QED BY <2>3, <2>4, <2>5, OutcomeFills
<1>2. ASSUME NEW o \in OutcomesOfOne PROVE SpheresFill(o)
  <2>1. PICK one \in Parts : \E diameter \in {2, 3, 6}, least \in {1, 8}, most \in {8, 12, 32} :
          o = Outcome(<<one>>, diameter, least, most)
    BY DEF OutcomesOfOne
  <2>2. PICK diameter \in {2, 3, 6} : \E least \in {1, 8}, most \in {8, 12, 32} :
          o = Outcome(<<one>>, diameter, least, most)
    BY <2>1
  <2>3. PICK least \in {1, 8} : \E most \in {8, 12, 32} : o = Outcome(<<one>>, diameter, least, most)
    BY <2>2
  <2>4. PICK most \in {8, 12, 32} : o = Outcome(<<one>>, diameter, least, most)
    BY <2>3
  <2>5. diameter \in Nat \ {0} /\ least \in Nat \ {0} /\ most \in Nat
    OBVIOUS
  <2> QED BY <2>4, <2>5, PartsAreParts, SnapshotOf, OutcomeFills
<1>3. ASSUME NEW one \in Parts, NEW diameter \in {2, 3, 6}, NEW least \in {1, 8}, NEW most \in {8, 12, 32}
      PROVE  TrackerAgrees(one, diameter, least, most)
  <2>1. diameter \in Nat \ {0} /\ least \in Nat \ {0} /\ most \in Nat
    OBVIOUS
  <2> QED BY <2>1, TrackerDoesAgree
<1> QED BY <1>1, <1>2, <1>3 DEF CarriedIsSpheres

(* While a robot carries the target, the spheres stand for it.             *)
THEOREM CarriedIsItsSpheres == Spec => []CarriedIsTheTarget
<1>1. CarriedIsTheTarget
  BY AllOutcomes DEF CarriedIsTheTarget
<1> QED BY <1>1, PTL
=============================================================================
