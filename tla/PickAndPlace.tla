----------------------------- MODULE PickAndPlace -----------------------------
(***************************************************************************)
(* The pick-and-place sequence and every representation of the carried     *)
(* object it has to keep in step.                                          *)
(*                                                                         *)
(* One background thread runs PickAndPlaceTargetObject._execute.  The      *)
(* target object is represented in the world of MoveIt's planning scene    *)
(* (module EnvironmentCollision), as an attached body of that scene, in    *)
(* the obstacle list of cuRobo, as spheres on the robot in cuRobo and in   *)
(* cuMotion, and in the surface gripper of the simulation.  The thread     *)
(* changes each of them by a message or a request of its own, keeps a flag *)
(* for what it believes, and undoes what it did when a phase fails.        *)
(***************************************************************************)
EXTENDS Naturals, Sequences

CONSTANTS Configs,      \* the ways the node may be launched, see ConfigType
          GraspTries,   \* max(1, grasp_retry_count)
          Target,       \* the target object
          Pose, Absent, \* its pose, abstracted, and its absence from a scene
          MaxControl, MaxTopic   \* bounds of the topics of EnvironmentCollision

(* The motion backend, _use_cumotion_object_attachment, and whether queries *)
(* of the planning scene time out now and then.                            *)
ConfigType == [backend : {"moveit", "hybrid", "curobo_ros"},
               cumotion : BOOLEAN, queriesFail : BOOLEAN]

ASSUME ConfigAssumption ==
  /\ Configs \subseteq ConfigType
  /\ \A c \in Configs : c.cumotion => c.backend = "moveit"
ASSUME TriesAssumption == GraspTries \in Nat \ {0}
ASSUME PoseAssumption == Absent # Pose

VARIABLES
  config,             \* how the node was launched
  \* the thread
  pc,                 \* the phase it is about to run
  todo,               \* what is left of the cleanup of a failed phase
  tries,              \* attempts left in a phase that retries
  sequence_success, sequence_failed,
  targetSuppressed,   \* _target_object_suppressed
  attachedId,         \* _attached_object_id is the target
  cumotionAttached,   \* _cumotion_object_attached
  trackerAttached,    \* CuroboObjectTracker._attached
  linksDisabled,      \* CuroboObjectTracker._collisions_disabled
  surface,            \* the last /gripper_command: does the simulated gripper hold?
  \* the environment collision publisher and MoveIt
  pose, control, suppressed, published, sent, topic, world, restarts, lost,
  sceneDiffs,         \* attach and detach diffs the thread published, not yet applied
  sceneAttached,      \* the target is an attached body of the planning scene
  \* cuRobo and its world bridge
  bridgeControl,      \* commands the world bridge has not handled
  bridgeSuppressed,   \* the bridge withholds the target
  obstacle,           \* the target is an obstacle of cuRobo's world
  spheres,            \* the attached_object link of cuRobo's robot has spheres
  links,              \* the gripper links of cuRobo's robot collide
  lateAttach,         \* AttachObject requests nobody waits for any more
  lateLinks,          \* SetLinkCollision requests nobody waits for any more
  \* cuMotion
  cumotionSpheres,    \* the target is part of cuMotion's robot
  lateCumotion        \* attachment goals nobody waits for any more

flagVars == <<targetSuppressed, attachedId, cumotionAttached, trackerAttached, linksDisabled>>
outcome == <<sequence_success, sequence_failed>>
envVars == <<pose, control, suppressed, published, sent, topic, world, restarts, lost>>
sceneVars == <<sceneDiffs, sceneAttached>>
bridgeVars == <<bridgeControl, bridgeSuppressed, obstacle>>
curoboVars == <<spheres, links, lateAttach, lateLinks>>
cumotionVars == <<cumotionSpheres, lateCumotion>>
remoteVars == <<envVars, sceneVars, bridgeVars, curoboVars, cumotionVars>>
vars == <<config, pc, todo, tries, outcome, flagVars, surface, remoteVars>>

Env == INSTANCE EnvironmentCollision
         WITH Objects <- {Target}, Poses <- {Pose}, MaxRestarts <- 0, MaxLost <- 0

UseCumotion == config.cumotion
UsesScene == config.backend \in {"moveit", "hybrid"}     \* the world of MoveIt is used
UsesTracker == config.backend \in {"hybrid", "curobo_ros"}

Phases == {"connect", "lookup", "open_gripper", "pre_grasp", "grasp", "snapshot",
  "recover", "resnapshot", "suppress", "verify_suppress", "close_gripper",
  "attach_in_isaac", "post_grasp_lift", "attach_cumotion", "attach_moveit",
  "attach_curobo", "release_orientation", "pre_drop", "release",
  "open_gripper_at_release", "detach_moveit", "detach_cumotion", "surface_off",
  "detach_curobo", "retreat", "unsuppress", "verify_unsuppress", "home",
  "cleanup", "verify_restore", "finally", "done"}

(* Cleanup steps.  Every abort path of the code runs a subset of them, and *)
(* always in this order.                                                   *)
CleanupOrder == <<"detach_curobo", "detach_cumotion", "detach_moveit", "restore", "abort">>
CleanupSteps == {CleanupOrder[i] : i \in 1 .. 5}
DetachDynamic == {"detach_curobo", "detach_cumotion", "detach_moveit"}

Init ==
  /\ config \in Configs
  /\ pc = "connect" /\ todo = {} /\ tries = 0
  /\ sequence_success = FALSE /\ sequence_failed = FALSE
  /\ targetSuppressed = FALSE /\ attachedId = FALSE /\ cumotionAttached = FALSE
  /\ trackerAttached = FALSE /\ linksDisabled = FALSE
  /\ surface = FALSE
  \* the publisher has been running
  /\ pose = [o \in {Target} |-> Pose]
  /\ control = <<>> /\ topic = <<>> /\ restarts = 0 /\ lost = 0
  /\ \/ /\ suppressed = {} /\ published = {Target}
        /\ sent = pose /\ world = pose
     \* an earlier sequence left the target suppressed
     \/ /\ suppressed = {Target} /\ published = {}
        /\ sent = [o \in {Target} |-> Absent] /\ world = sent
  /\ bridgeSuppressed = (suppressed = {Target}) /\ bridgeControl = <<>>
  /\ obstacle = ~ bridgeSuppressed
  /\ sceneDiffs = <<>> /\ sceneAttached = FALSE
  /\ spheres = FALSE /\ links = TRUE /\ lateAttach = <<>> /\ lateLinks = <<>>
  /\ cumotionSpheres = FALSE /\ lateCumotion = <<>>

-----------------------------------------------------------------------------
(* Moving on, and giving up.                                               *)
Goto(p) == pc' = p /\ UNCHANGED <<config, todo, outcome>>

(* _abort_sequence first, then the cleanup.                                *)
FailThenClean(steps) ==
  /\ sequence_failed' = TRUE
  /\ pc' = "cleanup" /\ todo' = steps
  /\ UNCHANGED <<config, sequence_success>>

(* Mutant of CleanThenFail: a step no handler knows.                       *)
CleanThenFailMisspelt(steps) ==
  /\ pc' = "cleanup" /\ todo' = steps \cup {"failed"}
  /\ UNCHANGED <<config, outcome>>

(* The cleanup first, _abort_sequence as its last step.                    *)
CleanThenFail(steps) ==
  /\ pc' = "cleanup" /\ todo' = steps \cup {"abort"}
  /\ UNCHANGED <<config, outcome>>

(* A blocking step that succeeds or gives up, and changes nothing here.    *)
Attempt(p, success, failure) ==
  /\ pc = p
  /\ Goto(success) \/ failure
  /\ UNCHANGED <<tries, flagVars, surface, remoteVars>>

(* A phase of at most n attempts, each a motion that may fail.             *)
Retrying(p, n, success, failure) ==
  /\ pc = p
  /\ \/ Goto(success) /\ tries' = 0
     \/ tries + 1 < n /\ Goto(p) /\ tries' = tries + 1
     \/ tries + 1 = n /\ failure /\ tries' = 0
  /\ UNCHANGED <<flagVars, surface, remoteVars>>

(* A request to a server.  "partial": the server changed its state and     *)
(* answered that it failed; "late": the client gave up waiting and the     *)
(* request is still served some time later.                                *)
Outcomes == {"ok", "refused", "partial", "late"}
Effect(out, wanted, current) == IF out \in {"ok", "partial"} THEN wanted ELSE current
Queued(out, wanted, late) ==
  IF out = "late" THEN Append(late, wanted)
  ELSE IF out \in {"ok", "partial"} THEN <<>> ELSE late

-----------------------------------------------------------------------------
(* Hiding and showing the target in the world of the planners.             *)

PublishControl(op) ==
  /\ control' = Append(control, [op |-> op, id |-> Target])
  /\ bridgeControl' = Append(bridgeControl, op)
  /\ UNCHANGED <<pose, suppressed, published, sent, topic, world, restarts, lost,
                 bridgeSuppressed, obstacle>>

(* A query of the planning scene that fails reads as "not there".          *)
SceneReads == {world[Target] # Absent} \cup (IF config.queriesFail THEN {FALSE} ELSE {})

(* Mutant of Verified: publishing the command is taken for its effect.     *)
VerifiedAtOnce(present) == TRUE

(* _wait_for_world_object_state is satisfied when the service is down, and *)
(* otherwise by one answer; _wait_for_curobo_obstacle_state needs an answer. *)
Verified(present) ==
  IF UsesScene THEN present \in SceneReads \/ config.queriesFail ELSE obstacle = present
NotVerified(present) ==
  IF UsesScene THEN (~ present) \in SceneReads ELSE obstacle # present \/ config.queriesFail

(* _snapshot_world_object_geometry.                                        *)
Snapshot(p, failure) ==
  /\ pc = p
  /\ \/ TRUE \in SceneReads /\ Goto("suppress")
     \/ FALSE \in SceneReads /\ failure
  /\ UNCHANGED <<tries, surface, remoteVars>>

-----------------------------------------------------------------------------
(* Phases before the grasp.                                                *)
Connect == Attempt("connect", "lookup", FailThenClean({}))
Lookup == Attempt("lookup", "open_gripper", FailThenClean({}))
OpenGripper == Attempt("open_gripper", "pre_grasp", FailThenClean({}))
PreGrasp == Retrying("pre_grasp", 2, "grasp", FailThenClean({}))
Grasp ==
  Retrying("grasp", GraspTries, IF UsesScene THEN "snapshot" ELSE "suppress", FailThenClean({}))

SnapshotGeometry == Snapshot("snapshot", Goto("recover")) /\ UNCHANGED flagVars

(* The recovery pass shows the object again; its outcome is only logged.   *)
Recover ==
  /\ pc = "recover"
  /\ PublishControl("unsuppress")
  /\ Goto("resnapshot")
  /\ UNCHANGED <<tries, flagVars, surface, sceneVars, curoboVars, cumotionVars>>
Resnapshot ==
  /\ Snapshot("resnapshot", FailThenClean({}))
  /\ targetSuppressed' = FALSE
  /\ UNCHANGED <<attachedId, cumotionAttached, trackerAttached, linksDisabled>>

Suppress ==
  /\ pc = "suppress"
  /\ PublishControl("suppress")
  /\ Goto("verify_suppress")
  /\ UNCHANGED <<tries, flagVars, surface, sceneVars, curoboVars, cumotionVars>>
VerifySuppress ==
  /\ pc = "verify_suppress"
  /\ \/ Verified(FALSE) /\ targetSuppressed' = TRUE /\ Goto("close_gripper")
     \/ NotVerified(FALSE) /\ UNCHANGED targetSuppressed /\ FailThenClean({})
  /\ UNCHANGED <<tries, attachedId, cumotionAttached, trackerAttached, linksDisabled,
                 surface, remoteVars>>

CloseGripper == Attempt("close_gripper", "attach_in_isaac", CleanThenFail({"restore"}))

AttachInIsaac ==
  /\ pc = "attach_in_isaac"
  /\ surface' = TRUE
  /\ Goto("post_grasp_lift")
  /\ UNCHANGED <<tries, flagVars, remoteVars>>

PostGraspLift ==
  Attempt("post_grasp_lift",
          IF UseCumotion THEN "attach_cumotion"
          ELSE IF UsesScene THEN "attach_moveit" ELSE "attach_curobo",
          FailThenClean({"restore"}))

-----------------------------------------------------------------------------
(* Attaching the target to the robot, backend by backend.                  *)

(* _send_cumotion_attachment_goal; out of time, the goal is not cancelled. *)
CumotionGoal(out, attach) ==
  /\ cumotionSpheres' = Effect(out, attach, cumotionSpheres)
  /\ lateCumotion' = Queued(out, attach, lateCumotion)

AttachCumotion ==
  /\ pc = "attach_cumotion"
  /\ \E out \in Outcomes :
       /\ CumotionGoal(out, TRUE)
       /\ IF out = "ok" THEN cumotionAttached' = TRUE /\ Goto("attach_moveit")
          ELSE UNCHANGED cumotionAttached /\ CleanThenFail({"restore"})
  /\ UNCHANGED <<tries, targetSuppressed, attachedId, trackerAttached, linksDisabled, surface,
                 envVars, sceneVars, bridgeVars, curoboVars>>

(* _attach_object_collision: it fails before it publishes, when the        *)
(* geometry cannot be expressed in the gripper frame.  That the scene took *)
(* the diff is checked and only logged.                                    *)
AttachMoveIt ==
  /\ pc = "attach_moveit"
  /\ \/ /\ sceneDiffs' = Append(sceneDiffs, "attach")
        /\ attachedId' = TRUE
        /\ Goto(IF UsesTracker THEN "attach_curobo" ELSE "release_orientation")
     \/ /\ UNCHANGED <<sceneDiffs, attachedId>>
        /\ CleanThenFail({"restore"} \cup (IF config.backend = "moveit" THEN {"detach_cumotion"} ELSE {}))
  /\ UNCHANGED <<tries, targetSuppressed, cumotionAttached, trackerAttached, linksDisabled,
                 surface, sceneAttached, envVars, bridgeVars, curoboVars, cumotionVars>>

(* The two requests of CuroboObjectTracker.                                *)
LinkRequest(out, enabled) ==
  /\ links' = Effect(out, enabled, links)
  /\ lateLinks' = Queued(out, enabled, lateLinks)
AttachRequest(out, attach) ==
  /\ spheres' = Effect(out, attach, spheres)
  /\ lateAttach' = Queued(out, attach, lateAttach)

(* CuroboObjectTracker.attach: it may fail before it sends anything; then  *)
(* it disables the gripper links and asks for the attachment.              *)
TrackerAttach(success, failure) ==
  \/ UNCHANGED <<trackerAttached, linksDisabled, curoboVars>> /\ failure
  \/ \E l \in Outcomes, a \in Outcomes :
       /\ IF linksDisabled THEN UNCHANGED <<links, lateLinks, linksDisabled>>
          ELSE LinkRequest(l, FALSE) /\ linksDisabled' = (l = "ok")
       /\ AttachRequest(a, TRUE)
       /\ IF a = "ok" THEN trackerAttached' = TRUE /\ success
          ELSE UNCHANGED trackerAttached /\ failure

AttachCurobo ==
  /\ pc = "attach_curobo"
  /\ TrackerAttach(Goto("release_orientation"),
       CleanThenFail(IF config.backend = "hybrid" THEN {"detach_moveit", "restore"} ELSE {"restore"}))
  /\ UNCHANGED <<tries, targetSuppressed, attachedId, cumotionAttached, surface,
                 envVars, sceneVars, bridgeVars, cumotionVars>>

-----------------------------------------------------------------------------
(* Carrying and releasing.                                                 *)
CarryFailed == DetachDynamic \cup {"restore"}
ReleaseOrientation ==
  Attempt("release_orientation", "pre_drop", CleanThenFail(CarryFailed))
PreDrop == Attempt("pre_drop", "release", FailThenClean(CarryFailed))
Release == Attempt("release", "open_gripper_at_release", FailThenClean(CarryFailed))
OpenGripperAtRelease ==
  Attempt("open_gripper_at_release",
          IF UsesScene THEN "detach_moveit" ELSE "surface_off", CleanThenFail(CarryFailed))

(* Mutant of PublishDetach: the attached id is not reset.                  *)
PublishDetachKeepsId ==
  /\ sceneDiffs' = Append(sceneDiffs, "detach")
  /\ UNCHANGED attachedId

(* _detach_object_collision always succeeds: it publishes and forgets.     *)
PublishDetach ==
  /\ sceneDiffs' = Append(sceneDiffs, "detach")
  /\ attachedId' = FALSE

DetachMoveIt ==
  /\ pc = "detach_moveit"
  /\ PublishDetach
  /\ surface' = FALSE
  /\ Goto(IF UsesTracker THEN "detach_curobo" ELSE "detach_cumotion")
  /\ UNCHANGED <<tries, targetSuppressed, cumotionAttached, trackerAttached, linksDisabled,
                 sceneAttached, envVars, bridgeVars, curoboVars, cumotionVars>>

SurfaceOff ==
  /\ pc = "surface_off"
  /\ surface' = FALSE
  /\ Goto("detach_curobo")
  /\ UNCHANGED <<tries, flagVars, remoteVars>>

(* Mutant of CumotionDetach: the outcome of the last attempt is ignored.   *)
CumotionDetachIgnoresOutcome(n, success, failure) ==
  \/ /\ ~ cumotionAttached
     /\ success /\ tries' = 0
     /\ UNCHANGED <<cumotionAttached, cumotionVars>>
  \/ /\ cumotionAttached
     /\ \E out \in Outcomes : CumotionGoal(out, FALSE)
     /\ cumotionAttached' = FALSE /\ success /\ tries' = 0

(* _detach_object_from_cumotion: nothing to do unless it believes the      *)
(* target attached; n attempts.                                            *)
CumotionDetach(n, success, failure) ==
  \/ /\ ~ cumotionAttached
     /\ success /\ tries' = 0
     /\ UNCHANGED <<cumotionAttached, cumotionVars>>
  \/ /\ cumotionAttached
     /\ \E out \in Outcomes :
          /\ CumotionGoal(out, FALSE)
          /\ \/ out = "ok" /\ cumotionAttached' = FALSE /\ success /\ tries' = 0
             \/ /\ out # "ok" /\ UNCHANGED cumotionAttached
                /\ \/ tries + 1 < n /\ tries' = tries + 1 /\ Goto(pc)
                   \/ tries + 1 = n /\ tries' = 0 /\ failure

DetachCumotion ==
  /\ pc = "detach_cumotion"
  /\ CumotionDetach(2, Goto("retreat"), CleanThenFail({"restore"}))
  /\ UNCHANGED <<targetSuppressed, attachedId, trackerAttached, linksDisabled, surface,
                 envVars, sceneVars, bridgeVars, curoboVars>>

(* Mutant of TrackerDetach: the answer to the request is not looked at.    *)
TrackerDetachTrustsRequest(success, failure) ==
  \/ /\ ~ trackerAttached
     /\ success
     /\ UNCHANGED <<trackerAttached, linksDisabled, curoboVars>>
  \/ /\ trackerAttached
     /\ \E l \in Outcomes, a \in Outcomes :
          /\ AttachRequest(a, FALSE)
          /\ IF linksDisabled THEN LinkRequest(l, TRUE) ELSE UNCHANGED <<links, lateLinks>>
          /\ linksDisabled' = FALSE
          /\ trackerAttached' = FALSE
          /\ success

(* CuroboObjectTracker.detach: nothing to do unless attached; it may fail  *)
(* before it sends anything; the links are restored whether or not the     *)
(* spheres went away, and nobody looks at the answer.                      *)
TrackerDetach(success, failure) ==
  \/ /\ ~ trackerAttached
     /\ success
     /\ UNCHANGED <<trackerAttached, linksDisabled, curoboVars>>
  \/ /\ trackerAttached
     /\ failure
     /\ UNCHANGED <<trackerAttached, linksDisabled, curoboVars>>
  \/ /\ trackerAttached
     /\ \E l \in Outcomes, a \in Outcomes :
          /\ AttachRequest(a, FALSE)
          /\ IF linksDisabled THEN LinkRequest(l, TRUE) ELSE UNCHANGED <<links, lateLinks>>
          /\ linksDisabled' = FALSE
          /\ trackerAttached' = (a # "ok")
          /\ IF a = "ok" THEN success ELSE failure

DetachCurobo ==
  /\ pc = "detach_curobo"
  /\ TrackerDetach(Goto("retreat"), CleanThenFail({"restore"}))
  /\ UNCHANGED <<tries, targetSuppressed, attachedId, cumotionAttached, surface,
                 envVars, sceneVars, bridgeVars, cumotionVars>>

Retreat == Attempt("retreat", "unsuppress", FailThenClean({"restore"}))

(* Mutant of Unsuppress: detaching is trusted to bring the object back.    *)
UnsuppressByDetachOnly ==
  /\ pc = "unsuppress"
  /\ Goto("verify_unsuppress")
  /\ UNCHANGED <<tries, flagVars, surface, remoteVars>>

Unsuppress ==
  /\ pc = "unsuppress"
  /\ PublishControl("unsuppress")
  /\ Goto("verify_unsuppress")
  /\ UNCHANGED <<tries, flagVars, surface, sceneVars, curoboVars, cumotionVars>>
VerifyUnsuppress ==
  /\ pc = "verify_unsuppress"
  /\ \/ Verified(TRUE) /\ targetSuppressed' = FALSE /\ Goto("home")
     \/ NotVerified(TRUE) /\ UNCHANGED targetSuppressed /\ CleanThenFail(DetachDynamic)
  /\ UNCHANGED <<tries, attachedId, cumotionAttached, trackerAttached, linksDisabled,
                 surface, remoteVars>>

Home ==
  /\ pc = "home"
  /\ \/ sequence_success' = TRUE /\ pc' = "finally" /\ UNCHANGED <<config, todo, sequence_failed>>
     \/ FailThenClean(DetachDynamic)
  /\ UNCHANGED <<tries, flagVars, surface, remoteVars>>

-----------------------------------------------------------------------------
(* The cleanup of a failed phase, in the order of CleanupOrder.            *)
NextCleanup(step) ==
  /\ pc = "cleanup" /\ step \in todo
  /\ \A i, j \in 1 .. 5 : CleanupOrder[j] = step /\ i < j => CleanupOrder[i] \notin todo

CleanedUp(step) == pc' = pc /\ todo' = todo \ {step} /\ UNCHANGED config

CleanupDetachCurobo ==
  /\ NextCleanup("detach_curobo")
  /\ CleanedUp("detach_curobo") /\ UNCHANGED outcome
  /\ TrackerDetach(TRUE, TRUE)
  /\ UNCHANGED <<tries, targetSuppressed, attachedId, cumotionAttached, surface,
                 envVars, sceneVars, bridgeVars, cumotionVars>>

CleanupDetachCumotion ==
  /\ NextCleanup("detach_cumotion")
  /\ CleanedUp("detach_cumotion") /\ UNCHANGED outcome
  /\ CumotionDetach(1, TRUE, TRUE)
  /\ UNCHANGED <<targetSuppressed, attachedId, trackerAttached, linksDisabled, surface,
                 envVars, sceneVars, bridgeVars, curoboVars>>

CleanupDetachMoveIt ==
  /\ NextCleanup("detach_moveit")
  /\ CleanedUp("detach_moveit") /\ UNCHANGED outcome
  /\ IF attachedId THEN PublishDetach ELSE UNCHANGED <<sceneDiffs, attachedId>>
  /\ UNCHANGED <<tries, targetSuppressed, cumotionAttached, trackerAttached, linksDisabled,
                 surface, sceneAttached, envVars, bridgeVars, curoboVars, cumotionVars>>

(* _restore_suppressed_object_collision.                                   *)
CleanupRestore ==
  /\ NextCleanup("restore")
  /\ IF targetSuppressed
     THEN PublishControl("unsuppress") /\ pc' = "verify_restore" /\ UNCHANGED <<config, todo>>
     ELSE CleanedUp("restore") /\ UNCHANGED <<envVars, bridgeVars>>
  /\ UNCHANGED <<outcome, tries, flagVars, surface, sceneVars, curoboVars, cumotionVars>>
VerifyRestore ==
  /\ pc = "verify_restore"
  /\ pc' = "cleanup" /\ todo' = todo \ {"restore"} /\ UNCHANGED config
  /\ \/ Verified(TRUE) /\ targetSuppressed' = FALSE
     \/ NotVerified(TRUE) /\ UNCHANGED targetSuppressed
  /\ UNCHANGED <<outcome, tries, attachedId, cumotionAttached, trackerAttached, linksDisabled,
                 surface, remoteVars>>

CleanupAbort ==
  /\ NextCleanup("abort")
  /\ CleanedUp("abort")
  /\ sequence_failed' = TRUE /\ UNCHANGED sequence_success
  /\ UNCHANGED <<tries, flagVars, surface, remoteVars>>

CleanupFinished ==
  /\ pc = "cleanup" /\ todo = {}
  /\ Goto("finally")
  /\ UNCHANGED <<tries, flagVars, surface, remoteVars>>

(* The finally clause restores the planner (module PlannerSession).        *)
Finally ==
  /\ pc = "finally"
  /\ Goto("done")
  /\ UNCHANGED <<tries, flagVars, surface, remoteVars>>

Thread ==
  \/ Connect \/ Lookup \/ OpenGripper \/ PreGrasp \/ Grasp
  \/ SnapshotGeometry \/ Recover \/ Resnapshot \/ Suppress \/ VerifySuppress
  \/ CloseGripper \/ AttachInIsaac \/ PostGraspLift
  \/ AttachCumotion \/ AttachMoveIt \/ AttachCurobo
  \/ ReleaseOrientation \/ PreDrop \/ Release \/ OpenGripperAtRelease
  \/ DetachMoveIt \/ SurfaceOff \/ DetachCumotion \/ DetachCurobo
  \/ Retreat \/ Unsuppress \/ VerifyUnsuppress \/ Home
  \/ CleanupDetachCurobo \/ CleanupDetachCumotion \/ CleanupDetachMoveIt
  \/ CleanupRestore \/ VerifyRestore \/ CleanupAbort \/ CleanupFinished \/ Finally

-----------------------------------------------------------------------------
(* The other processes.                                                    *)
threadVars == <<config, pc, todo, tries, outcome, flagVars, surface>>

EnvironmentCommand ==
  /\ Env!OnControlCommand
  /\ UNCHANGED <<threadVars, sceneVars, bridgeVars, curoboVars, cumotionVars>>
EnvironmentTick ==
  /\ \E located \in SUBSET {Target}, due \in SUBSET published : Env!PublishPoses(located, due)
  /\ UNCHANGED <<threadVars, sceneVars, bridgeVars, curoboVars, cumotionVars>>

ApplyEnvironmentDiff ==
  /\ Env!ApplyDiff
  /\ UNCHANGED <<threadVars, sceneVars, bridgeVars, curoboVars, cumotionVars>>

(* move_group applies a diff of the thread: attaching takes the object out *)
(* of the world, detaching puts it back where it is.                       *)
ApplySceneDiff ==
  /\ sceneDiffs # <<>>
  /\ sceneDiffs' = Tail(sceneDiffs)
  /\ IF Head(sceneDiffs) = "attach"
     THEN sceneAttached' = TRUE /\ world' = [world EXCEPT ![Target] = Absent]
     ELSE /\ sceneAttached' = FALSE
          /\ world' = IF sceneAttached /\ world[Target] = Absent
                      THEN [world EXCEPT ![Target] = pose[Target]] ELSE world
  /\ UNCHANGED <<threadVars, pose, control, suppressed, published, sent, topic, restarts, lost,
                 bridgeVars, curoboVars, cumotionVars>>

(* The world bridge handles a command, and brings cuRobo's obstacle in     *)
(* line with it (module WorldBridge has the detail).                       *)
BridgeCommand ==
  /\ bridgeControl # <<>>
  /\ bridgeSuppressed' = (Head(bridgeControl) = "suppress")
  /\ bridgeControl' = Tail(bridgeControl)
  /\ UNCHANGED <<threadVars, envVars, sceneVars, obstacle, curoboVars, cumotionVars>>
BridgeReconcile ==
  /\ obstacle = bridgeSuppressed
  /\ obstacle' = ~ bridgeSuppressed
  /\ UNCHANGED <<threadVars, envVars, sceneVars, bridgeControl, bridgeSuppressed,
                 curoboVars, cumotionVars>>

(* A server gets to a request its client has given up on.                  *)
ServeLateAttach ==
  /\ lateAttach # <<>>
  /\ spheres' = Head(lateAttach) /\ lateAttach' = Tail(lateAttach)
  /\ UNCHANGED <<threadVars, envVars, sceneVars, bridgeVars, links, lateLinks, cumotionVars>>
ServeLateLinks ==
  /\ lateLinks # <<>>
  /\ links' = Head(lateLinks) /\ lateLinks' = Tail(lateLinks)
  /\ UNCHANGED <<threadVars, envVars, sceneVars, bridgeVars, spheres, lateAttach, cumotionVars>>
ServeLateCumotion ==
  /\ lateCumotion # <<>>
  /\ cumotionSpheres' = Head(lateCumotion) /\ lateCumotion' = Tail(lateCumotion)
  /\ UNCHANGED <<threadVars, envVars, sceneVars, bridgeVars, curoboVars>>

Others ==
  \/ EnvironmentCommand \/ EnvironmentTick \/ ApplyEnvironmentDiff \/ ApplySceneDiff
  \/ BridgeCommand \/ BridgeReconcile
  \/ ServeLateAttach \/ ServeLateLinks \/ ServeLateCumotion

Next == Thread \/ Others

(* Every wait of the thread has a timeout; the executors of the other      *)
(* processes keep running.                                                 *)
Fairness ==
  /\ WF_vars(Thread)
  /\ WF_vars(EnvironmentCommand) /\ SF_vars(EnvironmentTick)
  /\ WF_vars(ApplyEnvironmentDiff) /\ WF_vars(ApplySceneDiff)
  /\ WF_vars(BridgeCommand) /\ WF_vars(BridgeReconcile)
  /\ WF_vars(ServeLateAttach) /\ WF_vars(ServeLateLinks) /\ WF_vars(ServeLateCumotion)

Spec == Init /\ [][Next]_vars
FairSpec == Spec /\ Fairness
-----------------------------------------------------------------------------
(* Type correctness of every variable.                                     *)
Ops == {"suppress", "unsuppress"}
ThreadTypeOK ==
  /\ config \in Configs
  /\ pc \in Phases /\ todo \in SUBSET CleanupSteps /\ tries \in Nat
  /\ sequence_success \in BOOLEAN /\ sequence_failed \in BOOLEAN
  /\ targetSuppressed \in BOOLEAN /\ attachedId \in BOOLEAN /\ cumotionAttached \in BOOLEAN
  /\ trackerAttached \in BOOLEAN /\ linksDisabled \in BOOLEAN /\ surface \in BOOLEAN
RemoteTypeOK ==
  /\ Env!TypeOK
  /\ sceneDiffs \in Seq({"attach", "detach"}) /\ sceneAttached \in BOOLEAN
  /\ bridgeControl \in Seq(Ops) /\ bridgeSuppressed \in BOOLEAN /\ obstacle \in BOOLEAN
  /\ spheres \in BOOLEAN /\ links \in BOOLEAN
  /\ lateAttach \in Seq(BOOLEAN) /\ lateLinks \in Seq(BOOLEAN)
  /\ cumotionSpheres \in BOOLEAN /\ lateCumotion \in Seq(BOOLEAN)
TypeOK == ThreadTypeOK /\ RemoteTypeOK

(* What the publisher and MoveIt come to once they have handled everything *)
(* the thread has sent them.                                               *)
WillBeSuppressed ==
  IF control = <<>> THEN suppressed = {Target} ELSE control[Len(control)].op = "suppress"
WillBeAttached ==
  IF sceneDiffs = <<>> THEN sceneAttached ELSE sceneDiffs[Len(sceneDiffs)] = "attach"

(* _attached_object_id tells the truth, up to the diffs in flight, through *)
(* every abort path: while it names the target the publisher has been told *)
(* to withhold it, so the target is never headed for both representations; *)
(* and no path ends with the target attached in the planning scene.        *)
AttachmentTracked == attachedId = WillBeAttached
HiddenWhileAttached == attachedId => WillBeSuppressed
DetachedAtTheEnd == pc \in {"finally", "done"} => ~ attachedId
SceneOwnership == AttachmentTracked /\ HiddenWhileAttached /\ DetachedAtTheEnd

(* What the world bridge comes to once it has handled its commands.        *)
BridgeWillWithhold ==
  IF bridgeControl = <<>> THEN bridgeSuppressed
  ELSE bridgeControl[Len(bridgeControl)] = "suppress"

(* While the arm carries the target, it is not in the world of a planner   *)
(* that has it on the robot, which would put the start of every motion in  *)
(* collision.  Of the planner whose world is asked before the gripper      *)
(* closes this holds outright, as long as the queries get their answers:   *)
(* the planning scene for moveit (cuMotion plans in it too) and hybrid,    *)
(* cuRobo for curobo_ros.  With hybrid, cuRobo gets spheres of the target  *)
(* although its own world was never asked: there it may be an obstacle for *)
(* as long as the bridge has not carried out a suppression it has been     *)
(* sent, and no longer.  (_set_environment_object_suppressed,              *)
(* CuroboObjectTracker.attach)                                             *)
NeverCarriedTwice ==
  pc \in {"pre_drop", "release"} =>
    /\ UsesScene /\ ~ config.queriesFail =>
         ~ ((sceneAttached \/ cumotionSpheres) /\ world[Target] # Absent)
    /\ config.backend = "curobo_ros" => ~ (spheres /\ obstacle)
    /\ config.backend = "hybrid" /\ spheres /\ obstacle => BridgeWillWithhold

(* A sequence that reports success has let go of the target in every       *)
(* representation, as the servers see it, and nothing still in flight      *)
(* takes it back.                                                          *)
SuccessMeansReleased ==
  sequence_success =>
    /\ ~ surface /\ ~ WillBeAttached /\ ~ WillBeSuppressed
    /\ ~ spheres /\ \A i \in DOMAIN lateAttach : ~ lateAttach[i]
    /\ ~ cumotionSpheres /\ \A i \in DOMAIN lateCumotion : ~ lateCumotion[i]

(* The sequence ends, whatever fails, with exactly one verdict, and after  *)
(* a success the planners see the target as an obstacle again, for good.   *)
EndsAndRestores ==
  <>[](/\ pc = "done" /\ sequence_success # sequence_failed
       /\ sequence_success => world[Target] # Absent /\ ~ sceneAttached /\ obstacle)

-----------------------------------------------------------------------------
(* What comments and docstrings say, and the code does not do.             *)

(* "Cleanup to re-enable world collisions after an abort path."            *)
AbortReenablesCollisions == pc = "done" /\ sequence_failed => ~ WillBeSuppressed

(* "Wait until object appears or disappears in world collision objects."   *)
VerifiedMeansAbsent == pc = "close_gripper" => world[Target] = Absent
=============================================================================
