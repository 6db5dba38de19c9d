------------------------- MODULE EnvironmentCollision -------------------------
(***************************************************************************)
(* The environment collision publisher (IsaacMoveItPublisher), the two     *)
(* topics around it and the world of MoveIt's planning scene.              *)
(*                                                                         *)
(* The publisher turns the pose of every simulated object into ADD and     *)
(* MOVE messages of a planning-scene diff, and obeys suppress, unsuppress  *)
(* and clear commands.  Commands and diffs travel through topics, so a     *)
(* diff published before a command may be applied after it.                *)
(***************************************************************************)
EXTENDS Naturals, Sequences

CONSTANTS Objects,      \* the collision objects the publisher has loaded
          Poses,        \* poses an object can have, up to the tolerance of _pose_changed
          Absent,       \* "not in the planning scene" / "no pose published"
          MaxControl,   \* bound: commands waiting in /environment_collision/control
          MaxTopic,     \* bound: diffs waiting in /planning_scene
          MaxRestarts,  \* bound: restarts of move_group or of the publisher
          MaxLost       \* bound: diffs overwritten in a full history

ASSUME AbsentAssumption == Absent \notin Poses

VARIABLES pose,         \* the pose TF gives for each object
          control,      \* commands published and not yet handled
          suppressed,   \* suppressed_ids
          published,    \* published (and _last_add_time, which has the same keys)
          sent,         \* _last_published_poses
          topic,        \* diffs published and not yet applied by move_group
          world,        \* the world of the planning scene: pose of each object
          restarts,     \* restarts so far
          lost          \* diffs overwritten so far

pubVars == <<suppressed, published, sent>>
vars == <<pose, control, suppressed, published, sent, topic, world, restarts, lost>>

Commands == [op : {"suppress", "unsuppress"}, id : Objects] \cup {[op |-> "clear"]}

(* A diff names an object at most once.                                    *)
Update(op, o, p) == [op |-> op, id |-> o, pose |-> p]
Diffs == SUBSET [op : {"add", "move", "remove"}, id : Objects, pose : Poses \cup {Absent}]

Init ==
  /\ pose \in [Objects -> Poses]
  /\ control = <<>>
  /\ suppressed = {}
  /\ published = {}
  /\ sent = [o \in Objects |-> Absent]
  /\ topic = <<>>
  /\ world = [o \in Objects |-> Absent]
  /\ restarts = 0
  /\ lost = 0

-----------------------------------------------------------------------------
(* Some client publishes a command.                                        *)
Command(c) ==
  /\ Len(control) < MaxControl
  /\ control' = Append(control, c)
  /\ UNCHANGED <<pose, pubVars, topic, world, restarts, lost>>

(* Mutant of Forget: the forgotten poses leave the table altogether.       *)
ForgetDropsKeys(ids) ==
  /\ published' = published \ ids
  /\ sent' = [o \in Objects \ ids |-> sent[o]]

(* The ids a command makes the publisher forget: they are re-ADDed by the  *)
(* first tick that sees them unsuppressed.                                 *)
Forget(ids) ==
  /\ published' = published \ ids
  /\ sent' = [o \in Objects |-> IF o \in ids THEN Absent ELSE sent[o]]

(* Mutant of OnSuppress: a REMOVE only for what this process has published. *)
OnSuppressIfPublished(o) ==
  IF o \in suppressed
  THEN UNCHANGED <<pubVars, topic>>
  ELSE /\ Len(topic) < MaxTopic
       /\ suppressed' = suppressed \cup {o}
       /\ Forget({o})
       /\ topic' = IF o \in published
                   THEN Append(topic, {Update("remove", o, Absent)}) ELSE topic

(* _on_control_command: a REMOVE is published only when the id was not     *)
(* suppressed already.                                                     *)
OnSuppress(o) ==
  IF o \in suppressed
  THEN UNCHANGED <<pubVars, topic>>
  ELSE /\ Len(topic) < MaxTopic
       /\ suppressed' = suppressed \cup {o}
       /\ Forget({o})
       /\ topic' = Append(topic, {Update("remove", o, Absent)})

OnUnsuppress(ids) ==
  /\ suppressed' = suppressed \ ids
  /\ Forget(suppressed \cap ids)
  /\ UNCHANGED topic

OnControlCommand ==
  /\ control # <<>>
  /\ control' = Tail(control)
  /\ LET c == Head(control)
     IN  \/ c.op = "suppress"   /\ OnSuppress(c.id)
         \/ c.op = "unsuppress" /\ OnUnsuppress({c.id})
         \/ c.op = "clear"      /\ OnUnsuppress(Objects)
  /\ UNCHANGED <<pose, world, restarts, lost>>

(* Mutant of NeedsAdd: no periodic re-ADD.                                 *)
NeedsAddOnce(o, due) == o \notin published
(* due is the set of objects whose last ADD is at least 2 s old.           *)
NeedsAdd(o, due) == o \notin published \/ o \in due

(* Mutant of TickDiff: suppressed objects are not skipped.                 *)
TickDiffOfAll(located, due) ==
  {Update(IF NeedsAdd(o, due) THEN "add" ELSE "move", o, pose[o]) :
     o \in {q \in located : NeedsAdd(q, due) \/ sent[q] # pose[q]}}

(* The diff one tick of the timer builds from the objects TF can locate.   *)
TickDiff(located, due) ==
  {Update(IF NeedsAdd(o, due) THEN "add" ELSE "move", o, pose[o]) :
     o \in {q \in located \ suppressed : NeedsAdd(q, due) \/ sent[q] # pose[q]}}

(* publish_poses: nothing is published when nothing is to be said.         *)
PublishPoses(located, due) ==
  LET diff == TickDiff(located, due)
      ids  == {u.id : u \in diff}
  IN  /\ diff # {}
      /\ Len(topic) < MaxTopic
      /\ topic' = Append(topic, diff)
      /\ published' = published \cup {u.id : u \in {v \in diff : v.op = "add"}}
      /\ sent' = [o \in Objects |-> IF o \in ids THEN pose[o] ELSE sent[o]]
      /\ UNCHANGED <<pose, control, suppressed, world, restarts, lost>>

(* move_group applies a diff: ADD creates or replaces, MOVE and REMOVE do  *)
(* nothing to an object that is not there.                                 *)
Applied(diff, w) ==
  [o \in Objects |->
     IF \E u \in diff : u.id = o
     THEN LET u == CHOOSE v \in diff : v.id = o
          IN  IF u.op = "move" /\ w[o] = Absent THEN Absent ELSE u.pose
     ELSE w[o]]

ApplyDiff ==
  /\ topic # <<>>
  /\ world' = Applied(Head(topic), world)
  /\ topic' = Tail(topic)
  /\ UNCHANGED <<pose, control, pubVars, restarts, lost>>

(* The simulation moves an object.                                         *)
MoveObject(o, p) ==
  /\ p # pose[o]
  /\ pose' = [pose EXCEPT ![o] = p]
  /\ UNCHANGED <<control, pubVars, topic, world, restarts, lost>>

(* move_group stops and a new one starts with an empty scene.              *)
RestartMoveGroup ==
  /\ restarts < MaxRestarts
  /\ restarts' = restarts + 1
  /\ topic' = <<>>
  /\ world' = [o \in Objects |-> Absent]
  /\ UNCHANGED <<pose, control, pubVars, lost>>

(* The publisher restarts: what it was asked to suppress was only in its   *)
(* memory, and so were the commands it had not handled.                    *)
RestartPublisher ==
  /\ restarts < MaxRestarts
  /\ restarts' = restarts + 1
  /\ control' = <<>>
  /\ suppressed' = {}
  /\ published' = {}
  /\ sent' = [o \in Objects |-> Absent]
  /\ UNCHANGED <<pose, topic, world, lost>>

(* The history of the topic is full and its oldest diff is overwritten.    *)
LoseOldest ==
  /\ lost < MaxLost
  /\ Len(topic) = MaxTopic
  /\ lost' = lost + 1
  /\ topic' = Tail(topic)
  /\ UNCHANGED <<pose, control, pubVars, world, restarts>>

Publisher ==
  \/ OnControlCommand
  \/ \E located \in SUBSET Objects, due \in SUBSET published : PublishPoses(located, due)

Next ==
  \/ \E c \in Commands : Command(c)
  \/ Publisher
  \/ ApplyDiff
  \/ \E o \in Objects, p \in Poses : MoveObject(o, p)
  \/ RestartMoveGroup
  \/ RestartPublisher
  \/ LoseOldest

(* A tick that ADDs o, whichever of the other objects it locates or ADDs.  *)
PublishAdd(o) ==
  \E located \in SUBSET Objects, due \in SUBSET published :
    /\ o \in located \ suppressed
    /\ NeedsAdd(o, due)
    /\ PublishPoses(located, due)

(* The executor serves the command subscription and move_group keeps       *)
(* reading.  Every object has its own clock in _last_add_time, so no tick  *)
(* need ever ADD them all: what is fair is that TF locates each object     *)
(* again and again in a tick that is due for it.  Strong fairness, because *)
(* the bound on the topic and a suppression can disable that tick.         *)
Fairness ==
  /\ WF_vars(OnControlCommand)
  /\ \A o \in Objects : SF_vars(PublishAdd(o))
  /\ WF_vars(ApplyDiff)

Spec == Init /\ [][Next]_vars
FairSpec == Spec /\ Fairness

-----------------------------------------------------------------------------
(* Type correctness of every variable.                                     *)
TypeOK ==
  /\ pose \in [Objects -> Poses]
  /\ control \in Seq(Commands)
  /\ suppressed \in SUBSET Objects
  /\ published \in SUBSET Objects
  /\ sent \in [Objects -> Poses \cup {Absent}]
  /\ topic \in Seq(Diffs)
  /\ world \in [Objects -> Poses \cup {Absent}]
  /\ restarts \in Nat
  /\ lost \in Nat

(* The object is mentioned by diff i of the topic with operation op.       *)
Mentions(i, op, o) == \E u \in topic[i] : u.op = op /\ u.id = o

(* When no diff was overwritten, a suppressed object is on its way out of  *)
(* the scene whatever was in flight when it was suppressed: every ADD of   *)
(* it still in the topic precedes a REMOVE, and so does its presence in    *)
(* the world.  (_on_control_command, publish_poses)                        *)
AddsAreRemoved(o) ==
  \A i \in DOMAIN topic : Mentions(i, "add", o) =>
    \E j \in DOMAIN topic : i < j /\ Mentions(j, "remove", o)
PresenceIsRemoved(o) ==
  world[o] # Absent => \E j \in DOMAIN topic : Mentions(j, "remove", o)
SuppressionTakesHold ==
  lost = 0 => \A o \in suppressed : AddsAreRemoved(o) /\ PresenceIsRemoved(o)

(* Losing diffs or restarting move_group never brings a suppressed object  *)
(* back: once it is absent with no ADD in flight it stays absent until it  *)
(* is unsuppressed.  (the suppressed_ids test at the head of publish_poses) *)
Gone(o) ==
  world[o] = Absent /\ \A i \in DOMAIN topic : ~ Mentions(i, "add", o)
GoneStaysGone ==
  [][\A o \in suppressed : Gone(o) /\ o \in suppressed' => Gone(o)']_vars

(* An object that stays unsuppressed and stops moving is eventually in the *)
(* scene at its pose for good, in spite of a restarted move_group and lost *)
(* diffs: the periodic re-ADD repairs what _last_published_poses believes  *)
(* is there.                                                               *)
SceneCatchesUp ==
  \A o \in Objects, p \in Poses :
    <>[](o \notin suppressed /\ pose[o] = p) => <>[](world[o] = p)

(* What the publisher promises move_group until a diff is overwritten, with *)
(* the topic between them seen as instantaneous: an object counts as shown *)
(* from the moment a diff that leaves it in the scene is published, and    *)
(* what follows a loss is promised nothing.                                *)
WillBeShown(o) ==
  \/ \E i \in DOMAIN topic :
        /\ Mentions(i, "add", o)
        /\ \A j \in DOMAIN topic : j > i => ~ Mentions(j, "remove", o)
  \/ /\ world[o] # Absent
     /\ \A j \in DOMAIN topic : ~ Mentions(j, "remove", o)
Shown == {o \in Objects : lost = 0 /\ WillBeShown(o)}

Visibility == INSTANCE ObjectVisibility
                WITH hidden <- suppressed, shown <- Shown
ImplementsVisibility == Visibility!Spec
=============================================================================
