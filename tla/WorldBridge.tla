----------------------------- MODULE WorldBridge -----------------------------
(***************************************************************************)
(* The cuRobo world bridge (IsaacCuroboWorldBridge) and the obstacles of   *)
(* the planner (ObstacleManager).                                          *)
(*                                                                         *)
(* A timer compares the obstacles the simulation has with those the bridge *)
(* believes it has published, and sends asynchronous AddObject,            *)
(* RemoveObject and UpdateObjectPoses requests; their answers are looked   *)
(* at by a later tick.  One object of the simulation may be made of        *)
(* several geometries, each an obstacle of its own.                        *)
(***************************************************************************)
EXTENDS Naturals, FiniteSets

CONSTANTS Frames,       \* the objects of the simulation, which commands name
          Names,        \* the obstacles, one per geometry
          FrameOf,      \* the object an obstacle is a geometry of
          Specs,        \* geometries an obstacle may have
          Poses,        \* poses an object may have, up to the tolerances
          Nothing,      \* no obstacle, no signature, no pose
          Unknown,      \* the signature None: published, nobody knows how
          MaxAdds,      \* max_concurrent_adds
          MaxBatch,     \* max_move_batch_size
          MaxRestarts   \* bound: restarts of the bridge

ASSUME FrameAssumption == FrameOf \in [Names -> Frames]
ASSUME LimitsAssumption == MaxAdds \in Nat \ {0} /\ MaxBatch \in Nat \ {0}
ASSUME NamesAssumption == IsFiniteSet(Names)

States == [spec : Specs, pose : Poses]
ASSUME ValuesAssumption ==
  Nothing \notin Poses /\ {Nothing, Unknown} \cap States = {} /\ Nothing # Unknown

VARIABLES pose,         \* what TF says of each object, Nothing until it is located
          spec,         \* the geometry the running bridge has loaded
          suppressed,   \* suppressed_frames
          signatures,   \* published_signatures
          inflight,     \* _inflight_operations
          world,        \* the obstacles of the planner
          restarts      \* restarts so far

bridgeVars == <<spec, suppressed, signatures, inflight>>
vars == <<pose, bridgeVars, world, restarts>>

(* A request, what it wants each obstacle to become, and its answer.       *)
Operation(t, want) == [type |-> t, want |-> want, answer |-> "none"]
Operations ==
  [type : {"add", "remove", "move"},
   want : UNION {[S -> States \cup {Nothing}] : S \in SUBSET Names},
   answer : {"none", "ok", "exists", "failed"}]

Init ==
  /\ pose = [f \in Frames |-> Nothing]
  /\ spec \in Specs
  /\ suppressed = {}
  /\ signatures = [n \in Names |-> Nothing]
  /\ inflight = {}
  /\ world = [n \in Names |-> Nothing]
  /\ restarts = 0

-----------------------------------------------------------------------------
(* The simulation: an object is located, or moves.                         *)
MoveFrame(f, p) ==
  /\ p # pose[f]
  /\ pose' = [pose EXCEPT ![f] = p]
  /\ UNCHANGED <<bridgeVars, world, restarts>>

(* Mutant of OnSuppress: a suppressed object is no longer published.       *)
OnSuppressForgets(f) ==
  /\ suppressed' = suppressed \cup {f}
  /\ signatures' = [n \in Names |-> IF FrameOf[n] = f THEN Nothing ELSE signatures[n]]
  /\ UNCHANGED <<pose, spec, inflight, world, restarts>>

(* _on_control_command.                                                    *)
OnSuppress(f) ==
  /\ suppressed' = suppressed \cup {f}
  /\ UNCHANGED <<pose, spec, signatures, inflight, world, restarts>>
OnUnsuppress(ids) ==
  /\ suppressed' = suppressed \ ids
  /\ UNCHANGED <<pose, spec, signatures, inflight, world, restarts>>
OnControlCommand ==
  \/ \E f \in Frames : OnSuppress(f) \/ OnUnsuppress({f})
  \/ OnUnsuppress(Frames)

-----------------------------------------------------------------------------
(* The planner serves a request.                                           *)
Answer(op, answer) == inflight' = (inflight \ {op}) \cup {[op EXCEPT !.answer = answer]}

ServeAdd(op) ==
  /\ op.type = "add" /\ op.answer = "none"
  /\ \E n \in DOMAIN op.want :
       IF world[n] # Nothing
       THEN Answer(op, "exists") /\ UNCHANGED world
       ELSE Answer(op, "ok") /\ world' = [world EXCEPT ![n] = op.want[n]]
  /\ UNCHANGED <<pose, spec, suppressed, signatures, restarts>>

(* An ADD of what is not there may fail: its dimensions or its type are    *)
(* not understood, its mesh is not found or cannot be turned into voxels.  *)
RefuseAdd(op) ==
  /\ op.type = "add" /\ op.answer = "none"
  /\ \E n \in DOMAIN op.want : world[n] = Nothing
  /\ Answer(op, "failed")
  /\ UNCHANGED <<pose, spec, suppressed, signatures, world, restarts>>

ServeRemove(op) ==
  /\ op.type = "remove" /\ op.answer = "none"
  /\ \E n \in DOMAIN op.want :
       /\ Answer(op, IF world[n] = Nothing THEN "failed" ELSE "ok")
       /\ world' = [world EXCEPT ![n] = Nothing]
  /\ UNCHANGED <<pose, spec, suppressed, signatures, restarts>>

(* update_object_poses moves the obstacles it finds and fails if it misses *)
(* one; it changes no geometry.                                            *)
ServeMove(op) ==
  /\ op.type = "move" /\ op.answer = "none"
  /\ Answer(op, IF \E n \in DOMAIN op.want : world[n] = Nothing THEN "failed" ELSE "ok")
  /\ world' = [n \in Names |->
       IF n \in DOMAIN op.want /\ world[n] # Nothing
       THEN [world[n] EXCEPT !.pose = op.want[n].pose] ELSE world[n]]
  /\ UNCHANGED <<pose, spec, suppressed, signatures, restarts>>

ServeRequest(op) == ServeAdd(op) \/ RefuseAdd(op) \/ ServeRemove(op) \/ ServeMove(op)
Serve == \E op \in inflight : ServeRequest(op)
ServeName(n) == \E op \in inflight : n \in DOMAIN op.want /\ ServeRequest(op)
AcceptName(n) == \E op \in inflight : n \in DOMAIN op.want /\ ServeAdd(op)

-----------------------------------------------------------------------------
(* One tick of the bridge: publish_objects.                                *)
Answered == {op \in inflight : op.answer # "none"}
Pending == inflight \ Answered

(* Mutant of Learned: a duplicate is taken for a successful ADD.           *)
LearnedTrustsDuplicates(op, n) ==
  IF op.answer = "failed" THEN signatures[n] ELSE op.want[n]
(* What the answer of an operation teaches about an obstacle.              *)
Learned(op, n) ==
  IF op.answer = "ok" THEN op.want[n]
  ELSE IF op.answer = "exists" THEN Unknown ELSE signatures[n]

(* _poll_inflight_operations.                                              *)
Polled ==
  [n \in Names |->
     IF \E op \in Answered : n \in DOMAIN op.want
     THEN Learned(CHOOSE op \in Answered : n \in DOMAIN op.want, n)
     ELSE signatures[n]]

(* In what follows signatures' is what the tick has just polled.           *)
(* Mutant of Desired: objects nobody has located yet are published too.    *)
DesiredUnlocated == {n \in Names : FrameOf[n] \notin suppressed}
Desired == {n \in Names : FrameOf[n] \notin suppressed /\ pose[FrameOf[n]] # Nothing}
Wanted(n) == [spec |-> spec, pose |-> pose[FrameOf[n]]]
Stale == {n \in Names \ Desired : signatures'[n] # Nothing}
Changed == {n \in Desired : signatures'[n] # Nothing /\ signatures'[n] # Wanted(n)}
(* Mutant of Adding: nobody remembers what has been asked for.             *)
AddingForgotten == {}
Adding == {n \in Names : \E op \in Pending : op.type = "add" /\ n \in DOMAIN op.want}
Addable == {n \in Desired \ Adding : signatures'[n] = Nothing}

Request(t, ns) ==
  Operation(t, [n \in ns |-> IF t = "remove" THEN Nothing ELSE Wanted(n)])

(* A stale obstacle goes first, alone.                                     *)
RemoveStale ==
  /\ Stale # {}
  /\ IF Pending = {} THEN \E n \in Stale : inflight' = {Request("remove", {n})}
     ELSE inflight' = Pending

WaitForRemove ==
  /\ Stale = {}
  /\ \E op \in Pending : op.type = "remove"
  /\ inflight' = Pending

(* As many ADDs as there is room for; without MOVE updates the loop over   *)
(* the obstacles breaks off at the first one that has changed.             *)
MayAdd(adds, moves) ==
  /\ Cardinality(adds) + Cardinality(Adding) <= MaxAdds
  /\ moves \/ Changed = {} =>
       adds = Addable \/ Cardinality(adds) + Cardinality(Adding) = MaxAdds

MayMove(batch) ==
  /\ Cardinality(batch) <= MaxBatch
  /\ batch = Changed \ Adding \/ Cardinality(batch) = MaxBatch

AddAndMove(moves) ==
  /\ Stale = {}
  /\ \A op \in Pending : op.type # "remove"
  /\ \E adds \in SUBSET Addable :
       /\ MayAdd(adds, moves)
       /\ LET operations == Pending \cup {Request("add", {n}) : n \in adds}
          IN  IF moves
              THEN IF Changed \ Adding = {} \/ \E op \in Pending : op.type = "move"
                   THEN inflight' = operations
                   ELSE \E batch \in SUBSET (Changed \ Adding) :
                          /\ MayMove(batch)
                          /\ inflight' = operations \cup {Request("move", batch)}
              ELSE IF Changed # {} /\ operations = {}
                   THEN \E n \in Changed : inflight' = {Request("remove", {n})}
                   ELSE inflight' = operations

(* moves: whether the planner offers UpdateObjectPoses at this tick.       *)
PublishObjects(moves) ==
  /\ signatures' = Polled
  /\ RemoveStale \/ WaitForRemove \/ AddAndMove(moves)
  /\ UNCHANGED <<pose, spec, suppressed, world, restarts>>

(* While the services of the planner are not ready a tick only polls.      *)
PollOnly ==
  /\ signatures' = Polled
  /\ inflight' = Pending
  /\ UNCHANGED <<pose, spec, suppressed, world, restarts>>

(* The bridge restarts, perhaps with other geometry.  It waits out         *)
(* startup_delay_sec, so what the old one had asked for has been served;   *)
(* the answers are lost with it.                                           *)
RestartBridge ==
  /\ restarts < MaxRestarts
  /\ Pending = {}
  /\ restarts' = restarts + 1
  /\ spec' \in Specs
  /\ suppressed' = {}
  /\ signatures' = [n \in Names |-> Nothing]
  /\ inflight' = {}
  /\ UNCHANGED <<pose, world>>

Next ==
  \/ \E f \in Frames, p \in Poses : MoveFrame(f, p)
  \/ OnControlCommand
  \/ Serve
  \/ \E moves \in BOOLEAN : PublishObjects(moves)
  \/ PollOnly
  \/ RestartBridge

(* The timer keeps firing while the services are there, and the planner    *)
(* answers each request.  An obstacle it is asked to add again and again   *)
(* it does not refuse for good.                                            *)
Fairness ==
  /\ WF_vars(\E moves \in BOOLEAN : PublishObjects(moves))
  /\ \A n \in Names : WF_vars(ServeName(n)) /\ SF_vars(AcceptName(n))

Spec == Init /\ [][Next]_vars
FairSpec == Spec /\ Fairness
-----------------------------------------------------------------------------
(* Type correctness of every variable.                                     *)
TypeOK ==
  /\ pose \in [Frames -> Poses \cup {Nothing}]
  /\ spec \in Specs
  /\ suppressed \in SUBSET Frames
  /\ signatures \in [Names -> States \cup {Nothing, Unknown}]
  /\ inflight \in SUBSET Operations
  /\ world \in [Names -> States \cup {Nothing}]
  /\ restarts \in Nat

(* No two operations in flight concern the same obstacle, so the order in  *)
(* which the planner serves them, and their answers arrive, cannot matter. *)
OneOperationPerObstacle ==
  \A a, b \in inflight : a # b => DOMAIN a.want \cap DOMAIN b.want = {}

(* The bridge never imagines an obstacle: one it will believe published,   *)
(* once it has looked at the answers it has, is in the planner and at the  *)
(* pose it believes, in spite of restarts of the bridge.  Were it wrong,   *)
(* nothing would ever add the obstacle again.                              *)
NothingImagined ==
  \A n \in Names : Polled[n] # Nothing =>
    /\ world[n] # Nothing
    /\ Polled[n] # Unknown => world[n].pose = Polled[n].pose
(* Until the bridge restarts it knows the planner's world exactly.         *)
KnowsTheWorld == restarts = 0 => world = Polled
BeliefIsTrue == NothingImagined /\ KnowsTheWorld

(* Requests that are served late, in any order, and answers that are read  *)
(* later still do not show: with what the bridge has been answered taken   *)
(* for what it knows, it changes the obstacles as if requests took no      *)
(* time.  In particular no request is made twice, none misses its          *)
(* obstacle, and only a restart makes it add one that is there.            *)
Store == INSTANCE ObstacleStore WITH known <- Polled
ImplementsStore == Store!Spec

(* Once the objects stop moving and no more commands come, every object    *)
(* that is not suppressed is eventually an obstacle at its pose, in all of *)
(* its geometries, for good.  (While others keep moving it may starve: the *)
(* loops of publish_objects always begin with the same obstacles.)         *)
ShownCatchesUp ==
  <>[][FALSE]_<<pose, suppressed>> =>
    <>[](\A n \in Desired : world[n] # Nothing /\ world[n].pose = pose[FrameOf[n]])

(* An object that stays suppressed is eventually no obstacle, in none of   *)
(* its geometries, unless the bridge restarted and never learnt of it.     *)
HiddenLeaves ==
  [](restarts = 0) =>
    \A n \in Names : <>[](FrameOf[n] \in suppressed) => <>[](world[n] = Nothing)

(* What the planner has catches up with the simulation, both ways.         *)
CatchesUp == ShownCatchesUp /\ HiddenLeaves
=============================================================================
