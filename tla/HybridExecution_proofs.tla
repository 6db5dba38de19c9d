------------------------ MODULE HybridExecution_proofs ------------------------
(***************************************************************************)
(* Theorems about HybridExecution, for any path, window, limits and        *)
(* bounds: what the solver of the local planner believes of the session of *)
(* the step service, what a reset leaves behind, which commands the        *)
(* sentinel lets pass, and what a preempted goal may still do; and, for    *)
(* any joints, what is made of joint values on their way.                  *)
(***************************************************************************)
EXTENDS MCHybridExecution, WellFoundedInduction, FiniteSetTheorems, TLAPS

Requests == [init : BOOLEAN, route : Routes, known : Int, window : SUBSET Int]
Nodes == [session : BOOLEAN, baseline : Int, force : BOOLEAN, forceVersion : Int,
          infeasible : 0..InfeasibleSteps, stall : {Unmeasured} \cup 0..StallSteps]
Answers == [kind : Kinds, blocked : BOOLEAN, old : BOOLEAN]
Paths == [route : Routes, known : Int, progress : 0..Last]
Solvers == [at : {"idle", "stepping", "resetting"}, active : BOOLEAN, waiting : BOOLEAN, invalidated : Nat]
Bridges == [at : {"received", "sending", "planning", "running", "canceling", "done"}, cancel : BOOLEAN,
            verdict : {"none", "failed", "success", "preempted", "preempted before dispatch"}]
Messages == [route : Routes, known : Int, to : SUBSET Readers]

(* The type of every variable.  A plan that was published and not heard of *)
(* is not counted yet, which bounds the count of the solver.               *)
Unheard == IF "solver" \in message.to THEN 1 ELSE 0
RecordTypes ==
  /\ node \in Nodes /\ requests \in Seq(Requests) /\ answer \in Answers
  /\ path \in Paths /\ solver \in Solvers /\ bridge \in Bridges /\ message \in Messages
SimpleTypes ==
  /\ obstacle \in BOOLEAN /\ version \in Nat /\ mpcWorld \in BOOLEAN
  /\ controller \in {"trajectory", "stream"} /\ stepAt \in {"idle", "refresh"} /\ resets \in Nat
  /\ local \in BOOLEAN /\ restored \in BOOLEAN
  /\ feedback \in {"none", "stuck", "collision", "done", "canceled"}
  /\ hybrid \in {"none", "sent", "rejected", "executing", "canceling", "succeeded", "failed", "canceled"}
  /\ planning \in {"none", "once", "twice"}
Counts ==
  /\ failures \in Nat /\ faults \in Nat /\ failures + faults <= MaxFaults
  /\ heard \in Nat /\ solver.invalidated <= heard
  /\ plans \in Nat /\ plans <= MaxPlans /\ heard + Unheard <= plans
Types == RecordTypes /\ SimpleTypes /\ Counts

(* A session takes its baseline, and a path its world, from the versions   *)
(* there have been; a direct path that was planned in the present version  *)
(* was planned without the obstacle.                                       *)
Dated(r) == r.known <= version /\ (r.route = "direct" /\ r.known = version => ~ obstacle)
Versions ==
  /\ node.baseline \in {NoVersion} \cup 0..version
  /\ node.forceVersion \in {NoVersion} \cup 0..version
  /\ Dated(path) /\ Dated(message)
  /\ \A i \in 1..Len(requests) : Dated(requests[i])
  /\ stepAt = "refresh" => node.session /\ requests # <<>>

(* While no call is given up, the solver and the step service take turns:  *)
(* one request is out, or its answer is there.                             *)
Turns ==
  /\ solver.at = "idle" => requests = <<>> /\ resets = 0 /\ answer.kind = "none"
  /\ solver.at = "stepping" =>
       /\ local /\ resets = 0
       /\ (answer.kind = "none" /\ Len(requests) = 1) \/ (answer.kind # "none" /\ requests = <<>>)
  /\ solver.at = "resetting" =>
       /\ requests = <<>>
       /\ (answer.kind = "none" /\ resets = 1) \/ (answer.kind \in {"command", "failed"} /\ resets = 0)
  /\ solver.at = "stepping" /\ answer.kind = "command" => node.session
  /\ solver.at = "resetting" /\ answer.kind = "command" => ~ node.session /\ controller = "trajectory"

(* A goal of the bridge that was not sent has no counterpart, and one that *)
(* was reported as preempted has ended, or was never sent.                 *)
BridgeLeads ==
  /\ bridge.at \in {"received", "planning"} => hybrid = "none"
  /\ bridge.verdict # "none" => bridge.at = "done"
  /\ bridge.verdict = "preempted" => hybrid \notin {"sent", "executing", "canceling"}

IInv ==
  /\ Types /\ Versions /\ BridgeLeads
  /\ faults = 0 => Turns
  /\ ActiveMeansSession /\ ResetEndsSession /\ CommandsAreWatched

-----------------------------------------------------------------------------
(* The lesser of a count and its limit.                                    *)
LEMMA MinOfTwo ==
  ASSUME NEW a \in Int, NEW b \in Int
  PROVE  Min({a, b}) = IF a <= b THEN a ELSE b
<1> DEFINE m == IF a <= b THEN a ELSE b
<1>1. m \in {a, b} /\ \A y \in {a, b} : m <= y
  OBVIOUS
<1>2. Min({a, b}) \in {a, b} /\ \A y \in {a, b} : Min({a, b}) <= y
  BY <1>1 DEF Min
<1> QED BY <1>2

LEMMA InitHolds == Init => IInv
<1> SUFFICES ASSUME Init PROVE IInv
  OBVIOUS
<1> USE DEF Init, MpcInit, NoMessage, NoPath, NoAnswer, NoVersion, Unmeasured
<1>1. node \in Nodes /\ requests \in Seq(Requests)
  BY StepsAssumption DEF Nodes
<1>2. answer \in Answers /\ solver \in Solvers /\ bridge \in Bridges
  BY DEF Answers, Solvers, Bridges, Kinds
<1>3. path \in Paths /\ message \in Messages
  BY PathAssumption DEF Paths, Messages, Routes
<1>4. SimpleTypes
  BY DEF SimpleTypes
<1>5. Counts
  <2>1. heard + Unheard = 0 /\ solver.invalidated = 0
    BY DEF Unheard
  <2> QED BY <2>1, FaultsAssumption, BoundsAssumption DEF Counts
<1>6. Versions /\ BridgeLeads /\ Turns
  BY DEF Versions, Dated, BridgeLeads, Turns
<1>7. ActiveMeansSession /\ ResetEndsSession /\ CommandsAreWatched
  BY DEF ActiveMeansSession, ResetEndsSession, CommandsAreWatched
<1> QED BY <1>1, <1>2, <1>3, <1>4, <1>5, <1>6, <1>7 DEF IInv, Types, RecordTypes

LEMMA ChangeKeeps == ASSUME IInv, ChangeObstacle PROVE IInv'
<1>1. version' = version + 1 /\ obstacle' \in BOOLEAN /\ mpcWorld' \in BOOLEAN
  BY DEF ChangeObstacle, ChangeWorld, IInv, Types, SimpleTypes
<1>2. UNCHANGED <<node, controller, requests, stepAt, resets, answer, local, path, solver, heard,
                  feedback, restored, failures, faults, bridge, hybrid, planning, plans, message>>
  BY DEF ChangeObstacle, ChangeWorld, service, localPlanner, execVars
<1>3. Types'
  BY <1>1, <1>2 DEF IInv, Types, RecordTypes, SimpleTypes, Counts, Unheard
<1>4. \A r : Dated(r) /\ r.known \in Int => r.known <= version' /\ r.known # version'
  BY <1>1 DEF IInv, Types, SimpleTypes, Dated
<1>5. path.known \in Int /\ message.known \in Int /\ \A i \in 1..Len(requests) : requests[i].known \in Int
  <2>1. path \in Paths /\ message \in Messages /\ requests \in Seq(Requests)
    BY DEF IInv, Types, RecordTypes
  <2>2. path.known \in Int /\ message.known \in Int
    BY <2>1 DEF Paths, Messages
  <2>3. \A i \in 1..Len(requests) : requests[i] \in Requests
    BY <2>1
  <2> QED BY <2>2, <2>3 DEF Requests
<1>6. Versions'
  BY <1>1, <1>2, <1>4, <1>5 DEF IInv, Types, SimpleTypes, Versions, Dated, NoVersion
<1>7. (faults = 0 => Turns)' /\ BridgeLeads'
  BY <1>2 DEF IInv, Turns, BridgeLeads
<1>8. (ActiveMeansSession /\ ResetEndsSession /\ CommandsAreWatched)'
  BY <1>2 DEF IInv, ActiveMeansSession, ResetEndsSession, CommandsAreWatched
<1> QED BY <1>3, <1>6, <1>7, <1>8 DEF IInv

(* The client and the bridge touch nothing but the goals.                  *)
LEMMA BridgeKeeps == ASSUME IInv, CancelGoal \/ Bridge PROVE IInv'
<1>1. UNCHANGED <<mpcVars, planning, plans, message>>
  BY DEF CancelGoal, Bridge, Dispatch, PlanOnly, EndPlanOnly, Sent, PassCancel, Finish
<1>2. bridge' \in Bridges
  BY DEF IInv, Types, RecordTypes, Bridges, CancelGoal, Bridge, Dispatch, PlanOnly, EndPlanOnly, Sent,
         PassCancel, Finish, Outcome
<1>3. SimpleTypes'
  <2>1. hybrid' \in {hybrid, "sent", "canceling"}
    BY DEF CancelGoal, Bridge, Dispatch, PlanOnly, EndPlanOnly, Sent, PassCancel, Finish
  <2> QED BY <1>1, <2>1 DEF IInv, Types, SimpleTypes, mpcVars, world, service, localPlanner
<1>4. Types'
  BY <1>1, <1>2, <1>3 DEF IInv, Types, RecordTypes, Counts, Unheard, mpcVars, service, localPlanner
<1>5. BridgeLeads'
  BY DEF IInv, Types, RecordTypes, Bridges, BridgeLeads, CancelGoal, Bridge, Dispatch, PlanOnly, EndPlanOnly, Sent,
         PassCancel, Finish, Outcome, Ended
<1>6. Versions' /\ (faults = 0 => Turns)'
  BY <1>1 DEF IInv, Versions, Dated, Turns, mpcVars, world, service, localPlanner
<1>7. (ActiveMeansSession /\ ResetEndsSession /\ CommandsAreWatched)'
  BY <1>1 DEF IInv, ActiveMeansSession, ResetEndsSession, CommandsAreWatched, mpcVars, world, service, localPlanner
<1> QED BY <1>4, <1>5, <1>6, <1>7 DEF IInv

-----------------------------------------------------------------------------
(* A step that touches none of what the solver and the step service share. *)
Shared == <<node, controller, requests, stepAt, resets, answer, solver, faults, restored>>
LEMMA SharedKept ==
  ASSUME IInv, UNCHANGED Shared, local' = local \/ local'
  PROVE  (faults = 0 => Turns)' /\ (ActiveMeansSession /\ ResetEndsSession /\ CommandsAreWatched)'
BY DEF IInv, Shared, Turns, ActiveMeansSession, ResetEndsSession, CommandsAreWatched

LEMMA VersionsKept ==
  ASSUME IInv, UNCHANGED <<node, requests, stepAt, obstacle, version>>, Dated(path)', Dated(message)'
  PROVE  Versions'
BY DEF IInv, Versions, Dated

(* The steps of the manager that concern only the goal and its plans.      *)
LEMMA GoalKeeps == ASSUME IInv, Accept \/ PlanFails \/ CancelUnstarted PROVE IInv'
<1>1. UNCHANGED <<mpcVars, bridge, plans, message>>
  BY DEF Accept, PlanFails, CancelUnstarted
<1>2. UNCHANGED Shared /\ UNCHANGED <<obstacle, version, mpcWorld, local, path, heard, feedback, failures>>
  BY <1>1 DEF Shared, mpcVars, world, service, localPlanner
<1>3. /\ hybrid' \in {hybrid, "executing", "rejected", "failed", "canceled"}
      /\ planning' \in {"none", "once", planning}
      /\ hybrid # "none"  \/ hybrid' = "none"
      /\ hybrid' = "executing" => hybrid \in {"sent", "executing"}
  BY DEF Accept, PlanFails, CancelUnstarted, Executing
<1>4. Types'
  <2>1. SimpleTypes'
    BY <1>2, <1>3 DEF IInv, Types, SimpleTypes, Shared
  <2> QED BY <1>1, <1>2, <2>1 DEF IInv, Types, RecordTypes, Counts, Unheard, Shared
<1>5. BridgeLeads'
  BY <1>1, <1>3 DEF IInv, BridgeLeads
<1>6. Versions'
  BY <1>1, <1>2, VersionsKept DEF Shared, IInv, Versions, Dated
<1> QED BY <1>2, <1>4, <1>5, <1>6, SharedKept DEF IInv

LEMMA PlanSucceedsKeeps == ASSUME IInv, PlanSucceeds PROVE IInv'
<1>1. UNCHANGED Shared /\ UNCHANGED <<obstacle, version, mpcWorld, path, heard, feedback, failures, bridge, hybrid>>
  BY DEF PlanSucceeds, Shared, world, service
<1>2. /\ local' /\ plans' = plans + 1 /\ plans < MaxPlans /\ message.to = {}
      /\ planning' \in {"none", "once"}
      /\ message' = [route |-> IF obstacle THEN "detour" ELSE "direct", known |-> version, to |-> Readers]
  BY DEF PlanSucceeds
<1>3. message' \in Messages /\ Dated(message)' /\ version \in Nat
  BY <1>1, <1>2 DEF IInv, Types, SimpleTypes, Messages, Routes, Dated
<1>4. Types'
  <2>1. SimpleTypes'
    <3>1. local' \in BOOLEAN
      BY DEF PlanSucceeds
    <3> QED BY <1>1, <1>2, <3>1 DEF IInv, Types, SimpleTypes, Shared
  <2>2. Counts'
    <3>1. Unheard = 0 /\ Unheard' = 1
      BY <1>2 DEF Unheard, Readers
    <3> QED BY <1>1, <1>2, <3>1, BoundsAssumption DEF IInv, Types, Counts, Shared
  <2> QED BY <1>1, <1>3, <2>1, <2>2 DEF IInv, Types, RecordTypes, Shared
<1>5. BridgeLeads'
  BY <1>1 DEF IInv, BridgeLeads
<1>6. Dated(path)'
  BY <1>1 DEF IInv, Versions, Dated
<1>7. Versions'
  BY <1>1, <1>3, <1>6, VersionsKept DEF Shared
<1> QED BY <1>1, <1>2, <1>4, <1>5, <1>7, SharedKept DEF IInv

LEMMA DeliverKeeps == ASSUME IInv, Deliver PROVE IInv'
<1>1. UNCHANGED Shared /\ UNCHANGED <<obstacle, version, mpcWorld, local, feedback, failures, bridge, hybrid, planning, plans>>
  BY DEF Deliver, ToSolver, ToSampler, Hear, Take, Shared, world, service
<1>2. PICK r \in Readers : Delivered(r) /\ (r = "solver" => heard' = heard + 1 /\ path' = path)
                           /\ (r = "sampler" => heard' = heard /\ path' = [NoPath EXCEPT !.route = message.route, !.known = message.known])
  BY DEF Deliver, ToSolver, ToSampler, Hear, Take, Readers
<1>3. message \in Messages /\ path \in Paths
  BY DEF IInv, Types, RecordTypes
<1>4. /\ message' \in Messages
      /\ message' = NoMessage \/ (message'.route = message.route /\ message'.known = message.known)
      /\ message'.to = message.to \ {r}
  <2>1. CASE message.to = {r}
    <3>1. message' = [route |-> "none", known |-> NoVersion, to |-> {}]
      BY <2>1, <1>2 DEF Delivered, NoMessage
    <3>2. message' \in Messages
      BY <3>1 DEF Messages, Routes, NoVersion
    <3>3. message' = NoMessage
      BY <3>1 DEF NoMessage
    <3>4. message'.to = message.to \ {r}
      BY <3>1, <2>1
    <3> QED BY <3>2, <3>3, <3>4
  <2>2. CASE message.to # {r}
    <3>1. message' = [message EXCEPT !.to = message.to \ {r}]
      BY <2>2, <1>2 DEF Delivered
    <3>2. message.to \ {r} \in SUBSET Readers
      BY <1>3 DEF Messages
    <3> QED BY <3>1, <3>2, <1>3 DEF Messages
  <2> QED BY <2>1, <2>2
<1>5. path' \in Paths /\ Dated(path)'
  <2>1. CASE r = "solver"
    BY <2>1, <1>1, <1>2, <1>3 DEF IInv, Versions, Dated
  <2>2. CASE r = "sampler"
    <3>1. path' = [route |-> message.route, known |-> message.known, progress |-> 0]
      BY <2>2, <1>2 DEF NoPath
    <3> QED BY <3>1, <1>1, <1>3, PathAssumption DEF IInv, Versions, Dated, Paths, Messages
  <2> QED BY <2>1, <2>2 DEF Readers
<1>6. Dated(message)'
  BY <1>1, <1>4 DEF IInv, Types, SimpleTypes, Versions, Dated, NoMessage, NoVersion
<1>7. Types'
  <2>1. SimpleTypes'
    BY <1>1 DEF IInv, Types, SimpleTypes, Shared
  <2>2. Counts'
    <3>1. r = "solver" => Unheard = 1 /\ Unheard' = 0
      BY <1>2, <1>4 DEF Unheard, Delivered
    <3>2. r = "sampler" => Unheard' = Unheard
      BY <1>2, <1>4 DEF Unheard, Delivered
    <3>3. solver.invalidated \in Nat
      BY DEF IInv, Types, RecordTypes, Solvers
    <3> QED BY <1>1, <1>2, <3>1, <3>2, <3>3 DEF IInv, Types, Counts, Shared, Readers
  <2> QED BY <1>1, <1>4, <1>5, <2>1, <2>2 DEF IInv, Types, RecordTypes, Shared
<1>8. Versions'
  BY <1>1, <1>5, <1>6, VersionsKept DEF Shared
<1>9. BridgeLeads'
  BY <1>1 DEF IInv, BridgeLeads
<1> QED BY <1>1, <1>7, <1>8, <1>9, SharedKept DEF IInv

LEMMA ReactKeeps == ASSUME IInv, React PROVE IInv'
<1>1. UNCHANGED Shared /\ UNCHANGED <<obstacle, version, mpcWorld, local, path, heard, failures, bridge, plans, message>>
  BY DEF React, Shared, world, service
<1>2. /\ feedback' = "none"
      /\ planning' \in {planning, "once", "twice"}
      /\ hybrid' \in {hybrid, "succeeded", "canceled"}
      /\ hybrid # "none" \/ hybrid' = "none"
  BY DEF React, Executing
<1>3. Types'
  <2>1. SimpleTypes'
    BY <1>1, <1>2 DEF IInv, Types, SimpleTypes, Shared
  <2> QED BY <1>1, <2>1 DEF IInv, Types, RecordTypes, Counts, Unheard, Shared
<1>4. BridgeLeads'
  BY <1>1, <1>2 DEF IInv, BridgeLeads
<1>5. Versions'
  BY <1>1, VersionsKept DEF Shared, IInv, Versions, Dated
<1> QED BY <1>1, <1>3, <1>4, <1>5, SharedKept DEF IInv

-----------------------------------------------------------------------------
(* The step service.  What a service leaves alone, and how it answers.     *)
Apart == <<obstacle, version, localPlanner, execVars>>

LEMMA ServiceKeeps ==
  ASSUME IInv, UNCHANGED Apart, mpcWorld' \in BOOLEAN, node' \in Nodes,
         node'.baseline \in {NoVersion, version, node.baseline},
         node'.forceVersion \in {NoVersion, version, node.forceVersion},
         controller' \in {"trajectory", "stream"}, stepAt' \in {"idle", "refresh"}, resets' \in Nat,
         requests' = requests \/ (requests # <<>> /\ requests' = Tail(requests)),
         answer' \in Answers, failures' \in Nat, faults' \in Nat, failures' + faults' <= MaxFaults,
         stepAt' = "refresh" => node'.session /\ requests' # <<>>
  PROVE  Types' /\ Versions' /\ BridgeLeads'
<1>1. requests' \in Seq(Requests) /\ \A i \in 1..Len(requests') : Dated(requests'[i])
  <2>1. requests \in Seq(Requests) /\ \A i \in 1..Len(requests) : Dated(requests[i])
    BY DEF IInv, Types, RecordTypes, Versions
  <2>2. CASE requests' = requests
    BY <2>1, <2>2
  <2>3. CASE requests # <<>> /\ requests' = Tail(requests)
    <3>1. requests' \in Seq(Requests) /\ Len(requests') = Len(requests) - 1
          /\ \A i \in 1..Len(requests') : requests'[i] = requests[i + 1] /\ i + 1 \in 1..Len(requests)
      BY <2>1, <2>3
    <3> QED BY <3>1, <2>1
  <2> QED BY <2>2, <2>3
<1>2. Types'
  BY <1>1 DEF IInv, Types, RecordTypes, SimpleTypes, Counts, Unheard, Apart, localPlanner, execVars
<1>3. Versions'
  BY <1>1 DEF IInv, Types, SimpleTypes, Versions, Dated, Apart, localPlanner, execVars
<1>4. BridgeLeads'
  BY DEF IInv, BridgeLeads, Apart, execVars
<1> QED BY <1>2, <1>3, <1>4

LEMMA ReplyAnswers ==
  ASSUME IInv, NEW kind \in Kinds \ {"none"}, Reply(kind), requests # <<>>,
         UNCHANGED <<local, solver, resets, restored, faults>>,
         kind = "command" => node'.session
  PROVE  /\ requests' = Tail(requests) /\ stepAt' = "idle" /\ answer' \in Answers
         /\ answer' = answer \/ (answer'.kind = kind /\ answer'.blocked = (mpcWorld' /\ Blocks(Request))
                                 /\ answer'.old = (Request.known < node.baseline /\ ~ node.force))
         /\ (faults = 0 => Turns)' /\ ActiveMeansSession' /\ ResetEndsSession'
<1>1. requests' = Tail(requests) /\ stepAt' = "idle"
  BY DEF Reply
<1> DEFINE a == [kind |-> kind, blocked |-> mpcWorld' /\ Blocks(Request),
                 old |-> Request.known < node.baseline /\ ~ node.force]
<1>2. answer' = IF solver.at = "stepping" /\ Len(requests) = 1 THEN a ELSE answer
  BY DEF Reply
<1>3. a \in Answers
  <2>1. (mpcWorld' /\ Blocks(Request)) \in BOOLEAN /\ (Request.known < node.baseline /\ ~ node.force) \in BOOLEAN
    OBVIOUS
  <2> QED BY <2>1 DEF Answers
<1>4. answer' \in Answers
  BY <1>2, <1>3 DEF IInv, Types, RecordTypes
<1>5. answer' = answer \/ (answer'.kind = kind /\ answer'.blocked = (mpcWorld' /\ Blocks(Request))
                           /\ answer'.old = (Request.known < node.baseline /\ ~ node.force))
  BY <1>2
<1>6. faults = 0 => solver.at = "stepping" /\ Len(requests) = 1
  BY DEF IInv, Turns, Types, RecordTypes, Solvers
<1>7. faults = 0 => requests' = <<>> /\ answer'.kind = kind
  BY <1>1, <1>2, <1>6 DEF IInv, Types, RecordTypes
<1>8. (faults = 0 => Turns)'
  BY <1>6, <1>7 DEF IInv, Turns
<1>9. ActiveMeansSession' /\ ResetEndsSession'
  BY <1>6 DEF ActiveMeansSession, ResetEndsSession
<1> QED BY <1>1, <1>4, <1>5, <1>8, <1>9

(* A field of a session at a time, and all of them.                        *)
LEMMA NodeFields ==
  ASSUME NEW n \in Nodes, NEW b \in BOOLEAN, NEW i \in Int,
         NEW c \in 0..InfeasibleSteps, NEW s \in {Unmeasured} \cup 0..StallSteps
  PROVE  /\ [n EXCEPT !.session = b] \in Nodes /\ [n EXCEPT !.force = b] \in Nodes
         /\ [n EXCEPT !.baseline = i] \in Nodes /\ [n EXCEPT !.forceVersion = i] \in Nodes
         /\ [n EXCEPT !.infeasible = c] \in Nodes /\ [n EXCEPT !.stall = s] \in Nodes
<1>1. [n EXCEPT !.session = b] \in Nodes /\ [n EXCEPT !.force = b] \in Nodes
  BY DEF Nodes
<1>2. [n EXCEPT !.baseline = i] \in Nodes /\ [n EXCEPT !.forceVersion = i] \in Nodes
  BY DEF Nodes
<1>3. [n EXCEPT !.infeasible = c] \in Nodes
  BY DEF Nodes
<1>4. [n EXCEPT !.stall = s] \in Nodes
  BY DEF Nodes
<1> QED BY <1>1, <1>2, <1>3, <1>4

LEMMA ClearedNode ==
  ASSUME NEW n \in Nodes
  PROVE  /\ Cleared(n) \in Nodes /\ ~ Cleared(n).session
         /\ Cleared(n).baseline = NoVersion /\ Cleared(n).forceVersion = n.forceVersion
<1> DEFINE n1 == [n EXCEPT !.session = FALSE]
           n2 == [n1 EXCEPT !.baseline = NoVersion]
           n3 == [n2 EXCEPT !.force = FALSE]
           n4 == [n3 EXCEPT !.infeasible = 0]
           n5 == [n4 EXCEPT !.stall = Unmeasured]
<1>1. n1 \in Nodes /\ ~ n1.session /\ n1.forceVersion = n.forceVersion
  BY NodeFields DEF Nodes
<1>2. NoVersion \in Int /\ 0 \in 0..InfeasibleSteps /\ Unmeasured \in {Unmeasured} \cup 0..StallSteps
  BY StepsAssumption DEF NoVersion
<1>3. n2 \in Nodes /\ ~ n2.session /\ n2.baseline = NoVersion /\ n2.forceVersion = n.forceVersion
  <2> HIDE DEF n1
  <2> QED BY <1>1, <1>2, NodeFields DEF Nodes
<1>4. n3 \in Nodes /\ ~ n3.session /\ n3.baseline = NoVersion /\ n3.forceVersion = n.forceVersion
  <2> HIDE DEF n2
  <2> QED BY <1>3, NodeFields DEF Nodes
<1>5. n4 \in Nodes /\ ~ n4.session /\ n4.baseline = NoVersion /\ n4.forceVersion = n.forceVersion
  <2> HIDE DEF n3
  <2> QED BY <1>2, <1>4, NodeFields DEF Nodes
<1>6. n5 \in Nodes /\ ~ n5.session /\ n5.baseline = NoVersion /\ n5.forceVersion = n.forceVersion
  <2> HIDE DEF n4
  <2> QED BY <1>2, <1>5, NodeFields DEF Nodes
<1>7. Cleared(n) = n5
  BY DEF Cleared
<1> HIDE DEF n5
<1> QED BY <1>6, <1>7

LEMMA StepFailsKeeps == ASSUME IInv, StepFails, UNCHANGED execVars PROVE IInv'
<1>1. /\ requests # <<>> /\ Reply("failed") /\ failures + faults < MaxFaults /\ failures' = failures + 1
      /\ UNCHANGED <<world, node, controller, resets, localPlanner, faults>>
  BY DEF StepFails, Failure, Disturbable
<1>2. requests' = Tail(requests) /\ stepAt' = "idle" /\ answer' \in Answers
      /\ (answer' = answer \/ answer'.kind = "failed")
      /\ (faults = 0 => Turns)' /\ ActiveMeansSession' /\ ResetEndsSession'
  BY <1>1, ReplyAnswers DEF Kinds, localPlanner
<1>3. CommandsAreWatched'
  BY <1>2 DEF IInv, CommandsAreWatched
<1>4. Types' /\ Versions' /\ BridgeLeads'
  BY <1>1, <1>2, ServiceKeeps, FaultsAssumption DEF IInv, Types, RecordTypes, SimpleTypes, Counts, Apart, world
<1> QED BY <1>2, <1>3, <1>4 DEF IInv

LEMMA RefreshFailsKeeps == ASSUME IInv, RefreshFails, UNCHANGED execVars PROVE IInv'
<1>1. /\ requests # <<>> /\ Reply("failed") /\ failures + faults < MaxFaults /\ failures' = failures + 1
      /\ node' = Cleared(node) /\ UNCHANGED <<world, controller, resets, localPlanner, faults>>
  BY DEF RefreshFails, Failure, Disturbable, IInv, Versions
<1>2. requests' = Tail(requests) /\ stepAt' = "idle" /\ answer' \in Answers
      /\ (answer' = answer \/ answer'.kind = "failed")
      /\ (faults = 0 => Turns)' /\ ActiveMeansSession' /\ ResetEndsSession'
  BY <1>1, ReplyAnswers DEF Kinds, localPlanner
<1>3. CommandsAreWatched'
  BY <1>2 DEF IInv, CommandsAreWatched
<1>4. Types' /\ Versions' /\ BridgeLeads'
  BY <1>1, <1>2, ClearedNode, ServiceKeeps, FaultsAssumption DEF IInv, Types, RecordTypes, SimpleTypes, Counts, Apart, world
<1> QED BY <1>2, <1>3, <1>4 DEF IInv

LEMMA BlockedKeeps == ASSUME IInv, EndForBlockedPath, UNCHANGED execVars PROVE IInv'
<1>1. /\ requests # <<>> /\ Reply("invalidated") /\ mpcWorld' = obstacle
      /\ UNCHANGED <<obstacle, version, controller, resets, localPlanner, failures, faults>>
      /\ node' \in {Cleared(node), [Cleared(node) EXCEPT !.force = TRUE, !.forceVersion = version]}
  BY DEF EndForBlockedPath, IInv, Versions
<1>2. requests' = Tail(requests) /\ stepAt' = "idle" /\ answer' \in Answers
      /\ (answer' = answer \/ answer'.kind = "invalidated")
      /\ (faults = 0 => Turns)' /\ ActiveMeansSession' /\ ResetEndsSession'
  BY <1>1, ReplyAnswers DEF Kinds, localPlanner
<1>3. CommandsAreWatched'
  BY <1>2 DEF IInv, CommandsAreWatched
<1>4. version \in Nat /\ obstacle \in BOOLEAN
  BY DEF IInv, Types, SimpleTypes
<1>5. node' \in Nodes /\ node'.baseline = NoVersion /\ node'.forceVersion \in {version, node.forceVersion}
  <2> DEFINE c == Cleared(node)
  <2>1. c \in Nodes /\ c.baseline = NoVersion /\ c.forceVersion = node.forceVersion
    BY ClearedNode DEF IInv, Types, RecordTypes
  <2> HIDE DEF c
  <2> DEFINE f == [c EXCEPT !.force = TRUE]
             g == [f EXCEPT !.forceVersion = version]
  <2>2. f \in Nodes /\ f.baseline = NoVersion
    BY <2>1, NodeFields DEF Nodes
  <2>3. g \in Nodes /\ g.baseline = NoVersion /\ g.forceVersion = version
    <3> HIDE DEF f
    <3> QED BY <2>2, <1>4, NodeFields DEF Nodes
  <2>4. node' = c \/ node' = g
    BY <1>1 DEF c
  <2> HIDE DEF g
  <2> QED BY <2>1, <2>3, <2>4
<1>6. Types' /\ Versions' /\ BridgeLeads'
  BY <1>1, <1>2, <1>4, <1>5, ServiceKeeps DEF IInv, Types, SimpleTypes, Counts, Apart
<1> QED BY <1>2, <1>3, <1>6 DEF IInv

(* What counting makes of a session.                                       *)
SameSession(m, n) ==
  m \in Nodes /\ m.session = n.session /\ m.baseline = n.baseline /\ m.forceVersion = n.forceVersion
LEMMA CountedNode ==
  ASSUME NEW n \in Nodes, NEW changed \in BOOLEAN, NEW feasible \in BOOLEAN, NEW improves \in BOOLEAN
  PROVE  SameSession(Counted(Refreshed(n, changed), feasible, improves), n)
<1> DEFINE r1 == [n EXCEPT !.infeasible = 0]
           r2 == [r1 EXCEPT !.stall = Unmeasured]
           r == Refreshed(n, changed)
           Same(m) == m \in Nodes /\ m.session = n.session /\ m.baseline = n.baseline /\ m.forceVersion = n.forceVersion
<1>1. 0 \in 0..InfeasibleSteps /\ Unmeasured \in {Unmeasured} \cup 0..StallSteps
  BY StepsAssumption
<1>2. Same(r1)
  BY <1>1, NodeFields DEF Nodes
<1>3. Same(r2)
  <2> HIDE DEF r1
  <2> QED BY <1>1, <1>2, NodeFields DEF Nodes
<1>4. Same(r)
  <2>1. r = IF changed THEN r2 ELSE n
    BY DEF Refreshed
  <2> HIDE DEF r, r2
  <2> QED BY <2>1, <1>3
<1> HIDE DEF r
<1> DEFINE infeasible == IF feasible THEN 0 ELSE Min({r.infeasible + 1, InfeasibleSteps})
           stall == IF r.stall = Unmeasured \/ improves THEN 0 ELSE Min({r.stall + 1, StallSteps})
           c1 == [r EXCEPT !.infeasible = infeasible]
           place == [c1 EXCEPT !.stall = stall]
<1>5. r.infeasible \in 0..InfeasibleSteps /\ (r.stall = Unmeasured \/ r.stall \in 0..StallSteps)
  BY <1>4 DEF Nodes
<1>6. infeasible \in 0..InfeasibleSteps
  BY <1>5, StepsAssumption, MinOfTwo
<1>7. stall \in {Unmeasured} \cup 0..StallSteps
  BY <1>5, StepsAssumption, MinOfTwo
<1>8. Counted(r, feasible, improves) = place
  <2>1. c1.stall = r.stall
    BY <1>4 DEF Nodes
  <2> QED BY <2>1 DEF Counted
<1> HIDE DEF infeasible, stall
<1>9. Same(c1)
  BY <1>4, <1>6, NodeFields DEF Nodes
<1>10. Same(place)
  <2> HIDE DEF c1
  <2> QED BY <1>7, <1>9, NodeFields DEF Nodes
<1> HIDE DEF place
<1> QED BY <1>8, <1>10 DEF r, SameSession

LEMMA SolveKeeps == ASSUME IInv, Solve, UNCHANGED execVars PROVE IInv'
<1>1. PICK changed \in BOOLEAN, feasible \in BOOLEAN, improves \in BOOLEAN, error \in {"reached", "near", "far"} :
        LET n == Counted(Refreshed(node, changed), feasible, improves)
            invalid == error # "reached" /\ (n.infeasible = InfeasibleSteps \/ (n.stall = StallSteps /\ error = "far"))
        IN /\ node' = [IF invalid THEN Cleared(n) ELSE n EXCEPT !.force = FALSE]
           /\ Reply(IF invalid THEN "invalidated" ELSE "command")
  BY DEF Solve
<1> DEFINE n == Counted(Refreshed(node, changed), feasible, improves)
           invalid == error # "reached" /\ (n.infeasible = InfeasibleSteps \/ (n.stall = StallSteps /\ error = "far"))
           kind == IF invalid THEN "invalidated" ELSE "command"
           m == IF invalid THEN Cleared(n) ELSE n
<1>2. /\ stepAt = "refresh" /\ ~ PathBlocked /\ mpcWorld' = obstacle
      /\ UNCHANGED <<obstacle, version, controller, resets, localPlanner, failures, faults>>
  BY DEF Solve
<1>3. node' = [m EXCEPT !.force = FALSE] /\ Reply(kind)
  BY <1>1
<1>4. node \in Nodes /\ node.session /\ requests # <<>> /\ version \in Nat /\ obstacle \in BOOLEAN
  BY <1>2 DEF IInv, Types, RecordTypes, SimpleTypes, Versions
<1>5. n \in Nodes /\ n.session /\ n.baseline = node.baseline /\ n.forceVersion = node.forceVersion
  <2>1. SameSession(n, node)
    BY <1>4, CountedNode
  <2> QED BY <2>1, <1>4 DEF SameSession
<1> HIDE DEF n
<1>6. m \in Nodes /\ m.baseline \in {NoVersion, node.baseline} /\ m.forceVersion = node.forceVersion
      /\ (~ invalid => m.session)
  BY <1>5, ClearedNode
<1> HIDE DEF m
<1>7. node' \in Nodes /\ node'.baseline \in {NoVersion, node.baseline} /\ node'.forceVersion = node.forceVersion
      /\ (~ invalid => node'.session)
  BY <1>3, <1>6, NodeFields DEF Nodes
<1>8. kind \in Kinds \ {"none"} /\ (kind = "command" => node'.session)
  BY <1>7 DEF Kinds
<1> HIDE DEF invalid, kind
<1>9. /\ requests' = Tail(requests) /\ stepAt' = "idle" /\ answer' \in Answers
      /\ answer' = answer \/ (answer'.kind = kind /\ answer'.blocked = (mpcWorld' /\ Blocks(Request))
                              /\ answer'.old = (Request.known < node.baseline /\ ~ node.force))
      /\ (faults = 0 => Turns)' /\ ActiveMeansSession' /\ ResetEndsSession'
  BY <1>2, <1>3, <1>4, <1>8, ReplyAnswers DEF localPlanner
<1>10. ASSUME obstacle, Blocks(Request) PROVE Request.known < node.baseline /\ ~ node.force
  <2>1. ~ node.force /\ ~ (version > node.baseline)
    BY <1>2, <1>10 DEF PathBlocked
  <2>2. node.baseline = version
    BY <2>1, <1>4 DEF IInv, Versions, NoVersion
  <2>3. Request = requests[1] /\ Dated(Request) /\ Request.known \in Int
    <3>1. requests \in Seq(Requests) /\ 1 \in 1..Len(requests) /\ Request = requests[1]
      BY <1>4 DEF Request, IInv, Types, RecordTypes
    <3>2. Dated(requests[1])
      BY <3>1 DEF IInv, Versions
    <3>3. requests[1] \in Requests
      BY <3>1
    <3> QED BY <3>1, <3>2, <3>3 DEF Requests
  <2>4. Request.route = "direct"
    BY <1>10 DEF Blocks
  <2> QED BY <2>1, <2>2, <2>3, <2>4, <1>4, <1>10 DEF Dated
<1>11. CommandsAreWatched'
  BY <1>2, <1>9, <1>10 DEF IInv, CommandsAreWatched
<1>12. Types' /\ Versions' /\ BridgeLeads'
  BY <1>2, <1>4, <1>7, <1>9, ServiceKeeps DEF IInv, Types, SimpleTypes, Counts, Apart
<1> QED BY <1>9, <1>11, <1>12 DEF IInv

LEMMA BeginStepKeeps == ASSUME IInv, BeginStep, UNCHANGED execVars PROVE IInv'
<1>1. /\ stepAt = "idle" /\ requests # <<>> /\ mpcWorld' = obstacle
      /\ UNCHANGED <<obstacle, version, resets, localPlanner, faults>>
  BY DEF BeginStep
<1>2. node \in Nodes /\ answer \in Answers /\ version \in Nat /\ obstacle \in BOOLEAN
      /\ failures \in Nat /\ faults \in Nat /\ failures + faults <= MaxFaults
      /\ controller \in {"trajectory", "stream"} /\ resets \in Nat
  BY DEF IInv, Types, RecordTypes, SimpleTypes, Counts
<1>3. CASE node.session /\ stepAt' = "refresh" /\ UNCHANGED <<node, controller, requests, answer, failures>>
  <2>1. Types' /\ Versions' /\ BridgeLeads'
    BY <1>1, <1>2, <1>3, ServiceKeeps DEF Apart
  <2>2. (faults = 0 => Turns)' /\ ActiveMeansSession' /\ ResetEndsSession' /\ CommandsAreWatched'
    BY <1>1, <1>3 DEF IInv, Turns, ActiveMeansSession, ResetEndsSession, CommandsAreWatched, localPlanner
  <2> QED BY <2>1, <2>2 DEF IInv
<1>4. CASE /\ ~ node.session /\ Request.init /\ Switched("stream")
           /\ node' = [node EXCEPT !.session = TRUE, !.infeasible = 0, !.stall = Unmeasured, !.baseline = version]
           /\ stepAt' = "refresh" /\ UNCHANGED <<requests, answer, failures>>
  <2> DEFINE n1 == [node EXCEPT !.session = TRUE]
             n2 == [n1 EXCEPT !.infeasible = 0]
             n3 == [n2 EXCEPT !.stall = Unmeasured]
             n4 == [n3 EXCEPT !.baseline = version]
  <2>1. n1 \in Nodes /\ n1.session /\ n1.forceVersion = node.forceVersion
    BY <1>2, NodeFields DEF Nodes
  <2>2. 0 \in 0..InfeasibleSteps /\ Unmeasured \in {Unmeasured} \cup 0..StallSteps
    BY StepsAssumption
  <2>3. n2 \in Nodes /\ n2.session /\ n2.forceVersion = node.forceVersion
    <3> HIDE DEF n1
    <3> QED BY <2>1, <2>2, NodeFields DEF Nodes
  <2>4. n3 \in Nodes /\ n3.session /\ n3.forceVersion = node.forceVersion
    <3> HIDE DEF n2
    <3> QED BY <2>2, <2>3, NodeFields DEF Nodes
  <2>5. n4 \in Nodes /\ n4.session /\ n4.forceVersion = node.forceVersion /\ n4.baseline = version
    <3> HIDE DEF n3
    <3> QED BY <1>2, <2>4, NodeFields DEF Nodes
  <2>6. node' = n4 /\ controller' = "stream"
    BY <1>4 DEF Switched
  <2> HIDE DEF n4
  <2>7. Types' /\ Versions' /\ BridgeLeads'
    BY <1>1, <1>2, <1>4, <2>5, <2>6, ServiceKeeps DEF Apart
  <2>8. (faults = 0 => Turns)' /\ ActiveMeansSession' /\ ResetEndsSession' /\ CommandsAreWatched'
    BY <1>1, <1>4, <2>5, <2>6 DEF IInv, Turns, ActiveMeansSession, ResetEndsSession, CommandsAreWatched,
       localPlanner, Types, RecordTypes, Solvers
  <2> QED BY <2>7, <2>8 DEF IInv
<1>5. CASE /\ ~ node.session
           /\ IF Request.init THEN SwitchFails("stream") /\ Failure ELSE UNCHANGED <<controller, failures>>
           /\ Reply("failed") /\ UNCHANGED node
  <2>1. controller' \in {"trajectory", "stream"} /\ failures' \in Nat /\ failures' + faults' <= MaxFaults
    BY <1>1, <1>2, <1>5, FaultsAssumption DEF SwitchFails, Failure, Disturbable
  <2>2. requests' = Tail(requests) /\ stepAt' = "idle" /\ answer' \in Answers
        /\ (answer' = answer \/ answer'.kind = "failed")
        /\ (faults = 0 => Turns)' /\ ActiveMeansSession' /\ ResetEndsSession'
    BY <1>1, <1>5, ReplyAnswers DEF Kinds, localPlanner
  <2>3. CommandsAreWatched'
    BY <2>2 DEF IInv, CommandsAreWatched
  <2>4. Types' /\ Versions' /\ BridgeLeads'
    BY <1>1, <1>2, <1>5, <2>1, <2>2, ServiceKeeps DEF Apart
  <2> QED BY <2>2, <2>3, <2>4 DEF IInv
<1> QED BY <1>3, <1>4, <1>5 DEF BeginStep

LEMMA ServeResetKeeps == ASSUME IInv, ServeReset, UNCHANGED execVars PROVE IInv'
<1>1. PICK ok \in BOOLEAN :
        /\ IF ok THEN Switched("trajectory") /\ UNCHANGED failures ELSE SwitchFails("trajectory") /\ Failure
        /\ answer' = IF solver.at = "resetting" /\ resets = 1
                     THEN [NoAnswer EXCEPT !.kind = IF ok THEN "command" ELSE "failed"] ELSE answer
  BY DEF ServeReset
<1>2. /\ stepAt = "idle" /\ resets > 0 /\ resets' = resets - 1 /\ node' = Cleared(node)
      /\ UNCHANGED <<world, requests, stepAt, localPlanner, faults>>
  BY DEF ServeReset
<1>3. node \in Nodes /\ answer \in Answers /\ resets \in Nat /\ mpcWorld \in BOOLEAN
      /\ controller \in {"trajectory", "stream"}
      /\ failures \in Nat /\ faults \in Nat /\ failures + faults <= MaxFaults
  BY DEF IInv, Types, RecordTypes, SimpleTypes, Counts
<1>4. controller' \in {"trajectory", "stream"} /\ (ok => controller' = "trajectory")
      /\ failures' \in Nat /\ failures' + faults' <= MaxFaults
  BY <1>1, <1>2, <1>3, FaultsAssumption DEF Switched, SwitchFails, Failure, Disturbable
<1>5. /\ answer' \in Answers
      /\ answer' = answer \/ (~ answer'.blocked /\ answer'.kind = IF ok THEN "command" ELSE "failed")
  BY <1>1, <1>3 DEF Answers, NoAnswer, Kinds
<1>6. node' \in Nodes /\ ~ node'.session /\ node'.baseline = NoVersion /\ node'.forceVersion = node.forceVersion
  BY <1>2, <1>3, ClearedNode
<1>7. resets' \in Nat
  BY <1>2, <1>3
<1>8. Types' /\ Versions' /\ BridgeLeads'
  BY <1>2, <1>3, <1>4, <1>5, <1>6, <1>7, ServiceKeeps DEF Apart, world
<1>9. CommandsAreWatched'
  BY <1>5 DEF IInv, CommandsAreWatched
<1>10. faults = 0 => solver.at = "resetting" /\ resets = 1 /\ requests = <<>>
  BY <1>2, <1>3 DEF IInv, Types, RecordTypes, Solvers, Turns
<1>11. faults = 0 => answer'.kind = (IF ok THEN "command" ELSE "failed") /\ resets' = 0
  BY <1>1, <1>2, <1>10 DEF NoAnswer
<1>12. (faults = 0 => Turns)'
  BY <1>2, <1>4, <1>6, <1>10, <1>11 DEF Turns, localPlanner
<1>13. ActiveMeansSession' /\ ResetEndsSession'
  BY <1>2, <1>10 DEF ActiveMeansSession, ResetEndsSession, localPlanner
<1> QED BY <1>8, <1>9, <1>12, <1>13 DEF IInv

LEMMA ForeignCancelKeeps == ASSUME IInv, ForeignCancel, UNCHANGED execVars PROVE IInv'
<1>1. /\ stepAt = "idle" /\ failures + faults < MaxFaults /\ faults' = faults + 1 /\ node' = Cleared(node)
      /\ UNCHANGED <<world, controller, requests, stepAt, resets, answer, localPlanner, failures>>
  BY DEF ForeignCancel, Fault, Disturbable
<1>2. node \in Nodes /\ answer \in Answers /\ resets \in Nat /\ mpcWorld \in BOOLEAN
      /\ controller \in {"trajectory", "stream"} /\ failures \in Nat /\ faults \in Nat
  BY DEF IInv, Types, RecordTypes, SimpleTypes, Counts
<1>3. faults' # 0 /\ faults' \in Nat /\ failures' + faults' <= MaxFaults
  BY <1>1, <1>2, FaultsAssumption
<1>4. node' \in Nodes /\ node'.baseline = NoVersion /\ node'.forceVersion = node.forceVersion
  BY <1>1, <1>2, ClearedNode
<1>5. Types' /\ Versions' /\ BridgeLeads'
  BY <1>1, <1>2, <1>3, <1>4, ServiceKeeps DEF Apart, world
<1>6. (faults = 0 => Turns)' /\ ActiveMeansSession' /\ ResetEndsSession'
  BY <1>3 DEF ActiveMeansSession, ResetEndsSession
<1>7. CommandsAreWatched'
  BY <1>1 DEF IInv, CommandsAreWatched
<1> QED BY <1>5, <1>6, <1>7 DEF IInv

-----------------------------------------------------------------------------
(* The local planner.  What each of its steps keeps.                       *)
LEMMA LocalKeeps ==
  ASSUME IInv, UNCHANGED <<world, node, controller, stepAt, heard, execVars>>,
         solver' \in Solvers, solver'.invalidated <= heard,
         path' \in Paths, Dated(path)',
         requests' \in Seq(Requests), \A i \in 1..Len(requests') : Dated(requests'[i]),
         requests = <<>> \/ requests' # <<>>,
         answer' \in Answers, answer' = answer \/ answer' = NoAnswer,
         resets' \in Nat, local' \in BOOLEAN, restored' \in BOOLEAN,
         feedback' \in {"none", "stuck", "collision", "done", "canceled"},
         failures' \in Nat, faults' \in Nat, failures' + faults' <= MaxFaults
  PROVE  Types' /\ Versions' /\ BridgeLeads' /\ CommandsAreWatched'
<1>1. Types'
  BY DEF IInv, Types, RecordTypes, SimpleTypes, Counts, Unheard, world, execVars
<1>2. Versions'
  BY DEF IInv, Versions, Dated, world, execVars
<1>3. BridgeLeads' /\ CommandsAreWatched'
  BY DEF IInv, BridgeLeads, CommandsAreWatched, execVars, NoAnswer
<1> QED BY <1>1, <1>2, <1>3

(* What the steps start from.                                              *)
LEMMA LocalFacts ==
  ASSUME IInv
  PROVE  /\ solver \in Solvers /\ solver.invalidated <= heard /\ heard \in Nat
         /\ path \in Paths /\ Dated(path)
         /\ requests \in Seq(Requests) /\ \A i \in 1..Len(requests) : Dated(requests[i])
         /\ answer \in Answers /\ NoAnswer \in Answers
         /\ resets \in Nat /\ local \in BOOLEAN /\ restored \in BOOLEAN
         /\ feedback \in {"none", "stuck", "collision", "done", "canceled"}
         /\ failures \in Nat /\ faults \in Nat /\ failures + faults <= MaxFaults
BY DEF IInv, Types, RecordTypes, SimpleTypes, Counts, Versions, NoAnswer, Answers, Kinds

LEMMA HoldKeeps == ASSUME IInv, Hold, UNCHANGED execVars PROVE IInv'
<1>1. /\ solver' = [solver EXCEPT !.active = FALSE] /\ solver.at = "idle"
      /\ UNCHANGED <<world, service, local, path, heard, feedback, failures, faults, restored>>
  BY DEF Hold, Iterating
<1>2. solver' \in Solvers /\ solver'.invalidated = solver.invalidated /\ ~ solver'.active /\ solver'.at = "idle"
  BY <1>1, LocalFacts DEF Solvers
<1>3. Types' /\ Versions' /\ BridgeLeads' /\ CommandsAreWatched'
  BY <1>1, <1>2, LocalFacts, LocalKeeps DEF service, Dated, world
<1>4. (faults = 0 => Turns)' /\ ActiveMeansSession' /\ ResetEndsSession'
  BY <1>1, <1>2 DEF IInv, Turns, ActiveMeansSession, ResetEndsSession, service
<1> QED BY <1>3, <1>4 DEF IInv

LEMMA RequestStepKeeps == ASSUME IInv, RequestStep, UNCHANGED execVars PROVE IInv'
<1>1. PICK near \in Nearest, close \in BOOLEAN : \E s \in Samples(near, close) :
        /\ path' = [path EXCEPT !.progress = s.progress]
        /\ requests' = Append(requests, [init |-> ~ solver.active, route |-> path.route,
                         known |-> path.known, window |-> s.window])
  BY DEF RequestStep
<1>2. PICK s \in Samples(near, close) :
        /\ path' = [path EXCEPT !.progress = s.progress]
        /\ requests' = Append(requests, [init |-> ~ solver.active, route |-> path.route,
                         known |-> path.known, window |-> s.window])
  BY <1>1
<1>3. /\ local /\ solver.at = "idle" /\ solver' = [solver EXCEPT !.at = "stepping", !.waiting = FALSE]
      /\ UNCHANGED <<world, node, controller, stepAt, resets, answer, local, heard, feedback,
                     failures, faults, restored>>
  BY DEF RequestStep, Iterating
<1>4. near \in 0..Last
  <2>1. path.progress \in 0..Last
    BY LocalFacts DEF Paths
  <2> QED BY <2>1, PathAssumption DEF Nearest, Later
<1>5. s.progress \in 0..Last /\ s.window \in SUBSET Int
  <2> DEFINE progress == IF close /\ near < Last THEN near + 1 ELSE near
  <2>1. progress \in 0..Last
    BY <1>4, PathAssumption
  <2>2. \E target : s = [progress |-> progress, window |-> SentinelWindow(progress, target)]
    BY <1>2 DEF Samples
  <2> HIDE DEF progress
  <2>3. \A target : SentinelWindow(progress, target) \in SUBSET Int
    BY <2>1, PathAssumption DEF SentinelWindow
  <2> QED BY <2>1, <2>2, <2>3
<1> DEFINE r == [init |-> ~ solver.active, route |-> path.route, known |-> path.known, window |-> s.window]
<1>6. r \in Requests /\ Dated(r)
  <2>1. (~ solver.active) \in BOOLEAN /\ path.route \in Routes /\ path.known \in Int
    BY LocalFacts DEF Solvers, Paths
  <2>2. r \in Requests
    BY <1>5, <2>1 DEF Requests
  <2>3. Dated(r)
    BY LocalFacts DEF Dated
  <2> QED BY <2>2, <2>3
<1>7. requests' = Append(requests, r)
  BY <1>2
<1> HIDE DEF r
<1>8. /\ requests' \in Seq(Requests) /\ Len(requests') = Len(requests) + 1
      /\ \A i \in 1..Len(requests') : requests'[i] = IF i = Len(requests) + 1 THEN r ELSE requests[i]
  BY <1>6, <1>7, LocalFacts
<1>9. \A i \in 1..Len(requests') : Dated(requests'[i])
  BY <1>6, <1>8, LocalFacts
<1>10. requests' # <<>>
  BY <1>7, LocalFacts, <1>6
<1>11. path' \in Paths /\ path'.route = path.route /\ path'.known = path.known
  BY <1>2, <1>5, LocalFacts DEF Paths
<1>12. Dated(path)'
  BY <1>3, <1>11, LocalFacts DEF Dated, world
<1>13. solver' \in Solvers /\ solver'.at = "stepping" /\ solver'.invalidated = solver.invalidated
  BY <1>3, LocalFacts DEF Solvers
<1>14. Types' /\ Versions' /\ BridgeLeads' /\ CommandsAreWatched'
  BY <1>3, <1>8, <1>9, <1>10, <1>11, <1>12, <1>13, LocalFacts, LocalKeeps
<1>15. faults = 0 => requests = <<>> /\ resets = 0 /\ answer.kind = "none"
  BY <1>3 DEF IInv, Turns
<1>16. faults = 0 => Len(requests') = 1
  BY <1>8, <1>15
<1>17. (faults = 0 => Turns)' /\ ActiveMeansSession' /\ ResetEndsSession'
  BY <1>3, <1>13, <1>15, <1>16 DEF Turns, ActiveMeansSession, ResetEndsSession
<1> QED BY <1>14, <1>17 DEF IInv

LEMMA StuckKeeps == ASSUME IInv, Stuck, UNCHANGED execVars PROVE IInv'
<1>1. /\ solver' = [solver EXCEPT !.at = "idle", !.active = FALSE] /\ answer' = NoAnswer /\ feedback' = "stuck"
      /\ UNCHANGED <<world, node, controller, requests, stepAt, resets, local, path, heard, restored>>
  BY DEF Stuck
<1>2. /\ failures' \in Nat /\ faults' \in Nat /\ failures' + faults' <= MaxFaults
      /\ faults' # 0 \/ (faults = 0 /\ (solver.at = "idle" \/ (solver.at = "stepping" /\ answer.kind = "failed")))
  BY LocalFacts, FaultsAssumption DEF Stuck, Iterating, Failure, Fault, Disturbable
<1>3. solver' \in Solvers /\ solver'.at = "idle" /\ ~ solver'.active /\ solver'.invalidated = solver.invalidated
  BY <1>1, LocalFacts DEF Solvers
<1>4. Dated(path)'
  BY <1>1, LocalFacts DEF Dated, world
<1>5. Types' /\ Versions' /\ BridgeLeads' /\ CommandsAreWatched'
  BY <1>1, <1>2, <1>3, <1>4, LocalFacts, LocalKeeps DEF Dated, world
<1>6. faults' = 0 => requests = <<>> /\ resets = 0 /\ (solver.at = "idle" \/ local)
  BY <1>2 DEF IInv, Turns
<1>7. (faults = 0 => Turns)'
  BY <1>1, <1>3, <1>6 DEF Turns, NoAnswer
<1>8. ActiveMeansSession' /\ ResetEndsSession'
  BY <1>1, <1>2, <1>3, <1>6 DEF IInv, ActiveMeansSession, ResetEndsSession
<1> QED BY <1>5, <1>7, <1>8 DEF IInv

(* An answer ends the step: the path was invalid, or there is a command.   *)
LEMMA AnsweredKeeps == ASSUME IInv, Invalidated \/ Commanded, UNCHANGED execVars PROVE IInv'
<1>1. /\ solver.at = "stepping" /\ answer.kind \in {"invalidated", "command"}
      /\ \/ solver' = [solver EXCEPT !.at = "idle", !.active = FALSE, !.waiting = TRUE, !.invalidated = heard]
         \/ answer.kind = "command" /\ solver' = [solver EXCEPT !.at = "idle", !.active = TRUE]
      /\ answer' = NoAnswer /\ feedback' \in {"collision", feedback}
      /\ UNCHANGED <<world, node, controller, requests, stepAt, resets, local, path, heard, failures, faults, restored>>
  BY DEF Invalidated, Commanded
<1>2. /\ solver' \in Solvers /\ solver'.at = "idle" /\ solver'.invalidated <= heard
      /\ solver'.active => answer.kind = "command"
  <2>1. CASE solver' = [solver EXCEPT !.at = "idle", !.active = FALSE, !.waiting = TRUE, !.invalidated = heard]
    <3> DEFINE s1 == [solver EXCEPT !.at = "idle", !.active = FALSE]
               s2 == [s1 EXCEPT !.waiting = TRUE, !.invalidated = heard]
    <3>1. s1 \in Solvers /\ s1.at = "idle" /\ ~ s1.active
      BY LocalFacts DEF Solvers
    <3>2. s2 \in Solvers /\ s2.at = "idle" /\ ~ s2.active /\ s2.invalidated = heard
      <4> HIDE DEF s1
      <4> QED BY <3>1, LocalFacts DEF Solvers
    <3>3. solver' = s2
      BY <2>1
    <3> HIDE DEF s2
    <3> QED BY <3>2, <3>3, LocalFacts
  <2>2. CASE answer.kind = "command" /\ solver' = [solver EXCEPT !.at = "idle", !.active = TRUE]
    BY <2>2, LocalFacts DEF Solvers
  <2> QED BY <1>1, <2>1, <2>2
<1>3. Dated(path)'
  BY <1>1, LocalFacts DEF Dated, world
<1>4. Types' /\ Versions' /\ BridgeLeads' /\ CommandsAreWatched'
  BY <1>1, <1>2, <1>3, LocalFacts, LocalKeeps DEF Dated, world
<1>5. faults = 0 => requests = <<>> /\ resets = 0 /\ local /\ (answer.kind = "command" => node.session)
  BY <1>1 DEF IInv, Turns
<1>6. (faults = 0 => Turns)'
  BY <1>1, <1>2, <1>5 DEF Turns, NoAnswer
<1>7. ActiveMeansSession' /\ ResetEndsSession'
  BY <1>1, <1>2, <1>5 DEF ActiveMeansSession, ResetEndsSession
<1> QED BY <1>4, <1>6, <1>7 DEF IInv

LEMMA EndLocalKeeps ==
  ASSUME IInv, NEW outcome \in {"done", "canceled"}, EndLocal(outcome), UNCHANGED execVars PROVE IInv'
<1>1. /\ solver.at = "idle" /\ local' = FALSE /\ path' = NoPath /\ feedback' = outcome
      /\ solver' = [solver EXCEPT !.at = "resetting"] /\ resets' = resets + 1 /\ restored' = FALSE
      /\ UNCHANGED <<world, node, controller, requests, stepAt, answer, heard, failures, faults>>
  BY DEF EndLocal
<1>2. solver' \in Solvers /\ solver'.at = "resetting" /\ solver'.invalidated = solver.invalidated
  BY <1>1, LocalFacts DEF Solvers
<1>3. path' \in Paths /\ Dated(path)'
  BY <1>1, PathAssumption DEF NoPath, Paths, Routes, Dated, NoVersion, IInv, Types, SimpleTypes, world
<1>4. Types' /\ Versions' /\ BridgeLeads' /\ CommandsAreWatched'
  <2>1. \A i \in 1..Len(requests') : Dated(requests'[i])
    BY <1>1, LocalFacts
  <2>2. local' \in BOOLEAN /\ restored' \in BOOLEAN
    BY <1>1
  <2>3. resets' \in Nat
    BY <1>1, LocalFacts
  <2> QED BY <1>1, <1>2, <1>3, <2>1, <2>2, <2>3, LocalFacts, LocalKeeps
<1>5. (faults = 0 => Turns)'
  BY <1>1, <1>2, LocalFacts DEF IInv, Turns
<1>6. ActiveMeansSession' /\ ResetEndsSession'
  BY <1>2 DEF ActiveMeansSession, ResetEndsSession
<1> QED BY <1>4, <1>5, <1>6 DEF IInv

LEMMA EndResetKeeps == ASSUME IInv, EndReset, UNCHANGED execVars PROVE IInv'
<1>1. /\ solver.at = "resetting" /\ restored' = (answer.kind = "command")
      /\ solver' = [solver EXCEPT !.at = "idle", !.active = FALSE, !.waiting = FALSE]
      /\ answer' = NoAnswer
      /\ UNCHANGED <<world, node, controller, requests, stepAt, resets, local, path, heard, feedback>>
  BY DEF EndReset
<1>2. /\ failures' \in Nat /\ faults' \in Nat /\ failures' + faults' <= MaxFaults
      /\ faults' # 0 \/ (faults = 0 /\ answer.kind # "none")
  BY LocalFacts, FaultsAssumption DEF EndReset, Fault, Disturbable
<1>3. solver' \in Solvers /\ solver'.at = "idle" /\ ~ solver'.active /\ solver'.invalidated = solver.invalidated
  <2> DEFINE s1 == [solver EXCEPT !.at = "idle", !.active = FALSE]
             s2 == [s1 EXCEPT !.waiting = FALSE]
  <2>1. s1 \in Solvers /\ s1.at = "idle" /\ ~ s1.active /\ s1.invalidated = solver.invalidated
    BY LocalFacts DEF Solvers
  <2>2. s2 \in Solvers /\ s2.at = "idle" /\ ~ s2.active /\ s2.invalidated = solver.invalidated
    <3> HIDE DEF s1
    <3> QED BY <2>1 DEF Solvers
  <2>3. solver' = s2
    BY <1>1
  <2> HIDE DEF s2
  <2> QED BY <2>2, <2>3
<1>4. Dated(path)' /\ restored' \in BOOLEAN
  BY <1>1, LocalFacts DEF Dated, world
<1>5. Types' /\ Versions' /\ BridgeLeads' /\ CommandsAreWatched'
  BY <1>1, <1>2, <1>3, <1>4, LocalFacts, LocalKeeps DEF Dated, world
<1>6. faults' = 0 => requests = <<>> /\ resets = 0
                     /\ (answer.kind = "command" => ~ node.session /\ controller = "trajectory")
  BY <1>1, <1>2 DEF IInv, Turns
<1>7. (faults = 0 => Turns)'
  BY <1>1, <1>3, <1>6 DEF Turns, NoAnswer
<1>8. ActiveMeansSession' /\ ResetEndsSession'
  BY <1>1, <1>2, <1>3, <1>6 DEF ActiveMeansSession, ResetEndsSession
<1> QED BY <1>5, <1>7, <1>8 DEF IInv

-----------------------------------------------------------------------------
(* The inductive invariant holds of every reachable state.                 *)
THEOREM Inductive == Spec => []IInv
<1>1. IInv /\ [Next]_vars => IInv'
  <2> SUFFICES ASSUME IInv, [Next]_vars PROVE IInv'
    OBVIOUS
  <2>1. CASE ChangeObstacle
    BY <2>1, ChangeKeeps
  <2>2. CASE CancelGoal \/ Bridge
    BY <2>2, BridgeKeeps
  <2>3. CASE Manager
    <3>1. CASE CancelLocal
      BY <3>1, EndLocalKeeps DEF CancelLocal
    <3> QED BY <2>3, <3>1, GoalKeeps, ReactKeeps DEF Manager
  <2>4. CASE Plan
    BY <2>4, PlanSucceedsKeeps, GoalKeeps DEF Plan
  <2>5. CASE Deliver
    BY <2>5, DeliverKeeps
  <2>6. CASE Service
    BY <2>6, StepFailsKeeps, BeginStepKeeps, RefreshFailsKeeps, BlockedKeeps, SolveKeeps, ServeResetKeeps
       DEF Service, StepService
  <2>7. CASE Local
    <3>1. CASE Arrive
      BY <2>7, <3>1, EndLocalKeeps DEF Local, Arrive
    <3> QED BY <2>7, <3>1, HoldKeeps, RequestStepKeeps, StuckKeeps, AnsweredKeeps, EndResetKeeps
            DEF Local, LocalPlanner
  <2>8. CASE ForeignCancel /\ UNCHANGED execVars
    BY <2>8, ForeignCancelKeeps
  <2>9. CASE UNCHANGED vars
    <3>1. UNCHANGED Shared /\ UNCHANGED <<mpcVars, execVars>>
      BY <2>9 DEF vars, mpcVars, service, localPlanner, Shared
    <3>2. Types' /\ Versions' /\ BridgeLeads'
      BY <3>1 DEF IInv, Types, RecordTypes, SimpleTypes, Counts, Unheard, Versions, Dated, BridgeLeads,
         mpcVars, world, service, localPlanner, execVars
    <3> QED BY <3>1, <3>2, SharedKept DEF IInv, mpcVars, localPlanner
  <2> QED BY <2>1, <2>2, <2>3, <2>4, <2>5, <2>6, <2>7, <2>8, <2>9 DEF Next
<1> QED BY InitHolds, <1>1, PTL DEF Spec

(* Every variable keeps its type, and the counts their limits.             *)
THEOREM ExecutionTypeCorrect == Spec => []TypeOK
<1>1. IInv => TypeOK
  <2> SUFFICES ASSUME IInv PROVE TypeOK
    OBVIOUS
  <2>1. /\ node.session \in BOOLEAN /\ node.force \in BOOLEAN
        /\ node.infeasible \in 0..InfeasibleSteps /\ node.stall \in {Unmeasured} \cup 0..StallSteps
    BY DEF IInv, Types, RecordTypes, Nodes
  <2>2. /\ answer.kind \in Kinds /\ answer.blocked \in BOOLEAN
        /\ path.route \in Routes /\ path.progress \in 0..Last /\ message.to \subseteq Readers
    BY DEF IInv, Types, RecordTypes, Answers, Paths, Messages
  <2>3. solver.at \in {"idle", "stepping", "resetting"} /\ solver.invalidated \in 0..heard
    BY LocalFacts DEF Solvers
  <2>4. failures + faults \in 0..MaxFaults /\ plans \in 0..MaxPlans /\ heard \in 0..plans
    BY FaultsAssumption, BoundsAssumption DEF IInv, Types, Counts, Unheard
  <2> QED BY <2>1, <2>2, <2>3, <2>4 DEF IInv, Types, SimpleTypes, Versions, TypeOK
<1> QED BY <1>1, Inductive, PTL

(* A solver that believes its session goes on has one in the step service, *)
(* and a reset that was answered leaves no session, and the trajectory     *)
(* controller active.                                                      *)
THEOREM SessionsStayInStep == Spec => []SessionsAgree
<1>1. IInv => SessionsAgree
  BY DEF IInv, SessionsAgree
<1> QED BY <1>1, Inductive, PTL

(* No command follows a window MPC knows to be blocked, on a path that is  *)
(* as recent as the session.                                               *)
THEOREM SentinelWatches == Spec => []CommandsAreWatched
<1>1. IInv => CommandsAreWatched
  BY DEF IInv
<1> QED BY <1>1, Inductive, PTL

(* A goal that was reported as preempted does not execute any longer.      *)
THEOREM PreemptedGoalHasEnded == Spec => []PreemptedHasEnded
<1>1. IInv => PreemptedHasEnded
  BY DEF IInv, BridgeLeads, PreemptedHasEnded, Executing
<1> QED BY <1>1, Inductive, PTL

-----------------------------------------------------------------------------
(* Joint values on their way, for any joints, orders and values.           *)
(* Names of which each names one joint.                                    *)
Distinct(names) ==
  DOMAIN names \subseteq Nat /\ \A i, j \in DOMAIN names : names[i] = names[j] => i = j

LEMMA ByNameTells ==
  ASSUME NEW names, NEW values, Distinct(names)
  PROVE  /\ \A n \in DOMAIN ByName(names, values) : \E i \in Zipped(names, values) : names[i] = n
         /\ \A i \in Zipped(names, values) : ByName(names, values)[names[i]] = values[i]
<1>1. DOMAIN ByName(names, values) = {names[i] : i \in Zipped(names, values)}
  BY DEF ByName
<1>2. ASSUME NEW i \in Zipped(names, values)
      PROVE  ByName(names, values)[names[i]] = values[i]
  <2>1. i \in DOMAIN names /\ i \in Nat /\ Zipped(names, values) \subseteq DOMAIN names
    BY DEF Zipped, Distinct
  <2>2. \A j \in Zipped(names, values) : names[j] = names[i] => j <= i
    BY <2>1 DEF Distinct
  <2>3. LastOf(names, values, names[i]) = i
    BY <2>1, <2>2 DEF LastOf, Distinct
  <2>4. names[i] \in {names[j] : j \in Zipped(names, values)}
    OBVIOUS
  <2> QED BY <2>3, <2>4 DEF ByName
<1> QED BY <1>1, <1>2

LEMMA InOrderTells ==
  ASSUME NEW names, NEW values, Distinct(names), NEW order, ~ Lacks(ByName(names, values), order),
         NEW i \in DOMAIN order
  PROVE  \E k \in Zipped(names, values) :
           names[k] = order[i] /\ InOrder(ByName(names, values), order)[i] = values[k]
<1> DEFINE byName == ByName(names, values)
           places == Zipped(names, values)
<1>1. order[i] \in DOMAIN byName
  BY DEF Lacks
<1>2. /\ \A n \in DOMAIN byName : \E k \in places : names[k] = n
      /\ \A k \in places : byName[names[k]] = values[k]
  BY ByNameTells
<1>3. InOrder(byName, order)[i] = byName[order[i]]
  BY DEF InOrder
<1> HIDE DEF byName, places
<1>4. PICK k \in places : names[k] = order[i]
  BY <1>1, <1>2
<1>5. byName[order[i]] = values[k]
  BY <1>2, <1>4
<1> QED BY <1>3, <1>4, <1>5 DEF byName, places

(* What a vector says of a joint is what the report said of it.            *)
Repeats(state, report) ==
  \A i \in DOMAIN state.names : \E k \in DOMAIN report.names :
    report.names[k] = state.names[i] /\ state.values[i] = report.values[k]

LEMMA SortedRepeats ==
  ASSUME NEW report, NEW order, Distinct(report.names), ~ Lacks(ByName(report.names, report.values), order)
  PROVE  Repeats(Sorted(report, order), report)
<1>1. /\ Sorted(report, order).names = order
      /\ Sorted(report, order).values = InOrder(ByName(report.names, report.values), order)
  BY DEF Sorted, State
<1>2. Zipped(report.names, report.values) \subseteq DOMAIN report.names
  BY DEF Zipped
<1> QED BY <1>1, <1>2, InOrderTells DEF Repeats

(* Every vector of joint values that the planner makes of a report, in     *)
(* whatever order it needs them, says of each joint what the report said.  *)
THEOREM ReadingsKeepTheirJoints ==
  ASSUME NEW Joints, NEW Values, NEW order, NEW report,
         report.names \in Seq(Joints), report.values \in Seq(Values), Distinct(report.names)
  PROVE  /\ \A state \in LiveJointState({report}, order) : Repeats(state, report) /\ state.names = order
         /\ \A state \in OrderedDict(report, order) : Repeats(state, report)
<1>1. ASSUME NEW state \in LiveJointState({report}, order)
      PROVE  Repeats(state, report) /\ state.names = order
  <2>1. state = Sorted(report, order) /\ ~ Lacks(ByName(report.names, report.values), order)
    BY DEF LiveJointState
  <2>2. state.names = order
    BY <2>1 DEF Sorted, State
  <2> QED BY <2>1, <2>2, SortedRepeats
<1>2. ASSUME NEW state \in OrderedDict(report, order)
      PROVE  Repeats(state, report)
  <2> DEFINE asked == IF order # <<>> THEN order ELSE report.names
  <2>1. CASE Lacks(ByName(report.names, report.values), asked)
    <3>1. Len(report.names) = Len(report.values)
      BY DEF OrderedDict
    <3>2. state.names = report.names /\ state.values = report.values
      BY <2>1 DEF OrderedDict, State
    <3> QED BY <3>2 DEF Repeats
  <2>2. CASE ~ Lacks(ByName(report.names, report.values), asked)
    <3>1. state = Sorted(report, asked)
      BY <2>2 DEF OrderedDict
    <3> QED BY <2>2, <3>1, SortedRepeats
  <2> QED BY <2>1, <2>2
<1> QED BY <1>1, <1>2

(* What MPC solves: a row of joint values per step, and of velocities.     *)
Solution(state, Joints, Values) ==
  /\ state.names \in Seq(Joints) /\ Distinct(state.names)
  /\ state.rows \in Seq(Seq(Values)) /\ state.velocities \in Seq(Seq(Values))

Solutions(candidate, Joints, Values) == \A state \in candidate : Solution(state, Joints, Values)

LEMMA ExtractedKeepsJoints ==
  ASSUME NEW Joints, NEW Values, NEW state, Solution(state, Joints, Values),
         NEW order, NEW most \in Nat, NEW command \in ExtractWaypoints(state, order, most)
  PROVE  /\ command = [rows |-> command.rows, velocities |-> command.velocities]
         /\ \E m \in 0 .. Len(state.rows) : m <= most /\ DOMAIN command.rows = 1 .. m
         /\ \A r \in DOMAIN command.rows :
              /\ command.rows[r] \in [DOMAIN order -> Values]
              /\ \A i \in DOMAIN order : \E k \in DOMAIN state.names :
                   state.names[k] = order[i] /\ command.rows[r][i] = state.rows[r][k]
<1> DEFINE place  == [i \in DOMAIN state.names |-> i]
           column == ByName(state.names, place)
           m      == IF Len(state.rows) < most THEN Len(state.rows) ELSE most
           rows   == SubSeq(state.rows, 1, m)
           Short(row) == \E i \in DOMAIN order : column[order[i]] > Len(row)
           Pick(row) == [i \in DOMAIN order |-> row[column[order[i]]]]
<1>1. m \in 0 .. Len(state.rows) /\ m <= most
  BY DEF Solution
<1>2. rows \in Seq(Seq(Values)) /\ Len(rows) = m /\ \A r \in 1 .. m : rows[r] = state.rows[r]
  BY <1>1 DEF Solution
<1> HIDE DEF m
<1>3. ~ Lacks(column, order) /\ \A r \in DOMAIN rows : ~ Short(rows[r])
  BY DEF ExtractWaypoints, m
<1>4. /\ command.rows = [r \in DOMAIN rows |-> Pick(rows[r])]
      /\ command = [rows |-> command.rows, velocities |-> command.velocities]
  <2> DEFINE given == {r \in DOMAIN rows : r \in DOMAIN state.velocities}
             speeds == [r \in DOMAIN rows |-> IF r \in given THEN Pick(state.velocities[r]) ELSE Zeros(order)]
             picked == [r \in DOMAIN rows |-> Pick(rows[r])]
             all == [rows |-> picked, velocities |-> speeds]
  <2>1. ExtractWaypoints(state, order, most) \in {{}, {all}}
    BY Zenon DEF ExtractWaypoints, m
  <2> HIDE DEF speeds, picked
  <2>2. command = all
    BY <2>1
  <2>3. command.rows = picked /\ command = [rows |-> command.rows, velocities |-> command.velocities]
    BY <2>2
  <2> QED BY <2>3 DEF picked
<1>5. DOMAIN rows = 1 .. m
  BY <1>1, <1>2
<1>6. ASSUME NEW i \in DOMAIN order
      PROVE  \E k \in DOMAIN state.names : state.names[k] = order[i] /\ column[order[i]] = k
  <2>1. PICK k \in Zipped(state.names, place) :
          state.names[k] = order[i] /\ InOrder(column, order)[i] = place[k]
    <3>1. Distinct(state.names) /\ i \in DOMAIN order
      BY <1>6 DEF Solution
    <3> QED BY <1>3, <3>1, InOrderTells
  <2>2. k \in DOMAIN state.names
    BY DEF Zipped
  <2> QED BY <2>1, <2>2 DEF InOrder
<1> HIDE DEF column, rows
<1>7. ASSUME NEW r \in DOMAIN command.rows
      PROVE  /\ command.rows[r] \in [DOMAIN order -> Values]
             /\ \A i \in DOMAIN order : \E k \in DOMAIN state.names :
                  state.names[k] = order[i] /\ command.rows[r][i] = state.rows[r][k]
  <2>1. /\ r \in 1 .. m /\ command.rows[r] = Pick(state.rows[r])
        /\ ~ Short(state.rows[r]) /\ state.rows[r] \in Seq(Values)
    BY <1>2, <1>3, <1>4, <1>5
  <2>2. \A i \in DOMAIN order : column[order[i]] \in DOMAIN state.rows[r]
    <3> SUFFICES ASSUME NEW i \in DOMAIN order PROVE column[order[i]] \in DOMAIN state.rows[r]
      OBVIOUS
    <3>1. PICK k \in DOMAIN state.names : column[order[i]] = k
      BY <1>6
    <3>2. k \in Nat /\ k >= 1
      BY DEF Solution
    <3>3. k <= Len(state.rows[r])
      BY <2>1, <3>1, <3>2
    <3> QED BY <2>1, <3>1, <3>2, <3>3
  <2>3. \A i \in DOMAIN order : state.rows[r][column[order[i]]] \in Values
    BY <2>1, <2>2
  <2> QED BY <1>6, <2>1, <2>3
<1> QED BY <1>1, <1>4, <1>5, <1>7

LEMMA UsableIsExtracted ==
  ASSUME NEW Joints, NEW Values, NotFinite \notin Int, NEW candidate,
         Solutions(candidate, Joints, Values),
         NEW order, NEW most \in Nat, NEW command \in Usable(candidate, order, most)
  PROVE  /\ AreFinite(command.rows) /\ AreFinite(command.velocities)
         /\ \E state \in candidate : \E c \in ExtractWaypoints(state, order, most) : command.rows = c.rows
<1>1. PICK c \in UNION {ExtractWaypoints(state, order, most) : state \in candidate} :
        /\ AreFinite(c.rows)
        /\ command = IF AreFinite(c.velocities) THEN c
                     ELSE [c EXCEPT !.velocities = [r \in DOMAIN c.rows |-> Zeros(order)]]
  BY DEF Usable
<1>2. PICK state \in candidate : c \in ExtractWaypoints(state, order, most)
  OBVIOUS
<1>3. c = [rows |-> c.rows, velocities |-> c.velocities]
  BY <1>2, ExtractedKeepsJoints DEF Solutions
<1>4. command.rows = c.rows /\ AreFinite(command.velocities)
  <2>1. CASE AreFinite(c.velocities)
    BY <1>1, <2>1
  <2>2. CASE ~ AreFinite(c.velocities)
    <3> DEFINE still == [r \in DOMAIN c.rows |-> Zeros(order)]
    <3>1. AreFinite(still)
      BY DEF AreFinite, Zeros
    <3> HIDE DEF still
    <3>2. command = [c EXCEPT !.velocities = still]
      BY <1>1, <2>2 DEF still
    <3>3. command = [rows |-> c.rows, velocities |-> still]
      BY <1>3, <3>2
    <3> QED BY <3>1, <3>3
  <2> QED BY <2>1, <2>2
<1> QED BY <1>1, <1>2, <1>4

LEMMA FirstIsUsable ==
  ASSUME NEW candidates, NEW order, NEW most, NEW goal,
         NEW command \in FirstValidCommand(candidates, order, most, goal)
  PROVE  \E k \in DOMAIN candidates : command \in Usable(candidates[k], order, most)
<1> DEFINE usable == {k \in DOMAIN candidates : Usable(candidates[k], order, most) # {}}
           Command(k) == CHOOSE c \in Usable(candidates[k], order, most) : TRUE
<1>1. \E k \in usable : command = Command(k)
  BY DEF FirstValidCommand
<1>2. \A k \in usable : Command(k) \in Usable(candidates[k], order, most)
  OBVIOUS
<1> HIDE DEF Command
<1> QED BY <1>1, <1>2

-----------------------------------------------------------------------------
(* A part of a way, in percent, does not go beyond it.                     *)
Between(v, a, b) == \/ a <= v /\ v <= b
                    \/ b <= v /\ v <= a

LEMMA Portion ==
  ASSUME NEW s \in 0 .. 100, NEW d \in Int
  PROVE  /\ d >= 0 => (s * d) \div 100 \in 0 .. d
         /\ d <= 0 => (s * d) \div 100 \in d .. 0
<1>1. d >= 0 => s * d >= 0 /\ s * d <= 100 * d
  OBVIOUS
<1>2. d <= 0 => s * d <= 0 /\ s * d >= 100 * d
  OBVIOUS
<1>3. s * d \in Int
  OBVIOUS
<1> DEFINE x == s * d
<1> HIDE DEF x
<1> QED BY <1>1, <1>2, <1>3 DEF x

LEMMA StaysBetween ==
  ASSUME NEW from \in Int, NEW to \in Int, NEW part,
         to - from >= 0 => part \in 0 .. (to - from),
         to - from <= 0 => part \in (to - from) .. 0
  PROVE  from + part \in Int /\ Between(from + part, from, to)
<1>1. CASE to - from >= 0
  BY <1>1 DEF Between
<1>2. CASE to - from <= 0
  BY <1>2 DEF Between
<1> QED BY <1>1, <1>2

LEMMA ScaledIsBetween ==
  ASSUME NEW Joints, NEW now, Distinct(now.names), now.values \in Seq(Int),
         NEW order, NEW command, NEW raw \in Int, NEW r \in DOMAIN command.rows,
         command.rows[r] \in [DOMAIN order -> Int]
  PROVE  LET streamed == ScaleStreamCommand(now, command, order, raw).rows[r]
         IN  /\ streamed \in [DOMAIN order -> Int]
             /\ \A i \in DOMAIN order :
                  \/ streamed[i] = command.rows[r][i]
                  \/ \E l \in DOMAIN now.names :
                       now.names[l] = order[i] /\ Between(streamed[i], now.values[l], command.rows[r][i])
<1> DEFINE byName == ByName(now.names, now.values)
           scale == SpeedScale(raw)
           scaled == ScaleStreamCommand(now, command, order, raw)
           Toward(from, to) == from + (scale * (to - from)) \div 100
<1>1. scale \in 0 .. 100
  BY DEF SpeedScale
<1>2. CASE scale = 100 \/ Lacks(byName, order)
  <2>1. scaled = command
    BY <1>2 DEF ScaleStreamCommand
  <2> QED BY <2>1
<1>3. CASE ~ (scale = 100 \/ Lacks(byName, order))
  <2> DEFINE moved == [q \in DOMAIN command.rows |->
                         [i \in DOMAIN order |-> Toward(byName[order[i]], command.rows[q][i])]]
  <2>1. scaled.rows = moved
    <3> DEFINE speeds == [q \in DOMAIN command.velocities |->
                           [i \in DOMAIN command.velocities[q] |-> (scale * command.velocities[q][i]) \div 100]]
    <3>1. scaled = [rows |-> moved, velocities |-> speeds]
      BY <1>3, Zenon DEF ScaleStreamCommand
    <3> HIDE DEF scaled, moved, speeds
    <3> QED BY <3>1
  <2>2. scaled.rows[r] = [i \in DOMAIN order |-> Toward(byName[order[i]], command.rows[r][i])]
    BY <2>1
  <2>3. ASSUME NEW i \in DOMAIN order
        PROVE  \E l \in DOMAIN now.names :
                 /\ now.names[l] = order[i]
                 /\ scaled.rows[r][i] \in Int
                 /\ Between(scaled.rows[r][i], now.values[l], command.rows[r][i])
    <3>1. PICK l \in Zipped(now.names, now.values) :
            now.names[l] = order[i] /\ InOrder(byName, order)[i] = now.values[l]
      BY <1>3, InOrderTells
    <3>2. l \in DOMAIN now.names /\ now.values[l] \in Int /\ byName[order[i]] = now.values[l]
      BY <3>1 DEF Zipped, InOrder
    <3>3. command.rows[r][i] \in Int
      OBVIOUS
    <3> DEFINE from == now.values[l]
               to == command.rows[r][i]
               part == (scale * (to - from)) \div 100
    <3>4. scaled.rows[r][i] = from + part
      BY <2>2, <3>2
    <3>5. from \in Int /\ to \in Int /\ to - from \in Int
      BY <3>2, <3>3
    <3> HIDE DEF from, to, scale
    <3>6. /\ to - from >= 0 => part \in 0 .. (to - from)
          /\ to - from <= 0 => part \in (to - from) .. 0
      BY <1>1, <3>5, Portion
    <3> HIDE DEF part
    <3>7. from + part \in Int /\ Between(from + part, from, to)
      BY <3>5, <3>6, StaysBetween
    <3> QED BY <3>1, <3>2, <3>4, <3>7 DEF from, to
  <2> HIDE DEF byName, scaled
  <2>4. scaled.rows[r] \in [DOMAIN order -> Int]
    BY <2>2, <2>3
  <2> QED BY <2>3, <2>4 DEF scaled
<1> QED BY <1>2, <1>3

(* Values for every joint of the controller, between where a joint is and  *)
(* where one solution wants it.                                            *)
IsWanted(streamed, candidates, now, order, r) ==
  /\ PublishStream(order, streamed, order) = {streamed}
  /\ streamed \in [DOMAIN order -> Int]
  /\ \E k \in DOMAIN candidates : \E solution \in candidates[k] : \A i \in DOMAIN order :
       \E j \in DOMAIN solution.names :
         /\ solution.names[j] = order[i]
         /\ \/ streamed[i] = solution.rows[r][j]
            \/ \E l \in DOMAIN now.names :
                 now.names[l] = order[i] /\ Between(streamed[i], now.values[l], solution.rows[r][j])

(* What is streamed to the controller is a command for every joint of it,  *)
(* finite, and moves each from where it is toward where one solution, the  *)
(* same for all, wants this joint, and no farther: for any number of       *)
(* candidates, named in any order and with joints that are not wanted.     *)
THEOREM CommandsKeepTheirJoints ==
  ASSUME NEW Joints, NotFinite \notin Int, NEW candidates,
         \A k \in DOMAIN candidates : Solutions(candidates[k], Joints, Int \cup {NotFinite}),
         NEW now, Distinct(now.names), now.values \in Seq(Int),
         NEW order \in Seq(Joints), NEW most \in Nat, NEW goal, NEW raw \in Int,
         NEW command \in FirstValidCommand(candidates, order, most, goal), NEW r \in DOMAIN command.rows
  PROVE  IsWanted(ScaleStreamCommand(now, command, order, raw).rows[r], candidates, now, order, r)
<1> DEFINE streamed == ScaleStreamCommand(now, command, order, raw).rows[r]
           Numbers == Int \cup {NotFinite}
<1>1. PICK k \in DOMAIN candidates : command \in Usable(candidates[k], order, most)
  BY FirstIsUsable
<1>2. /\ AreFinite(command.rows)
      /\ \E s \in candidates[k] : \E c \in ExtractWaypoints(s, order, most) : command.rows = c.rows
  <2>1. Solutions(candidates[k], Joints, Numbers)
    OBVIOUS
  <2> HIDE DEF Numbers
  <2> QED BY <1>1, <2>1, UsableIsExtracted
<1>3. PICK solution \in candidates[k] :
        \E c \in ExtractWaypoints(solution, order, most) : command.rows = c.rows
  BY <1>2
<1>4. Solution(solution, Joints, Numbers)
  BY DEF Solutions
<1>5. PICK c \in ExtractWaypoints(solution, order, most) : command.rows = c.rows
  BY <1>3
<1>6. /\ c.rows[r] \in [DOMAIN order -> Numbers]
      /\ \A i \in DOMAIN order : \E j \in DOMAIN solution.names :
           solution.names[j] = order[i] /\ c.rows[r][i] = solution.rows[r][j]
  <2>1. r \in DOMAIN c.rows
    BY <1>5
  <2> HIDE DEF Numbers
  <2> QED BY <1>4, <2>1, ExtractedKeepsJoints
<1>7. command.rows[r] \in [DOMAIN order -> Int]
  <2>1. \A i \in DOMAIN order : command.rows[r][i] # NotFinite
    BY <1>2, <1>5, <1>6 DEF AreFinite
  <2> QED BY <1>5, <1>6, <2>1
<1>8. /\ streamed \in [DOMAIN order -> Int]
      /\ \A i \in DOMAIN order :
           \/ streamed[i] = command.rows[r][i]
           \/ \E l \in DOMAIN now.names :
                now.names[l] = order[i] /\ Between(streamed[i], now.values[l], command.rows[r][i])
  BY <1>7, ScaledIsBetween
<1> HIDE DEF streamed
<1>9. PublishStream(order, streamed, order) = {streamed}
  <2>1. streamed \in Seq(Int) /\ Len(streamed) = Len(order)
    BY <1>8
  <2>2. \A i \in DOMAIN streamed : streamed[i] # NotFinite
    BY <1>8
  <2> QED BY <2>1, <2>2 DEF PublishStream
<1>10. \A i \in DOMAIN order : \E j \in DOMAIN solution.names :
         /\ solution.names[j] = order[i]
         /\ \/ streamed[i] = solution.rows[r][j]
            \/ \E l \in DOMAIN now.names :
                 now.names[l] = order[i] /\ Between(streamed[i], now.values[l], solution.rows[r][j])
  BY <1>5, <1>6, <1>8
<1>11. \E which \in DOMAIN candidates : \E s \in candidates[which] : \A i \in DOMAIN order :
         \E j \in DOMAIN s.names :
           /\ s.names[j] = order[i]
           /\ \/ streamed[i] = s.rows[r][j]
              \/ \E l \in DOMAIN now.names :
                   now.names[l] = order[i] /\ Between(streamed[i], now.values[l], s.rows[r][j])
  BY <1>10
<1>12. IsWanted(streamed, candidates, now, order, r)
  BY <1>8, <1>9, <1>11 DEF IsWanted
<1> QED BY <1>12 DEF streamed

-----------------------------------------------------------------------------
(* Angles that differ by whole turns.                                      *)
WholeTurns(a, b) == \E k \in Int : a = b + k * FullTurn

LEMMA HalfTurn == Half \in Nat /\ FullTurn = 2 * Half /\ Half > 0 /\ FullTurn \in Nat \ {0}
BY TurnAssumption DEF Half

LEMMA Rest ==
  ASSUME NEW d \in Int
  PROVE  \E q \in Int : ((d + Half) % FullTurn) - Half = d - q * FullTurn
                        /\ d - q * FullTurn \in (-Half) .. (Half - 1)
<1> DEFINE q == (d + Half) \div FullTurn
           m == (d + Half) % FullTurn
<1>1. d + Half \in Int
  BY HalfTurn
<1>2. q \in Int /\ m \in 0 .. (FullTurn - 1) /\ d + Half = FullTurn * q + m
  BY <1>1, HalfTurn
<1>3. FullTurn * q = q * FullTurn /\ q * FullTurn \in Int
  BY <1>2, HalfTurn
<1> HIDE DEF q, m
<1>4. m - Half = d - q * FullTurn /\ m - Half \in (-Half) .. (Half - 1)
  BY <1>2, <1>3, HalfTurn
<1> QED BY <1>2, <1>4 DEF m

LEMMA WrappedIsNear ==
  ASSUME NEW angle \in Int
  PROVE  /\ Wrapped(angle) \in (-Half) .. Half
         /\ WholeTurns(Wrapped(angle), angle)
<1> DEFINE rest == ((angle + Half) % FullTurn) - Half
<1>1. PICK q \in Int : rest = angle - q * FullTurn /\ rest \in (-Half) .. (Half - 1)
  BY Rest
<1>2. q * FullTurn \in Int /\ (-q) * FullTurn = -(q * FullTurn)
      /\ (1 - q) * FullTurn = FullTurn - q * FullTurn
  BY HalfTurn
<1>3. Wrapped(angle) = IF rest = -Half /\ angle > 0 THEN Half ELSE rest
  BY DEF Wrapped
<1> HIDE DEF rest
<1>4. CASE rest = -Half /\ angle > 0
  <2>1. Half = angle + (1 - q) * FullTurn
    BY <1>1, <1>2, <1>4, HalfTurn
  <2>2. 1 - q \in Int
    OBVIOUS
  <2>3. WholeTurns(Half, angle)
    BY <2>1, <2>2 DEF WholeTurns
  <2>4. Half \in (-Half) .. Half
    BY HalfTurn
  <2> QED BY <1>3, <1>4, <2>3, <2>4
<1>5. CASE ~ (rest = -Half /\ angle > 0)
  <2>1. rest = angle + (-q) * FullTurn
    BY <1>1, <1>2
  <2> QED BY <1>1, <1>3, <1>5, <2>1, HalfTurn DEF WholeTurns
<1> QED BY <1>4, <1>5

LEMMA NearestIsNear ==
  ASSUME NEW goal \in Int, NEW reference \in Int
  PROVE  LET near == NearestEquivalent(TRUE, goal, reference)
         IN  WholeTurns(near, goal) /\ near - reference \in (-Half) .. Half
<1>1. PICK k \in Int : Wrapped(goal - reference) = (goal - reference) + k * FullTurn
  BY WrappedIsNear DEF WholeTurns
<1>2. Wrapped(goal - reference) \in (-Half) .. Half
  BY WrappedIsNear
<1>3. k * FullTurn \in Int /\ Half \in Int
  BY HalfTurn
<1>4. NearestEquivalent(TRUE, goal, reference) = reference + Wrapped(goal - reference)
  BY DEF NearestEquivalent
<1> DEFINE near == NearestEquivalent(TRUE, goal, reference)
<1>5. near = goal + k * FullTurn /\ near - reference = Wrapped(goal - reference)
  <2> DEFINE turns == k * FullTurn
             way == Wrapped(goal - reference)
  <2>1. way = (goal - reference) + turns /\ turns \in Int /\ near = reference + way
    BY <1>1, <1>3, <1>4
  <2> HIDE DEF turns, way, near
  <2>2. near = goal + turns /\ near - reference = way
    BY <2>1
  <2> QED BY <2>2 DEF turns, way
<1> HIDE DEF near
<1>6. WholeTurns(near, goal) /\ near - reference \in (-Half) .. Half
  BY <1>2, <1>5 DEF WholeTurns
<1> QED BY <1>6 DEF near

LEMMA NearestAngleIsNear ==
  ASSUME NEW goal \in Int, NEW current \in Int
  PROVE  LET near == NearestAngle(goal, current)
         IN  /\ near \in {goal, goal - FullTurn, goal + FullTurn}
             /\ \A t \in {goal, goal - FullTurn, goal + FullTurn} : Abs(near - current) <= Abs(t - current)
BY HalfTurn DEF NearestAngle, Abs

LEMMA OneTurn ==
  ASSUME NEW goal \in Int, NEW angle \in {goal, goal - FullTurn, goal + FullTurn}
  PROVE  WholeTurns(angle, goal)
<1>1. /\ goal = goal + 0 * FullTurn
      /\ goal - FullTurn = goal + (-1) * FullTurn
      /\ goal + FullTurn = goal + 1 * FullTurn
  BY HalfTurn
<1>2. 0 \in Int /\ -1 \in Int /\ 1 \in Int
  OBVIOUS
<1> QED BY <1>1, <1>2 DEF WholeTurns

LEMMA HomeTurns ==
  ASSUME NEW Joints, NEW goals \in [Joints -> Int], NEW Known, NEW now \in [Known -> Int],
         NEW latest, latest = {now},
         NEW turning, NEW n \in Joints
  PROVE  LET target == HomeTarget(goals, latest, turning)[n]
         IN  IF n \in turning /\ n \in Known
             THEN /\ WholeTurns(target, goals[n])
                  /\ \A t \in {goals[n], goals[n] - FullTurn, goals[n] + FullTurn} :
                       Abs(target - now[n]) <= Abs(t - now[n])
             ELSE target = goals[n]
<1> DEFINE target == HomeTarget(goals, latest, turning)[n]
<1>1. (CHOOSE s \in latest : TRUE) = now
  OBVIOUS
<1>2. target = IF n \in turning /\ n \in Known THEN NearestAngle(goals[n], now[n]) ELSE goals[n]
  BY <1>1 DEF HomeTarget
<1>3. CASE n \in turning /\ n \in Known
  <2>1. goals[n] \in Int /\ now[n] \in Int
    BY <1>3
  <2> QED BY <1>2, <1>3, <2>1, NearestAngleIsNear, OneTurn
<1>4. CASE ~ (n \in turning /\ n \in Known)
  BY <1>2, <1>4
<1> QED BY <1>3, <1>4

(* A target of MoveIt, or for home, is the one that was asked for but for  *)
(* whole turns of joints that can turn: the joint turns by half a turn at  *)
(* most to the one, and the other is the nearest within one turn.          *)
THEOREM TargetsKeepTheirAngles ==
  ASSUME NEW Joints, NEW goals \in [Joints -> Int], NEW Known, NEW now \in [Known -> Int],
         NEW latest, latest = {now},
         NEW turning
  PROVE  /\ \A n \in Joints :
              LET target == NormalizeTargets(goals, now, turning)[n]
              IN  IF n \in turning /\ n \in Known
                  THEN WholeTurns(target, goals[n]) /\ target - now[n] \in (-Half) .. Half
                  ELSE target = goals[n]
         /\ \A n \in Joints :
              LET target == HomeTarget(goals, latest, turning)[n]
              IN  IF n \in turning /\ n \in Known
                  THEN /\ WholeTurns(target, goals[n])
                       /\ \A t \in {goals[n], goals[n] - FullTurn, goals[n] + FullTurn} :
                            Abs(target - now[n]) <= Abs(t - now[n])
                  ELSE target = goals[n]
<1>1. ASSUME NEW n \in Joints
      PROVE  LET target == NormalizeTargets(goals, now, turning)[n]
             IN  IF n \in turning /\ n \in Known
                 THEN WholeTurns(target, goals[n]) /\ target - now[n] \in (-Half) .. Half
                 ELSE target = goals[n]
  <2> DEFINE target == NormalizeTargets(goals, now, turning)[n]
  <2>1. target = IF n \in Known THEN NearestEquivalent(n \in turning, goals[n], now[n]) ELSE goals[n]
    BY DEF NormalizeTargets
  <2>2. CASE n \in turning /\ n \in Known
    <3>1. target = NearestEquivalent(TRUE, goals[n], now[n])
      BY <2>1, <2>2 DEF NearestEquivalent
    <3> QED BY <2>2, <3>1, NearestIsNear
  <2>3. CASE ~ (n \in turning /\ n \in Known)
    BY <2>1, <2>3 DEF NearestEquivalent
  <2> QED BY <2>2, <2>3
<1> QED BY <1>1, HomeTurns

LEMMA WrappedErrorIsLeast ==
  ASSUME NEW goal \in Int, NEW measured \in Int
  PROVE  /\ WrappedError(goal, measured) \in Nat
         /\ \E k \in Int : WrappedError(goal, measured) = Abs(measured - (goal + k * FullTurn))
         /\ \A k \in Int : WrappedError(goal, measured) <= Abs(measured - (goal + k * FullTurn))
<1> DEFINE d == measured - goal
           rest == ((d + Half) % FullTurn) - Half
<1>1. PICK q \in Int : rest = d - q * FullTurn /\ rest \in (-Half) .. (Half - 1)
  BY Rest
<1>2. WrappedError(goal, measured) = Abs(rest)
  BY DEF WrappedError
<1> HIDE DEF rest
<1>3. q * FullTurn \in Int /\ rest = measured - (goal + q * FullTurn) /\ rest \in Int
  BY <1>1, HalfTurn
<1>4. ASSUME NEW k \in Int
      PROVE  Abs(rest) <= Abs(measured - (goal + k * FullTurn))
  <2> DEFINE j == q - k
             other == measured - (goal + k * FullTurn)
  <2>1. j \in Int /\ k * FullTurn \in Int /\ j * FullTurn \in Int
        /\ j * FullTurn = q * FullTurn - k * FullTurn
    BY HalfTurn
  <2>2. other = rest + j * FullTurn /\ other \in Int
    BY <1>3, <2>1
  <2> HIDE DEF j, other
  <2>3. CASE j = 0
    <3>1. other = rest
      BY <1>3, <2>2, <2>3, HalfTurn
    <3> QED BY <1>3, <3>1 DEF Abs, other
  <2>4. CASE j >= 1
    <3>1. j * FullTurn >= FullTurn
      BY <2>1, <2>4, HalfTurn
    <3>2. other >= rest + FullTurn
      BY <1>3, <2>1, <2>2, <3>1, HalfTurn
    <3>3. Abs(rest) <= Half
      BY <1>1, <1>3, HalfTurn DEF Abs
    <3>4. other >= Half
      BY <1>1, <1>3, <2>2, <3>2, HalfTurn
    <3>5. Abs(other) >= Half /\ Abs(other) \in Int /\ Abs(rest) \in Int
      BY <1>3, <2>2, <3>4, HalfTurn DEF Abs
    <3> QED BY <3>3, <3>5, HalfTurn DEF other
  <2>5. CASE j <= -1
    <3>1. j * FullTurn <= -FullTurn
      BY <2>1, <2>5, HalfTurn
    <3>2. other <= rest - FullTurn
      BY <1>3, <2>1, <2>2, <3>1, HalfTurn
    <3>3. Abs(rest) <= Half
      BY <1>1, <1>3, HalfTurn DEF Abs
    <3>4. other <= -Half
      BY <1>1, <1>3, <2>2, <3>2, HalfTurn
    <3>5. Abs(other) >= Half /\ Abs(other) \in Int /\ Abs(rest) \in Int
      BY <1>3, <2>2, <3>4, HalfTurn DEF Abs
    <3> QED BY <3>3, <3>5, HalfTurn DEF other
  <2> QED BY <2>1, <2>3, <2>4, <2>5
<1>5. Abs(rest) \in Nat
  BY <1>3 DEF Abs
<1> QED BY <1>2, <1>3, <1>4, <1>5

(* The check that follows a motion home warns of no joint when the target  *)
(* that was chosen for home is reached, within the tolerance, and it is    *)
(* silent only when the arm is at home but for whole turns.                *)
THEOREM HomeIsVerified ==
  ASSUME NEW Joints, NEW home \in [Joints -> Int], NEW Known, NEW now \in [Known -> Int],
         NEW latest, latest = {now},
         NEW Seen, NEW measured \in [Seen -> Int],
         NEW turning, NEW linear, turning \cap linear = {}, NEW tolerance \in Nat
  PROVE  /\ (\A n \in Joints \cap Seen :
               Abs(measured[n] - HomeTarget(home, latest, turning)[n]) <= tolerance)
            => HomeMismatch(home, measured, linear, tolerance) = {}
         /\ HomeMismatch(home, measured, linear, tolerance) = {}
            => \A n \in Joints \cap Seen : \E k \in Int :
                 /\ n \in linear => k = 0
                 /\ Abs(measured[n] - (home[n] + k * FullTurn)) <= tolerance
<1> DEFINE Error(n) == IF n \in linear THEN Abs(measured[n] - home[n]) ELSE WrappedError(home[n], measured[n])
           target == HomeTarget(home, latest, turning)
<1>1. HomeMismatch(home, measured, linear, tolerance) =
        {n \in Joints \cap Seen : Error(n) > tolerance}
  BY DEF HomeMismatch
<1>2. ASSUME NEW n \in Joints \cap Seen, Abs(measured[n] - target[n]) <= tolerance
      PROVE  ~ (Error(n) > tolerance)
  <2>1. home[n] \in Int /\ measured[n] \in Int /\ n \in Joints
    OBVIOUS
  <2>2. IF n \in turning /\ n \in Known THEN WholeTurns(target[n], home[n]) ELSE target[n] = home[n]
    BY <2>1, HomeTurns
  <2>3. CASE n \in linear
    <3>1. target[n] = home[n]
      BY <2>2, <2>3
    <3> HIDE DEF target
    <3> QED BY <1>2, <2>1, <2>3, <3>1 DEF Abs
  <2>4. CASE n \notin linear
    <3>1. WholeTurns(target[n], home[n])
      BY <2>1, <2>2, OneTurn
    <3>2. PICK k \in Int : target[n] = home[n] + k * FullTurn
      BY <3>1 DEF WholeTurns
    <3>3. WrappedError(home[n], measured[n]) <= Abs(measured[n] - target[n])
      BY <2>1, <3>2, WrappedErrorIsLeast
    <3>4. Abs(measured[n] - target[n]) \in Int
      BY <2>1, <3>2, HalfTurn DEF Abs
    <3>5. WrappedError(home[n], measured[n]) \in Nat
      BY <2>1, WrappedErrorIsLeast
    <3> HIDE DEF target
    <3> QED BY <1>2, <2>4, <3>3, <3>4, <3>5
  <2> QED BY <2>3, <2>4
<1>3. ASSUME NEW n \in Joints \cap Seen, ~ (Error(n) > tolerance)
      PROVE  \E k \in Int : /\ n \in linear => k = 0
                            /\ Abs(measured[n] - (home[n] + k * FullTurn)) <= tolerance
  <2>1. home[n] \in Int /\ measured[n] \in Int
    OBVIOUS
  <2>2. CASE n \in linear
    <3>1. home[n] + 0 * FullTurn = home[n]
      BY <2>1, HalfTurn
    <3>2. Abs(measured[n] - home[n]) <= tolerance
      BY <1>3, <2>1, <2>2 DEF Abs
    <3> QED BY <3>1, <3>2
  <2>3. CASE n \notin linear
    <3>1. PICK k \in Int : WrappedError(home[n], measured[n]) = Abs(measured[n] - (home[n] + k * FullTurn))
      BY <2>1, WrappedErrorIsLeast
    <3>2. WrappedError(home[n], measured[n]) \in Nat
      BY <2>1, WrappedErrorIsLeast
    <3>3. WrappedError(home[n], measured[n]) <= tolerance
      BY <1>3, <2>3, <3>2
    <3> QED BY <2>3, <3>1, <3>3
  <2> QED BY <2>2, <2>3
<1> HIDE DEF Error, target
<1> QED BY <1>1, <1>2, <1>3 DEF target

-----------------------------------------------------------------------------
(* The angles that are a whole turn at most from another.                  *)
TurnsOf(goal) == {goal, goal - FullTurn, goal + FullTurn}
WithinATurn(goal) == {angle \in TurnsOf(goal) : Abs(angle) <= FullTurn}

EquivalentsAreNear(goal, current, angles) ==
  /\ 1 \in DOMAIN angles /\ DOMAIN angles \subseteq 1 .. 3
  /\ \A k \in DOMAIN angles : angles[k] \in TurnsOf(goal)
  /\ \A angle \in WithinATurn(goal) : Abs(angles[1] - current) <= Abs(angle - current)

LEMMA EquivalentAnglesAreNear ==
  ASSUME NEW goal \in Int, NEW current \in Int
  PROVE  EquivalentsAreNear(goal, current, EquivalentAngles(goal, current))
<1> DEFINE within == WithinATurn(goal)
           Gap(angle)  == Abs(angle - current)
           Rank(angle) == IF angle = goal THEN 1 ELSE IF angle = goal - FullTurn THEN 2 ELSE 3
           Key(angle) == (4 * Gap(angle)) + Rank(angle)
           Sooner(a, b) == Gap(a) < Gap(b) \/ (Gap(a) = Gap(b) /\ Rank(a) < Rank(b))
           Closest(S) == CHOOSE a \in S : \A b \in S \ {a} : Sooner(a, b)
           Left(S) == S \ {Closest(S)}
           one == <<Closest(within)>>
           two == <<Closest(within), Closest(Left(within))>>
           three == <<Closest(within), Closest(Left(within)), Closest(Left(Left(within)))>>
           angles == EquivalentAngles(goal, current)
<1>1. angles = IF within = {} THEN <<goal>> ELSE IF Left(within) = {} THEN one
               ELSE IF Left(Left(within)) = {} THEN two ELSE three
  BY DEF EquivalentAngles, WithinATurn, TurnsOf
<1>2. /\ TurnsOf(goal) \subseteq Int
      /\ \A a \in TurnsOf(goal) : Gap(a) \in Int /\ Rank(a) \in {1, 2, 3} /\ Key(a) \in Int
  BY HalfTurn DEF TurnsOf, Abs
<1>3. \A a, b \in TurnsOf(goal) : Sooner(a, b) <=> Key(a) < Key(b)
  <2> SUFFICES ASSUME NEW a \in TurnsOf(goal), NEW b \in TurnsOf(goal)
               PROVE  Sooner(a, b) <=> Key(a) < Key(b)
    OBVIOUS
  <2>1. /\ Gap(a) \in Int /\ Gap(b) \in Int /\ Rank(a) \in {1, 2, 3} /\ Rank(b) \in {1, 2, 3}
    BY <1>2
  <2> HIDE DEF Gap, Rank
  <2> QED
    BY <2>1
<1>4. \A a, b \in TurnsOf(goal) : a # b => Key(a) # Key(b)
  <2> SUFFICES ASSUME NEW a \in TurnsOf(goal), NEW b \in TurnsOf(goal), a # b
               PROVE  Key(a) # Key(b)
    OBVIOUS
  <2>1. /\ Gap(a) \in Int /\ Gap(b) \in Int /\ Rank(a) \in {1, 2, 3} /\ Rank(b) \in {1, 2, 3}
    BY <1>2
  <2>2. Rank(a) # Rank(b)
    BY HalfTurn DEF TurnsOf
  <2> HIDE DEF Gap, Rank
  <2> QED
    BY <2>1, <2>2
<1>5. ASSUME NEW S, S \subseteq TurnsOf(goal), S # {}
      PROVE  Closest(S) \in S /\ \A b \in S : Gap(Closest(S)) <= Gap(b)
  <2>1. /\ goal \in Int /\ goal - FullTurn \in Int /\ goal + FullTurn \in Int
        /\ goal # goal - FullTurn /\ goal # goal + FullTurn /\ goal - FullTurn # goal + FullTurn
    BY HalfTurn
  <2>2. /\ goal \in TurnsOf(goal) /\ goal - FullTurn \in TurnsOf(goal) /\ goal + FullTurn \in TurnsOf(goal)
        /\ S \subseteq {goal, goal - FullTurn, goal + FullTurn}
    BY <1>5 DEF TurnsOf
  <2> HIDE DEF Key
  <2>3. \A a \in {goal, goal - FullTurn, goal + FullTurn} : Key(a) \in Int
    BY <1>2, <2>2
  <2>4. /\ Key(goal) # Key(goal - FullTurn) /\ Key(goal) # Key(goal + FullTurn)
        /\ Key(goal - FullTurn) # Key(goal + FullTurn)
    BY <1>4, <2>1, <2>2
  <2>5. \E a \in S : \A b \in S \ {a} : Key(a) < Key(b)
    <3> DEFINE x == goal
               y == goal - FullTurn
               z == goal + FullTurn
               Least(a) == a \in S /\ \A b \in {x, y, z} : b \in S => Key(a) <= Key(b)
    <3>1. Key(x) \in Int /\ Key(y) \in Int /\ Key(z) \in Int
      BY <2>3
    <3>2. S \subseteq {x, y, z} /\ Key(x) # Key(y) /\ Key(x) # Key(z) /\ Key(y) # Key(z)
      BY <2>2, <2>4
    <3> HIDE DEF x, y, z
    <3>3. Least(x) \/ Least(y) \/ Least(z)
      BY <3>1, <3>2, <1>5
    <3>4. \A a, b \in {x, y, z} : Least(a) /\ b \in S \ {a} => Key(a) < Key(b)
      BY <3>1, <3>2
    <3> QED
      BY <3>2, <3>3, <3>4
  <2> HIDE DEF Sooner
  <2>6. \E a \in S : \A b \in S \ {a} : Sooner(a, b)
    BY <1>5, <2>5, <1>3
  <2>7. Closest(S) \in S /\ \A b \in S \ {Closest(S)} : Sooner(Closest(S), b)
    BY <2>6
  <2> HIDE DEF Closest
  <2>8. ASSUME NEW b \in S
        PROVE  Gap(Closest(S)) <= Gap(b)
    <3>1. Gap(Closest(S)) \in Int /\ Gap(b) \in Int
      BY <1>2, <1>5, <2>7
    <3>2. b # Closest(S) => Sooner(Closest(S), b)
      BY <2>7
    <3>3. Sooner(Closest(S), b) => Gap(Closest(S)) <= Gap(b)
      <4> HIDE DEF Gap, Rank
      <4> QED
        BY <3>1 DEF Sooner
    <3>4. b = Closest(S) => Gap(Closest(S)) <= Gap(b)
      <4> HIDE DEF Gap
      <4> QED
        BY <3>1
    <3> QED
      BY <3>2, <3>3, <3>4
  <2> QED
    BY <2>7, <2>8
<1>6. within \subseteq TurnsOf(goal)
  BY DEF WithinATurn
<1>7. CASE within = {}
  <2>1. angles = <<goal>>
    BY <1>1, <1>7
  <2>2. goal \in TurnsOf(goal)
    BY DEF TurnsOf
  <2> HIDE DEF angles, Gap
  <2>3. EquivalentsAreNear(goal, current, angles)
    BY <2>1, <2>2, <1>7 DEF EquivalentsAreNear
  <2> QED
    BY <2>3 DEF angles
<1>8. CASE within # {}
  <2> DEFINE a == Closest(within)
             b == Closest(Left(within))
             c == Closest(Left(Left(within)))
  <2>1. a \in within /\ \A other \in within : Gap(a) <= Gap(other)
    BY <1>5, <1>6, <1>8
  <2> HIDE DEF Closest
  <2>2. Left(within) # {} => b \in TurnsOf(goal)
    <3>1. Left(within) \subseteq TurnsOf(goal)
      BY <1>6
    <3> QED
      BY <3>1, <1>5
  <2>3. Left(Left(within)) # {} => c \in TurnsOf(goal)
    <3>1. Left(Left(within)) \subseteq TurnsOf(goal)
      BY <1>6
    <3> HIDE DEF Left
    <3> QED
      BY <3>1, <1>5
  <2>4. Left(Left(within)) # {} => Left(within) # {}
    BY DEF Left
  <2>5. \/ angles = <<a>>
        \/ angles = <<a, b>> /\ Left(within) # {}
        \/ angles = <<a, b, c>> /\ Left(within) # {} /\ Left(Left(within)) # {}
    <3> HIDE DEF Left, within, angles
    <3> QED
      BY <1>1, <1>8
  <2>6. /\ 1 \in DOMAIN angles /\ DOMAIN angles \subseteq 1 .. 3 /\ angles[1] = a
        /\ \A k \in DOMAIN angles : angles[k] \in TurnsOf(goal)
    <3> DEFINE T == TurnsOf(goal)
    <3>1. a \in T
      BY <2>1, <1>6
    <3> HIDE DEF a, b, c, Left, within, angles, T
    <3>2. CASE angles = <<a>>
      BY <3>1, <3>2 DEF T
    <3>3. CASE angles = <<a, b>> /\ Left(within) # {}
      BY <3>1, <3>3, <2>2 DEF T
    <3>4. CASE angles = <<a, b, c>> /\ Left(within) # {} /\ Left(Left(within)) # {}
      BY <3>1, <3>4, <2>2, <2>3 DEF T
    <3> QED
      BY <2>5, <3>2, <3>3, <3>4
  <2> HIDE DEF a, angles
  <2>7. EquivalentsAreNear(goal, current, angles)
    BY <2>1, <2>6 DEF EquivalentsAreNear
  <2> QED
    BY <2>7 DEF angles
<1> QED
  BY <1>7, <1>8

-----------------------------------------------------------------------------
Least(S) == CHOOSE n \in S : \A m \in S : n <= m
LEMMA LeastExists ==
  ASSUME NEW S \in SUBSET Nat, S # {}
  PROVE  Least(S) \in S /\ \A m \in S : Least(S) <= m
<1> DEFINE Less == {p \in Nat \X Nat : p[1] < p[2]}
<1>1. OpToRel(<, Nat) = Less
  BY Zenon DEF OpToRel
<1>2. PICK n \in S : \A m \in S : ~ (<<m, n>> \in Less)
  <2> HIDE DEF Less
  <2>1. IsWellFoundedOn(Less, Nat)
    BY <1>1, NatLessThanWellFounded, Zenon
  <2> QED BY <2>1, WFMin, Zenon
<1>3. ASSUME NEW m \in S
      PROVE  n <= m
  <2>1. ~ (<<m, n>> \in Less)
    BY <1>2
  <2>2. <<m, n>> \in Nat \X Nat
    OBVIOUS
  <2>3. ~ (m < n)
    BY <2>1, <2>2
  <2> QED BY <2>3
<1>4. \E k \in S : \A m \in S : k <= m
  BY <1>3
<1> HIDE DEF Less
<1> QED BY <1>4 DEF Least

FarFrom(target, now, n) == IF n \in DOMAIN now THEN Abs(target[n] - now[n]) ELSE 0
PickOf(S) == CHOOSE n \in S : TRUE

(* The sum over any set of joints exists: a least set without it would     *)
(* have one joint less.                                                    *)
LEMMA SumExists ==
  ASSUME NEW target, NEW now, IsFiniteSet(DOMAIN target)
  PROVE  /\ SumOf(target, now)[{}] = 0
         /\ \A S \in SUBSET DOMAIN target : S # {} =>
              SumOf(target, now)[S] = FarFrom(target, now, PickOf(S)) + SumOf(target, now)[S \ {PickOf(S)}]
<1> DEFINE T == DOMAIN target
           G(n) == FarFrom(target, now, n)
           Below(n) == {S \in SUBSET T : Cardinality(S) <= n}
           Is(f, n) == f = [S \in Below(n) |-> IF S = {} THEN 0 ELSE G(PickOf(S)) + f[S \ {PickOf(S)}]]
           none == {n \in Nat : ~ \E f : Is(f, n)}
<1>1. \A S \in SUBSET T : IsFiniteSet(S) /\ Cardinality(S) \in Nat /\ (Cardinality(S) = 0 <=> S = {})
  BY FS_Subset, FS_CardinalityType, FS_EmptySet
<1>2. \A S \in SUBSET T : S # {} => /\ S \ {PickOf(S)} \in SUBSET T
                                   /\ Cardinality(S \ {PickOf(S)}) = Cardinality(S) - 1
  BY <1>1, FS_RemoveElement DEF PickOf
<1> HIDE DEF T
<1>3. ASSUME none # {} PROVE FALSE
  <2> DEFINE n == Least(none)
  <2>1. n \in none /\ \A m \in none : n <= m
    <3>1. none \in SUBSET Nat
      OBVIOUS
    <3> HIDE DEF none
    <3> QED BY <1>3, <3>1, LeastExists
  <2>2. n \in Nat /\ ~ \E f : Is(f, n)
    BY <2>1
  <2> HIDE DEF n
  <2>3. CASE n = 0
    <3> DEFINE f == [S \in Below(0) |-> 0]
               g == [S \in Below(0) |-> IF S = {} THEN 0 ELSE G(PickOf(S)) + f[S \ {PickOf(S)}]]
    <3>1. \A S \in Below(0) : S = {}
      BY <1>1
    <3>2. f = g
      <4> HIDE DEF Below, G
      <4> QED BY <3>1
    <3>3. Is(f, 0)
      BY <3>2
    <3> HIDE DEF Is
    <3> QED BY <2>2, <2>3, <3>3
  <2>4. CASE n # 0
    <3>1. n - 1 \in Nat /\ n - 1 \notin none
      <4> HIDE DEF none
      <4> QED BY <2>1, <2>2, <2>4
    <3>2. PICK h : Is(h, n - 1)
      BY <3>1
    <3> DEFINE Over(S) == IF S = {} THEN 0 ELSE G(PickOf(S)) + h[S \ {PickOf(S)}]
               f == [S \in Below(n) |-> IF S \in Below(n - 1) THEN h[S] ELSE Over(S)]
    <3>3. \A S \in Below(n - 1) : S \in Below(n) /\ h[S] = Over(S)
      <4>1. \A S \in Below(n - 1) : h[S] = Over(S)
        <5> HIDE DEF Below, G
        <5> QED BY <3>2
      <4>2. \A S \in Below(n - 1) : S \in Below(n)
        BY <1>1, <2>2
      <4> QED BY <4>1, <4>2
    <3>4. \A S \in Below(n) : f[S] = Over(S)
      <4> HIDE DEF Over, Below, Is
      <4> QED BY <3>3
    <3>5. \A S \in Below(n) : S # {} => S \ {PickOf(S)} \in Below(n - 1)
      <4> SUFFICES ASSUME NEW S \in Below(n), S # {}
                   PROVE  S \ {PickOf(S)} \in Below(n - 1)
        OBVIOUS
      <4>1. S \in SUBSET T /\ Cardinality(S) <= n /\ Cardinality(S) \in Nat
        BY <1>1
      <4> QED BY <4>1, <1>2, <2>2
    <3>6. \A S \in Below(n) : S # {} => f[S \ {PickOf(S)}] = h[S \ {PickOf(S)}]
      <4>1. \A S \in Below(n - 1) : f[S] = h[S]
        <5> HIDE DEF Over, Below, Is
        <5> QED BY <3>3
      <4> HIDE DEF f, Below, Is
      <4> QED BY <3>5, <4>1
    <3>7. f = [S \in Below(n) |-> f[S]]
      <4> HIDE DEF Below, Over
      <4> QED OBVIOUS
    <3> HIDE DEF f
    <3>8. \A S \in Below(n) : f[S] = IF S = {} THEN 0 ELSE G(PickOf(S)) + f[S \ {PickOf(S)}]
      <4> HIDE DEF Below, Is, G
      <4> QED BY <3>4, <3>6 DEF Over
    <3>9. Is(f, n)
      <4> HIDE DEF Below, G
      <4> QED BY <3>7, <3>8
    <3> HIDE DEF Is
    <3> QED BY <2>2, <3>9
  <2> QED BY <2>3, <2>4
<1> DEFINE all == Cardinality(T)
           sum == SumOf(target, now)
           Sum(f) == f = [S \in SUBSET T |-> IF S = {} THEN 0 ELSE G(PickOf(S)) + f[S \ {PickOf(S)}]]
<1>4. all \in Nat /\ Below(all) = SUBSET T
  BY <1>1, FS_Subset, FS_CardinalityType DEF T
<1>5. \E f : Is(f, all)
  <2> HIDE DEF Is, all
  <2> QED BY <1>3, <1>4
<1>6. \E f : Sum(f)
  <2> HIDE DEF Below, all, G
  <2> QED BY <1>4, <1>5
<1>7. sum = CHOOSE f : Sum(f)
  BY DEF SumOf, FarFrom, PickOf, T
<1> HIDE DEF sum
<1>8. Sum(sum)
  <2> HIDE DEF Sum
  <2> QED BY <1>6, <1>7
<1>9. \A S \in SUBSET T : sum[S] = IF S = {} THEN 0 ELSE G(PickOf(S)) + sum[S \ {PickOf(S)}]
  <2> HIDE DEF G
  <2> QED BY <1>8
<1> QED BY <1>9 DEF sum, T

(* A target whose joints are each no farther is no farther.                *)
LEMMA NearerIsNearer ==
  ASSUME NEW target, NEW other, NEW now, DOMAIN target = DOMAIN other, IsFiniteSet(DOMAIN target),
         \A n \in DOMAIN target : /\ FarFrom(target, now, n) \in Int /\ FarFrom(other, now, n) \in Int
                                  /\ FarFrom(target, now, n) <= FarFrom(other, now, n)
  PROVE  Distance(target, now) \in Int /\ Distance(other, now) \in Int
         /\ Distance(target, now) <= Distance(other, now)
<1> DEFINE T == DOMAIN target
           t == SumOf(target, now)
           o == SumOf(other, now)
           Fine(S) == t[S] \in Int /\ o[S] \in Int /\ t[S] <= o[S]
           none == {n \in Nat : \E S \in SUBSET T : Cardinality(S) = n /\ ~ Fine(S)}
<1>1. \A S \in SUBSET T : IsFiniteSet(S) /\ Cardinality(S) \in Nat /\ (Cardinality(S) = 0 <=> S = {})
  BY FS_Subset, FS_CardinalityType, FS_EmptySet
<1>2. \A S \in SUBSET T : S # {} => /\ PickOf(S) \in T /\ S \ {PickOf(S)} \in SUBSET T
                                   /\ Cardinality(S \ {PickOf(S)}) = Cardinality(S) - 1
  BY <1>1, FS_RemoveElement DEF PickOf
<1>3. /\ t[{}] = 0 /\ o[{}] = 0
      /\ \A S \in SUBSET T : S # {} =>
           /\ t[S] = FarFrom(target, now, PickOf(S)) + t[S \ {PickOf(S)}]
           /\ o[S] = FarFrom(other, now, PickOf(S)) + o[S \ {PickOf(S)}]
  BY SumExists
<1>4. \A n \in T : /\ FarFrom(target, now, n) \in Int /\ FarFrom(other, now, n) \in Int
                   /\ FarFrom(target, now, n) <= FarFrom(other, now, n)
  OBVIOUS
<1>5. Distance(target, now) = t[T] /\ Distance(other, now) = o[T] /\ T \in SUBSET T
  BY DEF Distance
<1> HIDE DEF T, t, o
<1>6. ASSUME none # {} PROVE FALSE
  <2> DEFINE n == Least(none)
  <2>1. n \in none /\ \A m \in none : n <= m
    <3>1. none \in SUBSET Nat
      OBVIOUS
    <3> HIDE DEF none
    <3> QED BY <1>6, <3>1, LeastExists
  <2>2. PICK S \in SUBSET T : Cardinality(S) = n /\ ~ Fine(S)
    BY <2>1
  <2>3. ASSUME S = {} PROVE FALSE
    <3>1. t[S] = 0 /\ o[S] = 0
      BY <1>3, <2>3
    <3>2. Fine(S)
      BY <3>1
    <3> QED BY <2>2, <3>2
  <2> DEFINE p == PickOf(S)
             R == S \ {p}
             gt == FarFrom(target, now, p)
             go == FarFrom(other, now, p)
  <2>4. R \in SUBSET T /\ Cardinality(R) = n - 1 /\ Cardinality(R) \in Nat /\ n \in Nat
    BY <1>1, <1>2, <2>2, <2>3
  <2>5. n - 1 \notin none
    <3> HIDE DEF none, n
    <3> QED BY <2>1, <2>4
  <2>6. Fine(R)
    <3> HIDE DEF Fine, R, n
    <3> QED BY <2>4, <2>5
  <2>7. t[S] = gt + t[R] /\ o[S] = go + o[R]
    BY <1>3, <2>3
  <2>8. gt \in Int /\ go \in Int /\ gt <= go
    BY <1>2, <1>4, <2>3
  <2> HIDE DEF R, gt, go
  <2> QED BY <2>2, <2>6, <2>7, <2>8
<1>7. Fine(T)
  <2> HIDE DEF Fine
  <2> QED BY <1>1, <1>5, <1>6
<1> QED BY <1>5, <1>7

-----------------------------------------------------------------------------
(* What a candidate may differ in from home.                               *)
IsHomeButForTurns(home, turned, c) ==
  /\ c \in [DOMAIN home -> Int]
  /\ \A n \in DOMAIN home : /\ c[n] \in TurnsOf(home[n])
                            /\ (\A k \in DOMAIN turned : turned[k] # n) => c[n] = home[n]
TurnedJoints(home, now, turned) == {k \in DOMAIN turned : turned[k] \in DOMAIN now /\ turned[k] \in DOMAIN home}
AnglesOf(home, now, turned, k) == EquivalentAngles(home[turned[k]], now[turned[k]])
WithChoice(home, now, turned, target, choice) ==
  [n \in DOMAIN home |-> IF \E k \in DOMAIN choice : turned[k] = n
                         THEN LET j == CHOOSE k \in DOMAIN choice : turned[k] = n
                              IN  AnglesOf(home, now, turned, j)[choice[j]]
                         ELSE target[n]]
NearestOfHome(home, now, turned) ==
  WithChoice(home, now, turned, home, [k \in TurnedJoints(home, now, turned) |-> 1])

LEMMA ChoicesAreTurns ==
  ASSUME NEW home, NEW now, home \in [DOMAIN home -> Int], now \in [DOMAIN now -> Int],
         NEW turned, NEW target, IsHomeButForTurns(home, turned, target),
         NEW choice, DOMAIN choice \subseteq TurnedJoints(home, now, turned),
         \A k \in DOMAIN choice : choice[k] \in DOMAIN AnglesOf(home, now, turned, k)
  PROVE  IsHomeButForTurns(home, turned, WithChoice(home, now, turned, target, choice))
<1> DEFINE c == WithChoice(home, now, turned, target, choice)
           Chosen(n) == CHOOSE k \in DOMAIN choice : turned[k] = n
           Turned(k) == AnglesOf(home, now, turned, k)[choice[k]]
           Has(n) == \E k \in DOMAIN choice : turned[k] = n
<1>1. c = [n \in DOMAIN home |-> IF Has(n) THEN Turned(Chosen(n)) ELSE target[n]]
  BY DEF WithChoice
<1> HIDE DEF c
<1>2. ASSUME NEW n \in DOMAIN home, Has(n)
      PROVE  c[n] \in TurnsOf(home[n]) /\ \E k \in DOMAIN turned : turned[k] = n
  <2> DEFINE k == Chosen(n)
  <2>1. k \in DOMAIN choice /\ turned[k] = n
    BY <1>2
  <2> HIDE DEF k
  <2>2. k \in DOMAIN turned /\ turned[k] \in DOMAIN now /\ turned[k] \in DOMAIN home
    BY <2>1 DEF TurnedJoints
  <2>3. home[n] \in Int /\ now[n] \in Int
    BY <2>1, <2>2
  <2>4. EquivalentsAreNear(home[n], now[n], AnglesOf(home, now, turned, k))
    BY <2>1, <2>3, EquivalentAnglesAreNear DEF AnglesOf
  <2>5. Turned(k) \in TurnsOf(home[n])
    BY <2>1, <2>4 DEF EquivalentsAreNear
  <2>6. c[n] = Turned(k)
    <3> HIDE DEF Turned, Has
    <3> QED BY <1>1, <1>2 DEF k
  <2> QED BY <2>1, <2>2, <2>5, <2>6
<1>3. ASSUME NEW n \in DOMAIN home, ~ Has(n)
      PROVE  c[n] = target[n]
  <2> HIDE DEF Has, Turned, Chosen
  <2> QED BY <1>1, <1>3
<1>4. \A n \in DOMAIN home : /\ c[n] \in TurnsOf(home[n])
                             /\ (\A k \in DOMAIN turned : turned[k] # n) => c[n] = home[n]
  BY <1>2, <1>3 DEF IsHomeButForTurns
<1>5. \A n \in DOMAIN home : TurnsOf(home[n]) \subseteq Int
  BY HalfTurn DEF TurnsOf
<1>6. c \in [DOMAIN home -> Int]
  <2>1. c = [n \in DOMAIN home |-> c[n]]
    BY <1>1
  <2> QED BY <2>1, <1>4, <1>5
<1> QED BY <1>4, <1>6 DEF IsHomeButForTurns, c

(* _build_home_joint_target_candidates: every target that is tried for     *)
(* home is home but for whole turns of the joints that can turn.           *)
THEOREM CandidatesAreHome ==
  ASSUME NEW home, NEW now, home \in [DOMAIN home -> Int], now \in [DOMAIN now -> Int],
         NEW turned, NEW most, NEW c \in HomeCandidates(home, now, turned, most)
  PROVE  IsHomeButForTurns(home, turned, c)
<1> DEFINE joints == TurnedJoints(home, now, turned)
           Angles(k) == AnglesOf(home, now, turned, k)
           With(target, choice) == WithChoice(home, now, turned, target, choice)
           nearest == With(home, [k \in joints |-> 1])
           choices == {d \in [joints -> 1 .. 3] : \A k \in joints : d[k] \in DOMAIN Angles(k)}
<1>1. \/ c = nearest \/ c = home
      \/ \E k \in joints : \E a \in DOMAIN Angles(k) \ {1} : c = With(nearest, [j \in {k} |-> a])
      \/ \E d \in choices : c = With(home, d)
  <2> DEFINE single == UNION {{With(nearest, [j \in {k} |-> a]) : a \in DOMAIN Angles(k) \ {1}} : k \in joints}
             Before(e, d) == \E k \in joints : e[k] < d[k] /\ \A j \in joints : j < k => e[j] = d[j]
             first == {d \in choices : Cardinality({e \in choices : Before(e, d)}) < most}
             all == HomeCandidates(home, now, turned, most)
  <2>1. all = {nearest, home} \cup single \cup {With(home, d) : d \in first}
    BY DEF HomeCandidates, TurnedJoints, AnglesOf, WithChoice
  <2> HIDE DEF all, nearest, Angles, With, choices, joints, Before
  <2>2. c = nearest \/ c = home \/ c \in single \/ c \in {With(home, d) : d \in first}
    <3> HIDE DEF single, first
    <3> QED BY <2>1 DEF all
  <2> QED BY <2>2
<1>2. IsHomeButForTurns(home, turned, home)
  BY DEF IsHomeButForTurns, TurnsOf
<1>3. \A k \in joints : 1 \in DOMAIN Angles(k)
  <2> SUFFICES ASSUME NEW k \in joints PROVE 1 \in DOMAIN Angles(k)
    OBVIOUS
  <2>1. home[turned[k]] \in Int /\ now[turned[k]] \in Int
    BY DEF TurnedJoints
  <2> QED BY <2>1, EquivalentAnglesAreNear DEF EquivalentsAreNear, AnglesOf
<1> HIDE DEF joints, Angles
<1>4. IsHomeButForTurns(home, turned, nearest)
  <2> DEFINE ones == [k \in joints |-> 1]
  <2>1. DOMAIN ones = joints /\ \A k \in DOMAIN ones : ones[k] \in DOMAIN Angles(k)
    BY <1>3
  <2> HIDE DEF ones
  <2>2. IsHomeButForTurns(home, turned, With(home, ones))
    BY <1>2, <2>1, ChoicesAreTurns DEF joints, Angles
  <2> QED BY <2>2 DEF ones
<1> HIDE DEF nearest
<1>5. ASSUME NEW k \in joints, NEW a \in DOMAIN Angles(k) \ {1}
      PROVE  IsHomeButForTurns(home, turned, With(nearest, [j \in {k} |-> a]))
  <2> DEFINE only == [j \in {k} |-> a]
  <2>1. DOMAIN only \subseteq joints /\ \A j \in DOMAIN only : only[j] \in DOMAIN Angles(j)
    OBVIOUS
  <2> HIDE DEF only
  <2>2. IsHomeButForTurns(home, turned, With(nearest, only))
    BY <1>4, <2>1, ChoicesAreTurns DEF joints, Angles
  <2> QED BY <2>2 DEF only
<1>6. ASSUME NEW d \in choices
      PROVE  IsHomeButForTurns(home, turned, With(home, d))
  <2>1. DOMAIN d = joints /\ \A k \in DOMAIN d : d[k] \in DOMAIN Angles(k)
    OBVIOUS
  <2> QED BY <1>2, <2>1, ChoicesAreTurns DEF joints, Angles
<1> HIDE DEF choices, With
<1> QED BY <1>1, <1>2, <1>4, <1>5, <1>6

(* The target that is tried first is no farther from where the robot is    *)
(* than any other whose turned joints are within a turn of zero.           *)
THEOREM NearestHomeIsNear ==
  ASSUME NEW home, NEW now, home \in [DOMAIN home -> Int], now \in [DOMAIN now -> Int],
         IsFiniteSet(DOMAIN home), NEW turned,
         NEW other \in [DOMAIN home -> Int],
         \A n \in DOMAIN home : IF \E k \in DOMAIN turned : turned[k] = n
                                THEN other[n] \in WithinATurn(home[n]) ELSE other[n] = home[n]
  PROVE  /\ \A most : NearestOfHome(home, now, turned) \in HomeCandidates(home, now, turned, most)
         /\ Distance(NearestOfHome(home, now, turned), now) \in Int
         /\ Distance(other, now) \in Int
         /\ Distance(NearestOfHome(home, now, turned), now) <= Distance(other, now)
<1> DEFINE joints == TurnedJoints(home, now, turned)
           ones == [k \in joints |-> 1]
           near == NearestOfHome(home, now, turned)
           Chosen(n) == CHOOSE k \in DOMAIN ones : turned[k] = n
           Has(n) == \E k \in DOMAIN ones : turned[k] = n
           Turned(k) == AnglesOf(home, now, turned, k)[ones[k]]
<1>1. \A most : near \in HomeCandidates(home, now, turned, most)
  BY DEF HomeCandidates, NearestOfHome, TurnedJoints, AnglesOf, WithChoice
<1>2. near = [n \in DOMAIN home |-> IF Has(n) THEN Turned(Chosen(n)) ELSE home[n]]
  BY DEF NearestOfHome, WithChoice
<1> HIDE DEF near
<1>3. near \in [DOMAIN home -> Int]
  BY <1>1, CandidatesAreHome DEF near, IsHomeButForTurns
<1>4. ASSUME NEW n \in DOMAIN home, Has(n)
      PROVE  FarFrom(near, now, n) <= FarFrom(other, now, n)
  <2> DEFINE k == Chosen(n)
  <2>1. k \in joints /\ turned[k] = n /\ ones[k] = 1
    BY <1>4
  <2> HIDE DEF k
  <2>2. k \in DOMAIN turned /\ n \in DOMAIN now
    BY <2>1 DEF TurnedJoints
  <2>3. home[n] \in Int /\ now[n] \in Int
    BY <2>2
  <2>4. EquivalentsAreNear(home[n], now[n], AnglesOf(home, now, turned, k))
    BY <2>1, <2>3, EquivalentAnglesAreNear DEF AnglesOf
  <2>5. near[n] = AnglesOf(home, now, turned, k)[1]
    <3>1. near[n] = Turned(k)
      <4> HIDE DEF Turned, Has
      <4> QED BY <1>2, <1>4 DEF k
    <3>2. Turned(k) = AnglesOf(home, now, turned, k)[1]
      <4> HIDE DEF ones
      <4> QED BY <2>1
    <3> QED BY <3>1, <3>2
  <2>6. other[n] \in WithinATurn(home[n])
    BY <2>1, <2>2
  <2> QED BY <2>2, <2>4, <2>5, <2>6 DEF EquivalentsAreNear, FarFrom
<1>5. ASSUME NEW n \in DOMAIN home, ~ Has(n)
      PROVE  FarFrom(near, now, n) <= FarFrom(other, now, n)
  <2>1. near[n] = home[n]
    <3> HIDE DEF Has, Turned, Chosen
    <3> QED BY <1>2, <1>5
  <2>2. n \in DOMAIN now => other[n] = home[n]
    BY <1>5 DEF TurnedJoints
  <2>3. n \in DOMAIN now => FarFrom(near, now, n) = FarFrom(other, now, n) /\ FarFrom(near, now, n) \in Int
    BY <2>1, <2>2 DEF FarFrom, Abs
  <2>4. n \notin DOMAIN now => FarFrom(near, now, n) = 0 /\ FarFrom(other, now, n) = 0
    BY DEF FarFrom
  <2> QED BY <2>3, <2>4
<1>6. \A n \in DOMAIN home : FarFrom(near, now, n) \in Int /\ FarFrom(other, now, n) \in Int
  BY <1>3 DEF FarFrom, Abs
<1>7. DOMAIN near = DOMAIN home /\ DOMAIN other = DOMAIN home
  BY <1>3
<1> HIDE DEF Has
<1>8. \A n \in DOMAIN near : /\ FarFrom(near, now, n) \in Int /\ FarFrom(other, now, n) \in Int
                             /\ FarFrom(near, now, n) <= FarFrom(other, now, n)
  BY <1>4, <1>5, <1>6, <1>7
<1>9. /\ Distance(near, now) \in Int /\ Distance(other, now) \in Int
      /\ Distance(near, now) <= Distance(other, now)
  BY <1>7, <1>8, NearerIsNearer
<1> QED BY <1>1, <1>9 DEF near

-----------------------------------------------------------------------------
LEMMA NamesExist ==
  ASSUME NEW order, Len(order) \in Nat, NEW known
  PROVE  /\ KnownNames(order, known)[0] = <<>>
         /\ \A i \in 1 .. Len(order) :
              KnownNames(order, known)[i] =
                IF order[i] \in known THEN Append(KnownNames(order, known)[i - 1], order[i])
                ELSE KnownNames(order, known)[i - 1]
<1> DEFINE Up(list, i) == IF order[i] \in known THEN Append(list, order[i]) ELSE list
           Is(f, n) == f = [i \in 0 .. n |-> IF i = 0 THEN <<>> ELSE Up(f[i - 1], i)]
           none == {n \in Nat : ~ \E f : Is(f, n)}
<1>1. ASSUME none # {} PROVE FALSE
  <2> DEFINE n == Least(none)
  <2>1. n \in none /\ \A m \in none : n <= m
    <3>1. none \in SUBSET Nat
      OBVIOUS
    <3> HIDE DEF none
    <3> QED BY <1>1, <3>1, LeastExists
  <2>2. n \in Nat /\ ~ \E f : Is(f, n)
    BY <2>1
  <2> HIDE DEF n
  <2>3. CASE n = 0
    <3> DEFINE f == [i \in 0 .. 0 |-> <<>>]
               g == [i \in 0 .. 0 |-> IF i = 0 THEN <<>> ELSE Up(f[i - 1], i)]
    <3>1. f = g
      <4> HIDE DEF Up
      <4>1. \A i \in 0 .. 0 : i = 0
        OBVIOUS
      <4> QED BY <4>1
    <3>2. Is(f, 0)
      <4> HIDE DEF Up
      <4> QED BY <3>1
    <3> HIDE DEF Is
    <3> QED BY <2>2, <2>3, <3>2
  <2>4. CASE n # 0
    <3>1. n - 1 \in Nat /\ n - 1 \notin none
      <4> HIDE DEF none
      <4> QED BY <2>1, <2>2, <2>4
    <3>2. PICK h : Is(h, n - 1)
      BY <3>1
    <3> DEFINE f == [i \in 0 .. n |-> IF i < n THEN h[i] ELSE Up(h[n - 1], n)]
    <3> HIDE DEF Up, none
    <3>3. h[0] = <<>> /\ \A i \in 1 .. n - 1 : h[i] = Up(h[i - 1], i)
      <4>1. \A i \in 0 .. n - 1 : h[i] = IF i = 0 THEN <<>> ELSE Up(h[i - 1], i)
        BY <3>2
      <4>2. 0 \in 0 .. n - 1 /\ \A i \in 1 .. n - 1 : i \in 0 .. n - 1 /\ i # 0
        BY <3>1
      <4> HIDE DEF Is
      <4> QED BY <4>1, <4>2
    <3> HIDE DEF Is
    <3>4. /\ \A i \in 0 .. n - 1 : f[i] = h[i]
          /\ f[n] = Up(h[n - 1], n)
      BY <2>2, <3>1
    <3>5. f = [i \in 0 .. n |-> f[i]]
      OBVIOUS
    <3> HIDE DEF f
    <3>6. \A i \in 0 .. n : f[i] = IF i = 0 THEN <<>> ELSE Up(f[i - 1], i)
      <4> SUFFICES ASSUME NEW i \in 0 .. n
                   PROVE  f[i] = IF i = 0 THEN <<>> ELSE Up(f[i - 1], i)
        OBVIOUS
      <4>1. CASE i = 0
        <5>1. 0 \in 0 .. n - 1
          BY <3>1
        <5> QED BY <3>3, <3>4, <4>1, <5>1
      <4>2. CASE i \in 1 .. n - 1
        <5>1. i - 1 \in 0 .. n - 1 /\ i \in 0 .. n - 1 /\ i # 0
          BY <3>1, <4>2
        <5> QED BY <3>3, <3>4, <4>2, <5>1
      <4>3. CASE i = n
        <5>1. n - 1 \in 0 .. n - 1
          BY <3>1
        <5> QED BY <2>4, <3>4, <4>3, <5>1
      <4>4. i = 0 \/ i \in 1 .. n - 1 \/ i = n
        BY <2>2
      <4> QED BY <4>1, <4>2, <4>3, <4>4
    <3>7. Is(f, n)
      BY <3>5, <3>6 DEF Is
    <3> QED BY <2>2, <3>7
  <2> QED BY <2>3, <2>4
<1> DEFINE names == KnownNames(order, known)
           all == Len(order)
<1>2. \E f : Is(f, all)
  <2> HIDE DEF Is
  <2> QED BY <1>1
<1>3. names = CHOOSE f : Is(f, all)
  BY DEF KnownNames
<1> HIDE DEF names, Up
<1>4. Is(names, all)
  <2> HIDE DEF Is, all
  <2> QED BY <1>2, <1>3
<1>5. \A i \in 0 .. all : names[i] = IF i = 0 THEN <<>> ELSE Up(names[i - 1], i)
  BY <1>4
<1> HIDE DEF Is
<1>6. 0 \in 0 .. all /\ \A i \in 1 .. all : i \in 0 .. all /\ i # 0
  OBVIOUS
<1>7. names[0] = <<>> /\ \A i \in 1 .. all : names[i] = Up(names[i - 1], i)
  BY <1>5, <1>6
<1> QED BY <1>7 DEF names, Up

(* The names that are known, each once and no other.                       *)
AreKnown(list, order, known, i) ==
  /\ list \in Seq(known) /\ Distinct(list)
  /\ \A k \in DOMAIN list : \E j \in 1 .. i : list[k] = order[j]
  /\ \A j \in 1 .. i : order[j] \in known => \E k \in DOMAIN list : list[k] = order[j]

LEMMA KnownNamesAreKnown ==
  ASSUME NEW Joints, NEW order \in Seq(Joints), Distinct(order), NEW known
  PROVE  AreKnown(KnownNames(order, known)[Len(order)], order, known, Len(order))
<1> DEFINE names == KnownNames(order, known)
           all == Len(order)
           none == {i \in Nat : i <= all /\ ~ AreKnown(names[i], order, known, i)}
<1>1. all \in Nat /\ DOMAIN order = 1 .. all
  OBVIOUS
<1>2. /\ names[0] = <<>>
      /\ \A i \in 1 .. all : names[i] = IF order[i] \in known THEN Append(names[i - 1], order[i]) ELSE names[i - 1]
  BY <1>1, NamesExist
<1> HIDE DEF names
<1>3. ASSUME none # {} PROVE FALSE
  <2> DEFINE n == Least(none)
  <2>1. n \in none /\ \A m \in none : n <= m
    <3>1. none \in SUBSET Nat
      OBVIOUS
    <3> HIDE DEF none
    <3> QED BY <1>3, <3>1, LeastExists
  <2>2. n \in Nat /\ n <= all /\ ~ AreKnown(names[n], order, known, n)
    BY <2>1
  <2> HIDE DEF n, all
  <2>3. ASSUME n = 0 PROVE FALSE
    <3> DEFINE list == <<>>
    <3>1. list \in Seq(known) /\ DOMAIN list = {} /\ 1 .. 0 = {}
      OBVIOUS
    <3>2. AreKnown(list, order, known, 0)
      <4> HIDE DEF list
      <4> QED BY <3>1 DEF AreKnown, Distinct
    <3> QED BY <1>2, <2>2, <2>3, <3>2
  <2>4. n - 1 \in Nat /\ n \in 1 .. all /\ n - 1 <= all /\ n - 1 \notin none
    <3> HIDE DEF none
    <3> QED BY <1>1, <2>1, <2>2, <2>3
  <2> DEFINE before == names[n - 1]
             name == order[n]
  <2>5. AreKnown(before, order, known, n - 1)
    BY <2>4
  <2>6. 1 .. n = (1 .. (n - 1)) \cup {n}
    BY <2>4
  <2>7. CASE name \in known
    <3> DEFINE list == Append(before, name)
               m == Len(before)
    <3>1. names[n] = list
      BY <1>2, <2>4, <2>7
    <3>2. before \in Seq(known) /\ m \in Nat /\ DOMAIN before = 1 .. m
      BY <2>5 DEF AreKnown
    <3>3. /\ list \in Seq(known) /\ DOMAIN list = (1 .. m) \cup {m + 1} /\ list[m + 1] = name
          /\ \A k \in 1 .. m : list[k] = before[k]
      BY <2>7, <3>2
    <3>4. \A k \in 1 .. m : before[k] # name
      <4>1. \A k \in 1 .. m : \E j \in 1 .. (n - 1) : before[k] = order[j]
        BY <2>5, <3>2 DEF AreKnown
      <4>2. \A j \in 1 .. (n - 1) : order[j] # order[n]
        BY <1>1, <2>4 DEF Distinct
      <4> QED BY <4>1, <4>2
    <3> HIDE DEF list, before, name, m
    <3>5. Distinct(list)
      <4>1. DOMAIN list \subseteq Nat
        BY <3>2, <3>3
      <4>2. \A i, j \in 1 .. m : before[i] = before[j] => i = j
        BY <2>5, <3>2 DEF AreKnown, Distinct
      <4>3. \A i, j \in DOMAIN list : list[i] = list[j] => i = j
        BY <3>3, <3>4, <4>2
      <4> QED BY <4>1, <4>3 DEF Distinct
    <3>6. \A k \in DOMAIN list : \E j \in 1 .. n : list[k] = order[j]
      <4>1. \A k \in 1 .. m : \E j \in 1 .. n : list[k] = order[j]
        BY <2>5, <2>6, <3>2, <3>3 DEF AreKnown
      <4>2. list[m + 1] = order[n] /\ n \in 1 .. n
        BY <3>3, <2>4 DEF name
      <4> QED BY <3>3, <4>1, <4>2
    <3>7. \A j \in 1 .. n : order[j] \in known => \E k \in DOMAIN list : list[k] = order[j]
      <4>1. \A j \in 1 .. (n - 1) : order[j] \in known => \E k \in 1 .. m : list[k] = order[j]
        BY <2>5, <3>2, <3>3 DEF AreKnown
      <4>2. list[m + 1] = order[n]
        BY <3>3 DEF name
      <4> QED BY <2>6, <3>3, <4>1, <4>2
    <3> QED BY <2>2, <3>1, <3>3, <3>5, <3>6, <3>7 DEF AreKnown
  <2>8. CASE name \notin known
    <3>1. names[n] = before
      BY <1>2, <2>4, <2>8
    <3> HIDE DEF before
    <3>2. /\ before \in Seq(known) /\ Distinct(before)
          /\ \A k \in DOMAIN before : \E j \in 1 .. n : before[k] = order[j]
      BY <2>5, <2>6 DEF AreKnown
    <3>3. \A j \in 1 .. n : order[j] \in known => \E k \in DOMAIN before : before[k] = order[j]
      BY <2>5, <2>6, <2>8 DEF AreKnown
    <3> QED BY <2>2, <3>1, <3>2, <3>3 DEF AreKnown
  <2> QED BY <2>7, <2>8
<1>4. all \notin none
  <2> HIDE DEF none
  <2> QED BY <1>3
<1> QED BY <1>1, <1>4 DEF names

(* A goal that starts where the joints of a group are that are known.      *)
TellsWhere(goal, current, order, wanted) ==
  LET start == ByName(goal.start.names, goal.start.values)
  IN  /\ \A n : n \in DOMAIN start <=> n \in DOMAIN current /\ \E i \in DOMAIN order : order[i] = n
      /\ \A n \in DOMAIN start : start[n] = current[n]
      /\ \A i \in DOMAIN order : goal.constraints[i] = wanted[order[i]]

(* build_joint_goal: MoveIt is told where every joint is that is known, by *)
(* name, and is given a constraint for every joint of its group.           *)
THEOREM GoalsStartWhereTheRobotIs ==
  ASSUME NEW Joints, NEW order \in Seq(Joints), Distinct(order),
         NEW goals, NEW current, NEW periodic, NEW normalize
  PROVE  TellsWhere(JointGoal(goals, current, periodic, order, normalize), current, order,
                    IF normalize THEN NormalizeTargets(goals, current, periodic) ELSE goals)
<1> DEFINE goal == JointGoal(goals, current, periodic, order, normalize)
           known == DOMAIN current
           names == KnownNames(order, known)[Len(order)]
           values == InOrder(current, names)
           wanted == IF normalize THEN NormalizeTargets(goals, current, periodic) ELSE goals
           start == ByName(names, values)
<1>1. goal.start.names = names /\ goal.start.values = values /\ goal.constraints = InOrder(wanted, order)
  BY DEF JointGoal, State
<1>2. AreKnown(names, order, known, Len(order)) /\ DOMAIN order = 1 .. Len(order)
  BY KnownNamesAreKnown
<1> HIDE DEF goal, names
<1>3. DOMAIN values = DOMAIN names /\ \A k \in DOMAIN names : values[k] = current[names[k]]
  BY DEF InOrder
<1> HIDE DEF values
<1>4. Zipped(names, values) = DOMAIN names
  BY <1>3 DEF Zipped
<1>5. DOMAIN start = {names[i] : i \in DOMAIN names}
  BY <1>4 DEF ByName
<1>6. \A k \in DOMAIN names : start[names[k]] = current[names[k]]
  BY <1>2, <1>3, <1>4, ByNameTells DEF AreKnown
<1> HIDE DEF start
<1>7. \A k \in DOMAIN names : names[k] \in known
  BY <1>2 DEF AreKnown
<1>8. \A n : n \in DOMAIN start <=> n \in known /\ \E i \in DOMAIN order : order[i] = n
  <2> DEFINE all == DOMAIN order
             listed == DOMAIN names
  <2>1. /\ \A k \in listed : \E j \in all : names[k] = order[j]
        /\ \A j \in all : order[j] \in known => \E k \in listed : names[k] = order[j]
    BY <1>2 DEF AreKnown
  <2>2. \A n : n \in DOMAIN start <=> \E k \in listed : names[k] = n
    BY <1>5
  <2> HIDE DEF all, listed, known
  <2>3. ASSUME NEW n, n \in DOMAIN start
        PROVE  n \in known /\ \E i \in all : order[i] = n
    BY <1>7, <2>1, <2>2, <2>3 DEF listed
  <2>4. ASSUME NEW n, n \in known, NEW i \in all, order[i] = n
        PROVE  n \in DOMAIN start
    BY <2>1, <2>2, <2>4
  <2> QED BY <2>3, <2>4 DEF all
<1>9. \A n \in DOMAIN start : start[n] = current[n]
  BY <1>5, <1>6
<1>10. \A i \in DOMAIN order : goal.constraints[i] = wanted[order[i]]
  BY <1>1 DEF InOrder
<1> HIDE DEF known, wanted
<1>11. TellsWhere(goal, current, order, wanted)
  BY <1>1, <1>8, <1>9, <1>10 DEF TellsWhere, start, known
<1> QED BY <1>11 DEF goal, wanted

-----------------------------------------------------------------------------
(* A command has a row for every step it is made of, and velocities for    *)
(* every row.                                                              *)
HasRows(command, order) ==
  /\ \E m \in Nat \ {0} : DOMAIN command.rows = 1 .. m
  /\ DOMAIN command.velocities = DOMAIN command.rows
  /\ \A r \in DOMAIN command.rows : DOMAIN command.rows[r] = DOMAIN order

LEMMA ExtractedHasRows ==
  ASSUME NEW Values, NEW state, state.rows \in Seq(Values),
         NEW order, NEW most \in Nat \ {0}, NEW command \in ExtractWaypoints(state, order, most)
  PROVE  HasRows(command, order)
<1> DEFINE column == ByName(state.names, [i \in DOMAIN state.names |-> i])
           m    == IF Len(state.rows) < most THEN Len(state.rows) ELSE most
           rows == SubSeq(state.rows, 1, m)
           Pick(row) == [i \in DOMAIN order |-> row[column[order[i]]]]
           given == {r \in DOMAIN rows : r \in DOMAIN state.velocities}
           picked == [r \in DOMAIN rows |-> Pick(rows[r])]
           speeds == [r \in DOMAIN rows |-> IF r \in given THEN Pick(state.velocities[r]) ELSE Zeros(order)]
<1>1. command = [rows |-> picked, velocities |-> speeds] /\ state.rows # <<>>
  BY DEF ExtractWaypoints
<1>2. m \in Nat \ {0} /\ m <= Len(state.rows)
  BY <1>1
<1>3. DOMAIN rows = 1 .. m
  <2> HIDE DEF m
  <2> QED BY <1>2
<1>4. DOMAIN picked = 1 .. m /\ DOMAIN speeds = 1 .. m
  <2> HIDE DEF m, rows
  <2> QED BY <1>3
<1>5. \A r \in DOMAIN picked : DOMAIN picked[r] = DOMAIN order
  <2> HIDE DEF m, rows, column
  <2> QED OBVIOUS
<1> HIDE DEF m, picked, speeds
<1>6. command.rows = picked /\ command.velocities = speeds
  BY <1>1
<1> QED BY <1>2, <1>4, <1>5, <1>6 DEF HasRows

LEMMA FirstHasRows ==
  ASSUME NEW Joints, NEW Values, NotFinite \notin Int, NEW candidates,
         \A k \in DOMAIN candidates : Solutions(candidates[k], Joints, Values),
         NEW order, NEW most \in Nat \ {0}, NEW goal,
         NEW command \in FirstValidCommand(candidates, order, most, goal)
  PROVE  /\ HasRows(command, order)
         /\ AreFinite(command.rows) /\ AreFinite(command.velocities)
<1>1. PICK k \in DOMAIN candidates : command \in Usable(candidates[k], order, most)
  BY FirstIsUsable
<1>2. Solutions(candidates[k], Joints, Values)
  OBVIOUS
<1>3. AreFinite(command.rows) /\ AreFinite(command.velocities)
  BY <1>1, <1>2, UsableIsExtracted
<1>4. PICK c \in UNION {ExtractWaypoints(state, order, most) : state \in candidates[k]} :
        command = IF AreFinite(c.velocities) THEN c
                  ELSE [c EXCEPT !.velocities = [r \in DOMAIN c.rows |-> Zeros(order)]]
  BY <1>1 DEF Usable
<1>5. PICK state \in candidates[k] : c \in ExtractWaypoints(state, order, most)
  OBVIOUS
<1>6. Solution(state, Joints, Values)
  BY <1>2 DEF Solutions
<1>7. HasRows(c, order)
  BY <1>5, <1>6, ExtractedHasRows DEF Solution
<1>8. c = [rows |-> c.rows, velocities |-> c.velocities]
  BY <1>5, <1>6, ExtractedKeepsJoints
<1>9. command.rows = c.rows /\ DOMAIN command.velocities = DOMAIN c.rows
  <2>1. CASE AreFinite(c.velocities)
    BY <1>4, <1>7, <2>1 DEF HasRows
  <2>2. CASE ~ AreFinite(c.velocities)
    <3> DEFINE still == [r \in DOMAIN c.rows |-> Zeros(order)]
    <3>1. command = [c EXCEPT !.velocities = still]
      BY <1>4, <2>2
    <3>2. DOMAIN still = DOMAIN c.rows
      OBVIOUS
    <3> HIDE DEF still
    <3>3. command = [rows |-> c.rows, velocities |-> still]
      BY <1>8, <3>1
    <3> QED BY <3>2, <3>3
  <2> QED BY <2>1, <2>2
<1> QED BY <1>3, <1>7, <1>9 DEF HasRows

(* Points in the order of time, finite, of which the last is at rest.      *)
EndsAtRest(points, order) ==
  LET last == Highest(DOMAIN points)
  IN  /\ last \in Nat \ {0} /\ DOMAIN points = 1 .. last
      /\ points[last].velocities = Zeros(order)
      /\ \A r, q \in DOMAIN points : r < q => points[r].at < points[q].at
      /\ \A r \in DOMAIN points : AreFinite(<<points[r].values, points[r].velocities>>)

(* build_joint_trajectory: what is streamed to a controller is finite, in  *)
(* the order of time, and ends at rest, whatever MPC has solved.           *)
THEOREM TrajectoriesEndAtRest ==
  ASSUME NEW Joints, NEW Values, NotFinite \notin Int, NEW candidates,
         \A k \in DOMAIN candidates : Solutions(candidates[k], Joints, Values),
         NEW order, NEW most \in Nat \ {0}, NEW goal, NEW dt \in Int,
         NEW command \in FirstValidCommand(candidates, order, most, goal)
  PROVE  EndsAtRest(JointTrajectory(order, command, dt).points, order)
<1> DEFINE points == JointTrajectory(order, command, dt).points
           step == IF dt < 1 THEN 1 ELSE dt
           Speed(r) == IF r = Len(command.rows) THEN Zeros(command.rows[r]) ELSE command.velocities[r]
<1>1. HasRows(command, order) /\ AreFinite(command.rows) /\ AreFinite(command.velocities)
  BY FirstHasRows
<1>2. PICK m \in Nat \ {0} : DOMAIN command.rows = 1 .. m
  BY <1>1 DEF HasRows
<1>3. Len(command.rows) = m
  BY <1>2
<1>4. points = [r \in 1 .. m |-> [values |-> command.rows[r], at |-> r * step, velocities |-> Speed(r)]]
  BY <1>2 DEF JointTrajectory
<1>5. step \in Nat \ {0}
  OBVIOUS
<1> HIDE DEF points, step, Speed
<1>6. /\ DOMAIN points = 1 .. m
      /\ \A r \in 1 .. m : /\ points[r].values = command.rows[r] /\ points[r].at = r * step
                           /\ points[r].velocities = Speed(r)
  BY <1>4
<1>7. Highest(DOMAIN points) = m /\ m \in DOMAIN points
  <2>1. m \in 1 .. m /\ \A k \in 1 .. m : k <= m
    OBVIOUS
  <2> QED BY <1>6, <2>1 DEF Highest
<1>8. points[m].velocities = Zeros(order)
  <2>1. Speed(m) = Zeros(command.rows[m]) /\ DOMAIN command.rows[m] = DOMAIN order
    BY <1>1, <1>2, <1>3 DEF Speed, HasRows
  <2> QED BY <1>6, <1>7, <2>1 DEF Zeros
<1>9. ASSUME NEW r \in 1 .. m, NEW q \in 1 .. m, r < q
      PROVE  points[r].at < points[q].at
  <2>1. r * step < q * step
    BY <1>5, <1>9, SMTT(20)
  <2> QED BY <1>6, <2>1
<1>10. ASSUME NEW r \in 1 .. m
       PROVE  AreFinite(<<points[r].values, points[r].velocities>>)
  <2>1. \A i \in DOMAIN command.rows[r] : command.rows[r][i] # NotFinite
    BY <1>1, <1>2 DEF AreFinite
  <2>2. \A i \in DOMAIN command.velocities[r] : command.velocities[r][i] # NotFinite
    BY <1>1, <1>2 DEF AreFinite, HasRows
  <2>3. \A i \in DOMAIN Speed(r) : Speed(r)[i] # NotFinite
    BY <2>2 DEF Speed, Zeros
  <2> DEFINE v == points[r].values
             s == points[r].velocities
  <2>4. /\ \A i \in DOMAIN v : v[i] # NotFinite
        /\ \A i \in DOMAIN s : s[i] # NotFinite
    BY <1>6, <2>1, <2>3
  <2> HIDE DEF v, s
  <2>5. AreFinite(<<v, s>>)
    BY <2>4 DEF AreFinite
  <2> QED BY <2>5 DEF v, s
<1>11. EndsAtRest(points, order)
  BY <1>6, <1>7, <1>8, <1>9, <1>10 DEF EndsAtRest
<1> QED BY <1>11 DEF points

-----------------------------------------------------------------------------
(* The joints and values of the runs.                                      *)
Arm == {"lift", "elbow", "wrist"}
Parts == {"gripper", "lift", "elbow", "wrist"}
Numbers == Int \cup {NotFinite}

LEMMA AngleIs ==
  /\ DOMAIN Angle = Parts /\ Angle \in [Parts -> Int]
  /\ Wanted \in Seq(Arm) /\ Wanted \in Seq(Parts) /\ Len(Wanted) = 3 /\ DOMAIN Wanted = 1 .. 3
  /\ Wanted[1] = "lift" /\ Wanted[2] = "elbow" /\ Wanted[3] = "wrist"
  /\ Distinct(Wanted) /\ Wanted # <<>> /\ \A i \in 1 .. 3 : Wanted[i] \in Parts
BY DEF Angle, Wanted, Parts, Arm, Distinct

LEMMA ReportsAre ==
  ASSUME NEW report \in Reports
  PROVE  /\ report.names \in Seq(Parts) /\ report.names # <<>> /\ Distinct(report.names)
         /\ report.values \in Seq(Int) /\ report.values # <<>>
         /\ DOMAIN report.values = DOMAIN report.names /\ Len(report.values) = Len(report.names)
         /\ \A i \in DOMAIN report.names : report.values[i] = Angle[report.names[i]]
<1> DEFINE Lists == [1 .. 3 -> Parts] \cup [1 .. 4 -> Parts]
           names == report.names
           values == [i \in DOMAIN names |-> Angle[names[i]]]
<1>1. /\ names \in Lists /\ \A i, j \in DOMAIN names : names[i] = names[j] => i = j
      /\ report.values = values
  <2>1. DOMAIN Angle = Parts
    BY AngleIs
  <2> QED BY <2>1 DEF Reports
<1>2. names \in Seq(Parts) /\ names # <<>> /\ DOMAIN names \subseteq Nat
  BY <1>1
<1> HIDE DEF names
<1>3. values \in Seq(Int) /\ values # <<>> /\ DOMAIN values = DOMAIN names /\ Len(values) = Len(names)
  BY <1>1, <1>2, AngleIs
<1> QED BY <1>1, <1>2, <1>3 DEF Distinct, names

LEMMA ReadingsAreInOrder == ReadingsAreOrdered
<1> SUFFICES ASSUME NEW report \in Reports
             PROVE  /\ \A state \in LiveJointState({report}, Wanted) : state.names = Wanted /\ Tells(state)
                    /\ \A state \in OrderedDict(report, Wanted) : Tells(state)
                    /\ OrderedDict(report, <<>>) # {}
                    /\ LiveJointState({report}, Wanted) # {} =>
                         ReorderPositions(report.names, report.values, Wanted) = [i \in 1 .. 3 |-> Angle[Wanted[i]]]
  BY DEF ReadingsAreOrdered
<1> DEFINE names == report.names
           values == report.values
           byName == ByName(names, values)
<1>1. /\ names \in Seq(Parts) /\ names # <<>> /\ Distinct(names)
      /\ values \in Seq(Int) /\ values # <<>>
      /\ DOMAIN values = DOMAIN names /\ Len(values) = Len(names)
      /\ \A i \in DOMAIN names : values[i] = Angle[names[i]]
  BY ReportsAre
<1>2. \A state : Repeats(state, report) => Tells(state)
  BY <1>1 DEF Repeats, Tells
<1>3. /\ \A state \in LiveJointState({report}, Wanted) : Repeats(state, report) /\ state.names = Wanted
      /\ \A state \in OrderedDict(report, Wanted) : Repeats(state, report)
  BY <1>1, ReadingsKeepTheirJoints
<1>4. OrderedDict(report, <<>>) # {}
  BY <1>1 DEF OrderedDict
<1>5. ASSUME LiveJointState({report}, Wanted) # {}
      PROVE  ReorderPositions(names, values, Wanted) = [i \in 1 .. 3 |-> Angle[Wanted[i]]]
  <2>1. ~ Lacks(byName, Wanted)
    BY <1>5 DEF LiveJointState
  <2>2. Wanted # <<>>
    BY AngleIs
  <2>3. ReorderPositions(names, values, Wanted) = InOrder(byName, Wanted)
    BY <1>1, <2>1, <2>2 DEF ReorderPositions
  <2>4. InOrder(byName, Wanted) = [i \in 1 .. 3 |-> InOrder(byName, Wanted)[i]]
    BY AngleIs DEF InOrder
  <2>5. ASSUME NEW i \in 1 .. 3
        PROVE  InOrder(byName, Wanted)[i] = Angle[Wanted[i]]
    <3>1. i \in DOMAIN Wanted
      BY AngleIs
    <3>2. PICK k \in Zipped(names, values) : names[k] = Wanted[i] /\ InOrder(byName, Wanted)[i] = values[k]
      BY <1>1, <2>1, <3>1, InOrderTells
    <3>3. k \in DOMAIN names
      BY DEF Zipped
    <3> QED BY <1>1, <3>2, <3>3
  <2> QED BY <2>3, <2>4, <2>5
<1> QED BY <1>2, <1>3, <1>4, <1>5

LEMMA CandidatesAre ==
  ASSUME NEW state \in Candidates
  PROVE  /\ Solution(state, Parts, Numbers)
         /\ Len(state.rows) = 2
         /\ \A k \in DOMAIN state.names :
              Angle[state.names[k]] \in Int /\ state.rows[1][k] \in Int /\ Angle[state.names[k]] <= state.rows[1][k]
<1>1. PICK names \in {Wanted, <<"wrist", "lift", "elbow">>, <<"elbow", "wrist", "gripper">>},
           shift \in {0, 2}, last \in {0, NotFinite}, speed \in {<<1, 1, 1>>, <<1, NotFinite, 1>>} :
        state = [names |-> names, rows |-> <<[i \in 1 .. 3 |-> shift + Angle[names[i]]], <<0, 0, last>>>>,
                 velocities |-> <<speed>>]
  BY DEF Candidates
<1> DEFINE first == [i \in 1 .. 3 |-> shift + Angle[names[i]]]
           second == <<0, 0, last>>
<1>2. /\ names \in Seq(Parts) /\ DOMAIN names = 1 .. 3 /\ Distinct(names)
      /\ \A i \in 1 .. 3 : names[i] \in Parts
  <2>1. CASE names = Wanted
    BY <2>1, AngleIs
  <2>2. CASE names = <<"wrist", "lift", "elbow">>
    BY <2>2 DEF Parts, Distinct
  <2>3. CASE names = <<"elbow", "wrist", "gripper">>
    BY <2>3 DEF Parts, Distinct
  <2> QED BY <2>1, <2>2, <2>3
<1>3. /\ \A i \in 1 .. 3 : first[i] \in Int /\ Angle[names[i]] \in Int /\ Angle[names[i]] <= first[i]
  BY <1>2, AngleIs
<1>4. first \in Seq(Numbers)
  <2>1. \A i \in 1 .. 3 : first[i] \in Numbers
    BY <1>3 DEF Numbers
  <2> HIDE DEF Numbers
  <2>2. first \in [1 .. 3 -> Numbers]
    BY <2>1
  <2> QED BY <2>2
<1>5. second \in Seq(Numbers)
  BY DEF Numbers
<1>6. speed \in Seq(Numbers)
  <2>1. <<1, 1, 1>> \in Seq(Numbers)
    BY DEF Numbers
  <2>2. <<1, NotFinite, 1>> \in Seq(Numbers)
    <3>1. 1 \in Numbers /\ NotFinite \in Numbers
      BY DEF Numbers
    <3> HIDE DEF Numbers
    <3> QED BY <3>1
  <2> HIDE DEF Numbers
  <2> QED BY <2>1, <2>2
<1> HIDE DEF first, second
<1>7. state.names = names /\ state.rows = <<first, second>> /\ state.velocities = <<speed>>
  BY <1>1 DEF first, second
<1>8. /\ <<first, second>> \in Seq(Seq(Numbers)) /\ <<speed>> \in Seq(Seq(Numbers))
      /\ Len(<<first, second>>) = 2 /\ <<first, second>>[1] = first
  BY <1>4, <1>5, <1>6
<1> QED BY <1>2, <1>3, <1>7, <1>8 DEF Solution

LEMMA NowIs ==
  /\ Distinct(Now.names) /\ Now.values \in Seq(Int) /\ DOMAIN Now.names = 1 .. 3
  /\ \A l \in DOMAIN Now.names : Now.values[l] = Angle[Now.names[l]]
BY DEF Now, Distinct, Angle

(* What holds of a command for the joints of the runs.                     *)
CommandIsOrdered(command, raw, solved) ==
  LET scaled == ScaleStreamCommand(Now, command, Wanted, raw)
  IN  /\ PublishStream(Wanted, scaled.rows[1], Wanted) = {scaled.rows[1]}
      /\ \A r \in DOMAIN command.rows : AreFinite(<<command.rows[r], command.velocities[r]>>)
      /\ LET points == JointTrajectory(Wanted, command, 0).points
             last == Highest(DOMAIN points)
         IN  /\ points[last].velocities = <<0, 0, 0>>
             /\ \A r, q \in DOMAIN points : r < q => points[r].at < points[q].at
      /\ \E solution \in solved : \A i \in 1 .. 3 : \E k \in 1 .. 3 :
           /\ solution.names[k] = Wanted[i]
           /\ scaled.rows[1][i] \in Angle[Wanted[i]] .. solution.rows[1][k]

LEMMA CommandIsInOrder ==
  ASSUME NEW candidates, NEW solved, solved \subseteq Candidates,
         \A k \in DOMAIN candidates : candidates[k] \subseteq solved,
         NEW goal, NEW most \in Nat \ {0}, NEW raw \in Int,
         NEW command \in FirstValidCommand(candidates, Wanted, most, goal)
  PROVE  CommandIsOrdered(command, raw, solved)
<1> DEFINE streamed == ScaleStreamCommand(Now, command, Wanted, raw).rows[1]
           points == JointTrajectory(Wanted, command, 0).points
<1>3. \A k \in DOMAIN candidates : Solutions(candidates[k], Parts, Numbers)
  BY CandidatesAre DEF Solutions
<1>4. NotFinite \notin Int /\ most \in Nat /\ 0 \in Int
  BY FiniteAssumption
<1>6. HasRows(command, Wanted) /\ AreFinite(command.rows) /\ AreFinite(command.velocities)
  BY <1>3, <1>4, FirstHasRows
<1>7. 1 \in DOMAIN command.rows
  BY <1>6 DEF HasRows
<1>8. /\ points[Highest(DOMAIN points)].velocities = Zeros(Wanted)
      /\ \A r, q \in DOMAIN points : r < q => points[r].at < points[q].at
  <2>1. EndsAtRest(points, Wanted)
    BY <1>3, <1>4, TrajectoriesEndAtRest
  <2> HIDE DEF points
  <2> QED BY <2>1 DEF EndsAtRest
<1>9. Zeros(Wanted) = <<0, 0, 0>>
  BY AngleIs DEF Zeros
<1>10. ASSUME NEW r \in DOMAIN command.rows
       PROVE  AreFinite(<<command.rows[r], command.velocities[r]>>)
  <2> DEFINE v == command.rows[r]
             s == command.velocities[r]
  <2>1. /\ \A i \in DOMAIN v : v[i] # NotFinite
        /\ \A i \in DOMAIN s : s[i] # NotFinite
    BY <1>6 DEF AreFinite, HasRows
  <2> HIDE DEF v, s
  <2>2. AreFinite(<<v, s>>)
    BY <2>1 DEF AreFinite
  <2> QED BY <2>2 DEF v, s
<1>11. /\ PublishStream(Wanted, streamed, Wanted) = {streamed} /\ streamed \in [DOMAIN Wanted -> Int]
       /\ \E k \in DOMAIN candidates : \E solution \in candidates[k] : \A i \in DOMAIN Wanted :
            \E j \in DOMAIN solution.names :
              /\ solution.names[j] = Wanted[i]
              /\ \/ streamed[i] = solution.rows[1][j]
                 \/ \E l \in DOMAIN Now.names :
                      /\ Now.names[l] = Wanted[i]
                      /\ Between(streamed[i], Now.values[l], solution.rows[1][j])
  <2>1. Wanted \in Seq(Parts) /\ most \in Nat
    BY AngleIs, <1>4
  <2>2. /\ Distinct(Now.names) /\ Now.values \in Seq(Int)
    BY NowIs
  <2>3. \A k \in DOMAIN candidates : Solutions(candidates[k], Parts, Int \cup {NotFinite})
    BY <1>3 DEF Numbers
  <2>4. IsWanted(streamed, candidates, Now, Wanted, 1)
    BY <1>4, <1>7, <2>1, <2>2, <2>3, CommandsKeepTheirJoints
  <2> HIDE DEF streamed
  <2> QED BY <2>4 DEF IsWanted
<1> HIDE DEF streamed, points
<1>12. PICK solution \in solved : \A i \in 1 .. 3 : \E j \in DOMAIN solution.names :
         /\ solution.names[j] = Wanted[i]
         /\ \/ streamed[i] = solution.rows[1][j]
            \/ \E l \in DOMAIN Now.names :
                 Now.names[l] = Wanted[i] /\ Between(streamed[i], Now.values[l], solution.rows[1][j])
  BY <1>11, AngleIs
<1>13. solution \in Candidates
  OBVIOUS
<1>14. DOMAIN solution.names = 1 .. 3
  BY <1>13, AngleIs DEF Candidates, Wanted
<1>15. ASSUME NEW i \in 1 .. 3
       PROVE  \E k \in 1 .. 3 : /\ solution.names[k] = Wanted[i]
                                /\ streamed[i] \in Angle[Wanted[i]] .. solution.rows[1][k]
  <2>1. PICK k \in 1 .. 3 :
          /\ solution.names[k] = Wanted[i]
          /\ \/ streamed[i] = solution.rows[1][k]
             \/ \E l \in DOMAIN Now.names :
                  Now.names[l] = Wanted[i] /\ Between(streamed[i], Now.values[l], solution.rows[1][k])
    BY <1>12, <1>14
  <2> DEFINE from == Angle[Wanted[i]]
             to == solution.rows[1][k]
             v == streamed[i]
  <2>2. from \in Int /\ to \in Int /\ from <= to
    BY <1>13, <1>14, <2>1, CandidatesAre
  <2>3. v = to \/ Between(v, from, to)
    BY <2>1, NowIs
  <2>4. v \in Int
    BY <1>11, AngleIs
  <2> HIDE DEF from, to, v
  <2>5. v \in from .. to
    BY <2>2, <2>3, <2>4 DEF Between
  <2> QED BY <2>1, <2>5 DEF from, to, v
<1>16. \E s \in solved : \A i \in 1 .. 3 : \E k \in 1 .. 3 :
         s.names[k] = Wanted[i] /\ streamed[i] \in Angle[Wanted[i]] .. s.rows[1][k]
  BY <1>15
<1> QED BY <1>8, <1>9, <1>10, <1>11, <1>16 DEF CommandIsOrdered, streamed, points

LEMMA CommandsAreInOrder == CommandsAreOrdered
<1>1. ASSUME NEW first \in Candidates, NEW second \in {{}} \cup {{s} : s \in Candidates},
             NEW goal \in {<<>>, <<3, 6, -1>>}, NEW most \in 1 .. 2, NEW raw \in {-1, 50, 100},
             NEW command \in FirstValidCommand(<<{first}, second>>, Wanted, most, goal)
      PROVE  CommandIsOrdered(command, raw, {first} \cup second)
  <2> DEFINE candidates == <<{first}, second>>
             solved == {first} \cup second
  <2>1. solved \subseteq Candidates
    OBVIOUS
  <2>2. \A k \in DOMAIN candidates : candidates[k] \subseteq solved
    OBVIOUS
  <2>3. most \in Nat \ {0} /\ raw \in Int
    OBVIOUS
  <2> HIDE DEF candidates, solved
  <2>4. command \in FirstValidCommand(candidates, Wanted, most, goal)
    BY DEF candidates
  <2>5. CommandIsOrdered(command, raw, solved)
    BY <2>1, <2>2, <2>3, <2>4, CommandIsInOrder
  <2> QED BY <2>5 DEF solved
<1> QED BY <1>1 DEF CommandsAreOrdered, CommandIsOrdered

-----------------------------------------------------------------------------
LEMMA TurnsAreNoError ==
  ASSUME NEW goal \in Int, NEW angle, angle \in Int, WholeTurns(angle, goal)
  PROVE  WrappedError(goal, angle) = 0
<1>1. PICK k \in Int : angle = goal + k * FullTurn
  BY DEF WholeTurns
<1>2. WrappedError(goal, angle) \in Nat /\ WrappedError(goal, angle) <= Abs(angle - (goal + k * FullTurn))
  BY WrappedErrorIsLeast
<1>3. Abs(angle - (goal + k * FullTurn)) = 0
  <2> DEFINE w == goal + k * FullTurn
  <2>1. angle = w
    BY <1>1
  <2> HIDE DEF w
  <2>2. Abs(angle - w) = 0
    BY <2>1 DEF Abs
  <2> QED BY <2>2 DEF w
<1> QED BY <1>2, <1>3

(* The check that follows a motion home warns of no joint when the target  *)
(* is home but for whole turns.                                            *)
LEMMA TurnedIsHome ==
  ASSUME NEW home, NEW c, NEW linear,
         \A n \in DOMAIN home \cap DOMAIN c :
           /\ home[n] \in Int /\ c[n] \in Int
           /\ IF n \in linear THEN c[n] = home[n] ELSE WholeTurns(c[n], home[n])
  PROVE  HomeMismatch(home, c, linear, 0) = {}
<1> DEFINE Error(n) == IF n \in linear THEN Abs(c[n] - home[n]) ELSE WrappedError(home[n], c[n])
<1>1. \A n \in DOMAIN home \cap DOMAIN c : Error(n) = 0
  <2> SUFFICES ASSUME NEW n \in DOMAIN home \cap DOMAIN c PROVE Error(n) = 0
    OBVIOUS
  <2>1. CASE n \in linear
    BY <2>1 DEF Abs
  <2>2. CASE n \notin linear
    BY <2>2, TurnsAreNoError
  <2> QED BY <2>1, <2>2
<1>2. HomeMismatch(home, c, linear, 0) = {n \in DOMAIN home \cap DOMAIN c : Error(n) > 0}
  BY DEF HomeMismatch
<1> HIDE DEF Error
<1> QED BY <1>1, <1>2

LEMMA TurnsAreWhole ==
  ASSUME NEW goal \in Int, NEW angle \in TurnsOf(goal)
  PROVE  angle \in Int /\ WholeTurns(angle, goal)
BY OneTurn, HalfTurn DEF TurnsOf

-----------------------------------------------------------------------------
Home(home, now) == home \in [Arm -> Int] /\ now \in [Arm -> Int]
Turning == <<"elbow", "wrist">>

LEMMA HomesAre ==
  /\ \A home \in Homes : home \in [Arm -> Int]
  /\ \A e, w \in Positions : [lift |-> 1, elbow |-> e, wrist |-> w] \in [Arm -> Int]
<1>1. \A a, b, c \in Int : [lift |-> a, elbow |-> b, wrist |-> c] \in [Arm -> Int]
  BY DEF Arm
<1>2. FullTurn \in Int /\ -FullTurn \in Int /\ FullTurn - 1 \in Int
  BY HalfTurn
<1>3. {-6, 0, FullTurn} \subseteq Int /\ {-5, 12} \subseteq Int /\ Positions \subseteq Int
  BY <1>2 DEF Positions
<1> QED BY <1>1, <1>3 DEF Homes

LEMMA EveryCandidateIsHome ==
  ASSUME NEW home, NEW now, Home(home, now),
         NEW c \in HomeCandidates(home, now, Turning, 3) \cup {HomeTarget(home, {now}, {"wrist"})}
  PROVE  HomeMismatch(home, c, {"lift"}, 0) = {}
<1>1. DOMAIN home = Arm /\ DOMAIN now = Arm /\ home \in [Arm -> Int] /\ now \in [Arm -> Int]
  BY DEF Home
<1>2. CASE c \in HomeCandidates(home, now, Turning, 3)
  <2>1. IsHomeButForTurns(home, Turning, c)
    BY <1>1, <1>2, CandidatesAreHome
  <2>2. \A k \in DOMAIN Turning : Turning[k] # "lift"
    BY DEF Turning
  <2>3. /\ \A n \in Arm : home[n] \in Int /\ c[n] \in Int /\ WholeTurns(c[n], home[n])
        /\ c["lift"] = home["lift"]
    BY <1>1, <2>1, <2>2, TurnsAreWhole DEF IsHomeButForTurns, Arm
  <2> QED BY <1>1, <2>3, TurnedIsHome
<1>3. CASE c = HomeTarget(home, {now}, {"wrist"})
  <2> DEFINE turning == {"wrist"}
             latest == {now}
  <2>1. \A n \in Arm : IF n \in turning THEN WholeTurns(c[n], home[n]) ELSE c[n] = home[n]
    <3> SUFFICES ASSUME NEW n \in Arm
                 PROVE  IF n \in turning THEN WholeTurns(c[n], home[n]) ELSE c[n] = home[n]
      OBVIOUS
    <3> QED BY <1>1, <1>3, HomeTurns
  <2>2. \A n \in Arm : home[n] \in Int /\ c[n] \in Int
    <3>1. \A n \in Arm : home[n] \in Int
      BY <1>1
    <3> SUFFICES ASSUME NEW n \in Arm PROVE c[n] \in Int
      BY <3>1
    <3>2. CASE n \in turning
      BY <2>1, <3>1, <3>2, HalfTurn DEF WholeTurns
    <3>3. CASE n \notin turning
      BY <2>1, <3>1, <3>3
    <3> QED BY <3>2, <3>3
  <2>3. \A n \in Arm : WholeTurns(c[n], home[n])
    <3> SUFFICES ASSUME NEW n \in Arm PROVE WholeTurns(c[n], home[n])
      OBVIOUS
    <3>1. CASE n \in turning
      BY <2>1, <3>1
    <3>2. CASE n \notin turning
      BY <2>1, <2>2, <3>2, OneTurn
    <3> QED BY <3>1, <3>2
  <2>4. c["lift"] = home["lift"]
    BY <2>1 DEF Arm
  <2> QED BY <1>1, <2>2, <2>3, <2>4, TurnedIsHome
<1> QED BY <1>2, <1>3

LEMMA ArmIsFinite == IsFiniteSet(Arm)
<1>1. IsFiniteSet({"lift"}) /\ IsFiniteSet({"lift"} \cup {"elbow"})
  BY FS_Singleton, FS_AddElement
<1>2. IsFiniteSet(({"lift"} \cup {"elbow"}) \cup {"wrist"})
  BY <1>1, FS_AddElement
<1>3. Arm = ({"lift"} \cup {"elbow"}) \cup {"wrist"}
  BY DEF Arm
<1> QED BY <1>2, <1>3

NearestIsTried(home, now) ==
  \E c \in HomeCandidates(home, now, Turning, 3) : \A t, u \in {-FullTurn, 0, FullTurn} :
    LET other == [home EXCEPT !.elbow = @ + t, !.wrist = @ + u]
    IN  Distance(c, now) > Distance(other, now) =>
          ~ {other.elbow, other.wrist} \subseteq -FullTurn .. FullTurn
LEMMA OneCandidateIsNear ==
  ASSUME NEW home, NEW now, Home(home, now)
  PROVE  NearestIsTried(home, now)
<1> DEFINE c == NearestOfHome(home, now, Turning)
           Other(t, u) == [home EXCEPT !.elbow = @ + t, !.wrist = @ + u]
<1>1. DOMAIN home = Arm /\ DOMAIN now = Arm /\ home \in [Arm -> Int] /\ now \in [Arm -> Int] /\ IsFiniteSet(Arm)
  BY ArmIsFinite DEF Home
<1>2. c \in HomeCandidates(home, now, Turning, 3)
  BY DEF HomeCandidates, NearestOfHome, TurnedJoints, AnglesOf, WithChoice
<1>3. ASSUME NEW t \in {-FullTurn, 0, FullTurn}, NEW u \in {-FullTurn, 0, FullTurn},
             Distance(c, now) > Distance(Other(t, u), now),
             {Other(t, u).elbow, Other(t, u).wrist} \subseteq -FullTurn .. FullTurn
      PROVE  FALSE
  <2> DEFINE other == Other(t, u)
  <2>1. t \in Int /\ u \in Int
    BY HalfTurn
  <2>2. /\ other \in [Arm -> Int] /\ other["lift"] = home["lift"]
        /\ other["elbow"] = home["elbow"] + t /\ other["wrist"] = home["wrist"] + u
    <3> DEFINE e == home["elbow"] + t
               w == home["wrist"] + u
    <3>1. e \in Int /\ w \in Int
      BY <1>1, <2>1 DEF Arm
    <3>2. other = [[home EXCEPT !["elbow"] = e] EXCEPT !["wrist"] = w]
      BY <1>1 DEF Arm
    <3> HIDE DEF e, w, other
    <3>3. other \in [Arm -> Int]
      BY <1>1, <3>1, <3>2
    <3>4. "lift" \in Arm /\ "elbow" \in Arm /\ "wrist" \in Arm
      BY DEF Arm
    <3>5. other["lift"] = home["lift"] /\ other["elbow"] = e /\ other["wrist"] = w
      BY <1>1, <3>2, <3>4
    <3> QED BY <3>3, <3>5 DEF e, w
  <2>3. /\ other["elbow"] \in -FullTurn .. FullTurn /\ other["wrist"] \in -FullTurn .. FullTurn
    BY <1>3
  <2> HIDE DEF other
  <2>4. /\ other["elbow"] \in WithinATurn(home["elbow"]) /\ other["wrist"] \in WithinATurn(home["wrist"])
    <3> DEFINE e == home["elbow"]
               w == home["wrist"]
    <3>1. e \in Int /\ w \in Int
      BY <1>1 DEF Arm
    <3> HIDE DEF e, w
    <3>2. \A a \in Int : \A b \in {-FullTurn, 0, FullTurn} :
            a + b \in -FullTurn .. FullTurn => a + b \in WithinATurn(a)
      BY HalfTurn DEF WithinATurn, TurnsOf, Abs
    <3>3. e + t \in WithinATurn(e) /\ w + u \in WithinATurn(w)
      BY <2>2, <2>3, <3>1, <3>2 DEF e, w
    <3> QED BY <2>2, <3>3 DEF e, w
  <2>5. /\ \E k \in DOMAIN Turning : Turning[k] = "elbow"
        /\ \E k \in DOMAIN Turning : Turning[k] = "wrist"
        /\ \A k \in DOMAIN Turning : Turning[k] # "lift"
    BY DEF Turning
  <2>6. \A n \in Arm : IF \E k \in DOMAIN Turning : Turning[k] = n
                       THEN other[n] \in WithinATurn(home[n]) ELSE other[n] = home[n]
    BY <2>2, <2>4, <2>5 DEF Arm
  <2>7. /\ Distance(c, now) \in Int /\ Distance(other, now) \in Int
        /\ Distance(c, now) <= Distance(other, now)
    <3>1. home \in [DOMAIN home -> Int] /\ now \in [DOMAIN now -> Int] /\ IsFiniteSet(DOMAIN home)
      BY <1>1
    <3>2. other \in [DOMAIN home -> Int]
      BY <1>1, <2>2
    <3>3. \A n \in DOMAIN home : IF \E k \in DOMAIN Turning : Turning[k] = n
                               THEN other[n] \in WithinATurn(home[n]) ELSE other[n] = home[n]
      BY <1>1, <2>6
    <3> QED BY <3>1, <3>2, <3>3, NearestHomeIsNear
  <2>8. Distance(c, now) > Distance(other, now)
    BY <1>3 DEF other
  <2> HIDE DEF c
  <2> QED BY <2>7, <2>8
<1> HIDE DEF c
<1>4. \A t, u \in {-FullTurn, 0, FullTurn} :
        Distance(c, now) > Distance(Other(t, u), now) =>
          ~ {Other(t, u).elbow, Other(t, u).wrist} \subseteq -FullTurn .. FullTurn
  BY <1>3
<1> QED BY <1>2, <1>4 DEF NearestIsTried

LEMMA GoalIsHome ==
  ASSUME NEW home, NEW now, Home(home, now)
  PROVE  LET asked == JointGoal(home, now, {"wrist"}, Wanted, TRUE)
             goal == ByName(Wanted, asked.constraints)
         IN  /\ HomeMismatch(home, goal, {"lift", "elbow"}, 0) = {}
             /\ Distance([wrist |-> goal.wrist], now) <= FullTurn \div 2
             /\ ByName(asked.start.names, asked.start.values) = now
<1> DEFINE asked == JointGoal(home, now, {"wrist"}, Wanted, TRUE)
           goal == ByName(Wanted, asked.constraints)
           start == ByName(asked.start.names, asked.start.values)
           turning == {"wrist"}
           targets == NormalizeTargets(home, now, turning)
<1>1. DOMAIN home = Arm /\ DOMAIN now = Arm /\ home \in [Arm -> Int] /\ now \in [Arm -> Int]
  BY DEF Home
<1>2. /\ Wanted \in Seq(Arm) /\ DOMAIN Wanted = 1 .. 3 /\ Distinct(Wanted)
      /\ Wanted[1] = "lift" /\ Wanted[2] = "elbow" /\ Wanted[3] = "wrist"
  BY AngleIs
<1>3. \A n : n \in Arm <=> \E i \in DOMAIN Wanted : Wanted[i] = n
  BY <1>2 DEF Arm
<1>4. /\ \A n : n \in DOMAIN start <=> n \in DOMAIN now /\ \E i \in DOMAIN Wanted : Wanted[i] = n
      /\ \A n \in DOMAIN start : start[n] = now[n]
      /\ \A i \in DOMAIN Wanted : asked.constraints[i] = targets[Wanted[i]]
  <2>1. TellsWhere(asked, now, Wanted, IF TRUE THEN targets ELSE home)
    BY <1>2, GoalsStartWhereTheRobotIs
  <2>2. (IF TRUE THEN targets ELSE home) = targets
    OBVIOUS
  <2> HIDE DEF asked, targets
  <2> QED BY <2>1, <2>2 DEF TellsWhere
<1>5. start = now
  <2>1. start = [n \in DOMAIN start |-> start[n]]
    BY DEF ByName
  <2>2. now = [n \in Arm |-> now[n]]
    BY <1>1
  <2> HIDE DEF start
  <2>3. DOMAIN start = Arm
    BY <1>1, <1>3, <1>4
  <2> QED BY <1>4, <2>1, <2>2, <2>3
<1>6. \A n \in Arm : IF n \in turning THEN WholeTurns(targets[n], home[n]) /\ targets[n] - now[n] \in (-Half) .. Half
                     ELSE targets[n] = home[n]
  <2> SUFFICES ASSUME NEW n \in Arm
               PROVE  IF n \in turning THEN WholeTurns(targets[n], home[n]) /\ targets[n] - now[n] \in (-Half) .. Half
                      ELSE targets[n] = home[n]
    OBVIOUS
  <2>1. targets[n] = NearestEquivalent(n \in turning, home[n], now[n])
    BY <1>1 DEF NormalizeTargets
  <2>2. home[n] \in Int /\ now[n] \in Int
    BY <1>1
  <2>3. CASE n \in turning
    <3>1. targets[n] = NearestEquivalent(TRUE, home[n], now[n])
      BY <2>1, <2>3 DEF NearestEquivalent
    <3> HIDE DEF targets
    <3> QED BY <2>2, <2>3, <3>1, NearestIsNear
  <2>4. CASE n \notin turning
    BY <2>1, <2>4 DEF NearestEquivalent
  <2> QED BY <2>3, <2>4
<1>7. DOMAIN asked.constraints = DOMAIN Wanted
  BY DEF JointGoal, InOrder
<1>8. Zipped(Wanted, asked.constraints) = DOMAIN Wanted
  BY <1>7 DEF Zipped
<1>9. DOMAIN goal = Arm /\ \A n \in Arm : goal[n] = targets[n]
  <2>1. DOMAIN goal = {Wanted[i] : i \in DOMAIN Wanted}
    BY <1>8 DEF ByName
  <2>2. \A i \in DOMAIN Wanted : goal[Wanted[i]] = asked.constraints[i]
    <3> DEFINE values == asked.constraints
    <3>1. Zipped(Wanted, values) = DOMAIN Wanted
      BY <1>8
    <3> HIDE DEF values
    <3>2. \A i \in DOMAIN Wanted : ByName(Wanted, values)[Wanted[i]] = values[i]
      BY <1>2, <3>1, ByNameTells
    <3> QED BY <3>2 DEF values
  <2>3. \A i \in DOMAIN Wanted : asked.constraints[i] = targets[Wanted[i]]
    BY <1>4
  <2> HIDE DEF goal, targets, asked
  <2> QED BY <1>3, <2>1, <2>2, <2>3
<1> HIDE DEF goal, targets, asked, start
<1>10. \A n \in Arm : home[n] \in Int /\ now[n] \in Int /\ Half \in Int
  BY <1>1, HalfTurn
<1>11. \A n \in Arm : goal[n] \in Int /\ WholeTurns(goal[n], home[n])
  <2> SUFFICES ASSUME NEW n \in Arm PROVE goal[n] \in Int /\ WholeTurns(goal[n], home[n])
    OBVIOUS
  <2>1. CASE n \in turning
    <3>1. WholeTurns(goal[n], home[n])
      BY <1>6, <1>9, <2>1
    <3> QED BY <1>10, <3>1, HalfTurn DEF WholeTurns
  <2>2. CASE n \notin turning
    BY <1>6, <1>9, <1>10, <2>2, OneTurn
  <2> QED BY <2>1, <2>2
<1>12. HomeMismatch(home, goal, {"lift", "elbow"}, 0) = {}
  <2>1. goal["lift"] = home["lift"] /\ goal["elbow"] = home["elbow"]
    BY <1>6, <1>9 DEF Arm
  <2> QED BY <1>1, <1>9, <1>10, <1>11, <2>1, TurnedIsHome
<1>13. Distance([wrist |-> goal.wrist], now) <= FullTurn \div 2
  <2> DEFINE alone == [wrist |-> goal.wrist]
             S == {"wrist"}
  <2>1. DOMAIN alone = S /\ alone["wrist"] = goal["wrist"] /\ IsFiniteSet(S)
    BY FS_Singleton
  <2> HIDE DEF alone
  <2>2. PickOf(S) = "wrist" /\ S \ {"wrist"} = {}
    BY DEF PickOf
  <2>3. /\ SumOf(alone, now)[{}] = 0
        /\ SumOf(alone, now)[S] = FarFrom(alone, now, PickOf(S)) + SumOf(alone, now)[S \ {PickOf(S)}]
    BY <2>1, SumExists
  <2>4. "wrist" \in Arm
    BY DEF Arm
  <2>5. FarFrom(alone, now, "wrist") = Abs(goal["wrist"] - now["wrist"])
    BY <1>1, <2>1, <2>4 DEF FarFrom
  <2> DEFINE g == goal["wrist"]
             p == now["wrist"]
  <2>6. g \in Int /\ p \in Int /\ g - p \in (-Half) .. Half /\ Half \in Int
    BY <1>6, <1>9, <1>10, <1>11, <2>4
  <2> HIDE DEF g, p
  <2>7. Abs(g - p) <= Half /\ Abs(g - p) \in Int
    BY <2>6 DEF Abs
  <2>8. Distance(alone, now) = Abs(g - p)
    <3>1. SumOf(alone, now)[S] = Abs(g - p) + 0
      BY <2>2, <2>3, <2>5 DEF g, p
    <3> QED BY <2>1, <2>7, <3>1 DEF Distance
  <2> QED BY <2>7, <2>8 DEF alone, Half
<1> QED BY <1>5, <1>12, <1>13 DEF asked, goal, start

LEMMA HomeIsReached == HomeIsHome
<1> SUFFICES ASSUME NEW home \in Homes, NEW e \in Positions, NEW w \in Positions
             PROVE  LET now == [lift |-> 1, elbow |-> e, wrist |-> w]
                        turned == <<"elbow", "wrist">>
                        candidates == HomeCandidates(home, now, turned, 3)
                        asked == JointGoal(home, now, {"wrist"}, Wanted, TRUE)
                        goal == ByName(Wanted, asked.constraints)
                    IN  /\ \A c \in candidates \cup {HomeTarget(home, {now}, {"wrist"})} :
                             HomeMismatch(home, c, {"lift"}, 0) = {}
                        /\ \E c \in candidates : \A t, u \in {-FullTurn, 0, FullTurn} :
                             LET other == [home EXCEPT !.elbow = @ + t, !.wrist = @ + u]
                             IN  Distance(c, now) > Distance(other, now) =>
                                   ~ {other.elbow, other.wrist} \subseteq -FullTurn .. FullTurn
                        /\ HomeMismatch(home, goal, {"lift", "elbow"}, 0) = {}
                        /\ Distance([wrist |-> goal.wrist], now) <= FullTurn \div 2
                        /\ ByName(asked.start.names, asked.start.values) = now
  BY DEF HomeIsHome
<1> DEFINE now == [lift |-> 1, elbow |-> e, wrist |-> w]
<1>1. Home(home, now)
  BY HomesAre DEF Home
<1> HIDE DEF now
<1>2. \A c \in HomeCandidates(home, now, Turning, 3) \cup {HomeTarget(home, {now}, {"wrist"})} :
        HomeMismatch(home, c, {"lift"}, 0) = {}
  BY <1>1, EveryCandidateIsHome
<1>3. \E c \in HomeCandidates(home, now, Turning, 3) : \A t, u \in {-FullTurn, 0, FullTurn} :
        LET other == [home EXCEPT !.elbow = @ + t, !.wrist = @ + u]
        IN  Distance(c, now) > Distance(other, now) =>
              ~ {other.elbow, other.wrist} \subseteq -FullTurn .. FullTurn
  <2>1. NearestIsTried(home, now)
    BY <1>1, OneCandidateIsNear
  <2> QED BY <2>1 DEF NearestIsTried
<1>4. LET asked == JointGoal(home, now, {"wrist"}, Wanted, TRUE)
          goal == ByName(Wanted, asked.constraints)
      IN  /\ HomeMismatch(home, goal, {"lift", "elbow"}, 0) = {}
          /\ Distance([wrist |-> goal.wrist], now) <= FullTurn \div 2
          /\ ByName(asked.start.names, asked.start.values) = now
  BY <1>1, GoalIsHome
<1> QED BY <1>2, <1>3, <1>4 DEF now, Turning

LEMMA RecentIsFirst == RecentComeFirst
<1> SUFFICES ASSUME NEW moveit \in [positions : {{}, {Now.values}}, age : {0, 9}],
                    NEW raw \in [positions : {{}, {Now.values}}, age : {0, 9}]
             PROVE  LET recent == {s \in {moveit, raw} : s.positions # {} /\ s.age <= 5}
                    IN  /\ recent # {} => \E s \in recent : RecentPositions(moveit, raw, 5) = s.positions
                        /\ (RecentPositions(moveit, raw, 5) = {}) = (moveit.positions = {} /\ raw.positions = {})
  BY DEF RecentComeFirst
<1> DEFINE recent == {s \in {moveit, raw} : s.positions # {} /\ s.age <= 5}
           used == RecentPositions(moveit, raw, 5)
<1>1. used = IF moveit.positions # {} /\ moveit.age <= 5 THEN moveit.positions
             ELSE IF raw.positions # {} /\ raw.age <= 5 THEN raw.positions
             ELSE IF moveit.positions # {} THEN moveit.positions ELSE raw.positions
  BY DEF RecentPositions
<1> HIDE DEF used
<1>2. recent # {} => \E s \in recent : used = s.positions
  BY <1>1
<1>3. used = {} <=> moveit.positions = {} /\ raw.positions = {}
  BY <1>1
<1>4. (used = {}) = (moveit.positions = {} /\ raw.positions = {})
  BY <1>3
<1> QED BY <1>2, <1>4 DEF used

(* A command of MPC reaches the joint it was computed for, whatever the    *)
(* order of the joints in a report and in a solution; a motion goes from   *)
(* where the robot is to what was asked for but for whole turns; and old   *)
(* positions are used only when there are no recent ones: for every length *)
(* of a turn.                                                              *)
THEOREM CommandsReachJoints == Spec => []CommandsReachTheirJoints
<1>1. JointsAreNotMixed
  BY ReadingsAreInOrder, CommandsAreInOrder, HomeIsReached, RecentIsFirst DEF JointsAreNotMixed
<1>2. CommandsReachTheirJoints
  BY <1>1 DEF CommandsReachTheirJoints
<1> QED BY <1>2, PTL
=============================================================================
